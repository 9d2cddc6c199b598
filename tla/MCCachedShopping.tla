--------------------------- MODULE MCCachedShopping ---------------------------
(* Small instances of CachedShopping for TLC. *)
EXTENDS CachedShopping, TLC

CONSTANTS t1, t2, o1, o2, p1, p2, k1, k2, q1, q2

OneTurn == {t1}
OneOperator == {o1}
TwoOperators == {o1, o2}
TwoProducts == {p1, p2}
TwoPlaces == {k1, k2}

\* "A trail mix bar under 20" and "p003 over 20": close in meaning, the same
\* product, and a word that turns the question round.
TwoQuestions == {q1, q2}
TwoTokens ==
  (q1 :> [ids |-> {}, names |-> {"p003"}, numbers |-> {"20"}, words |-> {"under"}]) @@
  (q2 :> [ids |-> {"p003"}, names |-> {}, numbers |-> {"20"}, words |-> {"over"}])

AllNear == [q \in TwoQuestions |-> TwoQuestions]
SameProduct == [q \in TwoQuestions |-> p1]

\* Only whether two questions have the same specifics matters, so the questions
\* may be swapped as well as the places.
Symmetry ==
  {[x \in TwoPlaces \cup TwoQuestions |-> IF x \in TwoPlaces THEN f[x] ELSE g[x]] :
     f \in Permutations(TwoPlaces), g \in Permutations(TwoQuestions)}

=============================================================================

------------------------- MODULE MCCheckoutRecovery -------------------------
(* Small instances of CheckoutRecovery for TLC. *)
EXTENDS CheckoutRecovery, TLC

CONSTANTS s1, s2,  \* checkouts
          w1,      \* a replay worker
          o1, o2   \* orders

OneCheckout == {s1}
TwoCheckouts == {s1, s2}
OneWorker == {w1}
OneOrder == {o1}
TwoOrders == {o1, o2}

\* One checkout; two customers; the same order twice in one session.
Alone == s1 :> o1
Apart == s1 :> o1 @@ s2 :> o2
Again == s1 :> o1 @@ s2 :> o1

\* Sound where the checkouts place the same order.
Symmetry == Permutations(Checkouts)

=============================================================================

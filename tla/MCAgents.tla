------------------------------- MODULE MCAgents -------------------------------
(* The values of Agents for TLC. *)
EXTENDS Agents, TLC

CONSTANTS a1, a2, a3, a4, g1, g2, g3, s1, s2, s3, s4, alice, bob, carol,
  p1, p2, peanuts, oats, o1, o2, t1, t2

(* ReactBrakes: two of the four calls differ in their casing only. *)
TwoSlots == {1, 2}
FourArgs == {a1, a2, a3, a4}
ThreeSigs == a1 :> g1 @@ a2 :> g1 @@ a3 :> g2 @@ a4 :> g3

(* Supervisor: the shipping service's form of a request for three regions, a
   sentence, and a single word. *)
Asked ==
  <<"p004", "10001">> :> "10001" @@ <<"p004", "33101">> :> "33101" @@
  <<"p004", "94105">> :> "94105" @@
  <<"will", "p004", "reach", "10001">> :> "10001" @@ <<"p004">> :> "10001"
AskedRequests == DOMAIN Asked
Initials ==
  "10001" :> "1" @@ "33101" :> "3" @@ "94105" :> "9" @@ "p004" :> "p" @@
  "will" :> "w" @@ "reach" :> "r"

(* MemoryTools: alice with a user_id; bob with and without one; and somebody
   else without one. *)
FourSessions == {s1, s2, s3, s4}
TheirCustomers == s1 :> alice @@ s2 :> bob @@ s3 :> bob @@ s4 :> carol
TheirUsers == s1 :> "alice" @@ s2 :> "bob" @@ s3 :> "" @@ s4 :> ""

(* ProductGraph: a product with peanuts and one without ingredients in the data. *)
TwoProducts == {p1, p2}
TwoIngredients == {peanuts, oats}
TheirConcerns == alice :> {peanuts} @@ bob :> {}
TwoBought == o1 :> {p1, p2} @@ o2 :> {p2}
TwoCatalogs == {p1 :> {peanuts, oats} @@ p2 :> {}, p1 :> {oats} @@ p2 :> {peanuts}}

TwoTools == {t1, t2}

=============================================================================

----------------------------- MODULE ExactlyOnce -----------------------------
(***************************************************************************)
(* What IdempotencyStore promises the callers of a charge (reliability.py: *)
(* "make an at-least-once call behave like an exactly-once one"): an order *)
(* is captured at most once, and nobody is told it was paid before it was; *)
(* and what is left of it when the gateway forgets its ledger: once more   *)
(* each time.                                                              *)
(***************************************************************************)
EXTENDS Naturals

CONSTANT Orders

VARIABLES
  captured,  \* how often the money of each order was taken
  told,      \* the receipts callers were given for each order
  days       \* how often the gateway forgot

vars == <<captured, told, days>>

Init ==
  /\ captured = [k \in Orders |-> 0]
  /\ told = [k \in Orders |-> {}]
  /\ days = 0

Capture(k) ==
  /\ captured[k] <= days
  /\ captured' = [captured EXCEPT ![k] = @ + 1]
  /\ UNCHANGED <<told, days>>

Tell(k) ==
  /\ \E r \in 1 .. captured[k] : told' = [told EXCEPT ![k] = @ \cup {r}]
  /\ UNCHANGED <<captured, days>>

Forget ==
  /\ days' = days + 1
  /\ UNCHANGED <<captured, told>>

Next == Forget \/ \E k \in Orders : Capture(k) \/ Tell(k)

Spec == Init /\ [][Next]_vars

=============================================================================

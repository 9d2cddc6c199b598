---------------------------- MODULE HandoffProofs ----------------------------
(* Handoff's bound, for every cap. *)
EXTENDS Handoff, TLAPS

(***************************************************************************)
(* Between two counted handoffs the coordinator can only pass on what it   *)
(* was handed: while a specialist speaks the session may be one transfer   *)
(* ahead of two per count, while the coordinator speaks it is not.         *)
(***************************************************************************)
IInv ==
  /\ agent \in Specialists \cup {Desk} /\ counted \in 0 .. MaxHandoffs /\ transfers \in Nat
  /\ transfers <= 2 * counted + (IF agent = Desk THEN 0 ELSE 1)

(***************************************************************************)
(* A session makes at most one transfer more than twice the cap, whatever  *)
(* the cap is (handoff_counter).                                           *)
(***************************************************************************)
THEOREM HandoffBounded ==
  ASSUME MaxHandoffs \in Nat
  PROVE  Spec => []TransfersBounded
<1> USE DEF Specialists, Desk
<1>1. Init => IInv
  BY DEF Init, IInv
<1>2. IInv /\ [Next]_vars => IInv'
  <2> SUFFICES ASSUME IInv, [Next]_vars PROVE IInv'
    OBVIOUS
  <2>1. CASE Message
    BY <2>1 DEF Message, IInv
  <2>2. CASE Reply
    BY <2>2 DEF Reply, IInv
  <2>3. ASSUME NEW to \in Specialists, Route(to) PROVE IInv'
    BY <2>3 DEF Route, Transfer, IInv
  <2>4. ASSUME NEW to \in (Specialists \cup {Desk}) \ {agent}, HandOff(to) PROVE IInv'
    BY <2>4 DEF HandOff, Transfer, IInv
  <2>5. CASE UNCHANGED vars
    BY <2>5 DEF vars, IInv
  <2> QED
    BY <2>1, <2>2, <2>3, <2>4, <2>5 DEF Next
<1>3. IInv => TransfersBounded
  BY DEF IInv, TransfersBounded
<1> QED
  BY <1>1, <1>2, <1>3, PTL DEF Spec

=============================================================================

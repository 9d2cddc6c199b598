------------------------- MODULE CheckoutStagesProofs -------------------------
(***************************************************************************)
(* Who is charged in the four stages of the checkout, and how often their  *)
(* nodes are tried, for every number of customers, whatever they want and  *)
(* whatever the breaker's threshold is.                                    *)
(***************************************************************************)
EXTENDS CheckoutStages, TLAPS

Open == {"intake", "reserve", "charge"}

Uncharged == Kinds \ {"none", "NodeTimeoutError", "ServerError", "ClientError"}

Desks == [Customers -> [at : Nodes, order : Orders, try : Nat, failure : Kinds]]

(* What of TypeOK the proofs need, and that every order is on its stage's graph. *)
Shape ==
  /\ stage \in 1 .. 4
  /\ desk \in Desks
  /\ \A c \in Customers : desk[c].at \in DOMAIN Edges \cup Ends
  /\ paying \subseteq Customers /\ late \subseteq Customers
  /\ captured \in [Customers -> Nat]

(* An order still open is unpaid, has no thread left over and has not failed. *)
OpenIsUnpaid ==
  \A c \in Customers : desk[c].at \in Open =>
    captured[c] = 0 /\ c \notin late /\ desk[c].failure = "none"

(* The gateway is entered from the charge node. *)
PayingIsOpen == \A c \in paying : desk[c].at = "charge"

(* A thread left over has not charged yet, and its order failed by a deadline. *)
LateIsUnpaid == \A c \in late : captured[c] = 0 /\ desk[c].failure \notin Uncharged

(* Every key of the ledger is that of an order that was charged. *)
LedgerIsPaid == \A k \in ledger : \E c \in Customers : k = Key(c) /\ captured[c] >= 1

IInv ==
  /\ Shape /\ OpenIsUnpaid /\ PayingIsOpen /\ LateIsUnpaid /\ LedgerIsPaid
  /\ ChargedOnce /\ FailedUncharged /\ EveryonePays

-----------------------------------------------------------------------------
(* Where the graphs lead *)

(* Only intake and reserve lead on to a node that is still open, and only the
   charge node to confirm. *)
LEMMA EdgesLead ==
  ASSUME stage \in 1 .. 4, NEW n \in DOMAIN Edges
  PROVE  /\ Edges[n] \in Nodes \cap (DOMAIN Edges \cup Ends)
         /\ Edges[n] \in Open => n \in {"intake", "reserve"}
         /\ Edges[n] = "confirm" => n = "charge"
         /\ Edges[n] = "charge" => n = "reserve"
BY DEF Edges, UnprotectedEdges, RetriedEdges, ContainedEdges, RecoverableEdges,
       Nodes, ModelNodes, Ends, Open

(* No failure leads back to an open node, or to confirm. *)
LEMMA FailureLeads ==
  ASSUME stage \in 1 .. 4, NEW n, NEW k
  PROVE  Failed(n, k) \in (Nodes \cap (DOMAIN Edges \cup Ends)) \ (Open \cup {"confirm"})
BY DEF Failed, ContainedFailure, GuardedReserve, GuardedCharge, Edges, UnprotectedEdges,
       RetriedEdges, ContainedEdges, RecoverableEdges, Nodes, ModelNodes, Ends, Open

(* What a node that succeeds changes: where its order is. *)
LEMMA SucceedMoves ==
  ASSUME Shape, NEW c \in Customers, Succeed(c), desk[c].at \notin Ends
  PROVE  /\ desk' \in Desks
         /\ desk' = [desk EXCEPT ![c] = desk'[c]]
         /\ desk'[c].failure = desk[c].failure
         /\ desk[c].at \in DOMAIN Edges
         /\ desk'[c].at = Edges[desk[c].at]
BY EdgesLead DEF Succeed, Shape, Desks

(* What a failure changes: nothing but a count, or the order is closed. *)
LEMMA FailMoves ==
  ASSUME Shape, NEW c \in Customers, NEW k \in Kinds, Fail(c, k)
  PROVE  /\ desk' \in Desks
         /\ desk' = [desk EXCEPT ![c] = desk'[c]]
         /\ \/ desk'[c].at = desk[c].at /\ desk'[c].failure = desk[c].failure
               /\ k \in PolicyOf(desk[c].at).on
            \/ /\ desk'[c].at \in (DOMAIN Edges \cup Ends) \ (Open \cup {"confirm"})
               /\ desk'[c].failure = k
<1>1. Failed(desk[c].at, k) \in (Nodes \cap (DOMAIN Edges \cup Ends)) \ (Open \cup {"confirm"})
  BY FailureLeads DEF Shape
<1>2. CASE k \in PolicyOf(desk[c].at).on /\ Again(c)
  BY <1>2 DEF Again, Shape, Desks
<1>3. CASE GiveUp(c, k)
  BY <1>1, <1>3 DEF GiveUp, Shape, Desks
<1> QED
  BY <1>2, <1>3 DEF Fail

(* The charge node tries again after an outage of the gateway only. *)
LEMMA ChargeRetries == PolicyOf("charge").on \subseteq {"PaymentGatewayUnavailable"}
BY DEF PolicyOf, NoRetry, Policy, ModelNodes

(* Two customers have one key before stage 4 only, and if they want the same. *)
LEMMA KeysDiffer ==
  ASSUME stage \in 1 .. 4, NEW c \in Customers, NEW d \in Customers, Key(c) = Key(d)
  PROVE  c = d \/ (stage # 4 /\ ItemOf[c] = ItemOf[d])
BY DEF Key

-----------------------------------------------------------------------------
(* One customer's step disturbs nobody else's part of the invariant *)

(* A step of c that takes no money, and leaves c open or closes its order. *)
LEMMA MoveKeepsIInv ==
  ASSUME IInv, NEW c \in Customers,
         UNCHANGED <<stage, ledger, captured>>,
         desk' \in Desks, desk' = [desk EXCEPT ![c] = desk'[c]],
         desk'[c].at \in DOMAIN Edges \cup Ends,
         paying' \subseteq Customers, paying' \subseteq paying \cup {c},
         c \in paying' => desk'[c].at = "charge",
         late' \subseteq Customers, late' \subseteq late \cup {c},
         c \in late' => captured[c] = 0 /\ desk'[c].failure \notin Uncharged,
         desk'[c].at \in Open =>
           captured[c] = 0 /\ c \notin late' /\ desk'[c].failure = "none",
         desk'[c].failure \in Uncharged => captured[c] = 0,
         desk'[c].at = "confirm" /\ (stage = 4 \/ \A d \in Customers \ {c} : ItemOf[d] # ItemOf[c])
           => captured[c] = 1
  PROVE  IInv'
<1> USE DEF IInv
<1>0. \A d \in Customers \ {c} : desk'[d] = desk[d]
  BY DEF Shape, Desks
<1>1. Edges' = Edges /\ \A d \in Customers : Key(d)' = Key(d)
  BY DEF Edges, Key
<1>2. Shape'
  BY <1>0, <1>1 DEF Shape
<1>3. OpenIsUnpaid'
  BY <1>0 DEF OpenIsUnpaid
<1>4. PayingIsOpen'
  BY <1>0 DEF PayingIsOpen
<1>5. LateIsUnpaid'
  BY <1>0 DEF LateIsUnpaid
<1>6. LedgerIsPaid'
  BY <1>1 DEF LedgerIsPaid
<1>7. ChargedOnce'
  BY DEF ChargedOnce
<1>8. FailedUncharged'
  BY <1>0 DEF FailedUncharged, Failure, Uncharged
<1>9. EveryonePays'
  BY <1>0 DEF EveryonePays
<1> QED
  BY <1>2, <1>3, <1>4, <1>5, <1>6, <1>7, <1>8, <1>9

(* A step of c that takes c's money for the first time. *)
LEMMA CaptureKeepsIInv ==
  ASSUME IInv, NEW c \in Customers,
         UNCHANGED stage, Capture(c), captured[c] = 0,
         desk' \in Desks, desk' = [desk EXCEPT ![c] = desk'[c]],
         desk'[c].at \in (DOMAIN Edges \cup Ends) \ Open,
         desk'[c].failure \notin Uncharged,
         paying' \subseteq paying \ {c}, late' \subseteq late \ {c}
  PROVE  IInv'
<1> USE DEF IInv
<1>0. /\ \A d \in Customers \ {c} : desk'[d] = desk[d] /\ captured'[d] = captured[d]
      /\ captured'[c] = 1 /\ captured' \in [Customers -> Nat]
  BY DEF Shape, Desks, Capture
<1>1. Edges' = Edges /\ \A d \in Customers : Key(d)' = Key(d)
  BY DEF Edges, Key
<1>2. Shape'
  BY <1>0, <1>1 DEF Shape
<1>3. OpenIsUnpaid'
  BY <1>0 DEF OpenIsUnpaid
<1>4. PayingIsOpen'
  BY <1>0 DEF PayingIsOpen, Shape
<1>5. LateIsUnpaid'
  BY <1>0 DEF LateIsUnpaid, Shape
<1>6. LedgerIsPaid'
  <2> SUFFICES ASSUME NEW k \in ledger' PROVE \E d \in Customers : k = Key(d) /\ captured'[d] >= 1
    BY <1>1 DEF LedgerIsPaid
  <2>1. CASE k = Key(c)
    BY <2>1, <1>0
  <2>2. CASE k \in ledger
    <3>1. PICK d \in Customers : k = Key(d) /\ captured[d] >= 1
      BY <2>2 DEF LedgerIsPaid
    <3> QED
      BY <3>1, <1>0
  <2> QED
    BY <2>1, <2>2 DEF Capture
<1>7. ChargedOnce'
  BY <1>0 DEF ChargedOnce
<1>8. FailedUncharged'
  BY <1>0 DEF FailedUncharged, Failure, Uncharged
<1>9. EveryonePays'
  BY <1>0 DEF EveryonePays
<1> QED
  BY <1>2, <1>3, <1>4, <1>5, <1>6, <1>7, <1>8, <1>9

-----------------------------------------------------------------------------
(* The actions *)

LEMMA InitIInv == Init => IInv
BY DEF Init, IInv, Shape, Desks, OpenIsUnpaid, PayingIsOpen, LateIsUnpaid, LedgerIsPaid,
       ChargedOnce, FailedUncharged, Failure, EveryonePays, Edges, UnprotectedEdges,
       RetriedEdges, ContainedEdges, RecoverableEdges, Nodes, ModelNodes, Ends, Open,
       Orders, Kinds, Retryable, Permanent, Profiles

(* A failure of c while it is open, or with words to tell only, that leaves no
   thread inside the gateway. *)
LEMMA FailKeepsIInv ==
  ASSUME IInv, NEW c \in Customers, NEW k \in Kinds, Fail(c, k),
         UNCHANGED <<stage, ledger, captured>>,
         paying' \subseteq paying \ {c}, late' \subseteq late \cup {c},
         c \in late' => captured[c] = 0 /\ k \notin Uncharged
                        /\ (c \in late \/ k \notin PolicyOf(desk[c].at).on),
         k \in Uncharged => desk[c].at \in Open
  PROVE  IInv'
<1> USE DEF IInv
<1>1. /\ desk' \in Desks /\ desk' = [desk EXCEPT ![c] = desk'[c]]
      /\ \/ desk'[c].at = desk[c].at /\ desk'[c].failure = desk[c].failure
            /\ k \in PolicyOf(desk[c].at).on
         \/ /\ desk'[c].at \in (DOMAIN Edges \cup Ends) \ (Open \cup {"confirm"})
            /\ desk'[c].failure = k
  BY FailMoves
<1>2. desk'[c].at \in DOMAIN Edges \cup Ends
  BY <1>1 DEF Shape
<1>3. c \in late' => captured[c] = 0 /\ desk'[c].failure \notin Uncharged
  BY <1>1 DEF LateIsUnpaid
<1>4. desk'[c].at \in Open => captured[c] = 0 /\ c \notin late' /\ desk'[c].failure = "none"
  BY <1>1 DEF OpenIsUnpaid
<1>5. desk'[c].failure \in Uncharged => captured[c] = 0
  BY <1>1 DEF FailedUncharged, Failure, Uncharged, OpenIsUnpaid
<1>6. desk'[c].at = "confirm" /\ (stage = 4 \/ \A d \in Customers \ {c} : ItemOf[d] # ItemOf[c])
        => captured[c] = 1
  BY <1>1 DEF EveryonePays
<1>7. paying' \subseteq Customers /\ late' \subseteq Customers
  BY DEF Shape
<1> QED
  BY <1>1, <1>2, <1>3, <1>4, <1>5, <1>6, <1>7, MoveKeepsIInv

(* A node that takes no money and leads on, but not from charge. *)
LEMMA SucceedKeepsIInv ==
  ASSUME IInv, NEW c \in Customers, Succeed(c), desk[c].at \notin Ends \cup {"charge"},
         UNCHANGED <<stage, ledger, paying, late, captured>>
  PROVE  IInv'
<1> USE DEF IInv
<1>1. /\ desk' \in Desks /\ desk' = [desk EXCEPT ![c] = desk'[c]]
      /\ desk'[c].failure = desk[c].failure
      /\ desk[c].at \in DOMAIN Edges /\ desk'[c].at = Edges[desk[c].at]
  BY SucceedMoves
<1>2. /\ desk'[c].at \in (DOMAIN Edges \cup Ends) \ {"confirm"}
      /\ desk'[c].at \in Open => desk[c].at \in Open
  BY <1>1, EdgesLead DEF Shape, Open
<1>3. c \notin paying'
  BY DEF PayingIsOpen
<1>4. c \in late' => captured[c] = 0 /\ desk'[c].failure \notin Uncharged
  BY <1>1 DEF LateIsUnpaid
<1>5. desk'[c].at \in Open => captured[c] = 0 /\ c \notin late' /\ desk'[c].failure = "none"
  BY <1>1, <1>2 DEF OpenIsUnpaid
<1>6. desk'[c].failure \in Uncharged => captured[c] = 0
  BY <1>1 DEF FailedUncharged, Failure, Uncharged
<1>7. paying' \subseteq Customers /\ late' \subseteq Customers
  BY DEF Shape
<1> QED
  BY <1>1, <1>2, <1>3, <1>4, <1>5, <1>6, <1>7, MoveKeepsIInv

(***************************************************************************)
(* Every step of the four agents preserves the invariant.                  *)
(***************************************************************************)
LEMMA StepKeepsIInv == IInv /\ [Next]_vars => IInv'
<1> SUFFICES ASSUME IInv, [Next]_vars PROVE IInv'
  OBVIOUS
<1> USE DEF IInv
<1>1. ASSUME NEW c \in Customers, Intake(c) PROVE IInv'
  <2>1. PICK o \in Orders \ {"unread"} :
          desk' = [desk EXCEPT ![c].at = Edges[@], ![c].try = 1, ![c].order = o]
    BY <1>1 DEF Intake
  <2>2. desk[c].at = "intake" /\ Edges["intake"] = "reserve" /\ "reserve" \in DOMAIN Edges
    BY <1>1 DEF Intake, Shape, Edges, UnprotectedEdges, RetriedEdges, ContainedEdges,
                RecoverableEdges
  <2>3. /\ desk' \in Desks /\ desk' = [desk EXCEPT ![c] = desk'[c]]
        /\ desk'[c].failure = desk[c].failure /\ desk'[c].at = "reserve"
        /\ desk[c].at = "intake" /\ "reserve" \in DOMAIN Edges
    BY <2>1, <2>2 DEF Shape, Desks, Nodes
  <2>4. captured[c] = 0 /\ c \notin late /\ desk[c].failure = "none" /\ c \notin paying
    BY <2>3 DEF OpenIsUnpaid, PayingIsOpen, Open
  <2>5. UNCHANGED <<stage, ledger, paying, late, captured>>
    BY <1>1 DEF Intake
  <2>6. desk'[c].failure \notin Uncharged
    BY <2>3, <2>4 DEF Uncharged
  <2> QED
    BY <2>3, <2>4, <2>5, <2>6, MoveKeepsIInv DEF Shape
<1>2. ASSUME NEW c \in Customers, Tell(c) \/ Hold(c) \/ Decide(c) PROVE IInv'
  BY <1>2, SucceedKeepsIInv DEF Tell, Hold, Decide, ModelNodes, Ends
<1>3. ASSUME NEW c \in Customers, ModelFails(c) PROVE IInv'
  <2>1. PICK k \in {"ServerError", "ClientError", "NodeTimeoutError"} : Fail(c, k)
    BY <1>3 DEF ModelFails
  <2>2. k \in Kinds /\ k \notin Uncharged
    BY DEF Kinds, Retryable, Uncharged
  <2>3. c \notin paying /\ UNCHANGED <<stage, ledger, paying, late, captured>>
    BY <1>3 DEF ModelFails, PayingIsOpen, ModelNodes
  <2>4. c \in late => captured[c] = 0
    BY DEF LateIsUnpaid
  <2> QED
    BY <2>1, <2>2, <2>3, <2>4, FailKeepsIInv
<1>4. ASSUME NEW c \in Customers, Reserve(c) PROVE IInv'
  <2>1. /\ desk[c].at = "reserve" /\ UNCHANGED <<stage, ledger, paying, late, captured>>
        /\ \/ Succeed(c)
           \/ \E k \in Kinds : Fail(c, k)
    BY <1>4 DEF Reserve, ReserveStock, AsOrder, Kinds, Retryable, Permanent
  <2>2. c \notin paying /\ c \notin late
    BY <2>1 DEF PayingIsOpen, OpenIsUnpaid, Open
  <2> QED
    BY <2>1, <2>2, SucceedKeepsIInv, FailKeepsIInv DEF Open, Ends
<1>5. ASSUME NEW c \in Customers, StartCharge(c) PROVE IInv'
  <2>0. /\ desk[c].at = "charge" /\ c \notin paying
        /\ UNCHANGED <<stage, ledger, late, captured>>
    BY <1>5 DEF StartCharge
  <2>1. /\ captured[c] = 0 /\ c \notin late /\ desk[c].failure = "none"
        /\ desk[c].at \in DOMAIN Edges \cup Ends
    BY <2>0 DEF OpenIsUnpaid, Open, Shape
  <2>2. CASE Key(c) \in ledger
    <3>1. Succeed(c) /\ UNCHANGED paying
      BY <1>5, <2>2 DEF StartCharge
    <3>2. /\ desk' \in Desks /\ desk' = [desk EXCEPT ![c] = desk'[c]]
          /\ desk'[c].failure = "none" /\ desk'[c].at = Edges["charge"]
          /\ "charge" \in DOMAIN Edges
      BY <3>1, <2>0, <2>1, SucceedMoves DEF Ends
    <3>3. desk'[c].at \in (DOMAIN Edges \cup Ends) \ Open
      BY <3>2, EdgesLead DEF Shape
    <3>4. PICK d \in Customers : Key(c) = Key(d) /\ captured[d] >= 1
      BY <2>2 DEF LedgerIsPaid
    <3>5. stage # 4 /\ d # c /\ ItemOf[d] = ItemOf[c]
      BY <3>4, <2>1, KeysDiffer DEF Shape
    <3>6. "none" \notin Uncharged
      BY DEF Uncharged
    <3> QED
      BY <2>0, <2>1, <3>1, <3>2, <3>3, <3>5, <3>6, MoveKeepsIInv DEF Shape
  <2>3. CASE Key(c) \notin ledger
    <3>1. paying' = paying \cup {c} /\ UNCHANGED desk
      BY <1>5, <2>3 DEF StartCharge
    <3>2. desk' = [desk EXCEPT ![c] = desk'[c]]
      BY <3>1 DEF Shape, Desks
    <3>3. "none" \notin Uncharged
      BY DEF Uncharged
    <3> QED
      BY <2>0, <2>1, <3>1, <3>2, <3>3, MoveKeepsIInv DEF Shape
  <2> QED
    BY <2>2, <2>3
<1>6. ASSUME NEW c \in Customers, Refused(c) PROVE IInv'
  <2>1. /\ desk[c].at = "charge" /\ c \notin paying /\ Fail(c, "CircuitOpen")
        /\ UNCHANGED <<stage, ledger, paying, late, captured>>
    BY <1>6 DEF Refused
  <2>2. c \notin late
    BY <2>1 DEF OpenIsUnpaid, Open
  <2> QED
    BY <2>1, <2>2, FailKeepsIInv DEF Open, Kinds
<1>7. ASSUME NEW c \in Customers, GatewayFails(c) PROVE IInv'
  <2>1. /\ desk[c].at = "charge" /\ paying' = paying \ {c}
        /\ \E k \in {"PaymentGatewayUnavailable", "PaymentDeclined"} : Fail(c, k)
        /\ UNCHANGED <<stage, ledger, late, captured>>
    BY <1>7 DEF GatewayFails
  <2>2. c \notin late
    BY <2>1 DEF OpenIsUnpaid, Open
  <2> QED
    BY <2>1, <2>2, FailKeepsIInv DEF Open, Kinds, Retryable, Permanent
<1>8. ASSUME NEW c \in Customers, Charge(c) PROVE IInv'
  <2>0. /\ desk[c].at = "charge" /\ Capture(c) /\ paying' = paying \ {c}
        /\ UNCHANGED <<stage, late>>
        /\ Succeed(c) \/ Fail(c, "NodeTimeoutError")
    BY <1>8 DEF Charge
  <2>1. captured[c] = 0 /\ c \notin late /\ desk[c].failure = "none"
    BY <2>0 DEF OpenIsUnpaid, Open
  <2>2. "none" \notin Uncharged /\ "NodeTimeoutError" \notin Uncharged
    BY DEF Uncharged
  <2>3. CASE Succeed(c)
    <3>1. /\ desk' \in Desks /\ desk' = [desk EXCEPT ![c] = desk'[c]]
          /\ desk'[c].failure = "none" /\ desk'[c].at = Edges["charge"]
          /\ "charge" \in DOMAIN Edges
      BY <2>3, <2>0, <2>1, SucceedMoves DEF Ends
    <3>2. desk'[c].at \in (DOMAIN Edges \cup Ends) \ Open
      BY <3>1, EdgesLead DEF Shape
    <3> QED
      BY <2>0, <2>1, <2>2, <3>1, <3>2, CaptureKeepsIInv
  <2>4. CASE Fail(c, "NodeTimeoutError")
    <3>1. "NodeTimeoutError" \in Kinds /\ "NodeTimeoutError" \notin PolicyOf("charge").on
      BY ChargeRetries DEF Kinds, Retryable
    <3>2. /\ desk' \in Desks /\ desk' = [desk EXCEPT ![c] = desk'[c]]
          /\ desk'[c].at \in (DOMAIN Edges \cup Ends) \ Open
          /\ desk'[c].failure = "NodeTimeoutError"
      BY <2>0, <2>4, <3>1, FailMoves
    <3> QED
      BY <2>0, <2>1, <2>2, <3>2, CaptureKeepsIInv
  <2> QED
    BY <2>0, <2>3, <2>4
<1>9. ASSUME NEW c \in Customers, Deadline(c) PROVE IInv'
  <2>0. /\ desk[c].at = "charge" /\ Fail(c, "NodeTimeoutError")
        /\ paying' = paying \ {c} /\ late' = late \cup {c}
        /\ UNCHANGED <<stage, ledger, captured>>
    BY <1>9 DEF Deadline
  <2>1. captured[c] = 0
    BY <2>0 DEF OpenIsUnpaid, Open
  <2>2. /\ "NodeTimeoutError" \in Kinds \ Uncharged
        /\ "NodeTimeoutError" \notin PolicyOf("charge").on
    BY ChargeRetries DEF Kinds, Retryable, Uncharged
  <2> QED
    BY <2>0, <2>1, <2>2, FailKeepsIInv
<1>10. ASSUME NEW c \in Customers, ChargeLate(c) PROVE IInv'
  <2>0. c \in late /\ late' = late \ {c} /\ Capture(c) /\ UNCHANGED <<stage, desk, paying>>
    BY <1>10 DEF ChargeLate
  <2>1. /\ captured[c] = 0 /\ desk[c].failure \notin Uncharged /\ desk[c].at \notin Open
        /\ desk[c].at \in DOMAIN Edges \cup Ends
    BY <2>0 DEF LateIsUnpaid, OpenIsUnpaid, Shape
  <2>2. c \notin paying /\ desk' = [desk EXCEPT ![c] = desk'[c]] /\ desk' \in Desks
    BY <2>0, <2>1 DEF PayingIsOpen, Open, Shape, Desks
  <2> QED
    BY <2>0, <2>1, <2>2, CaptureKeepsIInv
<1>11. CASE UNCHANGED vars
  BY <1>11 DEF vars, Shape, OpenIsUnpaid, PayingIsOpen, LateIsUnpaid, LedgerIsPaid, ChargedOnce,
               FailedUncharged, Failure, EveryonePays, Edges, Key
<1> QED
  BY <1>1, <1>2, <1>3, <1>4, <1>5, <1>6, <1>7, <1>8, <1>9, <1>10, <1>11 DEF Next, NodeStep

LEMMA IInvHolds == Spec => []IInv
BY InitIInv, StepKeepsIInv, PTL DEF Spec

-----------------------------------------------------------------------------
(***************************************************************************)
(* No retry, late thread or shared key takes a customer's money twice, in  *)
(* any of the four stages.                                                 *)
(***************************************************************************)
THEOREM NobodyPaysTwice == Spec => []ChargedOnce
<1>1. IInv => ChargedOnce
  BY DEF IInv
<1> QED
  BY IInvHolds, <1>1, PTL

(***************************************************************************)
(* A payment that failed other than by a deadline took no money.           *)
(***************************************************************************)
THEOREM FailuresAreFree == Spec => []FailedUncharged
<1>1. IInv => FailedUncharged
  BY DEF IInv
<1> QED
  BY IInvHolds, <1>1, PTL

(***************************************************************************)
(* In stage 4 whoever is confirmed has paid; before, whoever wants what    *)
(* nobody else wants.                                                      *)
(***************************************************************************)
THEOREM ConfirmedHavePaid == Spec => []EveryonePays
<1>1. IInv => EveryonePays
  BY DEF IInv
<1> QED
  BY IInvHolds, <1>1, PTL

-----------------------------------------------------------------------------
(* Attempts *)

(***************************************************************************)
(* No node is run more often than its policy says, and none of the runs of *)
(* reserve but the last failed before the warehouse was called: an order   *)
(* still at reserve has no more failures than the warehouse had calls.     *)
(***************************************************************************)
Tries ==
  /\ \A c \in Customers : desk[c].try \in 1 .. 4
  /\ \A c \in Customers : desk[c].at = "reserve" => desk[c].try <= hits + 1
  /\ hits \in 0 .. 3 /\ faulty \in 0 .. MaxFaults /\ profile \in Profiles
  /\ RidesOutFlakyWarehouse

(* No policy has more than four attempts, and from stage 2 on the warehouse has
   all of them. *)
LEMMA Attempts ==
  /\ \A n : PolicyOf(n).attempts \in 1 .. 4
  /\ stage \in 2 .. 4 =>
       PolicyOf("reserve").attempts = 4 /\ "WarehouseUnavailable" \in PolicyOf("reserve").on
BY DEF PolicyOf, NoRetry, Policy, ModelNodes, Retryable

(* A failure is counted as one more attempt while the policy has one, and starts
   the count again where it leads. *)
LEMMA FailCounts ==
  ASSUME Shape, Tries, NEW c \in Customers, NEW k \in Kinds, Fail(c, k)
  PROVE  /\ \A d \in Customers \ {c} : desk'[d] = desk[d]
         /\ desk'[c].try \in 1 .. 4
         /\ \/ /\ desk'[c].at = desk[c].at /\ desk'[c].failure = desk[c].failure
               /\ desk'[c].try = desk[c].try + 1 /\ k \in PolicyOf(desk[c].at).on
            \/ /\ desk'[c].try = 1 /\ desk'[c].failure = k /\ desk'[c].at # "reserve"
               /\ ~(k \in PolicyOf(desk[c].at).on /\ desk[c].try < PolicyOf(desk[c].at).attempts)
<1>1. PolicyOf(desk[c].at).attempts \in 1 .. 4 /\ desk[c].try \in 1 .. 4
  BY Attempts DEF Tries
<1>2. CASE /\ k \in PolicyOf(desk[c].at).on /\ desk[c].try < PolicyOf(desk[c].at).attempts
           /\ Again(c)
  BY <1>1, <1>2 DEF Again, Shape, Desks
<1>3. CASE /\ ~(k \in PolicyOf(desk[c].at).on /\ desk[c].try < PolicyOf(desk[c].at).attempts)
           /\ GiveUp(c, k)
  <2>1. Failed(desk[c].at, k) # "reserve"
    BY FailureLeads DEF Shape, Open
  <2> QED
    BY <1>3, <2>1 DEF GiveUp, Shape, Desks
<1> QED
  BY <1>2, <1>3 DEF Fail

LEMMA TriesNext == ASSUME IInv, Tries, [Next]_vars PROVE Tries'
<1>s. Shape /\ desk \in Desks /\ stage \in 1 .. 4 /\ stage' = stage
  BY DEF IInv, Shape, Next, NodeStep, vars, Intake, Tell, ModelFails, Reserve, StartCharge, Refused,
         GatewayFails, Charge, Deadline, ChargeLate, Hold, Decide
<1>p. profile' = profile
  BY DEF Next, NodeStep, vars, Intake, Tell, ModelFails, Reserve, StartCharge, Refused,
         GatewayFails, Charge, Deadline, ChargeLate, Hold, Decide
<1>f. faulty' \in 0 .. MaxFaults
  <2>1. faulty' \in {faulty, IF faulty < MaxFaults THEN faulty + 1 ELSE faulty}
    BY DEF Next, NodeStep, vars, Intake, Tell, ModelFails, Reserve, StartCharge, Refused,
           GatewayFails, Charge, Deadline, ChargeLate, Hold, Decide
  <2> QED
    BY <2>1, StagesAssumption DEF Tries
<1>1. ASSUME NEW c \in Customers, Succeed(c) \/ Intake(c), hits' \in 0 .. 3, hits' >= hits
      PROVE  Tries'
  <2>1. /\ \A d \in Customers \ {c} : desk'[d] = desk[d]
        /\ desk'[c].try = 1 /\ desk'[c].failure = desk[c].failure
    BY <1>1, <1>s DEF Succeed, Intake, Desks
  <2> QED
    BY <1>1, <1>s, <1>p, <1>f, <2>1 DEF Tries, RidesOutFlakyWarehouse, Failure
<1>2. ASSUME NEW c \in Customers, NEW k \in Kinds \ {"WarehouseUnavailable"}, Fail(c, k),
             desk[c].at # "reserve" \/ k \notin Retryable,
             hits' \in 0 .. 3, hits' >= hits
      PROVE  Tries'
  <2>1. PolicyOf("reserve").on \subseteq Retryable
    BY DEF PolicyOf, NoRetry, Policy, ModelNodes
  <2> QED
    BY <1>2, <1>s, <1>p, <1>f, <2>1, FailCounts DEF Tries, RidesOutFlakyWarehouse, Failure
<1>3. ASSUME NEW c \in Customers, Fail(c, "WarehouseUnavailable"), desk[c].at = "reserve",
             hits \in 0 .. 1, hits' = hits + 1
      PROVE  Tries'
  <2>1. "WarehouseUnavailable" \in Kinds
    BY DEF Kinds, Retryable
  <2>2. desk[c].try <= 2
    BY <1>3 DEF Tries
  <2>3. /\ \A d \in Customers \ {c} : desk'[d] = desk[d]
        /\ desk'[c].try \in 1 .. 4
        /\ \/ /\ desk'[c].at = desk[c].at /\ desk'[c].failure = desk[c].failure
              /\ desk'[c].try = desk[c].try + 1
           \/ desk'[c].try = 1 /\ stage = 1
    BY <1>3, <1>s, <2>1, <2>2, FailCounts, Attempts DEF Tries
  <2> QED
    BY <1>3, <1>s, <1>p, <1>f, <2>2, <2>3 DEF Tries, RidesOutFlakyWarehouse, Failure
<1>4. ASSUME NEW c \in Customers, Reserve(c) PROVE Tries'
  <2>1. desk[c].at = "reserve" /\ hits \in 0 .. 3
    BY <1>4 DEF Reserve, Tries
  <2>2. CASE AsOrder(desk[c].order) # "none"
    <3>1. Fail(c, AsOrder(desk[c].order)) /\ hits' = hits
      BY <1>4, <2>2 DEF Reserve
    <3>2. AsOrder(desk[c].order) \in {"MalformedOrder", "ValueError"}
      BY <2>2 DEF AsOrder
    <3>3. {"MalformedOrder", "ValueError"} \subseteq Kinds \ {"WarehouseUnavailable"}
          /\ {"MalformedOrder", "ValueError"} \cap Retryable = {}
      BY DEF Kinds, Retryable, Permanent
    <3> QED
      BY <1>2, <2>1, <3>1, <3>2, <3>3
  <2>3. CASE AsOrder(desk[c].order) = "none"
    <3>1. hits' = (IF hits < 3 THEN hits + 1 ELSE hits) /\ ReserveStock(c, hits + 1)
      BY <1>4, <2>3 DEF Reserve
    <3>2. hits' \in 0 .. 3 /\ hits' >= hits
      BY <2>1, <3>1
    <3>3. CASE hits + 1 <= 2 /\ Fail(c, "WarehouseUnavailable")
      BY <1>3, <2>1, <3>1, <3>3
    <3>4. CASE Fail(c, "OutOfStock")
      <4>1. "OutOfStock" \in Kinds \ {"WarehouseUnavailable"} /\ "OutOfStock" \notin Retryable
        BY DEF Kinds, Retryable, Permanent
      <4> QED
        BY <1>2, <3>2, <3>4, <4>1
    <3>5. CASE Succeed(c)
      BY <1>1, <3>2, <3>5
    <3> QED
      BY <3>1, <3>3, <3>4, <3>5 DEF ReserveStock
  <2> QED
    BY <2>2, <2>3
<1>k. {"ServerError", "ClientError", "NodeTimeoutError", "CircuitOpen", "PaymentGatewayUnavailable",
       "PaymentDeclined"} \subseteq Kinds \ {"WarehouseUnavailable"}
  BY DEF Kinds, Retryable, Permanent
<1>5. ASSUME NEW c \in Customers, UNCHANGED hits,
             \/ ModelFails(c) \/ Refused(c) \/ GatewayFails(c) \/ Deadline(c)
             \/ Charge(c) /\ ~Succeed(c)
      PROVE  Tries'
  <2>1. desk[c].at # "reserve"
    BY <1>5 DEF ModelFails, Refused, GatewayFails, Deadline, Charge, ModelNodes
  <2>2. PICK k \in {"ServerError", "ClientError", "NodeTimeoutError", "CircuitOpen",
                    "PaymentGatewayUnavailable", "PaymentDeclined"} : Fail(c, k)
    BY <1>5 DEF ModelFails, Refused, GatewayFails, Deadline, Charge
  <2>3. hits' \in 0 .. 3 /\ hits' >= hits
    BY <1>5 DEF Tries
  <2> QED
    BY <1>2, <1>k, <2>1, <2>2, <2>3
<1>6. ASSUME NEW c \in Customers, UNCHANGED hits, Succeed(c) \/ Intake(c) PROVE Tries'
  BY <1>1, <1>6 DEF Tries
<1>7. ASSUME UNCHANGED <<desk, hits>> PROVE Tries'
  BY <1>7, <1>s, <1>p, <1>f DEF Tries, RidesOutFlakyWarehouse, Failure
<1>8. ASSUME NEW c \in Customers, NodeStep(c) \/ Decide(c) PROVE Tries'
  BY <1>4, <1>5, <1>6, <1>7, <1>8
     DEF NodeStep, Intake, Tell, ModelFails, StartCharge, Refused, GatewayFails, Charge,
         Deadline, ChargeLate, Hold, Decide
<1> QED
  BY <1>7, <1>8 DEF Next, vars

LEMMA TriesHolds == Spec => []Tries
<1>1. Init => Tries
  BY StagesAssumption DEF Init, Tries, RidesOutFlakyWarehouse, Failure
<1> QED
  BY <1>1, TriesNext, IInvHolds, PTL DEF Spec

(***************************************************************************)
(* The variables keep their types: no node is tried more than four times,  *)
(* and a capture too many would still be inside the range.                 *)
(***************************************************************************)
THEOREM TypeCorrect == Spec => []TypeOK
<1>1. IInv /\ Tries => TypeOK
  <2> SUFFICES ASSUME IInv, Tries PROVE TypeOK
    OBVIOUS
  <2>1. desk \in [Customers -> [at : Nodes, order : Orders, try : 1 .. 4, failure : Kinds]]
    BY DEF IInv, Shape, Desks, Tries
  <2>2. captured \in [Customers -> 0 .. 2]
    BY DEF IInv, Shape, ChargedOnce
  <2> QED
    BY <2>1, <2>2 DEF TypeOK, IInv, Shape, Tries
<1> QED
  BY IInvHolds, TriesHolds, <1>1, PTL

(***************************************************************************)
(* From stage 2 on no order is lost to a warehouse that fails twice, and   *)
(* however many customers share its two failures: nobody sees more of them *)
(* than the retry policy of reserve allows.                                *)
(***************************************************************************)
THEOREM FlakyWarehouseIsRiddenOut == Spec => []RidesOutFlakyWarehouse
<1>1. Tries => RidesOutFlakyWarehouse
  BY DEF Tries
<1> QED
  BY TriesHolds, <1>1, PTL

=============================================================================

----------------------- MODULE CheckoutRecoveryProofs -----------------------
(***************************************************************************)
(* Proofs about CheckoutRecovery for any checkouts, workers and orders.    *)
(* What they say of the money rests on IdempotentCharge: every step of the *)
(* recovery is one of its steps or leaves its variables alone, so what is  *)
(* proved of it holds here too.                                            *)
(***************************************************************************)
EXTENDS CheckoutRecovery, TLAPS, FiniteSetTheorems, SequenceTheorems

Callers == Checkouts \cup Workers

\* What is proved about the charge, for these callers.
Money == INSTANCE IdempotentChargeProofs WITH Callers <- Checkouts \cup Workers

-----------------------------------------------------------------------------
(* The invariants *)

(* A checkout may start its charge as long as it has attempts left, and a
   replay worker asks for no order but that of the entry in its hand. *)
MayTry == \A s \in Checkouts : node[s] = "reserved" => attempts[s] < MaxAttempts

OwnOrder == \A s \in Checkouts : order[s] = OrderOf[s]

Engaged(c) == pc[c] # "idle" \/ outcome[c] # "none"

WorksOnEntry ==
  \A w \in Workers : Engaged(w) => hand[w] # <<>> /\ order[w] = Entry(w).order

Roles == TypeOK /\ MayTry /\ OwnOrder /\ WorksOnEntry

(* What of TypeOK is not about the charge. *)
RecoveryTypes ==
  /\ node \in [Checkouts -> Nodes]
  /\ attempts \in [Checkouts -> 0 .. MaxAttempts]
  /\ queue \in Seq(Entries)
  /\ hand \in [Workers -> {<<>>} \cup {<<e>> : e \in Entries}]
  /\ escalated \subseteq [order : Orders, reason : Reasons]
  /\ dropped \subseteq Orders
  /\ failed \in [Orders -> Nat]

(* No entry has used more attempts than were made, in the queue or in a hand. *)
QueueTried == \A i \in DOMAIN queue : queue[i].attempts <= failed[queue[i].order]

HandsTried ==
  \A w \in Workers : hand[w] # <<>> => Entry(w).attempts <= failed[Entry(w).order]

GivenUpTried ==
  \A k \in Orders :
    [order |-> k, reason |-> "replays exhausted"] \in escalated => failed[k] >= MaxReplays

AttemptsWereMade == QueueTried /\ HandsTried /\ GivenUpTried

PaidIsCaptured ==
  \A s \in Checkouts : node[s] = "paid" => captured[OrderOf[s]] >= 1

(* When nothing outlasts its deadline, nobody dies and no order is placed twice,
   an order is with its checkout, in the queue once or in one hand. *)
EachOnce == \A s, t \in Checkouts : OrderOf[s] = OrderOf[t] => s = t

InAgent(s) == node[s] \in {"reserved", "awaiting"}

AwaitedOnly == \A s \in Checkouts : Engaged(s) => node[s] = "awaiting"

OneOwner ==
  /\ \A i, j \in DOMAIN queue : queue[i].order = queue[j].order => i = j
  /\ \A i \in DOMAIN queue : \A w \in Workers : ~InHand(w, queue[i].order)
  /\ \A v, w \in Workers : hand[v] # <<>> /\ InHand(w, Entry(v).order) => v = w
  /\ \A s \in Checkouts : InAgent(s) =>
       Queued(OrderOf[s]) = {} /\ \A w \in Workers : ~InHand(w, OrderOf[s])

(* Then a claim that is in the way belongs to somebody, or to an answer that is
   still on record, and nobody claims an order that has one. *)
ClaimingIsNew == \A c \in Callers : pc[c] = "claim" => result[order[c]] = 0

LockIsExplained ==
  \A k \in Orders : lock[k] => result[k] # 0 \/ \E c \in Callers : Idem!Holds(c, k)

NeverInFlight == \A c \in Callers : outcome[c] # "RuntimeError"

(* And the money of an order its checkout still has was not taken, unless the
   checkout is about to learn that it was. *)
AgentUnpaid ==
  \A s \in Checkouts :
    InAgent(s) /\ pc[s] # "store" /\ outcome[s] # "receipt" => captured[OrderOf[s]] = 0

Calm ==
  /\ Roles /\ AwaitedOnly /\ OneOwner /\ ClaimingIsNew /\ LockIsExplained
  /\ NeverInFlight /\ AgentUnpaid /\ NothingDropped

-----------------------------------------------------------------------------
(* Entries, hands and the queue *)

LEMMA EntryInHand ==
  ASSUME RecoveryTypes, NEW w \in Workers, hand[w] # <<>>
  PROVE  /\ Entry(w) \in Entries
         /\ Entry(w).order \in Orders /\ Entry(w).attempts \in 0 .. MaxReplays - 1
BY DEF RecoveryTypes, Entry, Entries

LEMMA OneMore ==
  ASSUME NEW e \in Entries, ~(e.attempts + 1 >= MaxReplays)
  PROVE  [e EXCEPT !.attempts = @ + 1] \in Entries
BY ReplaysAssumption DEF Entries

LEMMA QueueShape ==
  ASSUME RecoveryTypes
  PROVE  /\ Len(queue) \in Nat /\ DOMAIN queue = 1 .. Len(queue)
         /\ \A i \in DOMAIN queue : queue[i] \in Entries
BY DEF RecoveryTypes

(* RPUSH: the new entry is last, the others stay where they are. *)
LEMMA Pushed ==
  ASSUME RecoveryTypes, NEW e \in Entries, queue' = Append(queue, e)
  PROVE  /\ queue' \in Seq(Entries)
         /\ DOMAIN queue' = DOMAIN queue \cup {Len(queue) + 1}
         /\ Len(queue) + 1 \notin DOMAIN queue
         /\ \A i \in DOMAIN queue : queue'[i] = queue[i]
         /\ queue'[Len(queue) + 1] = e
BY DEF RecoveryTypes

(* BRPOP: the oldest entry is in the hand and every other one place nearer. *)
LEMMA Popped ==
  ASSUME RecoveryTypes, NEW w \in Workers, Take(w)
  PROVE  /\ queue' \in Seq(Entries)
         /\ 1 \in DOMAIN queue /\ queue[1] \in Entries
         /\ DOMAIN queue' = 1 .. Len(queue) - 1
         /\ DOMAIN queue = 1 .. Len(queue) /\ Len(queue) \in Nat
         /\ \A i \in DOMAIN queue' : queue'[i] = queue[i + 1]
         /\ hand' = [hand EXCEPT ![w] = <<queue[1]>>]
         /\ hand'[w] # <<>> /\ Entry(w)' = queue[1]
<1>1. queue \in Seq(Entries) /\ queue # <<>>
  BY DEF RecoveryTypes, Take
<1>2. /\ Tail(queue) \in Seq(Entries) /\ Len(Tail(queue)) = Len(queue) - 1
      /\ \A i \in 1 .. Len(Tail(queue)) : Tail(queue)[i] = queue[i + 1]
  BY <1>1, HeadTailProperties
<1>3. Head(queue) = queue[1] /\ Len(queue) \in Nat \ {0} /\ DOMAIN queue = 1 .. Len(queue)
  BY <1>1
<1>4. hand' = [hand EXCEPT ![w] = <<queue[1]>>] /\ hand'[w] = <<queue[1]>>
  BY <1>3 DEF Take, RecoveryTypes
<1>5. Entry(w)' = queue[1]
  BY <1>4 DEF Entry
<1>6. queue[1] \in Entries /\ hand'[w] # <<>> /\ 1 \in DOMAIN queue
  BY <1>1, <1>3, <1>4
<1>7. queue' = Tail(queue)
  BY DEF Take
<1>8. DOMAIN queue' = 1 .. Len(queue) - 1
  BY <1>2, <1>3, <1>7
<1>9. QED
  BY <1>2, <1>3, <1>4, <1>5, <1>6, <1>7, <1>8

-----------------------------------------------------------------------------
(* Types *)

LEMMA RecoveryInit == Init => RecoveryTypes /\ MayTry
BY CheckoutsAssumption, ReplaysAssumption DEF Init, RecoveryTypes, MayTry, Nodes

LEMMA RecoveryNext ==
  ASSUME RecoveryTypes, MayTry, [Next]_vars
  PROVE  (RecoveryTypes /\ MayTry)'
<1> USE CheckoutsAssumption, ReplaysAssumption DEF RecoveryTypes, MayTry
<1>1. ASSUME NEW s \in Checkouts, AgentStep(s) \/ ApplyDecision(s), ~ParkFailure(s)
      PROVE (RecoveryTypes /\ MayTry)'
  <2>1. CASE StartCharge(s)
    BY <2>1 DEF StartCharge, Leave, Nodes, history
  <2>2. CASE RetryPayment(s)
    BY <2>2 DEF RetryPayment, Answered, Leave, Nodes, history
  <2>3. CASE Paid(s) \/ Escalate(s) \/ Hold(s) \/ ApplyDecision(s)
    BY <2>3 DEF Paid, Escalate, Hold, ApplyDecision, Answered, Leave, Nodes, history
  <2>4. QED
    BY <1>1, <2>1, <2>2, <2>3 DEF AgentStep
<1>13. ASSUME NEW s \in Checkouts, ReturnsLate(s) \/ AgentDies(s)
       PROVE (RecoveryTypes /\ MayTry)'
  BY <1>13 DEF ReturnsLate, AgentDies, Nodes, agent, history
<1>2. ASSUME NEW s \in Checkouts, ParkFailure(s) \/ Deadline(s)
      PROVE (RecoveryTypes /\ MayTry)'
  <2>1. [order |-> OrderOf[s], attempts |-> 0] \in Entries
    BY DEF Entries
  <2>2. queue' \in Seq(Entries)
    BY <1>2, <2>1, Pushed DEF ParkFailure, Deadline, Park
  <2>3. QED
    BY <1>2, <2>2 DEF ParkFailure, Deadline, Answered, Leave, Nodes, history
<1>3. ASSUME NEW w \in Workers, Take(w) PROVE (RecoveryTypes /\ MayTry)'
  BY <1>3, Popped DEF Take, agent, history
<1>4. ASSUME NEW w \in Workers, Attempt(w) \/ Done(w) PROVE (RecoveryTypes /\ MayTry)'
  BY <1>4 DEF Attempt, Done, Tried, agent, history
<1>5. ASSUME NEW w \in Workers, Defer(w) PROVE (RecoveryTypes /\ MayTry)'
  <2>1. queue' \in Seq(Entries)
    BY <1>5, EntryInHand, Pushed DEF Defer, Tried, Requeue
  <2>2. QED
    BY <1>5, <2>1 DEF Defer, Tried, agent, history
<1>6. ASSUME NEW w \in Workers, Fail(w) PROVE (RecoveryTypes /\ MayTry)'
  <2>1. Entry(w) \in Entries /\ Entry(w).order \in Orders
        /\ Entry(w).attempts \in 0 .. MaxReplays - 1
    BY <1>6, EntryInHand DEF Fail, Tried
  <2>2. /\ failed' \in [Orders -> Nat]
        /\ UNCHANGED <<node, attempts, dropped>>
        /\ hand' \in [Workers -> {<<>>} \cup {<<e>> : e \in Entries}]
    <3>4. failed' = [failed EXCEPT ![Entry(w).order] = failed[Entry(w).order] + 1]
      BY <1>6 DEF Fail
    <3>1. failed' \in [Orders -> Nat]
      BY <2>1, <3>4
    <3>2. hand' \in [Workers -> {<<>>} \cup {<<e>> : e \in Entries}]
      BY <1>6 DEF Fail, Tried
    <3>3. QED
      BY <1>6, <3>1, <3>2 DEF Fail, agent
  <2>3. CASE Entry(w).attempts + 1 >= MaxReplays
    <3>1. [order |-> Entry(w).order, reason |-> "replays exhausted"]
            \in [order : Orders, reason : Reasons]
      BY <2>1 DEF Reasons
    <3>3. escalated' \subseteq [order : Orders, reason : Reasons] /\ UNCHANGED queue
      BY <1>6, <2>3, <3>1 DEF Fail, EscalateEntry
    <3>2. QED
      BY <2>2, <3>3
  <2>4. CASE ~(Entry(w).attempts + 1 >= MaxReplays)
    <3>1. [Entry(w) EXCEPT !.attempts = @ + 1] \in Entries
      BY <2>1, <2>4, OneMore
    <3>2. queue' \in Seq(Entries) /\ UNCHANGED escalated
      BY <1>6, <2>4, <3>1, Pushed DEF Fail, Requeue
    <3>3. QED
      BY <2>2, <3>2
  <2>5. QED
    BY <2>3, <2>4
<1>7. ASSUME NEW w \in Workers, Decline(w) PROVE (RecoveryTypes /\ MayTry)'
  <2>1. Entry(w).order \in Orders
    BY <1>7, EntryInHand DEF Decline, Tried
  <2>2. [order |-> Entry(w).order, reason |-> "declined"] \in [order : Orders, reason : Reasons]
    BY <2>1 DEF Reasons
  <2>3. escalated' \subseteq [order : Orders, reason : Reasons]
    BY <1>7, <2>2 DEF Decline, EscalateEntry
  <2>4. QED
    BY <1>7, <2>3 DEF Decline, Tried, agent, history
<1>8. ASSUME NEW w \in Workers, Uncaught(w) \/ WorkerDies(w)
      PROVE (RecoveryTypes /\ MayTry)'
  <2>3. hand[w] # <<>> => Entry(w).order \in Orders
    BY EntryInHand
  <2>1. dropped' \subseteq Orders
    BY <1>8, <2>3 DEF Uncaught, Tried, WorkerDies
  <2>2. QED
    BY <1>8, <2>1 DEF Uncaught, Tried, WorkerDies, agent
<1>9. ASSUME NEW c \in Checkouts \cup Workers, ChargeStep(c) PROVE (RecoveryTypes /\ MayTry)'
  BY <1>9 DEF ChargeStep, agent, history
<1>10. CASE Environment
  BY <1>10 DEF Environment, agent, history
<1>11. CASE UNCHANGED vars
  BY <1>11 DEF vars, agent, history
<1>12. QED
  BY <1>1, <1>2, <1>3, <1>4, <1>5, <1>6, <1>7, <1>8, <1>9, <1>10, <1>11
     , <1>13 DEF Next, AgentStep, WorkerStep

-----------------------------------------------------------------------------
(* The charge *)

(* The instance this module proves about is the one CheckoutRecovery uses. *)
LEMMA SameInstance ==
  /\ Idem!Init <=> Money!Init
  /\ [Idem!Next]_(Idem!vars) <=> [Money!Next]_(Money!vars)
  /\ Idem!TypeOK <=> Money!TypeOK
BY DEF Idem!Init, Money!Init, Idem!None, Money!None,
   Idem!vars, Money!vars, Idem!redis, Money!redis, Idem!local, Money!local,
   Idem!counts, Money!counts,
   Idem!Next, Money!Next, Idem!Continue, Money!Continue, Idem!Go, Money!Go,
   Idem!Tell, Money!Tell, Idem!Run, Money!Run, Idem!Replay, Money!Replay,
   Idem!NoRecord, Money!NoRecord, Idem!Claim, Money!Claim,
   Idem!InFlight, Money!InFlight, Idem!Deduplicate, Money!Deduplicate,
   Idem!NotSeen, Money!NotSeen, Idem!Charge, Money!Charge,
   Idem!Raise, Money!Raise, Idem!Refuse, Money!Refuse, Idem!Fail, Money!Fail,
   Idem!Decline, Money!Decline, Idem!Store, Money!Store, Idem!Release, Money!Release,
   Idem!Return, Money!Return, Idem!Crash, Money!Crash,
   Idem!Holds, Money!Holds, Idem!Holding, Money!Holding,
   Idem!LockExpires, Money!LockExpires, Idem!ResultExpires, Money!ResultExpires,
   Idem!LedgerExpires, Money!LedgerExpires, Idem!Outage, Money!Outage,
   Idem!TypeOK, Money!TypeOK, Idem!Positions, Money!Positions,
   Idem!Outcomes, Money!Outcomes, Idem!Exceptions, Money!Exceptions

(* A step of the agent or a worker is a call, a return or a crash of its caller,
   or no step of the charge at all. *)
LEMMA MoneyStep == ASSUME RecoveryTypes, [Next]_vars PROVE [Idem!Next]_(Idem!vars)
<1>1. ASSUME NEW s \in Checkouts, StartCharge(s) PROVE Idem!Next
  <2>1. OrderOf[s] \in Orders
    BY CheckoutsAssumption
  <2>2. QED
    BY <1>1, <2>1 DEF StartCharge, Idem!Next
<1>2. ASSUME NEW w \in Workers, Attempt(w) PROVE Idem!Next
  <2>1. Entry(w).order \in Orders
    BY <1>2 DEF Attempt, Entry, RecoveryTypes, Entries
  <2>2. QED
    BY <1>2, <2>1 DEF Attempt, Idem!Next
<1>3. ASSUME NEW s \in Checkouts,
             Paid(s) \/ RetryPayment(s) \/ Escalate(s) \/ ParkFailure(s)
             \/ ReturnsLate(s) \/ AgentDies(s)
      PROVE Idem!Next
  BY <1>3 DEF Paid, RetryPayment, Escalate, ParkFailure, Answered, ReturnsLate, AgentDies, Idem!Next
<1>4. ASSUME NEW w \in Workers,
             Done(w) \/ Defer(w) \/ Fail(w) \/ Decline(w) \/ Uncaught(w) \/ WorkerDies(w)
      PROVE Idem!Next
  BY <1>4 DEF Done, Defer, Fail, Decline, Uncaught, WorkerDies, Tried, Idem!Next
<1>5. ASSUME NEW s \in Checkouts, Hold(s) \/ ApplyDecision(s) \/ Deadline(s)
      PROVE UNCHANGED Idem!vars
  BY <1>5 DEF Hold, ApplyDecision, Deadline, charge, Idem!vars, Idem!redis, Idem!local, Idem!counts
<1>6. ASSUME NEW w \in Workers, Take(w) PROVE UNCHANGED Idem!vars
  BY <1>6 DEF Take, charge, Idem!vars, Idem!redis, Idem!local, Idem!counts
<1>7. ASSUME NEW c \in Checkouts \cup Workers, ChargeStep(c) PROVE Idem!Next
  BY <1>7 DEF ChargeStep, Idem!Next
<1>8. CASE Environment
  BY <1>8 DEF Environment, Idem!Next
<1>9. CASE UNCHANGED vars
  BY <1>9 DEF vars, charge, Idem!vars, Idem!redis, Idem!local, Idem!counts
<1>10. QED
  BY <1>1, <1>2, <1>3, <1>4, <1>5, <1>6, <1>7, <1>8, <1>9
     DEF Next, AgentStep, WorkerStep

LEMMA RecoveryHolds == Spec => [](RecoveryTypes /\ MayTry)
<1>1. RecoveryTypes /\ MayTry /\ [Next]_vars => (RecoveryTypes /\ MayTry)'
  BY RecoveryNext
<1>2. QED
  BY RecoveryInit, <1>1, PTL DEF Spec

(***************************************************************************)
(* The agent, its threads that outlive a deadline and the replay workers   *)
(* use IdempotencyStore.run as IdempotentCharge says its callers do, so    *)
(* all that is proved of IdempotentCharge holds of the recovery.           *)
(***************************************************************************)
THEOREM ImplementsCharge == Spec => Idem!Spec
<1>1. Init => Idem!Init
  BY DEF Init
<1>2. RecoveryTypes /\ MayTry /\ [Next]_vars => [Idem!Next]_(Idem!vars)
  BY MoneyStep
<1>3. QED
  BY <1>1, <1>2, RecoveryHolds, PTL DEF Spec, Idem!Spec

LEMMA MoneySpec == Spec => Money!Spec
<1>1. Idem!Init <=> Money!Init
  BY SameInstance
<1>2. [Idem!Next]_(Idem!vars) <=> [Money!Next]_(Money!vars)
  BY SameInstance
<1>3. QED
  BY <1>1, <1>2, ImplementsCharge, PTL DEF Idem!Spec, Money!Spec

LEMMA AnswersHold == Spec => []Money!Answers
<1>1. Money!Spec => []Money!Answers
  BY Money!AnswersHold, ChargeAssumption
<1>2. QED
  BY <1>1, MoneySpec, PTL

LEMMA ClaimsHold == ASSUME LockOutlivesCalls PROVE Spec => []Money!Claims
<1>1. Money!Spec => []Money!Claims
  BY Money!ClaimsHold, ChargeAssumption
<1>2. QED
  BY <1>1, MoneySpec, PTL

(***************************************************************************)
(* The variables of the composition keep their types: no attempt beyond    *)
(* PAYMENT_RETRY's, no entry with more than MAX_REPLAYS - 1 attempts.      *)
(***************************************************************************)
THEOREM TypeCorrect == Spec => []TypeOK
<1>1. Money!Answers => Idem!TypeOK
  BY SameInstance DEF Money!Answers
<1>2. RecoveryTypes /\ Idem!TypeOK => TypeOK
  BY DEF RecoveryTypes, TypeOK
<1>3. QED
  BY <1>1, <1>2, RecoveryHolds, AnswersHold, PTL

-----------------------------------------------------------------------------
(* Who asks for what *)

LEMMA Charging ==
  ASSUME Idem!TypeOK, NEW c \in Callers, ChargeStep(c)
  PROVE  /\ pc[c] # "idle" /\ order' = order
         /\ \A d \in Callers \ {c} : pc'[d] = pc[d] /\ outcome'[d] = outcome[d]
BY DEF Callers, ChargeStep, Idem!TypeOK, Idem!Continue, Idem!Go, Idem!Raise, Idem!Replay,
       Idem!NoRecord, Idem!Claim, Idem!InFlight, Idem!Deduplicate, Idem!NotSeen,
       Idem!Charge, Idem!Refuse, Idem!Fail, Idem!Decline, Idem!Store, Idem!Release

LEMMA MoneyStays ==
  ASSUME Idem!TypeOK, [Idem!Next]_(Idem!vars)
  PROVE  \A k \in Orders : captured'[k] >= captured[k]
<1>1. ASSUME NEW c \in Checkouts \cup Workers, Idem!Charge(c)
      PROVE  \A k \in Orders : captured'[k] >= captured[k]
  BY <1>1 DEF Idem!TypeOK, Idem!Charge
<1>2. CASE UNCHANGED captured
  BY <1>2 DEF Idem!TypeOK
<1>3. QED
  BY <1>1, <1>2
     DEF Idem!Next, Idem!Continue, Idem!Replay, Idem!NoRecord, Idem!Claim, Idem!InFlight,
         Idem!Deduplicate, Idem!NotSeen, Idem!Refuse, Idem!Fail, Idem!Decline, Idem!Raise,
         Idem!Store, Idem!Release, Idem!Return, Idem!Run, Idem!Crash, Idem!LockExpires,
         Idem!ResultExpires, Idem!LedgerExpires, Idem!Outage, Idem!vars

LEMMA RolesInit == Init => OwnOrder /\ WorksOnEntry
BY DEF Init, OwnOrder, WorksOnEntry, Engaged, Idem!Init

LEMMA RolesNext ==
  ASSUME TypeOK, OwnOrder, WorksOnEntry, [Next]_vars
  PROVE  (OwnOrder /\ WorksOnEntry)'
<1> USE CheckoutsAssumption DEF OwnOrder, WorksOnEntry, Engaged, Callers
<1>0. Idem!TypeOK /\ order \in [Callers -> Orders] /\ pc \in [Callers -> Idem!Positions]
      /\ outcome \in [Callers -> Idem!Outcomes]
      /\ hand \in [Workers -> {<<>>} \cup {<<e>> : e \in Entries}]
  BY DEF TypeOK, Idem!TypeOK
<1>1. ASSUME NEW c \in Callers, ChargeStep(c) PROVE (OwnOrder /\ WorksOnEntry)'
  <2>1. UNCHANGED hand
    BY <1>1 DEF ChargeStep
  <2>2. QED
    BY <1>0, <1>1, <2>1, Charging DEF Entry
<1>2. ASSUME NEW s \in Checkouts, StartCharge(s) PROVE (OwnOrder /\ WorksOnEntry)'
  BY <1>0, <1>2 DEF StartCharge, Idem!Run, Idem!Go, Entry
<1>3. ASSUME NEW c \in Callers, Idem!Return(c) \/ Idem!Crash(c), UNCHANGED hand
      PROVE (OwnOrder /\ WorksOnEntry)'
  BY <1>0, <1>3 DEF Idem!Return, Idem!Crash, Entry
<1>4. ASSUME NEW w \in Workers, Take(w) PROVE (OwnOrder /\ WorksOnEntry)'
  BY <1>0, <1>4 DEF Take, charge, Entry
<1>5. ASSUME NEW w \in Workers, Attempt(w) PROVE (OwnOrder /\ WorksOnEntry)'
  BY <1>0, <1>5 DEF Attempt, Idem!Run, Idem!Go, Entry
<1>6. ASSUME NEW w \in Workers, Idem!Return(w) \/ Idem!Crash(w),
             hand' = [hand EXCEPT ![w] = <<>>]
      PROVE (OwnOrder /\ WorksOnEntry)'
  BY <1>0, <1>6 DEF Idem!Return, Idem!Crash, Entry
<1>7. CASE UNCHANGED <<pc, order, outcome, hand>>
  BY <1>7 DEF Entry
<1>8. ASSUME NEW s \in Checkouts,
             AgentStep(s) \/ ReturnsLate(s) \/ ApplyDecision(s) \/ Deadline(s) \/ AgentDies(s)
      PROVE (OwnOrder /\ WorksOnEntry)'
  BY <1>2, <1>3, <1>7, <1>8
     DEF AgentStep, Paid, RetryPayment, Escalate, ParkFailure, Answered, Hold, ReturnsLate,
         ApplyDecision, Deadline, AgentDies, charge
<1>9. ASSUME NEW w \in Workers, WorkerStep(w) \/ WorkerDies(w)
      PROVE (OwnOrder /\ WorksOnEntry)'
  BY <1>4, <1>5, <1>6, <1>9
     DEF WorkerStep, Done, Defer, Fail, Decline, Uncaught, Tried, WorkerDies
<1>10. CASE Environment
  BY <1>7, <1>10 DEF Environment, Idem!LockExpires, Idem!ResultExpires, Idem!LedgerExpires,
                     Idem!Outage, Idem!local
<1>11. CASE UNCHANGED vars
  BY <1>7, <1>11 DEF vars, charge
<1>12. QED
  BY <1>1, <1>8, <1>9, <1>10, <1>11 DEF Next

LEMMA RolesHold == Spec => []Roles
<1>1. TypeOK /\ OwnOrder /\ WorksOnEntry /\ [Next]_vars => (OwnOrder /\ WorksOnEntry)'
  BY RolesNext
<1>2. TypeOK /\ (RecoveryTypes /\ MayTry) /\ (OwnOrder /\ WorksOnEntry) => Roles
  BY DEF Roles
<1>3. QED
  BY RolesInit, <1>1, <1>2, TypeCorrect, RecoveryHolds, PTL DEF Spec

-----------------------------------------------------------------------------
(* Payment *)

LEMMA MoneyGrows ==
  ASSUME TypeOK, [Next]_vars
  PROVE  \A k \in Orders :
           captured'[k] >= captured[k] /\ captured[k] \in Nat /\ captured'[k] \in Nat
<1>1. Idem!TypeOK /\ captured \in [Orders -> Nat]
  BY DEF TypeOK, Idem!TypeOK
<1>2. [Idem!Next]_(Idem!vars)
  BY MoneyStep DEF TypeOK, RecoveryTypes
<1>3. captured' \in [Orders -> Nat]
  BY <1>1, <1>2
     DEF Idem!Next, Idem!Continue, Idem!Replay, Idem!NoRecord, Idem!Claim, Idem!InFlight,
         Idem!Deduplicate, Idem!NotSeen, Idem!Refuse, Idem!Fail, Idem!Decline, Idem!Raise,
         Idem!Store, Idem!Release, Idem!Return, Idem!Run, Idem!Crash, Idem!LockExpires,
         Idem!ResultExpires, Idem!LedgerExpires, Idem!Outage, Idem!vars, Idem!Charge, Idem!TypeOK
<1>4. QED
  BY <1>1, <1>2, <1>3, MoneyStays

LEMMA PaidNext ==
  ASSUME Roles, Money!Answers, PaidIsCaptured, [Next]_vars
  PROVE  PaidIsCaptured'
<1>1. \A k \in Orders : captured'[k] >= captured[k] /\ captured[k] \in Nat /\ captured'[k] \in Nat
  BY MoneyGrows DEF Roles
<1>2. ASSUME NEW s \in Checkouts, Paid(s) PROVE captured[OrderOf[s]] >= 1
  BY <1>2 DEF Paid, Roles, OwnOrder, Money!Answers, Money!AnsweredIsPaid
<1>3. ASSUME NEW s \in Checkouts, node'[s] = "paid"
      PROVE  node[s] = "paid" \/ Paid(s)
  BY <1>3 DEF Roles, TypeOK, Next, AgentStep, WorkerStep, ChargeStep, Environment, vars, agent,
     StartCharge, Paid, RetryPayment, Escalate, ParkFailure, Answered, Leave, Hold, ReturnsLate,
     ApplyDecision, Deadline, AgentDies, Take, Attempt, Done, Defer, Fail, Decline, Uncaught,
     Tried, WorkerDies
<1>4. QED
  BY <1>1, <1>2, <1>3, CheckoutsAssumption DEF PaidIsCaptured

LEMMA PaidHolds == Spec => []PaidIsCaptured
<1>1. Init => PaidIsCaptured
  BY DEF Init, PaidIsCaptured
<1>2. Roles /\ Money!Answers /\ PaidIsCaptured /\ [Next]_vars => PaidIsCaptured'
  BY PaidNext
<1>3. QED
  BY <1>1, <1>2, RolesHold, AnswersHold, PTL DEF Spec

(***************************************************************************)
(* Whoever confirms a payment confirms a capture, even where claims expire *)
(* under a live call; and an order is captured once per ledger where they  *)
(* do not.                                                                 *)
(***************************************************************************)
THEOREM ConfirmedIsCaptured == ASSUME LockOutlivesCalls PROVE Spec => []PaidOnce
<1>1. Money!Claims /\ PaidIsCaptured => PaidOnce
  BY DEF Money!Claims, Money!TypeOK, Money!LedgerIsLast, PaidIsCaptured, PaidOnce, Money!None
<1>2. QED
  BY <1>1, PaidHolds, ClaimsHold, PTL

-----------------------------------------------------------------------------
(* Attempts *)

(* What was tried stays tried, and an entry that is put down was held. *)
LEMMA HandsKeepTried ==
  ASSUME RecoveryTypes, HandsTried, \A k \in Orders : failed'[k] >= failed[k],
         failed' \in [Orders -> Nat],
         hand' = hand \/ \E w \in Workers : hand' = [hand EXCEPT ![w] = <<>>]
  PROVE  HandsTried'
<1> SUFFICES ASSUME NEW v \in Workers, hand'[v] # <<>>
             PROVE  Entry(v)'.attempts <= failed'[Entry(v)'.order]
  BY DEF HandsTried
<1>1. hand'[v] = hand[v] /\ hand[v] # <<>>
  BY DEF RecoveryTypes
<1>2. /\ Entry(v)' = Entry(v) /\ Entry(v).order \in Orders
      /\ Entry(v).attempts \in 0 .. MaxReplays - 1
  BY <1>1, EntryInHand DEF Entry
<1>3. Entry(v).attempts <= failed[Entry(v).order]
  BY <1>1 DEF HandsTried
<1>4. failed[Entry(v).order] \in Nat /\ failed'[Entry(v).order] \in Nat
  BY <1>2 DEF RecoveryTypes
<1>5. QED
  BY <1>2, <1>3, <1>4, ReplaysAssumption

LEMMA QueueKeepsTried ==
  ASSUME RecoveryTypes, QueueTried, \A k \in Orders : failed'[k] >= failed[k],
         failed' \in [Orders -> Nat]
  PROVE  \A i \in DOMAIN queue : queue[i].attempts <= failed'[queue[i].order]
<1> SUFFICES ASSUME NEW i \in DOMAIN queue
             PROVE  queue[i].attempts <= failed'[queue[i].order]
  OBVIOUS
<1>1. queue[i].order \in Orders /\ queue[i].attempts \in Nat
  BY QueueShape, ReplaysAssumption DEF Entries
<1>2. queue[i].attempts <= failed[queue[i].order]
  BY DEF QueueTried
<1>3. failed[queue[i].order] \in Nat /\ failed'[queue[i].order] \in Nat
  BY <1>1 DEF RecoveryTypes
<1>4. QED
  BY <1>1, <1>2, <1>3

LEMMA GivenUpKeepsTried ==
  ASSUME GivenUpTried, failed \in [Orders -> Nat], failed' \in [Orders -> Nat],
         \A k \in Orders : failed'[k] >= failed[k]
  PROVE  \A j \in Orders :
           [order |-> j, reason |-> "replays exhausted"] \in escalated => failed'[j] >= MaxReplays
<1>1. ASSUME NEW j \in Orders, failed[j] >= MaxReplays PROVE failed'[j] >= MaxReplays
  BY <1>1, ReplaysAssumption
<1>2. QED
  BY <1>1 DEF GivenUpTried

LEMMA PushKeepsTried ==
  ASSUME RecoveryTypes, QueueTried, \A k \in Orders : failed'[k] >= failed[k],
         failed' \in [Orders -> Nat],
         NEW e \in Entries, queue' = Append(queue, e), e.attempts <= failed'[e.order]
  PROVE  QueueTried'
<1>1. /\ DOMAIN queue' = DOMAIN queue \cup {Len(queue) + 1}
      /\ \A i \in DOMAIN queue : queue'[i] = queue[i]
      /\ queue'[Len(queue) + 1] = e
  BY Pushed
<1>2. \A i \in DOMAIN queue : queue[i].attempts <= failed'[queue[i].order]
  BY QueueKeepsTried
<1>3. QED
  BY <1>1, <1>2 DEF QueueTried

LEMMA AttemptsNext ==
  ASSUME RecoveryTypes, AttemptsWereMade, [Next]_vars
  PROVE  AttemptsWereMade'
<1> USE DEF AttemptsWereMade
<1>0. failed \in [Orders -> Nat] /\ \A k \in Orders : failed[k] >= failed[k]
  BY DEF RecoveryTypes
<1>1. ASSUME UNCHANGED <<queue, hand, escalated, failed>> PROVE AttemptsWereMade'
  BY <1>1 DEF Entry, QueueTried, HandsTried, GivenUpTried
<1>2. ASSUME NEW s \in Checkouts, Park(s), UNCHANGED <<hand, escalated, history>>
      PROVE  AttemptsWereMade'
  <2> DEFINE e == [order |-> OrderOf[s], attempts |-> 0]
  <2>1. e \in Entries /\ e.order \in Orders /\ e.attempts = 0
    BY CheckoutsAssumption, ReplaysAssumption DEF Entries
  <2>2. UNCHANGED failed /\ e.attempts <= failed'[e.order]
    BY <1>0, <1>2, <2>1 DEF history
  <2>3. queue' = Append(queue, e)
    BY <1>2 DEF Park
  <2>4. QueueTried'
    BY <1>0, <2>1, <2>2, <2>3, PushKeepsTried
  <2>5. QED
    BY <1>2, <2>4 DEF history, Entry, HandsTried, GivenUpTried
<1>3. ASSUME NEW w \in Workers, Take(w) PROVE AttemptsWereMade'
  <2>0. UNCHANGED <<escalated, failed>>
    BY <1>3 DEF Take, history
  <2>1. \A i \in DOMAIN queue' : i + 1 \in DOMAIN queue /\ queue'[i] = queue[i + 1]
    BY <1>3, Popped
  <2>2. QueueTried'
    BY <2>0, <2>1 DEF QueueTried
  <2>3. Entry(w)'.attempts <= failed'[Entry(w)'.order]
    BY <1>3, <2>0, Popped DEF QueueTried
  <2>4. \A v \in Workers \ {w} : hand'[v] = hand[v] /\ Entry(v)' = Entry(v)
    BY <1>3 DEF Take, RecoveryTypes, Entry
  <2>5. HandsTried'
    BY <2>0, <2>3, <2>4 DEF HandsTried
  <2>6. QED
    BY <2>0, <2>2, <2>5 DEF GivenUpTried
<1>4. ASSUME NEW w \in Workers, hand' = [hand EXCEPT ![w] = <<>>],
             UNCHANGED <<queue, failed>>,
             escalated' = escalated \/ EscalateEntry(w, "declined")
      PROVE  AttemptsWereMade'
  <2>1. QueueTried'
    BY <1>4 DEF QueueTried
  <2>2. HandsTried'
    BY <1>0, <1>4, HandsKeepTried
  <2>3. \A k \in Orders : [order |-> k, reason |-> "replays exhausted"]
                              # [order |-> Entry(w).order, reason |-> "declined"]
    OBVIOUS
  <2>5. GivenUpTried'
    BY <1>4, <2>3 DEF GivenUpTried, EscalateEntry
  <2>4. QED
    BY <2>1, <2>2, <2>5
<1>5. ASSUME NEW w \in Workers, Defer(w) PROVE AttemptsWereMade'
  <2>1. Entry(w) \in Entries /\ Entry(w).attempts <= failed[Entry(w).order]
    BY <1>5, EntryInHand DEF Defer, Tried, HandsTried
  <2>2. hand' = [hand EXCEPT ![w] = <<>>] /\ UNCHANGED <<escalated, failed>>
    BY <1>5 DEF Defer, Tried, history
  <2>3. QueueTried'
    BY <1>0, <1>5, <2>1, <2>2, PushKeepsTried DEF Defer, Requeue
  <2>4. HandsTried'
    BY <1>0, <2>2, HandsKeepTried
  <2>5. QED
    BY <2>2, <2>3, <2>4 DEF GivenUpTried
<1>6. ASSUME NEW w \in Workers, Fail(w) PROVE AttemptsWereMade'
  <2> DEFINE e == Entry(w)
             k == e.order
  <2>0. hand[w] # <<>> /\ HandsTried
    BY <1>6 DEF Fail, Tried
  <2>9. e \in Entries /\ k \in Orders /\ e.attempts \in 0 .. MaxReplays - 1
    BY <2>0, EntryInHand
  <2>1. e \in Entries /\ k \in Orders /\ e.attempts \in Nat /\ e.attempts <= failed[k]
    BY <2>0, <2>9, ReplaysAssumption DEF HandsTried
  <2>2. failed' = [failed EXCEPT ![k] = failed[k] + 1]
    BY <1>6 DEF Fail
  <2>3. /\ failed' \in [Orders -> Nat] /\ failed'[k] = failed[k] + 1
        /\ \A j \in Orders : failed'[j] >= failed[j]
    BY <1>0, <2>1, <2>2
  <2>4. HandsTried'
    BY <1>6, <2>3, HandsKeepTried DEF Fail, Tried
  <2>5. \A j \in Orders :
          [order |-> j, reason |-> "replays exhausted"] \in escalated => failed'[j] >= MaxReplays
    BY <1>0, <2>3, GivenUpKeepsTried
  <2>6. CASE e.attempts + 1 >= MaxReplays
    <3>1. escalated' = escalated \cup {[order |-> k, reason |-> "replays exhausted"]}
          /\ UNCHANGED queue
      BY <1>6, <2>6 DEF Fail, EscalateEntry
    <3>2. QueueTried'
      BY <2>3, <3>1, QueueKeepsTried DEF QueueTried
    <3>3. failed'[k] >= MaxReplays
      BY <1>0, <2>1, <2>3, <2>6, ReplaysAssumption
    <3>4. GivenUpTried'
      BY <2>5, <3>1, <3>3 DEF GivenUpTried
    <3>5. QED
      BY <2>4, <3>2, <3>4
  <2>7. CASE ~(e.attempts + 1 >= MaxReplays)
    <3> DEFINE f == [e EXCEPT !.attempts = @ + 1]
    <3>1. queue' = Append(queue, f) /\ UNCHANGED escalated
      BY <1>6, <2>7 DEF Fail, Requeue
    <3>2. f \in Entries /\ f.order = k /\ f.attempts = e.attempts + 1
      BY <2>1, <2>7, OneMore DEF Entries
    <3>3. f.attempts <= failed'[f.order]
      BY <1>0, <2>1, <2>3, <3>2
    <3>4. QueueTried'
      BY <2>3, <3>1, <3>2, <3>3, PushKeepsTried
    <3>5. QED
      BY <2>4, <2>5, <3>1, <3>4 DEF GivenUpTried
  <2>8. QED
    BY <2>6, <2>7
<1>7. ASSUME NEW s \in Checkouts,
             AgentStep(s) \/ ReturnsLate(s) \/ ApplyDecision(s) \/ Deadline(s) \/ AgentDies(s)
      PROVE AttemptsWereMade'
  BY <1>1, <1>2, <1>7
     DEF AgentStep, StartCharge, Paid, RetryPayment, Escalate, ParkFailure, Answered, Hold,
         ReturnsLate, ApplyDecision, Deadline, AgentDies, history
<1>8. ASSUME NEW w \in Workers, WorkerStep(w) \/ WorkerDies(w)
      PROVE AttemptsWereMade'
  BY <1>1, <1>3, <1>4, <1>5, <1>6, <1>8
     DEF WorkerStep, Attempt, Done, Decline, Uncaught, Tried, WorkerDies, history
<1>9. CASE Environment \/ \E c \in Checkouts \cup Workers : ChargeStep(c)
  BY <1>1, <1>9 DEF Environment, ChargeStep, history
<1>10. CASE UNCHANGED vars
  BY <1>1, <1>10 DEF vars, history
<1>11. QED
  BY <1>7, <1>8, <1>9, <1>10 DEF Next

(***************************************************************************)
(* Giving up takes MAX_REPLAYS attempts that reached the gateway: neither  *)
(* refusals by the breaker nor a second entry for the order use any up.    *)
(***************************************************************************)
THEOREM GivesUpAfterTrying == Spec => []ExhaustedWasTried
<1>1. Init => AttemptsWereMade
  BY DEF Init, AttemptsWereMade, QueueTried, HandsTried, GivenUpTried
<1>2. (RecoveryTypes /\ MayTry) /\ AttemptsWereMade /\ [Next]_vars => AttemptsWereMade'
  BY AttemptsNext
<1>3. AttemptsWereMade => ExhaustedWasTried
  BY DEF AttemptsWereMade, QueueTried, GivenUpTried, ExhaustedWasTried
<1>4. QED
  BY <1>1, <1>2, <1>3, RecoveryHolds, PTL DEF Spec

-----------------------------------------------------------------------------
(* Nothing is lost *)

(* Where an order that was parked can be. *)
Kept(k) ==
  Resolved(k) \/ k \in dropped \/ Queued(k) # {} \/ \E w \in Workers : InHand(w, k)

LEMMA PushKeeps ==
  ASSUME RecoveryTypes, NEW e \in Entries, queue' = Append(queue, e), NEW k
  PROVE  /\ Queued(k) # {} => Queued(k)' # {}
         /\ k = e.order => Queued(k)' # {}
<1>1. /\ DOMAIN queue' = DOMAIN queue \cup {Len(queue) + 1}
      /\ \A i \in DOMAIN queue : queue'[i] = queue[i]
      /\ queue'[Len(queue) + 1] = e
  BY Pushed
<1>2. QED
  BY <1>1 DEF Queued

LEMMA EscalatedIsResolved ==
  ASSUME NEW k, NEW r, escalated' = escalated \cup {[order |-> k, reason |-> r]}
  PROVE  Resolved(k)'
<1>1. [order |-> k, reason |-> r] \in escalated' /\ [order |-> k, reason |-> r].order = k
  OBVIOUS
<1>2. QED
  BY <1>1 DEF Resolved

LEMMA EmptiedHand ==
  ASSUME RecoveryTypes, NEW w \in Workers, hand' = [hand EXCEPT ![w] = <<>>], NEW k,
         \E v \in Workers : InHand(v, k)
  PROVE  k = Entry(w).order \/ \E v \in Workers : InHand(v, k)'
BY DEF RecoveryTypes, InHand, Entry

(* A step that leaves the entries alone, or puts one down that is safe now. *)
LEMMA KeptIfSafe ==
  ASSUME TypeOK, [Next]_vars, NEW k \in Orders, Kept(k),
         escalated \subseteq escalated', dropped \subseteq dropped',
         Queued(k) # {} => Queued(k)' # {},
         \/ UNCHANGED hand
         \/ \E w \in Workers :
              hand' = [hand EXCEPT ![w] = <<>>] /\ (k = Entry(w).order => Kept(k)')
  PROVE  Kept(k)'
<1>1. captured[k] > 0 => captured'[k] > 0
  BY MoneyGrows
<1>2. Resolved(k) => Resolved(k)'
  BY <1>1 DEF Resolved
<1>3. CASE UNCHANGED hand
  BY <1>2, <1>3 DEF Kept, InHand, Entry
<1>4. ASSUME NEW w \in Workers, hand' = [hand EXCEPT ![w] = <<>>], k = Entry(w).order => Kept(k)'
      PROVE Kept(k)'
  BY <1>2, <1>4, EmptiedHand DEF Kept, TypeOK, RecoveryTypes
<1>5. QED
  BY <1>3, <1>4

LEMMA KeptNext ==
  ASSUME Roles, Money!Answers, [Next]_vars, NEW k \in Orders, Kept(k)
  PROVE  Kept(k)'
<1>0. TypeOK /\ RecoveryTypes
  BY DEF Roles, TypeOK, RecoveryTypes
<1>1. ASSUME UNCHANGED <<queue, hand, escalated>>, dropped \subseteq dropped' PROVE Kept(k)'
  BY <1>0, <1>1, KeptIfSafe DEF Queued
<1>2. ASSUME NEW s \in Checkouts, Park(s), UNCHANGED <<hand, escalated, dropped>> PROVE Kept(k)'
  <2>1. [order |-> OrderOf[s], attempts |-> 0] \in Entries
    BY CheckoutsAssumption, ReplaysAssumption DEF Entries
  <2>2. Queued(k) # {} => Queued(k)' # {}
    BY <1>0, <1>2, <2>1, PushKeeps DEF Park
  <2>3. QED
    BY <1>0, <1>2, <2>2, KeptIfSafe
<1>3. ASSUME NEW w \in Workers, Take(w) PROVE Kept(k)'
  <2>1. UNCHANGED <<captured, escalated, dropped>> /\ hand[w] = <<>>
    BY <1>3 DEF Take, charge, history
  <2>2. \A v \in Workers : InHand(v, k) => InHand(v, k)'
    <3>1. \A v \in Workers \ {w} : hand'[v] = hand[v]
      BY <1>0, <1>3 DEF Take, RecoveryTypes
    <3>2. QED
      BY <2>1, <3>1 DEF InHand, Entry
  <2>3. ASSUME NEW i \in Queued(k) PROVE Queued(k)' # {} \/ InHand(w, k)'
    <3>1. i \in 1 .. Len(queue) /\ Len(queue) \in Nat /\ queue[i].order = k
      BY <1>0, QueueShape DEF Queued
    <3>2. CASE i = 1
      BY <1>0, <1>3, <3>1, <3>2, Popped DEF InHand
    <3>3. CASE i # 1
      <4>1. i - 1 \in DOMAIN queue' /\ queue'[i - 1] = queue[i]
        BY <1>0, <1>3, <3>1, <3>3, Popped
      <4>2. QED
        BY <3>1, <4>1 DEF Queued
    <3>4. QED
      BY <3>2, <3>3
  <2>4. QED
    BY <2>1, <2>2, <2>3 DEF Kept, Resolved
<1>4. ASSUME NEW w \in Workers, Done(w) PROVE Kept(k)'
  <2>1. order[w] = Entry(w).order /\ captured[order[w]] >= 1
    BY <1>4 DEF Done, Tried, Roles, WorksOnEntry, Engaged, Money!Answers, Money!AnsweredIsPaid
  <2>2. k = Entry(w).order => Resolved(k)'
    BY <1>0, <2>1, MoneyGrows DEF Resolved
  <2>3. QED
    BY <1>0, <1>4, <2>2, KeptIfSafe DEF Done, Tried, history, Kept, Queued
<1>5. ASSUME NEW w \in Workers, Defer(w) PROVE Kept(k)'
  <2>1. Entry(w) \in Entries
    BY <1>0, <1>5, EntryInHand DEF Defer, Tried
  <2>2. /\ Queued(k) # {} => Queued(k)' # {}
        /\ k = Entry(w).order => Queued(k)' # {}
    BY <1>0, <1>5, <2>1, PushKeeps DEF Defer, Requeue
  <2>3. hand' = [hand EXCEPT ![w] = <<>>] /\ UNCHANGED <<escalated, dropped>>
    BY <1>5 DEF Defer, Tried, history
  <2>4. k = Entry(w).order => Kept(k)'
    BY <2>2 DEF Kept
  <2>5. QED
    BY <1>0, <2>2, <2>3, <2>4, KeptIfSafe
<1>6. ASSUME NEW w \in Workers, Fail(w) PROVE Kept(k)'
  <2>0. hand' = [hand EXCEPT ![w] = <<>>] /\ UNCHANGED dropped
    BY <1>6 DEF Fail, Tried
  <2>1. Entry(w) \in Entries
    BY <1>0, <1>6, EntryInHand DEF Fail, Tried
  <2>2. CASE Entry(w).attempts + 1 >= MaxReplays
    <3>1. UNCHANGED queue
          /\ escalated' = escalated \cup {[order |-> Entry(w).order, reason |-> "replays exhausted"]}
      BY <1>6, <2>2 DEF Fail, EscalateEntry
    <3>2. k = Entry(w).order => Kept(k)'
      BY <3>1, EscalatedIsResolved DEF Kept
    <3>3. QED
      BY <1>0, <2>0, <3>1, <3>2, KeptIfSafe DEF Queued
  <2>3. CASE ~(Entry(w).attempts + 1 >= MaxReplays)
    <3> DEFINE f == [Entry(w) EXCEPT !.attempts = @ + 1]
    <3>1. queue' = Append(queue, f) /\ UNCHANGED escalated
      BY <1>6, <2>3 DEF Fail, Requeue
    <3>2. f \in Entries /\ f.order = Entry(w).order
      BY <2>1, <2>3, OneMore DEF Entries
    <3>3. /\ Queued(k) # {} => Queued(k)' # {}
          /\ k = f.order => Queued(k)' # {}
      BY <1>0, <3>1, <3>2, PushKeeps
    <3>4. k = Entry(w).order => Kept(k)'
      BY <3>2, <3>3 DEF Kept
    <3>5. QED
      BY <1>0, <2>0, <3>1, <3>3, <3>4, KeptIfSafe
  <2>4. QED
    BY <2>2, <2>3
<1>7. ASSUME NEW w \in Workers, Decline(w) PROVE Kept(k)'
  <2>1. /\ hand' = [hand EXCEPT ![w] = <<>>] /\ UNCHANGED <<queue, dropped>>
        /\ escalated' = escalated \cup {[order |-> Entry(w).order, reason |-> "declined"]}
    BY <1>7 DEF Decline, Tried, EscalateEntry, history
  <2>2. k = Entry(w).order => Kept(k)'
    BY <2>1, EscalatedIsResolved DEF Kept
  <2>3. QED
    BY <1>0, <2>1, <2>2, KeptIfSafe DEF Queued
<1>8. ASSUME NEW w \in Workers, Uncaught(w) \/ WorkerDies(w) PROVE Kept(k)'
  <2>1. /\ hand' = [hand EXCEPT ![w] = <<>>] /\ UNCHANGED <<queue, escalated>>
        /\ dropped \subseteq dropped'
        /\ hand[w] # <<>> => Entry(w).order \in dropped'
    BY <1>8 DEF Uncaught, Tried, WorkerDies
  <2>2. CASE hand[w] = <<>>
    <3>1. hand' = hand
      BY <1>0, <2>1, <2>2 DEF RecoveryTypes
    <3>2. QED
      BY <1>1, <2>1, <3>1
  <2>3. CASE hand[w] # <<>>
    <3>1. k = Entry(w).order => Kept(k)'
      BY <2>1, <2>3 DEF Kept
    <3>2. QED
      BY <1>0, <2>1, <3>1, KeptIfSafe DEF Queued
  <2>4. QED
    BY <2>2, <2>3
<1>9. ASSUME NEW s \in Checkouts,
             AgentStep(s) \/ ReturnsLate(s) \/ ApplyDecision(s) \/ Deadline(s) \/ AgentDies(s)
      PROVE Kept(k)'
  BY <1>1, <1>2, <1>9
     DEF AgentStep, StartCharge, Paid, RetryPayment, Escalate, ParkFailure, Answered, Hold,
         ReturnsLate, ApplyDecision, Deadline, AgentDies, history
<1>10. ASSUME NEW w \in Workers, Attempt(w) PROVE Kept(k)'
  BY <1>1, <1>10 DEF Attempt, history
<1>11. CASE Environment \/ \E c \in Checkouts \cup Workers : ChargeStep(c)
  BY <1>1, <1>11 DEF Environment, ChargeStep, history
<1>12. CASE UNCHANGED vars
  BY <1>1, <1>12 DEF vars, history
<1>13. QED
  BY <1>3, <1>4, <1>5, <1>6, <1>7, <1>8, <1>9, <1>10, <1>11, <1>12 DEF Next, WorkerStep

(* Only parking, which pushes an entry, makes a checkout parked. *)
LEMMA ParkedNext ==
  ASSUME RecoveryTypes, [Next]_vars, NEW s \in Checkouts, node'[s] \in {"parked", "held"}
  PROVE  node[s] \in {"parked", "held"} \/ Park(s)
BY DEF RecoveryTypes, Next, AgentStep, WorkerStep, ChargeStep, Environment, vars, agent,
       StartCharge, Paid, RetryPayment, Escalate, ParkFailure, Answered, Leave, Hold,
       ReturnsLate, ApplyDecision, Deadline, AgentDies, Take, Attempt, Done, Defer, Fail,
       Decline, Uncaught, Tried, WorkerDies

(***************************************************************************)
(* The dead letter queue is not a bin: whatever agents, late threads and   *)
(* workers do, and however many there are, an order that was parked is     *)
(* paid, with a person, in the queue, in a hand, or went down with a       *)
(* worker.                                                                 *)
(***************************************************************************)
THEOREM ParkedIsKept == Spec => []NothingLost
<1>1. Init => NothingLost
  BY DEF Init, NothingLost
<1>2. ASSUME Roles, Money!Answers, NothingLost, [Next]_vars PROVE NothingLost'
  <2> SUFFICES ASSUME NEW s \in Checkouts, node'[s] \in {"parked", "held"}
               PROVE  Kept(OrderOf[s])'
    BY DEF NothingLost, Kept
  <2>1. RecoveryTypes /\ OrderOf[s] \in Orders
    BY <1>2, CheckoutsAssumption DEF Roles, TypeOK, RecoveryTypes
  <2>2. CASE node[s] \in {"parked", "held"}
    <3>1. Kept(OrderOf[s])
      BY <1>2, <2>2 DEF NothingLost, Kept
    <3>2. QED
      BY <1>2, <2>1, <3>1, KeptNext
  <2>3. CASE Park(s)
    <3>1. [order |-> OrderOf[s], attempts |-> 0] \in Entries
      BY <2>1, ReplaysAssumption DEF Entries
    <3>2. Queued(OrderOf[s])' # {}
      BY <2>1, <2>3, <3>1, PushKeeps DEF Park
    <3>3. QED
      BY <3>2 DEF Kept
  <2>4. QED
    BY <1>2, <2>1, <2>2, <2>3, ParkedNext
<1>3. Roles /\ Money!Answers /\ NothingLost /\ [Next]_vars => NothingLost'
  BY <1>2
<1>4. QED
  BY <1>1, <1>3, RolesHold, AnswersHold, PTL DEF Spec

-----------------------------------------------------------------------------
(* Nothing is multiplied *)

Hands(k) == {w \in Workers : InHand(w, k)}

Parkings(k) ==
  {s \in Checkouts : OrderOf[s] = k /\ node[s] \in {"parked", "held", "lost"}}

Copies(k) == Cardinality(Queued(k)) + Cardinality(Hands(k))

LEMMA Countable ==
  ASSUME RecoveryTypes, NEW k
  PROVE  /\ IsFiniteSet(Queued(k)) /\ Cardinality(Queued(k)) \in Nat
         /\ IsFiniteSet(Hands(k)) /\ Cardinality(Hands(k)) \in Nat
         /\ IsFiniteSet(Parkings(k)) /\ Cardinality(Parkings(k)) \in Nat
<1>1. IsFiniteSet(1 .. Len(queue))
  BY QueueShape, FS_Interval
<1>2. Queued(k) \in SUBSET (1 .. Len(queue))
  BY QueueShape DEF Queued
<1>3. Hands(k) \in SUBSET Workers /\ Parkings(k) \in SUBSET Checkouts
  BY DEF Hands, Parkings
<1>4. IsFiniteSet(Queued(k)) /\ IsFiniteSet(Hands(k)) /\ IsFiniteSet(Parkings(k))
  BY <1>1, <1>2, <1>3, FS_Subset, FiniteAssumption
<1>5. QED
  BY <1>4, FS_CardinalityType

LEMMA PushCounts ==
  ASSUME RecoveryTypes, NEW e \in Entries, queue' = Append(queue, e), NEW k
  PROVE  Cardinality(Queued(k))' = Cardinality(Queued(k)) + (IF e.order = k THEN 1 ELSE 0)
<1>1. /\ DOMAIN queue' = DOMAIN queue \cup {Len(queue) + 1}
      /\ Len(queue) + 1 \notin DOMAIN queue
      /\ \A i \in DOMAIN queue : queue'[i] = queue[i]
      /\ queue'[Len(queue) + 1] = e
  BY Pushed
<1>2. CASE e.order = k
  <2>1. Queued(k)' = Queued(k) \cup {Len(queue) + 1} /\ Len(queue) + 1 \notin Queued(k)
    BY <1>1, <1>2 DEF Queued
  <2>2. QED
    BY <1>2, <2>1, Countable, FS_AddElement
<1>3. CASE e.order # k
  <2>1. Queued(k)' = Queued(k)
    BY <1>1, <1>3 DEF Queued
  <2>2. QED
    BY <1>3, <2>1, Countable
<1>4. QED
  BY <1>2, <1>3

LEMMA PopCounts ==
  ASSUME RecoveryTypes, NEW w \in Workers, Take(w), NEW k
  PROVE  Cardinality(Queued(k))'
           = Cardinality(Queued(k)) - (IF queue[1].order = k THEN 1 ELSE 0)
<1> DEFINE rest == Queued(k) \ {1}
           new == Queued(k)'
           shift == [i \in rest |-> i - 1]
<1>1. /\ DOMAIN queue' = 1 .. Len(queue) - 1 /\ DOMAIN queue = 1 .. Len(queue)
      /\ Len(queue) \in Nat /\ 1 \in DOMAIN queue
      /\ \A i \in DOMAIN queue' : queue'[i] = queue[i + 1]
  BY Popped
<1>2. /\ IsFiniteSet(rest)
      /\ Cardinality(rest) = Cardinality(Queued(k)) - (IF queue[1].order = k THEN 1 ELSE 0)
  <2>1. 1 \in Queued(k) <=> queue[1].order = k
    BY <1>1 DEF Queued
  <2>2. QED
    BY <2>1, Countable, FS_RemoveElement
<1>3. shift \in Bijection(rest, new)
  <2>1. \A i \in rest : i \in 2 .. Len(queue) /\ queue[i].order = k
    BY <1>1 DEF Queued
  <2>2. \A i \in rest : i - 1 \in new
    BY <1>1, <2>1 DEF Queued
  <2>3. \A j \in new : j + 1 \in rest /\ (j + 1) - 1 = j
    BY <1>1 DEF Queued
  <2>4. shift \in Injection(rest, new)
    BY <2>1, <2>2 DEF Injection, IsInjective
  <2>5. shift \in Surjection(rest, new)
    BY <2>2, <2>3 DEF Surjection
  <2>6. QED
    BY <2>4, <2>5 DEF Bijection
<1>4. ExistsBijection(rest, new)
  BY <1>3 DEF ExistsBijection
<1>5. Cardinality(new) = Cardinality(rest)
  BY <1>2, <1>4, FS_Bijection
<1>6. QED
  BY <1>2, <1>5

LEMMA EmptyingCounts ==
  ASSUME RecoveryTypes, NEW w \in Workers, hand' = [hand EXCEPT ![w] = <<>>], NEW k
  PROVE  Cardinality(Hands(k))' = Cardinality(Hands(k)) - (IF InHand(w, k) THEN 1 ELSE 0)
<1>1. Hands(k)' = Hands(k) \ {w}
  BY DEF RecoveryTypes, Hands, InHand, Entry
<1>2. w \in Hands(k) <=> InHand(w, k)
  BY DEF Hands
<1>3. IsFiniteSet(Hands(k)) /\ Cardinality(Hands(k)) \in Nat
  BY Countable
<1>4. Cardinality(Hands(k) \ {w})
        = IF w \in Hands(k) THEN Cardinality(Hands(k)) - 1 ELSE Cardinality(Hands(k))
  BY <1>3, FS_RemoveElement
<1>5. QED
  BY <1>1, <1>2, <1>3, <1>4

LEMMA TakingCounts ==
  ASSUME RecoveryTypes, NEW w \in Workers, Take(w), NEW k
  PROVE  Cardinality(Hands(k))' = Cardinality(Hands(k)) + (IF queue[1].order = k THEN 1 ELSE 0)
<1>1. hand[w] = <<>> /\ hand'[w] # <<>> /\ Entry(w)' = queue[1]
  BY Popped DEF Take
<1>2. \A v \in Workers \ {w} : hand'[v] = hand[v]
  BY DEF Take, RecoveryTypes
<1>3. w \notin Hands(k)
  BY <1>1 DEF Hands, InHand
<1>4. Hands(k)' = IF queue[1].order = k THEN Hands(k) \cup {w} ELSE Hands(k)
  BY <1>1, <1>2, <1>3 DEF Hands, InHand, Entry
<1>5. IsFiniteSet(Hands(k)) /\ Cardinality(Hands(k)) \in Nat
  BY Countable
<1>6. Cardinality(Hands(k) \cup {w}) = Cardinality(Hands(k)) + 1
  BY <1>3, <1>5, FS_AddElement
<1>7. QED
  BY <1>4, <1>5, <1>6

LEMMA ParkingCounts ==
  ASSUME RecoveryTypes, NEW s \in Checkouts, Leave(s, "awaiting", "parked"), NEW k
  PROVE  Cardinality(Parkings(k))'
           = Cardinality(Parkings(k)) + (IF OrderOf[s] = k THEN 1 ELSE 0)
<1>1. s \notin Parkings(k)
  BY DEF Leave, Parkings
<1>2. Parkings(k)' = IF OrderOf[s] = k THEN Parkings(k) \cup {s} ELSE Parkings(k)
  BY DEF RecoveryTypes, Leave, Parkings
<1>3. IsFiniteSet(Parkings(k)) /\ Cardinality(Parkings(k)) \in Nat
  BY Countable
<1>4. Cardinality(Parkings(k) \cup {s}) = Cardinality(Parkings(k)) + 1
  BY <1>1, <1>3, FS_AddElement
<1>5. QED
  BY <1>2, <1>3, <1>4

LEMMA ParkingsStay ==
  ASSUME RecoveryTypes, RecoveryTypes', NEW k, Parkings(k) \subseteq Parkings(k)'
  PROVE  Cardinality(Parkings(k)) <= Cardinality(Parkings(k))'
<1>1. Parkings(k)' \in SUBSET Checkouts
  BY DEF Parkings
<1>2. IsFiniteSet(Parkings(k)')
  BY <1>1, FS_Subset, FiniteAssumption
<1>3. QED
  BY <1>2, FS_Subset

LEMMA CopiesNext ==
  ASSUME RecoveryTypes, RecoveryTypes', [Next]_vars, NEW k \in Orders,
         Copies(k) <= Cardinality(Parkings(k))
  PROVE  Copies(k)' <= Cardinality(Parkings(k))'
<1> DEFINE q == Cardinality(Queued(k))
           h == Cardinality(Hands(k))
           p == Cardinality(Parkings(k))
<1>0. q \in Nat /\ h \in Nat /\ p \in Nat /\ q + h <= p
  BY Countable DEF Copies
<1>1. ASSUME q' + h' <= q + h, q' \in Int, h' \in Int, p' >= p, p' \in Int
      PROVE  Copies(k)' <= p'
  BY <1>0, <1>1 DEF Copies
<1>2. p' \in Nat
  <2>1. Parkings(k)' \in SUBSET Checkouts
    BY DEF Parkings
  <2>2. QED
    BY <2>1, FS_Subset, FS_CardinalityType, FiniteAssumption
<1>3. ASSUME UNCHANGED node PROVE p' = p
  BY <1>3 DEF Parkings
<1>4. ASSUME UNCHANGED <<queue, hand>> PROVE q' = q /\ h' = h
  BY <1>4 DEF Queued, Hands, InHand, Entry
<1>5. ASSUME NEW s \in Checkouts, Park(s), Leave(s, "awaiting", "parked"), UNCHANGED hand
      PROVE  Copies(k)' <= p'
  <2> DEFINE e == [order |-> OrderOf[s], attempts |-> 0]
             one == IF OrderOf[s] = k THEN 1 ELSE 0
  <2>1. e \in Entries /\ e.order = OrderOf[s]
    BY CheckoutsAssumption, ReplaysAssumption DEF Entries
  <2>2. q' = q + one
    BY <1>5, <2>1, PushCounts DEF Park
  <2>3. h' = h
    BY <1>5 DEF Hands, InHand, Entry
  <2>4. p' = p + one
    BY <1>5, ParkingCounts
  <2>5. QED
    BY <1>0, <2>2, <2>3, <2>4 DEF Copies
<1>6. ASSUME NEW s \in Checkouts,
             AgentStep(s) \/ ReturnsLate(s) \/ ApplyDecision(s) \/ Deadline(s) \/ AgentDies(s)
      PROVE  Copies(k)' <= p'
  <2>1. CASE ParkFailure(s) \/ Deadline(s)
    BY <1>5, <2>1 DEF ParkFailure, Answered, Deadline
  <2>2. CASE ~(ParkFailure(s) \/ Deadline(s))
    <3>1. UNCHANGED <<queue, hand>>
      BY <1>6, <2>2
         DEF AgentStep, StartCharge, Paid, RetryPayment, Escalate, Hold, ReturnsLate,
             ApplyDecision, AgentDies
    <3>2. Parkings(k) \subseteq Parkings(k)'
      BY <1>6, <2>2
         DEF AgentStep, StartCharge, Paid, RetryPayment, Escalate, Hold, ReturnsLate,
             ApplyDecision, AgentDies, Answered, Leave, Parkings, RecoveryTypes, agent
    <3>3. p' >= p
      BY <3>2, ParkingsStay
    <3>4. QED
      BY <1>0, <1>1, <1>2, <1>4, <3>1, <3>3
  <2>3. QED
    BY <2>1, <2>2
<1>7. ASSUME NEW w \in Workers, Take(w) PROVE Copies(k)' <= p'
  <2>1. p' = p
    BY <1>3, <1>7 DEF Take, agent
  <2>2. q' + h' = q + h /\ q' \in Int /\ h' \in Int
    BY <1>0, <1>7, PopCounts, TakingCounts
  <2>3. QED
    BY <1>0, <1>1, <2>1, <2>2
<1>8. ASSUME NEW w \in Workers, WorkerStep(w) \/ WorkerDies(w), ~Take(w) PROVE Copies(k)' <= p'
  <2>1. p' = p
    BY <1>3, <1>8
       DEF WorkerStep, Attempt, Done, Defer, Fail, Decline, Uncaught, WorkerDies, agent
  <2>2. CASE UNCHANGED <<queue, hand>>
    BY <1>0, <1>1, <1>4, <2>1, <2>2
  <2>3. CASE hand' = [hand EXCEPT ![w] = <<>>] /\ UNCHANGED queue
    <3>1. q' = q
      BY <2>3 DEF Queued
    <3>2. h' = h - (IF InHand(w, k) THEN 1 ELSE 0)
      BY <2>3, EmptyingCounts
    <3>3. QED
      BY <1>0, <1>1, <2>1, <3>1, <3>2
  <2>4. ASSUME NEW e \in Entries, queue' = Append(queue, e), e.order = Entry(w).order,
               hand[w] # <<>>, hand' = [hand EXCEPT ![w] = <<>>]
        PROVE  Copies(k)' <= p'
    <3>1. InHand(w, k) <=> e.order = k
      BY <2>4 DEF InHand
    <3>2. q' = q + (IF e.order = k THEN 1 ELSE 0)
      BY <2>4, PushCounts
    <3>3. h' = h - (IF InHand(w, k) THEN 1 ELSE 0)
      BY <2>4, EmptyingCounts
    <3>4. q' + h' = q + h /\ q' \in Int /\ h' \in Int
      BY <1>0, <3>1, <3>2, <3>3
    <3>5. QED
      BY <1>0, <1>1, <2>1, <3>4
  <2>5. CASE Defer(w) \/ Fail(w)
    <3>1. hand[w] # <<>> /\ hand' = [hand EXCEPT ![w] = <<>>] /\ Entry(w) \in Entries
      BY <2>5, EntryInHand DEF Defer, Fail, Tried
    <3>2. CASE Defer(w)
      BY <2>4, <3>1, <3>2 DEF Defer, Requeue
    <3>3. CASE Fail(w) /\ Entry(w).attempts + 1 >= MaxReplays
      BY <2>3, <3>1, <3>3 DEF Fail
    <3>4. CASE Fail(w) /\ ~(Entry(w).attempts + 1 >= MaxReplays)
      <4> DEFINE f == [Entry(w) EXCEPT !.attempts = @ + 1]
      <4>1. f \in Entries /\ f.order = Entry(w).order
        BY <3>1, <3>4, OneMore DEF Entries
      <4>2. queue' = Append(queue, f)
        BY <3>4 DEF Fail, Requeue
      <4>3. QED
        BY <2>4, <3>1, <4>1, <4>2
    <3>5. QED
      BY <2>5, <3>2, <3>3, <3>4
  <2>6. QED
    BY <1>8, <2>2, <2>3, <2>5 DEF WorkerStep, Attempt, Done, Decline, Uncaught, Tried, WorkerDies
<1>9. CASE Environment \/ (\E c \in Checkouts \cup Workers : ChargeStep(c)) \/ UNCHANGED vars
  <2>1. UNCHANGED <<queue, hand, node>>
    BY <1>9 DEF Environment, ChargeStep, vars, agent
  <2>2. QED
    BY <1>0, <1>1, <1>3, <1>4, <2>1
<1>10. QED
  BY <1>6, <1>7, <1>8, <1>9 DEF Next

(***************************************************************************)
(* Deferring and requeueing move entries and never copy them: an order is  *)
(* in the queue and in hands at most as often as it was parked, for any    *)
(* number of workers on one queue.                                         *)
(***************************************************************************)
THEOREM EntriesAreNotCopied == Spec => []NoEntryMultiplied
<1> DEFINE I == \A k \in Orders : Copies(k) <= Cardinality(Parkings(k))
<1>1. Init => I
  <2> SUFFICES ASSUME Init, NEW k \in Orders PROVE Copies(k) <= Cardinality(Parkings(k))
    OBVIOUS
  <2>1. Queued(k) = {} /\ Hands(k) = {} /\ Parkings(k) = {}
    BY DEF Init, Queued, Hands, InHand, Parkings
  <2>2. QED
    BY <2>1, FS_EmptySet DEF Copies
<1>2. (RecoveryTypes /\ MayTry) /\ (RecoveryTypes /\ MayTry)' /\ I /\ [Next]_vars => I'
  BY CopiesNext
<1>3. I => NoEntryMultiplied
  BY DEF Copies, Hands, Parkings, NoEntryMultiplied
<1> HIDE DEF I
<1>4. QED
  BY <1>1, <1>2, <1>3, RecoveryHolds, PTL DEF Spec

-----------------------------------------------------------------------------
(* When nobody dies, no deadline fires and no order is placed twice *)

LEMMA NobodyDies ==
  ASSUME TypeOK, MaxDeaths = 0, ~Timeouts
  PROVE  /\ \A c : ~Idem!Crash(c)
         /\ \A s \in Checkouts : ~AgentDies(s) /\ ~Deadline(s)
         /\ \A w \in Workers : ~WorkerDies(w)
BY DEF TypeOK, Idem!TypeOK, Idem!Crash, AgentDies, Deadline, WorkerDies

(* Two callers that are at work on one order are one. *)
AloneAtWork == \A c, d \in Callers : Engaged(c) /\ Engaged(d) /\ order[c] = order[d] => c = d

LEMMA OneEngaged ==
  ASSUME Roles, AwaitedOnly, OneOwner, EachOnce
  PROVE  AloneAtWork
<1> SUFFICES ASSUME NEW c \in Callers, NEW d \in Callers,
                    Engaged(c), Engaged(d), order[c] = order[d]
             PROVE  c = d
  BY DEF AloneAtWork
<1>1. CASE c \in Checkouts /\ d \in Checkouts
  BY <1>1 DEF Roles, OwnOrder, EachOnce
<1>2. CASE c \in Workers /\ d \in Workers
  BY <1>2 DEF Roles, WorksOnEntry, OneOwner, InHand
<1>3. ASSUME NEW s \in Checkouts, NEW w \in Workers, Engaged(s), Engaged(w), order[s] = order[w]
      PROVE  FALSE
  BY <1>3 DEF Roles, OwnOrder, WorksOnEntry, AwaitedOnly, OneOwner, InAgent, InHand
<1>4. QED
  BY <1>1, <1>2, <1>3 DEF Callers

Explained == ClaimingIsNew /\ LockIsExplained /\ NeverInFlight

(* Nobody finds the claim on an order taken if nobody else is at work on it. *)
LEMMA ExplainedNext ==
  ASSUME Idem!TypeOK, Idem!TypeOK', Money!StoringIsPaid, AloneAtWork, Explained,
         \A c : ~Idem!Crash(c), [Idem!Next]_(Idem!vars)
  PROVE  Explained'
<1> USE DEF Callers, Explained, ClaimingIsNew, LockIsExplained, NeverInFlight, Idem!TypeOK,
            Idem!Positions, Idem!Outcomes, Idem!Exceptions, Idem!Holding, Idem!Holds,
            Idem!None, Idem!redis, Idem!local
<1>1. ASSUME NEW c \in Callers, NEW k \in Orders, Idem!Run(c, k) PROVE Explained'
  BY <1>1 DEF Idem!Run, Idem!Go
<1>2. ASSUME NEW c \in Callers, Idem!Replay(c) PROVE Explained'
  BY <1>2 DEF Idem!Replay, Idem!Go
<1>3. ASSUME NEW c \in Callers, Idem!NoRecord(c) PROVE Explained'
  BY <1>3 DEF Idem!NoRecord, Idem!Go
<1>4. ASSUME NEW c \in Callers, Idem!Claim(c) PROVE Explained'
  BY <1>4 DEF Idem!Claim, Idem!Go
<1>5. ASSUME NEW c \in Callers, Idem!InFlight(c) PROVE FALSE
  <2>1. lock[order[c]] /\ pc[c] = "claim" /\ order[c] \in Orders
    BY <1>5 DEF Idem!InFlight, Idem!Go
  <2>2. PICK d \in Callers : Idem!Holds(d, order[c])
    BY <2>1
  <2>3. d = c
    BY <2>1, <2>2 DEF AloneAtWork, Engaged
  <2>4. QED
    BY <2>1, <2>2, <2>3
<1>6. ASSUME NEW c \in Callers, Idem!Deduplicate(c) \/ Idem!NotSeen(c) PROVE Explained'
  BY <1>6 DEF Idem!Deduplicate, Idem!NotSeen, Idem!Go
<1>7. ASSUME NEW c \in Callers, Idem!Charge(c) PROVE Explained'
  BY <1>7 DEF Idem!Charge, Idem!Go
<1>8. ASSUME NEW c \in Callers, Idem!Refuse(c) \/ Idem!Fail(c) \/ Idem!Decline(c) PROVE Explained'
  BY <1>8 DEF Idem!Refuse, Idem!Fail, Idem!Decline, Idem!Raise, Idem!Go
<1>9. ASSUME NEW c \in Callers, Idem!Store(c) PROVE Explained'
  <2>1. pc[c] = "store" /\ receipt[c] # 0 /\ order[c] \in Orders
    BY <1>9 DEF Idem!Store, Idem!Go, Money!StoringIsPaid
  <2>2. \A d \in Callers : pc[d] = "claim" => order[d] # order[c]
    BY <2>1 DEF AloneAtWork, Engaged
  <2>3. /\ result' = [result EXCEPT ![order[c]] = receipt[c]]
        /\ outcome' = [outcome EXCEPT ![c] = "receipt"]
        /\ pc' = [pc EXCEPT ![c] = "idle"] /\ UNCHANGED <<lock, order>>
    BY <1>9 DEF Idem!Store, Idem!Go
  <2>4. ClaimingIsNew' /\ NeverInFlight'
    BY <2>2, <2>3
  <2>5. LockIsExplained'
    BY <2>1, <2>3
  <2>6. QED
    BY <2>4, <2>5
<1>10. ASSUME NEW c \in Callers, Idem!Release(c) \/ Idem!Return(c) PROVE Explained'
  BY <1>10 DEF Idem!Release, Idem!Return, Idem!Go
<1>11. ASSUME NEW k \in Orders, Idem!LockExpires(k) \/ Idem!ResultExpires(k) PROVE Explained'
  BY <1>11 DEF Idem!LockExpires, Idem!ResultExpires
<1>12. CASE Idem!LedgerExpires \/ Idem!Outage \/ UNCHANGED Idem!vars
  BY <1>12 DEF Idem!LedgerExpires, Idem!Outage, Idem!vars
<1>13. QED
  BY <1>1, <1>2, <1>3, <1>4, <1>5, <1>6, <1>7, <1>8, <1>9, <1>10, <1>11, <1>12
     DEF Idem!Next, Idem!Continue

LEMMA AwaitedNext ==
  ASSUME Roles, AwaitedOnly, MaxDeaths = 0, ~Timeouts, [Next]_vars
  PROVE  AwaitedOnly'
<1> USE CheckoutsAssumption DEF AwaitedOnly, Engaged
<1>0. /\ Idem!TypeOK /\ pc \in [Callers -> Idem!Positions]
      /\ outcome \in [Callers -> Idem!Outcomes] /\ node \in [Checkouts -> Nodes]
  BY DEF Roles, TypeOK, Idem!TypeOK, Callers
<1>1. ASSUME NEW c \in Callers, ChargeStep(c) PROVE AwaitedOnly'
  <2>1. UNCHANGED node
    BY <1>1 DEF ChargeStep, agent
  <2>2. QED
    BY <1>0, <1>1, <2>1, Charging DEF Callers
<1>2. ASSUME NEW s \in Checkouts, StartCharge(s) PROVE AwaitedOnly'
  BY <1>0, <1>2 DEF StartCharge, Leave, Idem!Run, Idem!Go
<1>3. ASSUME NEW s \in Checkouts, NEW to, Answered(s, to) PROVE AwaitedOnly'
  BY <1>0, <1>3 DEF Answered, Leave, Idem!Return, Callers
<1>4. ASSUME NEW s \in Checkouts, Hold(s) \/ ApplyDecision(s) PROVE AwaitedOnly'
  BY <1>0, <1>4 DEF Hold, ApplyDecision, Leave, charge
<1>5. ASSUME NEW s \in Checkouts PROVE ~ReturnsLate(s)
  BY DEF ReturnsLate, Idem!Return
<1>6. ASSUME NEW w \in Workers, WorkerStep(w) PROVE AwaitedOnly'
  <2>1. UNCHANGED node /\ \A s \in Checkouts : pc'[s] = pc[s] /\ outcome'[s] = outcome[s]
    BY <1>0, <1>6
       DEF WorkerStep, Take, Attempt, Done, Defer, Fail, Decline, Uncaught, Tried, agent, charge,
           Idem!Run, Idem!Go, Idem!Return, Callers
  <2>2. QED
    BY <2>1
<1>7. CASE UNCHANGED <<node, pc, outcome>>
  BY <1>7
<1>8. ASSUME NEW s \in Checkouts, AgentStep(s) PROVE AwaitedOnly'
  BY <1>2, <1>3, <1>4, <1>8 DEF AgentStep, Paid, RetryPayment, Escalate, ParkFailure
<1>9. CASE Environment \/ UNCHANGED vars
  BY <1>7, <1>9 DEF Environment, Idem!LockExpires, Idem!ResultExpires, Idem!LedgerExpires,
                    Idem!Outage, Idem!local, agent, vars, charge
<1>10. QED
  BY <1>1, <1>4, <1>5, <1>6, <1>8, <1>9, NobodyDies DEF Next, Callers, Roles

LEMMA OwnerNext ==
  ASSUME Roles, AwaitedOnly, OneOwner, EachOnce, MaxDeaths = 0, ~Timeouts, [Next]_vars
  PROVE  OneOwner'
<1>0. TypeOK /\ RecoveryTypes
  BY DEF Roles, TypeOK, RecoveryTypes
<1>1. ASSUME UNCHANGED <<queue, hand>>, \A s \in Checkouts : InAgent(s)' => InAgent(s)
      PROVE  OneOwner'
  BY <1>1 DEF OneOwner, Queued, InHand, Entry
<1>2. ASSUME NEW s \in Checkouts, ParkFailure(s) PROVE OneOwner'
  <2> DEFINE e == [order |-> OrderOf[s], attempts |-> 0]
             k == OrderOf[s]
             n == Len(queue) + 1
  <2>1. e \in Entries /\ e.order = k
    BY CheckoutsAssumption, ReplaysAssumption DEF Entries
  <2>2. /\ DOMAIN queue' = DOMAIN queue \cup {n} /\ n \notin DOMAIN queue
        /\ \A i \in DOMAIN queue : queue'[i] = queue[i]
        /\ queue'[n].order = k
    BY <1>0, <1>2, <2>1, Pushed DEF ParkFailure, Park
  <2>3. UNCHANGED hand /\ node[s] = "awaiting" /\ node' = [node EXCEPT ![s] = "parked"]
    BY <1>2 DEF ParkFailure, Answered, Leave
  <2>4. (\A i \in DOMAIN queue : queue[i].order # k) /\ \A w \in Workers : ~InHand(w, k)
    BY <2>3 DEF OneOwner, InAgent, Queued
  <2>5. \A t \in Checkouts : InAgent(t)' => InAgent(t) /\ t # s /\ OrderOf[t] # k
    BY <1>0, <2>3 DEF InAgent, EachOnce, RecoveryTypes
  <2>6. \A i, j \in DOMAIN queue' : queue'[i].order = queue'[j].order => i = j
    BY <2>2, <2>4 DEF OneOwner
  <2>7. QED
    BY <2>2, <2>3, <2>4, <2>5, <2>6 DEF OneOwner, InHand, Entry, Queued
<1>3. ASSUME NEW w \in Workers, Take(w) PROVE OneOwner'
  <2>1. /\ DOMAIN queue' = 1 .. Len(queue) - 1 /\ DOMAIN queue = 1 .. Len(queue)
        /\ Len(queue) \in Nat /\ 1 \in DOMAIN queue
        /\ \A i \in DOMAIN queue' : queue'[i] = queue[i + 1]
        /\ hand'[w] # <<>> /\ Entry(w)' = queue[1]
    BY <1>0, <1>3, Popped
  <2>2. (\A v \in Workers \ {w} : hand'[v] = hand[v]) /\ hand[w] = <<>> /\ UNCHANGED node
    BY <1>0, <1>3 DEF Take, RecoveryTypes, agent
  <2>3. \A i \in DOMAIN queue' : i + 1 \in DOMAIN queue /\ i + 1 # 1
    BY <2>1
  <2>4. \A i, j \in DOMAIN queue' : queue'[i].order = queue'[j].order => i = j
    BY <2>1, <2>3 DEF OneOwner
  <2>5. \A i \in DOMAIN queue' : \A v \in Workers :
          ~(hand'[v] # <<>> /\ Head(hand'[v]).order = queue'[i].order)
    BY <2>1, <2>2, <2>3 DEF OneOwner, InHand, Entry
  <2>6. \A v, u \in Workers :
          hand'[v] # <<>> /\ hand'[u] # <<>> /\ Head(hand'[u]).order = Head(hand'[v]).order
            => v = u
    BY <2>1, <2>2 DEF OneOwner, InHand, Entry
  <2>7. ASSUME NEW s \in Checkouts, InAgent(s)'
        PROVE  /\ \A i \in DOMAIN queue' : queue'[i].order # OrderOf[s]
               /\ \A v \in Workers : ~(hand'[v] # <<>> /\ Head(hand'[v]).order = OrderOf[s])
    BY <2>1, <2>2, <2>3, <2>7 DEF OneOwner, InAgent, Queued, InHand, Entry
  <2>8. QED
    BY <2>4, <2>5, <2>6, <2>7 DEF OneOwner, Queued, InHand, Entry
<1>4. ASSUME NEW w \in Workers, hand' = [hand EXCEPT ![w] = <<>>], UNCHANGED <<queue, node>>
      PROVE  OneOwner'
  BY <1>0, <1>4 DEF RecoveryTypes, OneOwner, InAgent, Queued, InHand, Entry
<1>5. ASSUME NEW w \in Workers, NEW e \in Entries, hand[w] # <<>>, e.order = Entry(w).order,
             queue' = Append(queue, e), hand' = [hand EXCEPT ![w] = <<>>], UNCHANGED node
      PROVE  OneOwner'
  <2> DEFINE n == Len(queue) + 1
  <2>1. /\ DOMAIN queue' = DOMAIN queue \cup {n} /\ n \notin DOMAIN queue
        /\ \A i \in DOMAIN queue : queue'[i] = queue[i]
        /\ queue'[n] = e
    BY <1>0, <1>5, Pushed
  <2>2. (\A v \in Workers \ {w} : hand'[v] = hand[v]) /\ hand'[w] = <<>>
    BY <1>0, <1>5 DEF RecoveryTypes
  <2>3. \A i \in DOMAIN queue : queue[i].order # e.order
    BY <1>5 DEF OneOwner, InHand
  <2>4. \A i, j \in DOMAIN queue' : queue'[i].order = queue'[j].order => i = j
    BY <2>1, <2>3 DEF OneOwner
  <2>5. \A i \in DOMAIN queue' : \A v \in Workers :
          ~(hand'[v] # <<>> /\ Head(hand'[v]).order = queue'[i].order)
    BY <1>5, <2>1, <2>2 DEF OneOwner, InHand, Entry
  <2>6. \A v, u \in Workers :
          hand'[v] # <<>> /\ hand'[u] # <<>> /\ Head(hand'[u]).order = Head(hand'[v]).order
            => v = u
    BY <2>2 DEF OneOwner, InHand, Entry
  <2>7. ASSUME NEW s \in Checkouts, InAgent(s)'
        PROVE  /\ \A i \in DOMAIN queue' : queue'[i].order # OrderOf[s]
               /\ \A v \in Workers : ~(hand'[v] # <<>> /\ Head(hand'[v]).order = OrderOf[s])
    BY <1>5, <2>1, <2>2, <2>7 DEF OneOwner, InAgent, Queued, InHand, Entry
  <2>8. QED
    BY <2>4, <2>5, <2>6, <2>7 DEF OneOwner, Queued, InHand, Entry
<1>6. ASSUME NEW w \in Workers, Defer(w) \/ Fail(w) PROVE OneOwner'
  <2>1. /\ hand[w] # <<>> /\ hand' = [hand EXCEPT ![w] = <<>>] /\ UNCHANGED node
        /\ Entry(w) \in Entries
    BY <1>0, <1>6, EntryInHand DEF Defer, Fail, Tried, agent
  <2>2. CASE Defer(w)
    BY <1>5, <2>1, <2>2 DEF Defer, Requeue
  <2>3. CASE Fail(w) /\ Entry(w).attempts + 1 >= MaxReplays
    BY <1>4, <2>1, <2>3 DEF Fail
  <2>4. CASE Fail(w) /\ ~(Entry(w).attempts + 1 >= MaxReplays)
    <3> DEFINE f == [Entry(w) EXCEPT !.attempts = @ + 1]
    <3>1. f \in Entries /\ f.order = Entry(w).order
      BY <2>1, <2>4, OneMore DEF Entries
    <3>2. queue' = Append(queue, f)
      BY <2>4 DEF Fail, Requeue
    <3>3. QED
      BY <1>5, <2>1, <3>1, <3>2
  <2>5. QED
    BY <1>6, <2>2, <2>3, <2>4
<1>7. ASSUME NEW s \in Checkouts,
             AgentStep(s) \/ ReturnsLate(s) \/ ApplyDecision(s), ~ParkFailure(s)
      PROVE  OneOwner'
  <2>1. UNCHANGED <<queue, hand>>
    BY <1>7 DEF AgentStep, StartCharge, Paid, RetryPayment, Escalate, Hold, ReturnsLate, ApplyDecision
  <2>2. \A t \in Checkouts : InAgent(t)' => InAgent(t)
    BY <1>0, <1>7
       DEF AgentStep, StartCharge, Paid, RetryPayment, Escalate, Hold, ReturnsLate, ApplyDecision,
           Answered, Leave, InAgent, RecoveryTypes, agent
  <2>3. QED
    BY <1>1, <2>1, <2>2
<1>8. ASSUME NEW w \in Workers, Attempt(w) PROVE OneOwner'
  BY <1>1, <1>8 DEF Attempt, agent, InAgent
<1>9. ASSUME NEW w \in Workers, Done(w) \/ Decline(w) \/ Uncaught(w) PROVE OneOwner'
  BY <1>4, <1>9 DEF Done, Decline, Uncaught, Tried, agent
<1>10. CASE Environment \/ (\E c \in Checkouts \cup Workers : ChargeStep(c)) \/ UNCHANGED vars
  BY <1>1, <1>10 DEF Environment, ChargeStep, vars, agent, InAgent
<1>11. QED
  BY <1>0, <1>2, <1>3, <1>6, <1>7, <1>8, <1>9, <1>10, NobodyDies DEF Next, WorkerStep, AgentStep

(* Money is taken from an order its checkout still has only by that checkout. *)
LEMMA UnpaidNext ==
  ASSUME Roles, Money!Answers, AwaitedOnly, OneOwner, EachOnce, AgentUnpaid,
         MaxDeaths = 0, ~Timeouts, [Next]_vars
  PROVE  AgentUnpaid'
<1>0. /\ Idem!TypeOK /\ pc \in [Callers -> Idem!Positions] /\ order \in [Callers -> Orders]
      /\ outcome \in [Callers -> Idem!Outcomes] /\ node \in [Checkouts -> Nodes]
      /\ captured \in [Orders -> Nat]
  BY DEF Roles, TypeOK, Idem!TypeOK, Callers
<1>1. ASSUME NEW c \in Callers, Idem!Charge(c), UNCHANGED node PROVE AgentUnpaid'
  <2>1. /\ pc[c] = "charge" /\ pc' = [pc EXCEPT ![c] = "store"] /\ UNCHANGED outcome
        /\ \A k \in Orders \ {order[c]} : captured'[k] = captured[k]
    BY <1>0, <1>1 DEF Idem!Charge, Idem!Go
  <2>2. ASSUME NEW s \in Checkouts, InAgent(s), OrderOf[s] = order[c] PROVE c = s
    BY <2>1, <2>2 DEF Callers, Roles, OwnOrder, WorksOnEntry, Engaged, EachOnce, OneOwner, InHand
  <2>3. \A s \in Checkouts : pc'[s] # "store" => s # c /\ pc[s] # "store"
    BY <1>0, <2>1 DEF Callers
  <2>4. QED
    BY <1>1, <2>1, <2>2, <2>3, CheckoutsAssumption DEF AgentUnpaid, InAgent
<1>2. ASSUME NEW c \in Callers, Idem!Continue(c), ~Idem!Charge(c), UNCHANGED node
      PROVE  AgentUnpaid'
  <2>1. UNCHANGED captured
    BY <1>2 DEF Idem!Continue, Idem!Replay, Idem!NoRecord, Idem!Claim, Idem!InFlight,
         Idem!Deduplicate, Idem!NotSeen, Idem!Refuse, Idem!Fail, Idem!Decline, Idem!Raise,
         Idem!Store, Idem!Release
  <2>2. ASSUME NEW s \in Checkouts, pc'[s] # "store", outcome'[s] # "receipt"
        PROVE  pc[s] # "store" /\ outcome[s] # "receipt"
    <3>1. pc[c] \notin {"idle", "release"} => outcome[c] = "none"
      BY DEF Money!Answers, Money!OutcomeIsLast, Callers
    <3>2. CASE s = c
      BY <1>0, <1>2, <2>2, <3>1, <3>2
         DEF Callers, Idem!Continue, Idem!Replay, Idem!NoRecord, Idem!Claim, Idem!InFlight,
             Idem!Deduplicate, Idem!NotSeen, Idem!Refuse, Idem!Fail, Idem!Decline, Idem!Raise,
             Idem!Store, Idem!Release, Idem!Go
    <3>3. CASE s # c
      BY <1>0, <1>2, <2>2, <3>3
         DEF Callers, Idem!Continue, Idem!Replay, Idem!NoRecord, Idem!Claim, Idem!InFlight,
             Idem!Deduplicate, Idem!NotSeen, Idem!Refuse, Idem!Fail, Idem!Decline, Idem!Raise,
             Idem!Store, Idem!Release, Idem!Go
    <3>4. QED
      BY <3>2, <3>3
  <2>3. QED
    BY <1>2, <2>1, <2>2 DEF AgentUnpaid, InAgent
<1>3. ASSUME NEW c \in Callers, ChargeStep(c) PROVE AgentUnpaid'
  BY <1>1, <1>2, <1>3 DEF ChargeStep, agent
<1>4. ASSUME NEW s \in Checkouts, StartCharge(s) PROVE AgentUnpaid'
  BY <1>0, <1>4 DEF StartCharge, Leave, Idem!Run, Idem!Go, AgentUnpaid, InAgent, Callers
<1>5. ASSUME NEW s \in Checkouts, RetryPayment(s) PROVE AgentUnpaid'
  BY <1>0, <1>5 DEF RetryPayment, Answered, Leave, Idem!Return, AgentUnpaid, InAgent, Callers
<1>6. ASSUME NEW s \in Checkouts, NEW to, Answered(s, to), to \notin {"reserved", "awaiting"}
      PROVE  AgentUnpaid'
  BY <1>0, <1>6 DEF Answered, Leave, Idem!Return, AgentUnpaid, InAgent, Callers
<1>7. ASSUME NEW s \in Checkouts, Hold(s) \/ ApplyDecision(s) PROVE AgentUnpaid'
  BY <1>0, <1>7 DEF Hold, ApplyDecision, Leave, charge, AgentUnpaid, InAgent
<1>8. ASSUME NEW s \in Checkouts PROVE ~ReturnsLate(s)
  BY DEF ReturnsLate, Idem!Return, AwaitedOnly, Engaged
<1>9. ASSUME NEW w \in Workers, WorkerStep(w) PROVE AgentUnpaid'
  <2>1. /\ UNCHANGED <<node, captured>>
        /\ \A s \in Checkouts : pc'[s] = pc[s] /\ outcome'[s] = outcome[s]
    BY <1>0, <1>9, CheckoutsAssumption
       DEF WorkerStep, Take, Attempt, Done, Defer, Fail, Decline, Uncaught, Tried, agent, charge,
           Idem!Run, Idem!Go, Idem!Return, Callers
  <2>2. QED
    BY <2>1 DEF AgentUnpaid, InAgent
<1>10. CASE Environment \/ UNCHANGED vars
  BY <1>10 DEF Environment, Idem!LockExpires, Idem!ResultExpires, Idem!LedgerExpires,
               Idem!Outage, Idem!local, agent, vars, charge, AgentUnpaid, InAgent
<1>11. QED
  BY <1>3, <1>4, <1>5, <1>6, <1>7, <1>8, <1>9, <1>10, NobodyDies
     DEF Next, AgentStep, Paid, Escalate, ParkFailure, Callers, Roles

LEMMA CalmNext ==
  ASSUME MaxDeaths = 0, ~Timeouts, EachOnce, Calm, Roles', Money!Answers, [Next]_vars
  PROVE  Calm'
<1>1. AwaitedOnly'
  BY AwaitedNext DEF Calm
<1>2. OneOwner'
  BY OwnerNext DEF Calm
<1>3. AgentUnpaid'
  BY UnpaidNext DEF Calm
<1>4. Explained'
  <2>1. AloneAtWork
    BY OneEngaged DEF Calm
  <2>2. Idem!TypeOK /\ Idem!TypeOK' /\ RecoveryTypes /\ TypeOK
    BY DEF Calm, Roles, TypeOK, RecoveryTypes
  <2>3. [Idem!Next]_(Idem!vars)
    BY <2>2, MoneyStep
  <2>4. Money!StoringIsPaid /\ Explained
    BY DEF Money!Answers, Calm, Explained
  <2>5. QED
    BY <2>1, <2>2, <2>3, <2>4, NobodyDies, ExplainedNext
<1>5. NothingDropped'
  <2>1. \A w \in Workers : ~Uncaught(w)
    BY DEF Uncaught, Tried, Calm, NeverInFlight, Callers
  <2>2. UNCHANGED dropped
    BY <2>1, NobodyDies
       DEF Calm, Roles, Next, AgentStep, WorkerStep, ChargeStep, Environment, vars, history,
           StartCharge, Paid, RetryPayment, Escalate, ParkFailure, Hold, ReturnsLate, ApplyDecision,
           Take, Attempt, Done, Defer, Fail, Decline
  <2>3. QED
    BY <2>2 DEF Calm, NothingDropped
<1>6. QED
  BY <1>1, <1>2, <1>3, <1>4, <1>5 DEF Calm, Explained

LEMMA CalmHolds ==
  ASSUME MaxDeaths = 0, ~Timeouts, EachOnce
  PROVE  Spec => []Calm
<1>1. Init /\ Roles => Calm
  BY DEF Init, Calm, AwaitedOnly, OneOwner, ClaimingIsNew, LockIsExplained, NeverInFlight,
         AgentUnpaid, NothingDropped, Engaged, InAgent, InHand, Queued, Callers, Idem!Init,
         CheckoutsAssumption
<1>2. Roles' /\ Money!Answers /\ Calm /\ [Next]_vars => Calm'
  BY CalmNext
<1>3. QED
  BY <1>1, <1>2, RolesHold, AnswersHold, PTL DEF Spec

(***************************************************************************)
(* Parking an order is a real recovery (the doc of replay_worker.py) as    *)
(* long as no call outlasts its deadline, nobody dies and no order is      *)
(* placed twice: then no worker ever runs into a claim it does not expect, *)
(* however many workers there are and even if claims expire too early.     *)
(***************************************************************************)
THEOREM CalmDropsNothing ==
  ASSUME MaxDeaths = 0, ~Timeouts, EachOnce
  PROVE  Spec => []NothingDropped
<1>1. Calm => NothingDropped
  BY DEF Calm
<1>2. QED
  BY <1>1, CalmHolds, PTL

(***************************************************************************)
(* Under the same conditions the charge node parks an order only while its *)
(* money has not been taken, so "nothing was charged" is true when it is   *)
(* told.                                                                   *)
(***************************************************************************)
THEOREM ParkingIsFree ==
  ASSUME MaxDeaths = 0, ~Timeouts, EachOnce
  PROVE  Spec => ParkedUncharged
<1>1. ASSUME Calm, NEW s \in Checkouts, ParkFailure(s) PROVE captured[OrderOf[s]] = 0
  BY <1>1 DEF Calm, AgentUnpaid, InAgent, ParkFailure, Answered, Leave, Idem!Return
<1>2. Calm /\ [Next]_vars
        => [\A s \in Checkouts : ParkFailure(s) => captured[OrderOf[s]] = 0]_vars
  BY <1>1
<1>3. QED
  BY <1>2, CalmHolds, PTL DEF Spec, ParkedUncharged

=============================================================================

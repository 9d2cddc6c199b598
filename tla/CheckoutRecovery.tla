-------------------------- MODULE CheckoutRecovery --------------------------
(***************************************************************************)
(* The recovery half of the checkout of chapter 8, stage 4: the guarded    *)
(* charge node of the agent (agent.py), the dead letter queue              *)
(* (reliability.py) and the replay worker that drains it                   *)
(* (replay_worker.py).  The charge itself is IdempotentCharge: a checkout's *)
(* worker thread and a replay worker are two of its callers.               *)
(*                                                                         *)
(* A checkout awaits its thread, but nothing stops the thread: when the    *)
(* node's deadline fires the node goes on without it and the thread runs   *)
(* to its end.                                                             *)
(***************************************************************************)
EXTENDS Naturals, Sequences, FiniteSets

CONSTANTS
  Checkouts,          \* runs of the checkout graph
  Workers,            \* replay workers
  Orders,             \* order ids minted from session and order
  OrderOf,            \* the order id of each checkout
  MaxAttempts,        \* PAYMENT_RETRY.max_attempts
  MaxReplays,         \* MAX_REPLAYS
  Timeouts,           \* whether a call may outlast PAYMENT_TIMEOUT
  LockOutlivesCalls,
  MaxDays,
  MaxDeaths

ASSUME CheckoutsAssumption ==
  /\ OrderOf \in [Checkouts -> Orders]
  /\ Checkouts \cap Workers = {}

ASSUME ReplaysAssumption ==
  /\ MaxAttempts \in Nat \ {0}
  /\ MaxReplays \in Nat \ {0}
  /\ Timeouts \in BOOLEAN

\* Only so many checkouts and workers were ever started.
ASSUME FiniteAssumption == IsFiniteSet(Checkouts) /\ IsFiniteSet(Workers)

\* Those of IdempotentCharge.
ASSUME ChargeAssumption ==
  /\ LockOutlivesCalls \in BOOLEAN
  /\ MaxDays \in Nat /\ MaxDeaths \in Nat

VARIABLES
  result, lock, ledger, serving, pc, order, receipt, outcome, days, deaths,
  captured, told,
  node,       \* how far the graph of each checkout is
  attempts,   \* how often each checkout started its charge node
  queue,      \* dlq:checkout, the oldest entry first
  hand,       \* the entry each worker popped, <<>> while it waits for one
  escalated,  \* dlq:checkout:escalated
  dropped,    \* history: orders whose entry went down with a worker
  failed      \* history: how often the workers found the gateway down

charge   == <<result, lock, ledger, serving, pc, order, receipt, outcome,
              days, deaths, captured, told>>
agent    == <<node, attempts>>
history  == <<dropped, failed>>
vars     == <<charge, agent, queue, hand, escalated, history>>

Idem == INSTANCE IdempotentCharge WITH Callers <- Checkouts \cup Workers

Nodes == {"reserved", "awaiting", "paid", "parked", "held", "asked", "decided",
          "lost"}

Entries == [order : Orders, attempts : 0 .. MaxReplays - 1]

Reasons == {"replays exhausted", "declined"}

TypeOK ==
  /\ Idem!TypeOK
  /\ node \in [Checkouts -> Nodes]
  /\ attempts \in [Checkouts -> 0 .. MaxAttempts]
  /\ queue \in Seq(Entries)
  /\ hand \in [Workers -> {<<>>} \cup {<<e>> : e \in Entries}]
  /\ escalated \subseteq [order : Orders, reason : Reasons]
  /\ dropped \subseteq Orders
  /\ failed \in [Orders -> Nat]

Init ==
  /\ Idem!Init
  /\ \A s \in Checkouts : order[s] = OrderOf[s]
  /\ node = [s \in Checkouts |-> "reserved"]
  /\ attempts = [s \in Checkouts |-> 0]
  /\ queue = <<>>
  /\ hand = [w \in Workers |-> <<>>]
  /\ escalated = {}
  /\ dropped = {}
  /\ failed = [k \in Orders |-> 0]

-----------------------------------------------------------------------------
(* The charge: threads and workers at work inside IdempotencyStore.run *)

ChargeStep(c) ==
  /\ Idem!Continue(c)
  /\ UNCHANGED <<agent, queue, hand, escalated, history>>

Environment ==
  /\ \/ \E k \in Orders : Idem!LockExpires(k) \/ Idem!ResultExpires(k)
     \/ Idem!LedgerExpires
     \/ Idem!Outage
  /\ UNCHANGED <<agent, queue, hand, escalated, history>>

-----------------------------------------------------------------------------
(* The agent: charge, guarded_charge, hold, escalate, apply_decision *)

Leave(s, from, to) ==
  /\ node[s] = from
  /\ node' = [node EXCEPT ![s] = to]

\* The thread of s returns or raises, and the node that awaits it learns how.
Answered(s, to) ==
  /\ Leave(s, "awaiting", to)
  /\ Idem!Return(s)

\* LPUSH of a new entry.
Park(s) == queue' = Append(queue, [order |-> OrderOf[s], attempts |-> 0])

\* The charge node hands idempotency.run to a thread and awaits it.
StartCharge(s) ==
  /\ Leave(s, "reserved", "awaiting")
  /\ attempts' = [attempts EXCEPT ![s] = @ + 1]
  /\ Idem!Run(s, OrderOf[s])
  /\ UNCHANGED <<queue, hand, escalated, history>>

\* Mutant: a charge that is already in flight is taken for a charge made.
PaidInFlight(s) ==
  /\ outcome[s] \in {"receipt", "RuntimeError"}
  /\ Answered(s, "paid")
  /\ UNCHANGED <<attempts, queue, hand, escalated, history>>

Paid(s) ==
  /\ outcome[s] = "receipt"
  /\ Answered(s, "paid")
  /\ UNCHANGED <<attempts, queue, hand, escalated, history>>

\* PAYMENT_RETRY lists one exception.
RetryPayment(s) ==
  /\ outcome[s] = "PaymentGatewayUnavailable" /\ attempts[s] < MaxAttempts
  /\ Answered(s, "reserved")
  /\ UNCHANGED <<attempts, queue, hand, escalated, history>>

\* PERMANENT failures go to a person.
Escalate(s) ==
  /\ outcome[s] = "PaymentDeclined"
  /\ Answered(s, "asked")
  /\ UNCHANGED <<attempts, queue, hand, escalated, history>>

\* Everything else is parked.
ParkFailure(s) ==
  /\ \/ outcome[s] \in {"CircuitOpen", "RuntimeError"}
     \/ outcome[s] = "PaymentGatewayUnavailable" /\ attempts[s] = MaxAttempts
  /\ Answered(s, "parked")
  /\ Park(s)
  /\ UNCHANGED <<attempts, hand, escalated, history>>

\* Nobody awaits a thread that outlived its node.
ReturnsLate(s) ==
  /\ node[s] # "awaiting"
  /\ Idem!Return(s)
  /\ UNCHANGED <<agent, queue, hand, escalated, history>>

\* NodeTimeoutError is not on PAYMENT_RETRY's list either.
Deadline(s) ==
  /\ Timeouts
  /\ Leave(s, "awaiting", "parked")
  /\ Park(s)
  /\ UNCHANGED <<charge, attempts, hand, escalated, history>>

\* The order is put on hold and the customer told so.
Hold(s) ==
  /\ Leave(s, "parked", "held")
  /\ UNCHANGED <<charge, attempts, queue, hand, escalated, history>>

\* Whatever the person chooses is recorded, and nothing else is done.
ApplyDecision(s) ==
  /\ Leave(s, "asked", "decided")
  /\ UNCHANGED <<charge, attempts, queue, hand, escalated, history>>

\* A checkout dies, its thread with it.  The death of a process that several
\* checkouts share is their deaths, one after the other.
AgentDies(s) ==
  /\ Idem!Crash(s)
  /\ node' = [node EXCEPT ![s] = IF @ \in {"awaiting", "parked"} THEN "lost" ELSE @]
  /\ UNCHANGED <<attempts, queue, hand, escalated, history>>

-----------------------------------------------------------------------------
(* The replay worker: run_once and attempt *)

Entry(w) == Head(hand[w])

\* The attempt on the entry in hand comes to o, and run_once is done with it.
Tried(w, o) ==
  /\ hand[w] # <<>>
  /\ outcome[w] = o
  /\ Idem!Return(w)
  /\ hand' = [hand EXCEPT ![w] = <<>>]

Requeue(e) == queue' = Append(queue, e)

\* escalations.park
EscalateEntry(w, reason) ==
  escalated' = escalated \cup {[order |-> Entry(w).order, reason |-> reason]}

\* Mutant: the worker wakes up for more than one entry.
TakeLate(w) ==
  /\ hand[w] = <<>> /\ Len(queue) > 1
  /\ hand' = [hand EXCEPT ![w] = <<Head(queue)>>]
  /\ queue' = Tail(queue)
  /\ UNCHANGED <<charge, agent, escalated, history>>

\* BRPOP: from here on the entry exists only in this process.
Take(w) ==
  /\ hand[w] = <<>> /\ queue # <<>>
  /\ hand' = [hand EXCEPT ![w] = <<Head(queue)>>]
  /\ queue' = Tail(queue)
  /\ UNCHANGED <<charge, agent, escalated, history>>

Attempt(w) ==
  /\ hand[w] # <<>>
  /\ Idem!Run(w, Entry(w).order)
  /\ UNCHANGED <<agent, queue, hand, escalated, history>>

Done(w) ==
  /\ Tried(w, "receipt")
  /\ UNCHANGED <<agent, queue, escalated, history>>

\* Mutant: the entry is not put back.
DeferDrops(w) ==
  /\ Tried(w, "CircuitOpen")
  /\ UNCHANGED <<agent, queue, escalated, history>>

\* Mutant: attempt puts the entry back and run_once requeues it.
DeferTwice(w) ==
  /\ Tried(w, "CircuitOpen")
  /\ queue' = queue \o <<Entry(w), Entry(w)>>
  /\ UNCHANGED <<agent, escalated, history>>

\* Mutant: a refusal uses up an attempt.
DeferCounts(w) ==
  /\ Tried(w, "CircuitOpen")
  /\ IF Entry(w).attempts + 1 >= MaxReplays
     THEN EscalateEntry(w, "replays exhausted") /\ UNCHANGED queue
     ELSE Requeue([Entry(w) EXCEPT !.attempts = @ + 1]) /\ UNCHANGED escalated
  /\ UNCHANGED <<agent, history>>

\* The breaker refused: the entry goes back as it was.
Defer(w) ==
  /\ Tried(w, "CircuitOpen")
  /\ Requeue(Entry(w))
  /\ UNCHANGED <<agent, escalated, history>>

\* Mutant: gives up one attempt too late.
FailOnceMore(w) ==
  /\ Tried(w, "PaymentGatewayUnavailable")
  /\ IF Entry(w).attempts + 1 > MaxReplays
     THEN EscalateEntry(w, "replays exhausted") /\ UNCHANGED queue
     ELSE Requeue([Entry(w) EXCEPT !.attempts = @ + 1]) /\ UNCHANGED escalated
  /\ failed' = [failed EXCEPT ![Entry(w).order] = @ + 1]
  /\ UNCHANGED <<agent, dropped>>

\* The gateway is down: one more attempt used, and the last goes to a person.
Fail(w) ==
  /\ Tried(w, "PaymentGatewayUnavailable")
  /\ IF Entry(w).attempts + 1 >= MaxReplays
     THEN EscalateEntry(w, "replays exhausted") /\ UNCHANGED queue
     ELSE Requeue([Entry(w) EXCEPT !.attempts = @ + 1]) /\ UNCHANGED escalated
  /\ failed' = [failed EXCEPT ![Entry(w).order] = @ + 1]
  /\ UNCHANGED <<agent, dropped>>

Decline(w) ==
  /\ Tried(w, "PaymentDeclined")
  /\ EscalateEntry(w, "declined")
  /\ UNCHANGED <<agent, queue, history>>

\* attempt() does not catch the store's RuntimeError: the process ends with the
\* entry in its hand, and the container is restarted.
Uncaught(w) ==
  /\ Tried(w, "RuntimeError")
  /\ dropped' = dropped \cup {Entry(w).order}
  /\ UNCHANGED <<agent, queue, escalated, failed>>

WorkerDies(w) ==
  /\ Idem!Crash(w)
  /\ hand' = [hand EXCEPT ![w] = <<>>]
  /\ dropped' = IF hand[w] = <<>> THEN dropped ELSE dropped \cup {Entry(w).order}
  /\ UNCHANGED <<agent, queue, escalated, failed>>

-----------------------------------------------------------------------------
AgentStep(s) ==
  \/ StartCharge(s) \/ Paid(s) \/ RetryPayment(s) \/ Escalate(s)
  \/ ParkFailure(s) \/ Hold(s)

WorkerStep(w) ==
  \/ Take(w) \/ Attempt(w) \/ Done(w) \/ Defer(w) \/ Fail(w) \/ Decline(w)
  \/ Uncaught(w)

Next ==
  \/ \E c \in Checkouts \cup Workers : ChargeStep(c)
  \/ \E s \in Checkouts :
       AgentStep(s) \/ ReturnsLate(s) \/ ApplyDecision(s) \/ Deadline(s)
       \/ AgentDies(s)
  \/ \E w \in Workers : WorkerStep(w) \/ WorkerDies(w)
  \/ Environment

Spec == Init /\ [][Next]_vars

(***************************************************************************)
(* Threads and processes run; a claim whose holder died expires.  Nothing  *)
(* makes a person decide, a deadline fire or the gateway recover.          *)
(***************************************************************************)
Fairness ==
  /\ \A c \in Checkouts \cup Workers : WF_vars(ChargeStep(c))
  /\ \A s \in Checkouts : WF_vars(AgentStep(s))
  /\ \A w \in Workers : WF_vars(WorkerStep(w))

FairSpec == Spec /\ Fairness

-----------------------------------------------------------------------------
(* Properties *)

InHand(w, k) == hand[w] # <<>> /\ Entry(w).order = k

Queued(k) == {i \in DOMAIN queue : queue[i].order = k}

Resolved(k) == captured[k] > 0 \/ \E e \in escalated : e.order = k

(***************************************************************************)
(* The dead letter queue is not a bin (DeadLetterQueue): an order that was *)
(* parked is waiting in the queue, in a worker's hand, before a person or  *)
(* paid.  A worker that goes down is the only way to lose one, whatever    *)
(* the threads that outlived their deadline do meanwhile.                  *)
(***************************************************************************)
NothingLost ==
  \A s \in Checkouts : node[s] \in {"parked", "held"} =>
    LET k == OrderOf[s] IN
      Resolved(k) \/ k \in dropped \/ Queued(k) # {} \/ \E w \in Workers : InHand(w, k)

(***************************************************************************)
(* Deferring and requeueing never multiply an entry (the comment in        *)
(* run_once): an order is never in the queue and in hands more often than  *)
(* it was parked.                                                          *)
(***************************************************************************)
NoEntryMultiplied ==
  \A k \in Orders :
    Cardinality(Queued(k)) + Cardinality({w \in Workers : InHand(w, k)})
      <= Cardinality({s \in Checkouts : OrderOf[s] = k
                                        /\ node[s] \in {"parked", "held", "lost"}})

(***************************************************************************)
(* An order is given up only after MaxReplays attempts that reached the    *)
(* gateway: a refusal by the breaker uses none (attempt's doc), and no     *)
(* entry carries more attempts than were made.                             *)
(***************************************************************************)
ExhaustedWasTried ==
  /\ \A i \in DOMAIN queue : queue[i].attempts <= failed[queue[i].order]
  /\ \A k \in Orders :
       [order |-> k, reason |-> "replays exhausted"] \in escalated
         => failed[k] >= MaxReplays

(***************************************************************************)
(* A checkout that confirms the payment confirms a capture of its order,   *)
(* the only one while the gateway's ledger lasts, although the charge      *)
(* node, its retry, its late threads, a second checkout of the same order  *)
(* and the worker may all have asked for it.                               *)
(***************************************************************************)
PaidOnce ==
  /\ \A k \in Orders : captured[k] <= 1 + days
  /\ \A s \in Checkouts : node[s] = "paid" => captured[OrderOf[s]] >= 1

(***************************************************************************)
(* As long as no call outlasts its deadline and no order is placed twice,  *)
(* an order is parked only while its money has not been taken.             *)
(***************************************************************************)
ParkedUncharged ==
  [][\A s \in Checkouts : ParkFailure(s) => captured[OrderOf[s]] = 0]_vars

(***************************************************************************)
(* replay_worker's doc: parking an order is a real recovery rather than a  *)
(* quieter way of dropping it.                                             *)
(***************************************************************************)
NothingDropped == dropped = {}

(***************************************************************************)
(* Once the gateway stays up every parked order is paid, put before a      *)
(* person or lost with a worker; it never goes round for ever.             *)
(***************************************************************************)
ParkedIsResolved ==
  <>[]serving =>
    \A s \in Checkouts :
      node[s] = "parked" ~> (Resolved(OrderOf[s]) \/ OrderOf[s] \in dropped)

=============================================================================

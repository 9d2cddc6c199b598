-------------------------- MODULE IdempotentCharge --------------------------
(***************************************************************************)
(* IdempotencyStore.run of chapter 8 (reliability.py) around the gateway's *)
(* charge_card (services.py), as the agent's charge node and the replay    *)
(* worker both call it: idempotency.run(order, breaker.call, charge_card). *)
(* A step is one Redis command of one caller, the expiry of a key, or the  *)
(* death of a process.  The breaker between the two is CircuitBreaker;     *)
(* here it is one more way for the call to raise.                          *)
(*                                                                         *)
(* A receipt is named by its place among the captures of its order, so 1   *)
(* is the receipt of the first capture and None, 0, is no receipt.         *)
(***************************************************************************)
EXTENDS Naturals, FiniteSets

CONSTANTS
  Callers,            \* agent threads and replay workers
  Orders,             \* idempotency keys
  LockOutlivesCalls,  \* whether the 120 s of a claim outlast any live call
  MaxDays,            \* how often the gateway's ledger may run out
  MaxDeaths           \* how often a process may die between two commands

ASSUME SwitchesAssumption == LockOutlivesCalls \in BOOLEAN

ASSUME LimitsAssumption == MaxDays \in Nat /\ MaxDeaths \in Nat

VARIABLES
  result,    \* idem:result:<order>, a receipt or None
  lock,      \* whether idem:lock:<order> exists
  ledger,    \* the gateway's ledger, a receipt or None for each order
  serving,   \* whether the breaker admits and the gateway answers
  pc,        \* where each caller is
  order,     \* the key each caller works on
  receipt,   \* the receipt charge_card returned to each caller
  outcome,   \* what each caller's run came to, or is about to
  days,      \* how often the ledger ran out so far
  deaths,    \* processes that died so far
  captured,  \* history: how often the money of each order was taken
  told       \* history: the receipts callers were given for each order

redis  == <<result, lock, ledger>>
local  == <<pc, order, receipt, outcome>>
counts == <<days, deaths>>
vars   == <<redis, serving, local, counts, captured, told>>

None == 0

\* A caller holds a claim from the SET NX that made it to its last command.
Holding   == {"ledger_get", "charge", "store", "release"}
Positions == {"idle", "get", "claim"} \cup Holding

Exceptions == {"RuntimeError", "CircuitOpen", "PaymentGatewayUnavailable",
               "PaymentDeclined"}
Outcomes   == {"none", "receipt"} \cup Exceptions

TypeOK ==
  /\ result \in [Orders -> Nat]
  /\ lock \in [Orders -> BOOLEAN]
  /\ ledger \in [Orders -> Nat]
  /\ serving \in BOOLEAN
  /\ pc \in [Callers -> Positions]
  /\ order \in [Callers -> Orders]
  /\ receipt \in [Callers -> Nat]
  /\ outcome \in [Callers -> Outcomes]
  /\ days \in 0 .. MaxDays
  /\ deaths \in 0 .. MaxDeaths
  /\ captured \in [Orders -> Nat]
  /\ told \in [Orders -> SUBSET Nat]

Init ==
  /\ result = [k \in Orders |-> None]
  /\ lock = [k \in Orders |-> FALSE]
  /\ ledger = [k \in Orders |-> None]
  /\ serving = TRUE
  /\ pc = [c \in Callers |-> "idle"]
  /\ order \in [Callers -> Orders]
  /\ receipt = [c \in Callers |-> None]
  /\ outcome = [c \in Callers |-> "none"]
  /\ days = 0
  /\ deaths = 0
  /\ captured = [k \in Orders |-> 0]
  /\ told = [k \in Orders |-> {}]

Go(c, from, to) ==
  /\ pc[c] = from
  /\ pc' = [pc EXCEPT ![c] = to]

Holds(c, k) == pc[c] \in Holding /\ order[c] = k

Tell(k, r) == told' = [told EXCEPT ![k] = @ \cup {r}]

-----------------------------------------------------------------------------
(* run(), up to the claim *)

Run(c, k) ==
  /\ Go(c, "idle", "get")
  /\ outcome[c] = "none"
  /\ order' = [order EXCEPT ![c] = k]
  /\ UNCHANGED <<redis, serving, receipt, outcome, counts, captured, told>>

\* GET result: an answer on record is handed back and nothing else happens.
Replay(c) ==
  /\ result[order[c]] # None
  /\ Go(c, "get", "idle")
  /\ Tell(order[c], result[order[c]])
  /\ outcome' = [outcome EXCEPT ![c] = "receipt"]
  /\ UNCHANGED <<redis, serving, order, receipt, counts, captured>>

NoRecord(c) ==
  /\ result[order[c]] = None
  /\ Go(c, "get", "claim")
  /\ UNCHANGED <<redis, serving, order, receipt, outcome, counts, captured, told>>

\* Mutant: SET without NX.
ClaimAnyway(c) ==
  /\ Go(c, "claim", "ledger_get")
  /\ lock' = [lock EXCEPT ![order[c]] = TRUE]
  /\ UNCHANGED <<result, ledger, serving, order, receipt, outcome, counts, captured, told>>

\* SET lock NX EX 120.
Claim(c) ==
  /\ ~lock[order[c]]
  /\ Go(c, "claim", "ledger_get")
  /\ lock' = [lock EXCEPT ![order[c]] = TRUE]
  /\ UNCHANGED <<result, ledger, serving, order, receipt, outcome, counts, captured, told>>

\* Mutant: the claim is inside the try block, so losing it deletes it.
InFlightReleases(c) ==
  /\ lock[order[c]]
  /\ Go(c, "claim", "release")
  /\ outcome' = [outcome EXCEPT ![c] = "RuntimeError"]
  /\ UNCHANGED <<redis, serving, order, receipt, counts, captured, told>>

\* RuntimeError: already in flight.
InFlight(c) ==
  /\ lock[order[c]]
  /\ Go(c, "claim", "idle")
  /\ outcome' = [outcome EXCEPT ![c] = "RuntimeError"]
  /\ UNCHANGED <<redis, serving, order, receipt, counts, captured, told>>

-----------------------------------------------------------------------------
(* fn(): breaker.call(charge_card) *)

\* Mutant: the gateway answers a known key with a new receipt.
DeduplicateAfresh(c) ==
  /\ ledger[order[c]] # None
  /\ Go(c, "ledger_get", "store")
  /\ receipt' = [receipt EXCEPT ![c] = ledger[order[c]] + 1]
  /\ UNCHANGED <<redis, serving, order, outcome, counts, captured, told>>

\* HGET ledger: the gateway has seen this key and returns the old receipt.
Deduplicate(c) ==
  /\ ledger[order[c]] # None
  /\ Go(c, "ledger_get", "store")
  /\ receipt' = [receipt EXCEPT ![c] = ledger[order[c]]]
  /\ UNCHANGED <<redis, serving, order, outcome, counts, captured, told>>

\* Mutant: the gateway does not look the key up.
NotSeenAnyway(c) ==
  /\ Go(c, "ledger_get", "charge")
  /\ UNCHANGED <<redis, serving, order, receipt, outcome, counts, captured, told>>

NotSeen(c) ==
  /\ ledger[order[c]] = None
  /\ Go(c, "ledger_get", "charge")
  /\ UNCHANGED <<redis, serving, order, receipt, outcome, counts, captured, told>>

\* HSET ledger: the gateway accepts the charge.
Charge(c) ==
  LET r == captured[order[c]] + 1 IN
  /\ serving
  /\ Go(c, "charge", "store")
  /\ captured' = [captured EXCEPT ![order[c]] = r]
  /\ ledger' = [ledger EXCEPT ![order[c]] = r]
  /\ receipt' = [receipt EXCEPT ![c] = r]
  /\ UNCHANGED <<result, lock, serving, order, outcome, counts, told>>

Raise(c, from, exception) ==
  /\ Go(c, from, "release")
  /\ outcome' = [outcome EXCEPT ![c] = exception]
  /\ UNCHANGED <<redis, serving, order, receipt, counts, captured, told>>

\* The breaker raises before charge_card begins.
Refuse(c) == ~serving /\ Raise(c, "ledger_get", "CircuitOpen")

\* Mutant: the gateway gives up after it took the money and before it notes the key.
FailAfterCharge(c) ==
  /\ ~serving
  /\ Go(c, "charge", "release")
  /\ captured' = [captured EXCEPT ![order[c]] = @ + 1]
  /\ outcome' = [outcome EXCEPT ![c] = "PaymentGatewayUnavailable"]
  /\ UNCHANGED <<result, lock, ledger, serving, order, receipt, counts, told>>

Fail(c) == ~serving /\ Raise(c, "charge", "PaymentGatewayUnavailable")

\* Mutant: an exception class nobody knows by name.
DeclineRenamed(c) == serving /\ Raise(c, "charge", "CardDeclined")

Decline(c) == serving /\ Raise(c, "charge", "PaymentDeclined")

-----------------------------------------------------------------------------
(* run(), after fn() *)

\* SETEX result; the claim is kept and left to its TTL.
Store(c) ==
  /\ Go(c, "store", "idle")
  /\ result' = [result EXCEPT ![order[c]] = receipt[c]]
  /\ Tell(order[c], receipt[c])
  /\ receipt' = [receipt EXCEPT ![c] = None]
  /\ outcome' = [outcome EXCEPT ![c] = "receipt"]
  /\ UNCHANGED <<lock, ledger, serving, order, counts, captured>>

\* Mutant: the claim is not released when the call raises.
ReleaseForgotten(c) ==
  /\ Go(c, "release", "idle")
  /\ UNCHANGED <<redis, serving, order, receipt, outcome, counts, captured, told>>

\* DEL lock, whoever holds it by now.
Release(c) ==
  /\ Go(c, "release", "idle")
  /\ lock' = [lock EXCEPT ![order[c]] = FALSE]
  /\ UNCHANGED <<result, ledger, serving, order, receipt, outcome, counts, captured, told>>

\* run() returns or raises: its caller learns the outcome.
Return(c) ==
  /\ pc[c] = "idle" /\ outcome[c] # "none"
  /\ outcome' = [outcome EXCEPT ![c] = "none"]
  /\ UNCHANGED <<redis, serving, pc, order, receipt, counts, captured, told>>

-----------------------------------------------------------------------------
(* The environment: key expiry, outages, process death *)

\* Mutant: SET NX without EX.
LockStays(k) == FALSE /\ UNCHANGED <<vars, k>>

LockExpires(k) ==
  /\ lock[k]
  /\ LockOutlivesCalls => \A c \in Callers : ~Holds(c, k)
  /\ lock' = [lock EXCEPT ![k] = FALSE]
  /\ UNCHANGED <<result, ledger, serving, local, counts, captured, told>>

\* A day is longer than the two minutes of the claim it was stored under.
ResultExpires(k) ==
  /\ result[k] # None
  /\ ~lock[k]
  /\ result' = [result EXCEPT ![k] = None]
  /\ UNCHANGED <<lock, ledger, serving, local, counts, captured, told>>

\* The ledger is one hash with one TTL, so all of it goes at once.  That is a day
\* after the last charge; nothing below depends on its being so late.
LedgerExpires ==
  /\ days < MaxDays
  /\ \E k \in Orders : ledger[k] # None
  /\ ledger' = [k \in Orders |-> None]
  /\ days' = days + 1
  /\ UNCHANGED <<result, lock, serving, local, deaths, captured, told>>

Outage ==
  /\ serving' = ~serving
  /\ UNCHANGED <<redis, local, counts, captured, told>>

Crash(c) ==
  /\ deaths < MaxDeaths
  /\ pc' = [pc EXCEPT ![c] = "idle"]
  /\ receipt' = [receipt EXCEPT ![c] = None]
  /\ deaths' = deaths + 1
  /\ outcome' = [outcome EXCEPT ![c] = "none"]
  /\ UNCHANGED <<redis, serving, order, days, captured, told>>

-----------------------------------------------------------------------------
Continue(c) ==
  \/ Replay(c) \/ NoRecord(c) \/ Claim(c) \/ InFlight(c)
  \/ Deduplicate(c) \/ NotSeen(c) \/ Charge(c)
  \/ Refuse(c) \/ Fail(c) \/ Decline(c) \/ Store(c) \/ Release(c)

Next ==
  \/ \E c \in Callers :
       Continue(c) \/ Return(c) \/ Crash(c) \/ \E k \in Orders : Run(c, k)
  \/ \E k \in Orders : LockExpires(k) \/ ResultExpires(k)
  \/ LedgerExpires \/ Outage

Spec == Init /\ [][Next]_vars

(***************************************************************************)
(* Redis expires a claim whose holder has gone, and a run that was started *)
(* goes on unless its process dies: every command of it is answered.       *)
(* Nobody need come back to an order: the agent tries twice, and not at    *)
(* all after a RuntimeError.                                               *)
(***************************************************************************)
Fairness ==
  /\ \A c \in Callers : WF_vars(Continue(c))
  /\ \A k \in Orders : WF_vars(LockExpires(k))

FairSpec == Spec /\ Fairness

-----------------------------------------------------------------------------
(* Properties *)

(***************************************************************************)
(* The comment in run: while somebody holds the claim on a key, no second  *)
(* copy of the work is started.  The claim has no owner token, so an       *)
(* expired claim would let a failing first copy delete the second's claim. *)
(***************************************************************************)
OneCopyInFlight ==
  \A c, d \in Callers :
    pc[c] \in Holding /\ pc[d] \in Holding /\ order[c] = order[d] => c = d

(***************************************************************************)
(* The store's class comment: an at-least-once call behaves like an        *)
(* exactly-once one.  No interleaving of retries, replays, key expiries    *)
(* and deaths takes an order's money twice, although charge_card reads the *)
(* ledger and writes it in two commands; and if orders outlive the ledger, *)
(* once more only after it has run out once more.                          *)
(***************************************************************************)
ChargedOncePerLedger == \A k \in Orders : captured[k] <= 1 + days

(***************************************************************************)
(* Every caller that gets an answer for an order, from the work itself,    *)
(* from the record or from the gateway's ledger, gets the receipt of a     *)
(* capture that happened before.  That there is one such capture as long   *)
(* as the ledger lasts is ChargedOncePerLedger.                            *)
(***************************************************************************)
SameReceipt == \A k \in Orders : told[k] \subseteq 1 .. captured[k]

(***************************************************************************)
(* The store and the ledger together implement ExactlyOnce: every Redis    *)
(* command is a capture, an answer, a ledger that runs out, or no step.    *)
(***************************************************************************)
Promised == INSTANCE ExactlyOnce

ExactlyOncePromise == Promised!Spec

(***************************************************************************)
(* A claim never turns the callers of an order away for ever: whoever died *)
(* holding it, again and again the claim is free, or an answer is on       *)
(* record and nobody needs the claim.                                      *)
(***************************************************************************)
NeverBlocked == \A k \in Orders : []<>(result[k] # None \/ ~lock[k])

=============================================================================

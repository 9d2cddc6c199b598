---------------------------- MODULE CheckoutStages ----------------------------
(***************************************************************************)
(* The checkout of chapter 8 as it grows over its four stages: unprotected *)
(* (1), with deadlines and retries (2), with the payment contained (3) and *)
(* recoverable (4).  Customers of one process share the two services.  The *)
(* Redis keys behind stages 3 and 4 are in CircuitBreaker,                 *)
(* IdempotentCharge and CheckoutRecovery; here the breaker is known by     *)
(* what breaker_agents checks of it: it refuses only after Threshold       *)
(* faults, and may let a caller through again at any time.                 *)
(***************************************************************************)
EXTENDS Naturals, FiniteSets

CONSTANTS
  Customers,  \* one session each
  ItemOf,     \* the product and size each customer wants
  Threshold,  \* of the breaker
  MaxFaults   \* faults are counted up to this

ASSUME StagesAssumption ==
  Threshold \in Nat \ {0} /\ MaxFaults \in Nat /\ MaxFaults >= Threshold

VARIABLES
  stage,     \* which of the four agents runs
  profile,   \* FAULT_PROFILE
  desk,      \* the node each customer's order is at
  hits,      \* warehouse calls of this process, up to 3
  ledger,    \* the gateway's idempotency keys
  paying,    \* customers whose charge is inside the gateway
  late,      \* customers whose node gave up on a charge inside the gateway
  faulty,    \* gateway faults so far
  captured   \* history: how often each customer's money was taken

vars == <<stage, profile, desk, hits, ledger, paying, late, faulty, captured>>

Profiles == {"healthy", "warehouse_flaky", "payment_down", "payment_slow", "card_declined"}

\* What intake may have understood: an order in stock or not, not an order at
\* all, or one whose quantity is not a number.
Orders == {"unread", "in stock", "no stock", "malformed", "no number"}

Retryable ==
  {"WarehouseUnavailable", "PaymentGatewayUnavailable", "NodeTimeoutError",
   "ServerError", "ClientError"}

Permanent == {"PaymentDeclined", "OutOfStock", "MalformedOrder"}

Kinds == Retryable \cup Permanent \cup {"none", "CircuitOpen", "ValueError"}

ModelNodes == {"intake", "confirm", "apologise", "stock_apology", "resolved"}

Ends == {"done", "crashed"}

Nodes == ModelNodes \cup Ends \cup {"reserve", "charge", "hold", "escalate"}

TypeOK ==
  /\ stage \in 1 .. 4 /\ profile \in Profiles
  /\ desk \in [Customers -> [at : Nodes, order : Orders, try : 1 .. 4, failure : Kinds]]
  /\ hits \in 0 .. 3 /\ faulty \in 0 .. MaxFaults
  /\ paying \cup late \subseteq Customers
  /\ captured \in [Customers -> 0 .. 2]

Init ==
  /\ stage \in 1 .. 4
  /\ profile \in Profiles
  /\ desk = [c \in Customers |-> [at |-> "intake", order |-> "unread", try |-> 1, failure |-> "none"]]
  /\ hits = 0
  /\ ledger = {}
  /\ paying = {}
  /\ late = {}
  /\ faulty = 0
  /\ captured = [c \in Customers |-> 0]

-----------------------------------------------------------------------------
(* The graphs: where a node that finishes leads *)

UnprotectedEdges ==
  [intake |-> "reserve", reserve |-> "charge", charge |-> "confirm", confirm |-> "done"]

RetriedEdges == UnprotectedEdges

ContainedEdges ==
  [intake |-> "reserve", reserve |-> "charge", charge |-> "confirm", confirm |-> "done",
   hold |-> "apologise", apologise |-> "done"]

RecoverableEdges ==
  [intake |-> "reserve", reserve |-> "charge", charge |-> "confirm", confirm |-> "done",
   hold |-> "apologise", apologise |-> "done", stock_apology |-> "done",
   escalate |-> "resolved", resolved |-> "done"]

Edges == CASE stage = 1 -> UnprotectedEdges [] stage = 2 -> RetriedEdges
           [] stage = 3 -> ContainedEdges [] OTHER -> RecoverableEdges

(* Where a node that fails leads *)

ContainedFailure(node) == IF node = "charge" THEN "hold" ELSE "crashed"

GuardedReserve(kind) == IF kind \in Permanent THEN "escalate" ELSE "stock_apology"

\* Parking the order before hold is CheckoutRecovery's ParkFailure.
GuardedCharge(kind) == IF kind \in Permanent THEN "escalate" ELSE "hold"

Failed(node, kind) ==
  CASE stage = 3 -> ContainedFailure(node)
    [] stage = 4 /\ node = "reserve" -> GuardedReserve(kind)
    [] stage = 4 /\ node = "charge" -> GuardedCharge(kind)
    [] OTHER -> "crashed"

(* RetryConfig: how many attempts, and which class names are tried again *)

NoRetry == [attempts |-> 1, on |-> {}]

\* Mutant: payments share the warehouse's list of exceptions.
PolicySharedList(node) ==
  CASE node \in ModelNodes -> [attempts |-> 4, on |-> {"ServerError", "ClientError"}]
    [] node = "reserve" -> [attempts |-> 4, on |-> Retryable]
    [] OTHER -> [attempts |-> 2, on |-> Retryable]

\* Mutant: two attempts at the warehouse too.
PolicyImpatient(node) ==
  CASE node \in ModelNodes -> [attempts |-> 4, on |-> {"ServerError", "ClientError"}]
    [] node = "reserve" -> [attempts |-> 2, on |-> Retryable]
    [] OTHER -> [attempts |-> 2, on |-> {"PaymentGatewayUnavailable"}]

Policy(node) ==
  CASE node \in ModelNodes -> [attempts |-> 4, on |-> {"ServerError", "ClientError"}]
    [] node = "reserve" -> [attempts |-> 4, on |-> Retryable]
    [] OTHER -> [attempts |-> 2, on |-> {"PaymentGatewayUnavailable"}]

PolicyOf(node) == IF stage = 1 THEN NoRetry ELSE Policy(node)

-----------------------------------------------------------------------------

Succeed(c) == desk' = [desk EXCEPT ![c].at = Edges[@], ![c].try = 1]

Again(c) == desk' = [desk EXCEPT ![c].try = @ + 1]

GiveUp(c, kind) ==
  desk' = [desk EXCEPT ![c].at = Failed(@, kind), ![c].try = 1, ![c].failure = kind]

\* Mutant: the attempts are not counted.
FailUncounted(c, kind) ==
  IF kind \in PolicyOf(desk[c].at).on THEN UNCHANGED desk ELSE GiveUp(c, kind)

\* Mutant: one attempt too many.
FailOnceMore(c, kind) ==
  LET policy == PolicyOf(desk[c].at) IN
  IF kind \in policy.on /\ desk[c].try <= policy.attempts THEN Again(c) ELSE GiveUp(c, kind)

\* The node is run again, or its failure goes where the graph says.
Fail(c, kind) ==
  LET policy == PolicyOf(desk[c].at) IN
  IF kind \in policy.on /\ desk[c].try < policy.attempts THEN Again(c) ELSE GiveUp(c, kind)

\* Intake reads the order.  as_order normalises whatever comes out of it.
Intake(c) ==
  /\ desk[c].at = "intake"
  /\ \E o \in Orders \ {"unread"} :
       desk' = [desk EXCEPT ![c].at = Edges[@], ![c].try = 1, ![c].order = o]
  /\ UNCHANGED <<stage, profile, hits, ledger, paying, late, faulty, captured>>

\* confirm, apologise, stock_apology and resolved tell the customer.
Tell(c) ==
  /\ desk[c].at \in ModelNodes \ {"intake"}
  /\ Succeed(c)
  /\ UNCHANGED <<stage, profile, hits, ledger, paying, late, faulty, captured>>

ModelFails(c) ==
  /\ desk[c].at \in ModelNodes
  /\ \E kind \in {"ServerError", "ClientError"} \cup (IF stage = 1 THEN {} ELSE {"NodeTimeoutError"}) :
       Fail(c, kind)
  /\ UNCHANGED <<stage, profile, hits, ledger, paying, late, faulty, captured>>

\* as_order comes first: what it refuses never reaches the warehouse.
AsOrder(o) ==
  CASE o = "malformed" -> "MalformedOrder" [] o = "no number" -> "ValueError" [] OTHER -> "none"

\* The first two calls of a flaky warehouse fail.
ReserveStock(c, call) ==
  IF profile = "warehouse_flaky" /\ call <= 2 THEN Fail(c, "WarehouseUnavailable")
  ELSE IF desk[c].order = "no stock" THEN Fail(c, "OutOfStock")
  ELSE Succeed(c)

Reserve(c) ==
  LET refused == AsOrder(desk[c].order) IN
  /\ desk[c].at = "reserve"
  /\ IF refused # "none" THEN Fail(c, refused) /\ UNCHANGED hits
     ELSE /\ hits' = IF hits < 3 THEN hits + 1 ELSE hits
          /\ ReserveStock(c, hits + 1)
  /\ UNCHANGED <<stage, profile, ledger, paying, late, faulty, captured>>

-----------------------------------------------------------------------------
(* The charge *)

\* Mutant: the reservation id in stage 4 as well.
KeyReservation(c) == <<"rsv", ItemOf[c]>>

\* The idempotency key: the reservation id, until mint_order_id (stage 4) puts
\* the session into it.
Key(c) == IF stage < 4 THEN <<"rsv", ItemOf[c]>> ELSE <<"ord", c, ItemOf[c]>>

\* Stages 1 and 2 charge on the event loop: nothing else of the process runs
\* until the gateway answers.  Stages 3 and 4 charge in a thread.
Blocking == stage < 3

\* charge_card as far as the ledger: a key it knows is not charged again.
StartCharge(c) ==
  /\ desk[c].at = "charge" /\ c \notin paying
  /\ Blocking => paying = {}
  /\ IF Key(c) \in ledger THEN Succeed(c) /\ UNCHANGED paying
     ELSE paying' = paying \cup {c} /\ UNCHANGED desk
  /\ UNCHANGED <<stage, profile, hits, ledger, late, faulty, captured>>

\* The breaker (stages 3 and 4) refuses the call.
Refused(c) ==
  /\ desk[c].at = "charge" /\ c \notin paying
  /\ ~Blocking /\ faulty >= Threshold
  /\ Fail(c, "CircuitOpen")
  /\ UNCHANGED <<stage, profile, hits, ledger, paying, late, faulty, captured>>

Capture(c) ==
  /\ ledger' = ledger \cup {Key(c)}
  /\ captured' = [captured EXCEPT ![c] = @ + 1]

\* Mutant: the gateway fails after taking the money.
GatewayFailsLate(c) ==
  /\ desk[c].at = "charge" /\ c \in paying
  /\ paying' = paying \ {c}
  /\ Capture(c)
  /\ \/ profile = "payment_down" /\ Fail(c, "PaymentGatewayUnavailable")
        /\ faulty' = IF faulty < MaxFaults THEN faulty + 1 ELSE faulty
     \/ profile = "card_declined" /\ Fail(c, "PaymentDeclined") /\ UNCHANGED faulty
  /\ UNCHANGED <<stage, profile, hits, late>>

GatewayFails(c) ==
  /\ desk[c].at = "charge" /\ c \in paying
  /\ paying' = paying \ {c}
  /\ \/ profile = "payment_down" /\ Fail(c, "PaymentGatewayUnavailable")
        /\ faulty' = IF faulty < MaxFaults THEN faulty + 1 ELSE faulty
     \/ profile = "card_declined" /\ Fail(c, "PaymentDeclined") /\ UNCHANGED faulty
  /\ UNCHANGED <<stage, profile, hits, ledger, late, captured>>

\* The gateway takes the money.  In stage 2 a slow gateway may have used up the
\* node's deadline, which can only fire now.
Charge(c) ==
  /\ desk[c].at = "charge" /\ c \in paying
  /\ profile \notin {"payment_down", "card_declined"}
  /\ Capture(c)
  /\ paying' = paying \ {c}
  /\ Succeed(c) \/ (stage = 2 /\ profile = "payment_slow" /\ Fail(c, "NodeTimeoutError"))
  /\ UNCHANGED <<stage, profile, hits, late, faulty>>

\* In a thread the deadline ends the wait, not the call.
Deadline(c) ==
  /\ desk[c].at = "charge" /\ c \in paying /\ ~Blocking
  /\ profile = "payment_slow"
  /\ Fail(c, "NodeTimeoutError")
  /\ paying' = paying \ {c}
  /\ late' = late \cup {c}
  /\ UNCHANGED <<stage, profile, hits, ledger, faulty, captured>>

ChargeLate(c) ==
  /\ c \in late
  /\ late' = late \ {c}
  /\ Capture(c)
  /\ UNCHANGED <<stage, profile, desk, hits, paying, faulty>>

Hold(c) ==
  /\ desk[c].at = "hold"
  /\ Succeed(c)
  /\ UNCHANGED <<stage, profile, hits, ledger, paying, late, faulty, captured>>

\* A person answers, if anyone does: escalate, then apply_decision.
Decide(c) ==
  /\ desk[c].at = "escalate"
  /\ Succeed(c)
  /\ UNCHANGED <<stage, profile, hits, ledger, paying, late, faulty, captured>>

NodeStep(c) ==
  \/ Intake(c) \/ Tell(c) \/ ModelFails(c) \/ Reserve(c) \/ StartCharge(c) \/ Refused(c)
  \/ GatewayFails(c) \/ Charge(c) \/ Deadline(c) \/ ChargeLate(c) \/ Hold(c)

Next == \E c \in Customers : NodeStep(c) \/ Decide(c)

\* A node that comes to an end of itself or by its timeout.  The simulated
\* services answer after a sleep at most; a model that hangs is given up on
\* from stage 2 on, and in stage 1 holds the request open.
Ending(c) == (stage = 1 => desk[c].at \notin ModelNodes) /\ NodeStep(c)

\* The runner keeps running the graph; nobody has to answer.
Spec == Init /\ [][Next]_vars /\ \A c \in Customers : WF_vars(Ending(c))

-----------------------------------------------------------------------------
(* Properties *)

Failure(c, kinds) == desk[c].failure \in kinds

(***************************************************************************)
(* A payment that failed for any reason but a deadline took no money, in   *)
(* any stage: what the customer of a crash, a hold or an escalation is     *)
(* told ("nothing was charged", hold) is true.                             *)
(***************************************************************************)
FailedUncharged ==
  \A c \in Customers :
    Failure(c, Kinds \ {"none", "NodeTimeoutError", "ServerError", "ClientError"}) => captured[c] = 0

(***************************************************************************)
(* Retries, late threads and all, nobody's money is taken twice            *)
(* (charge_card): "a customer charged four times" by a retry storm.        *)
(***************************************************************************)
ChargedOnce == \A c \in Customers : captured[c] <= 1

(***************************************************************************)
(* "It also has to differ between two customers buying the same shirt"     *)
(* (mint_order_id): in stage 4 every order confirmed as paid was paid with *)
(* that customer's money; before, only if no other customer wanted the     *)
(* same thing (in the run both do: for stages 1 to 3 see the theorem).     *)
(***************************************************************************)
EveryonePays ==
  \A c \in Customers :
    desk[c].at = "confirm" /\ (stage = 4 \/ \A d \in Customers \ {c} : ItemOf[d] # ItemOf[c])
      => captured[c] = 1

(***************************************************************************)
(* "warehouse fails twice, then recovers" (faults.py): from stage 2 on no  *)
(* order is lost to it.                                                    *)
(***************************************************************************)
RidesOutFlakyWarehouse ==
  stage >= 2 => \A c \in Customers : ~Failure(c, {"WarehouseUnavailable"})

(***************************************************************************)
(* With a deadline on every node, retry policies, a breaker and two        *)
(* guards, from stage 2 on no order goes round for ever or is held open    *)
(* (its header): it is answered, crashes, or waits for a person.           *)
(***************************************************************************)
EveryOrderEnds ==
  stage >= 2 => \A c \in Customers : <>(desk[c].at \in Ends \cup {"escalate"})

=============================================================================

# A verification development for Ultimate-Agentic-AI-Systems

The repository holds the code of a book on agentic systems, one directory per
chapter. Most of it is prompts and wiring around a language model. The program logic that
can go wrong in ways nobody tests sits in three places. Chapter 8
(`chapter-08-failure-recovery`) is a checkout that charges a card through a
circuit breaker and an idempotency store, parks what it cannot finish, and a
second process that replays it; all of its state is in Redis and shared by
threads and processes. Chapter 10 (`chapter-10-semantic-cache`) is a cache of
answers and of retrieved rows over a graph whose prices change. The other
chapters have small agents whose state outlives one request: a scratchpad, a
counter of handoffs, rounds of a loop, a plan, a shared memory, a graph that is
loaded while it is read.

## 1. Inventory

### Chapter 8, failure recovery

| Component | State | Operations | Correct when |
|---|---|---|---|
| `CircuitBreaker` (reliability.py) | four Redis keys per name: `failures` (counter, 60 s window), `open` (20 s), `half_open` (no TTL), `probe` (15 s) | `call`, `allow`, `record_success`, `record_failure`, `state` | opens only over faults; half open it probes; it never locks everybody out; it closes when the gateway is healthy |
| `IdempotencyStore` (reliability.py) | `idem:result:<k>` (a day), `idem:lock:<k>` (120 s) | `run` | one copy of the work at a time, one side effect per key, one answer for everybody |
| Gateway (services.py) | the ledger, one hash with one TTL of a day | `charge_card` (look up, charge, write) | a known key is never charged again |
| `DeadLetterQueue` (reliability.py) | two Redis lists | `park`, `take`, `requeue` | an entry is neither lost nor multiplied |
| Checkout (stage_4_recovery/agent.py) | the graph's position, retries of the charge node, a worker thread | reserve, `_charge`, `guarded_charge`, `hold`, `escalate`, `apply_decision` | what it tells the customer is what happened to the money |
| Replay worker (stage_4_recovery/replay_worker.py) | the entry it popped | `run_once`, `attempt` | every parked order is settled or put before a person, and given up only after MAX_REPLAYS real attempts |

How they interact: the charge node runs
`idempotency.run(order, breaker.call, charge_card)` in a thread and awaits it
under a deadline; the worker makes the same call in its own process. The store
wraps the breaker, the breaker wraps the gateway, all over one Redis. The agent
and the worker meet in the breaker's keys, the order's claim and record, the
gateway's ledger and the queue.

What is hard: several Redis commands per operation with nothing making them
atomic; keys that expire under an operation; a process that dies between two
commands; a thread that goes on after its node timed out; an order placed twice
in one session (the order id is a hash of session and order, so both share it);
an entry that exists only in the memory of the worker that popped it.

The three earlier stages of the chapter are the same graph with less protection,
over the same services; their idempotency key is the reservation id, which is
the product and the size. `reserve` and `intake` come before there is an order id;
`faults.py` chooses what the fixtures do and `observability.py` logs.

### Chapter 10, semantic cache

`SemanticCache` (entries with TTL and product tags in a cache Redis, counters in
the state Redis; `lookup`, `put`, `purge_products`, `bump`), `invalidation.py`
(write the price, then purge, with a backlog of failed purges),
`SemanticCachePlugin` (a pending turn per invocation and agent, from lookup to the
final answer), `cached_retrievers.py` (the same cache in front of a tool, failing
open), `cache_policy.py` and `guards.py` (who may be cached, and the lexical guard).
Correct when: after a price change no answer older than it is served beyond what
`max_age_seconds` allows; a failed purge is retried by a later run; an answer that used a
personal tool is never stored; a hit agrees with the question on its specifics; a
cache outage never fails a request. Hard: readers and writers race around the
purge, entries expire between two commands, purges race on the backlog.

### The other chapters

| Chapter | What it has | Correct when |
|---|---|---|
| 9, GraphRAG | a product graph that `seed.py` and `embed_products.py` write statement by statement, again after every edit; read-only retrieval and a deterministic safety check | the check never clears a product with an ingredient the customer avoids; orders and products are found whole |
| 7, orchestration | plan, fan-out to specialists, join, synthesis; handoffs between agents with a counter; a remote LangGraph worker | local and remote estimates agree; handoffs are bounded |
| 6, A2A | a router in front of a remote returns agent | (no state: `initiate_return` only composes a reply) |
| 5, decision making | brakes on a ReAct loop (a scratchpad in session state); plan-and-execute chain; evaluator loop; router | the caps hold per task; what is finalised was accepted or the rounds are used up |
| 4, memory | two tools over a memory library | a customer with a `user_id` only finds their own facts |
| 3, MCP | read-only catalog servers | (constant data) |
| 2 and 1 | a bounded raw agent loop; a prebuilt agent; shell prompts | the loop ends and answers every call |

The hazards of each, line by line, are in `PROJECT.json`.

## 2. Modules

| Module | Models | Kind |
|---|---|---|
| `CircuitBreaker` | `CircuitBreaker` | state machine, one Redis command per action |
| `ThreeStateBreaker` | the states of the class comment of `CircuitBreaker`, with the code's fixed window | abstract specification |
| `IdempotentCharge` | `IdempotencyStore.run` around `charge_card` | state machine, one Redis command per action |
| `ExactlyOnce` | the class comment of `IdempotencyStore` | abstract specification |
| `CheckoutRecovery` | guarded charge, queue and worker | composition: instantiates `IdempotentCharge` with checkout threads and workers as its callers |
| `CheckoutStages` | the checkouts of stages 1 to 4 over the shared services | state machine, one node attempt per action |
| `SemanticCache` | `SemanticCache`, `guards.py` | the entries and what each command does to them |
| `CachedShopping` | the cache plugin, the cached retriever, `invalidation.py` | composition over `SemanticCache`, one Redis or graph command per action |
| `ReactBrakes` | the brakes of chapter 5 stage 1 | state machine |
| `EvaluatorLoop` | the evaluator-optimizer of chapter 5 stage 3 | state machine |
| `Handoff` | chapter 7 stage 2 | state machine |
| `Supervisor` | chapter 7 stages 1 and 3 | state machine |
| `MemoryTools` | chapter 4's tools | state machine |
| `ProductGraph` | chapter 9's graph, its two loaders and its readers | state machine, one transaction per action |
| `RawLoop` | the hand-written loop of chapter 2 | state machine |
| `Agents` | the seven modules above, from `ReactBrakes` on, one of them per behaviour | composition, over the constants of all |
| `MC*` | | model values and small sets for TLC |
| `*Proofs` | | theorems and their proofs |

### CircuitBreaker

The variables `failures`, `open`, `half`, `probe` are the four keys (`failures` is 0
when the key is absent), `window` says whether the counter carries its TTL. Every
caller has a position `pc[c]` naming the command it sends next:
`allow` is `ExistsOpen`, `ExistsHalf`, `SetProbe`; the wrapped call is `FnReturns`,
`FnDeclines`, `FnFails`; `record_success` is the one DEL `DelAll`; `record_failure`
is `FailureExistsHalf`, then `Reopen` and `DropProbe`, or `Incr`, `Expire`, `Trip`,
`MarkHalf`, `Clear`. Redis expires keys in `OpenExpires`, `ProbeExpires`,
`WindowExpires`; `Crash` is the death of a process between two commands; `Outage`
takes the dependency down or up. `Expecting` is the set of callers whose breaker was
given `expected_exceptions` (the agent's), the others have a breaker without (the
worker's).

Abstractions: TTLs are not measured; a key with a TTL may expire at any moment,
which is more than Redis does. `Prompt` takes back one thing, the end of a cooldown:
`record_failure` is a handful of commands and is assumed to take less than half of the 20 s. `busy`
collects the callers that were in `record_failure` together with one that had set the open
key (`MetOpener`), and the key does not expire before they are done. `OpensOnFaults` and the
refinement to the three-state breaker need it: a caller stopped for a whole cooldown between
its INCR and its SETEX would open the circuit once more over the faults that had opened it before.
Nothing is assumed of the failure window. Its 60 s began with an earlier fault,
so it may end between the INCR that reaches the threshold and the SETEX, and the caller trips all the
same, over a counter that has gone. The probe key, too, may expire at any moment in every run.
The liveness run, the types and the counter's TTL do not assume `Prompt`.

`ThreeStateBreaker` has the three states of the class comment and the window of the
code, which is fixed: the TTL set at the first fault takes the whole tally with it. That is not the
rolling window the comment speaks of (section 6).

The counter stops one above the threshold, the only values the code compares with.
`evidence` is a history variable: the faults answered since a count last opened
the breaker. Neither a success nor the end of a window takes anything from it, so
`OpensOnFaults` does not say that the faults were close together.

### IdempotentCharge

`result`, `lock` and `ledger` are the record, the claim and the gateway's ledger per
order; a receipt is named by its place among the captures of its order, so two
captures can be told apart. Actions follow `run`: `Replay` or `NoRecord` (GET), `Claim` or
`InFlight` (SET NX), then `charge_card`'s `Deduplicate` or `NotSeen` (HGET) and `Charge`,
`Fail` or `Decline`, then `Store` (SETEX) or `Release` (DEL, whoever holds the claim by
then). `Refuse` is the breaker's CircuitOpen. `serving` stands for breaker and
gateway together: it may change at any time, which allows every sequence of
refusals, failures and answers the breaker and the gateway can produce, and more.
`Run` and `Return` are the caller's side.

`LockOutlivesCalls` is an assumption about time: no live call is slower than the
120 s of its claim. The ledger is one hash with one TTL, so it may run out at any
moment, `MaxDays` times; `days` counts them. After that an order somebody comes
back to is a new one to the gateway. `ExactlyOnce` therefore has an action
`Forget`, and promises one capture and one receipt per day of an order; with no
day spent that is exactly once.

### CheckoutRecovery

`node[s]` is how far the graph of checkout `s` is; `attempts[s]` counts starts of the
charge node. `Deadline` moves the node on without touching the thread, which ends
in `ReturnsLate`. `Answered` is the node learning what its thread returned; `Paid`,
`RetryPayment`, `Escalate`, `ParkFailure` are the routes. `queue` is `dlq:checkout`,
oldest first; `hand[w]` is the entry worker `w` popped; `escalated` is the other list.
`Take` (BRPOP), `Attempt`, and the outcomes `Done`, `Defer`, `Fail`, `Decline` are
`run_once`; `Uncaught` is the RuntimeError that `attempt` does not catch, after which
the container restarts. `dropped` and `failed` are history variables.
`OrderOf` is `mint_order_id`: two checkouts of one session that order the same
thing have the same id.

Sleeps, backoff and log output are left out: they only delay steps that may be
delayed anyway. Redis itself does not fail (it is configured with an append-only file; an
error of a Redis command inside these operations is not modelled).

### CheckoutStages

`stage` is which of the four agents runs and `profile` is `FAULT_PROFILE`; both are
chosen once. `desk[c]` is customer `c`'s order: the node it is at, what intake
understood, the attempt and the class name of the last failure. The graphs are the
functions `UnprotectedEdges` to `RecoverableEdges`; `Failed` is where a node's
failure leads (nowhere, so the run crashes; the guard of stage 3; the two guards of
stage 4), `Policy` the three `RetryConfig`s. `Fail` is one failed attempt: `Again` or
`GiveUp`. `Intake`, `Reserve` (`as_order`, then `reserve_stock` with its counter `hits`),
`StartCharge` (the ledger's answer or into the gateway), `Refused` (the breaker),
`GatewayFails`, `Charge`, `Deadline`, `ChargeLate`, `Hold`, `Decide` and `Tell` are the
nodes; `ModelFails` is a model node that raises.

The charge of stages 1 and 2 blocks the event loop (`Blocking`): nobody else enters
the gateway, and the deadline can only fire once the money is taken. In 3 and 4 it is in
a thread and the deadline leaves it running (`late`). `Key` is the idempotency key. The breaker is
what `breaker_agents` shows of it: it refuses only after `Threshold` faults, and
may let a caller through at any time.

### SemanticCache and CachedShopping

`entries` is the cache: a place holds nothing, a whole hash, or the partial one a
HINCRBY makes of a key that has gone. A response is what it was asked (`question`), the products
whose price it quotes, how old that price is, its tags, its age, and whether its
turn was `clean`. A question is the set of tokens `specifics()` looks at and the
questions within the threshold of it (`Near`); the embedding is the library's.
TTLs are not measured: the cache runs with `allkeys-lfu`, so a key may go at any moment (`Evict`), and as
every hit renews the TTL it may also stay. Age counts in ticks of the clock that
`created_ts` is compared with, and a tick happens between turns and runs.

`turn[t]` is a conversation's turn: `Ask`; `Search`, `Exists` and `Hit` or `Miss` are
`lookup`, in the namespace `shopping` for the plugin and `tool` for the retriever;
`CallTool`, `Read` (the graph), `StoreRows`, `ToolError`, and `Answer`, `NoAnswer`,
`StoreAnswer` are the rest. `LookupFails`, and the stores that leave the
entries alone, are a cache that is slow or down. `enabled` says which indexes could be
created at start-up. `change[o]` is a run of `invalidation.py`: `ChangePrice` (the graph),
`ReadBacklog` (SMEMBERS), `FindTagged` and `DeleteTagged` until `Purged`, then `Unqueue`
(SREM); `PurgeFails` and `Queue` (SADD) when the cache fails; `StateRedisFails` and
`UnqueueFails` when SMEMBERS, SADD or SREM raises; `Crash` when the script dies. `CallsAgain` lets the
model call the tool more than once in a turn: the tags of all results are collected, and the text
quotes any one of them. History variables: `owed` holds the products whose purge was tried, failed and was
not made up for; `unqueued` those whose run ended, by its death or by an error of the state Redis,
before they were purged or queued; `exposed` those whose old price a turn was holding as their purge ended.

### The agents

* `ReactBrakes`: the calls of one response interleave. `CycleBrake` reads and
  appends the scratchpad before the tool, `RecordOutcome` writes to its last entry
  after it, whichever call that is. `ran` is the tools really run; the history `outcomes` is
  what they really came back with, recorded or lost, and `parallel` whether two ever ran at once.
* `EvaluatorLoop`: `ExitCheck` is the only code; the rounds and the feedback are the
  session's. A draft is the request and the round it was written in. `NodeFails` ends
  a request and leaves the state as it is.
* `Handoff`: `HandOff` is a specialist's transfer and counted, `Route` the
  coordinator's and not.
* `Supervisor`: a plan is text that is no JSON, JSON of another shape, or a list of names, right or
  wrong. The join is the library's, as `agent.py` describes it. `EstimateShipping` is the rule of
  `workers.py`, `FetchEstimate` that of `shipping_worker.py`, translated each by itself. `remote` selects
  stage 3, where `Execute` takes the zip code from the words of the request's text.
* `MemoryTools`: a fact is named by the session that stated it; a session has a customer, and a
  `user_id` or none. What Mem0 keeps and
  ranks is any choice.
* `ProductGraph`: `MergeProduct`, `MergeIngredient`, `MergeOrder` and `Embed` are one
  `session.run` each; a script works on the catalog as it imported it; ending a run
  half way is its death. Chunks are named by the description they were made of.
* `RawLoop`: a response is one or two parts, of which `run_agent` looks at the first.

## 3. Runs

`X.cfg` is named after the module it checks; the MC module beside it supplies the sets.

| Run | Instance | Shows |
|---|---|---|
| `breaker_agents` | 3 callers, all expecting declined cards (two agent threads and a third or a worker), `Prompt`, no deaths, threshold 3, symmetry of the callers | types; the counter always has a TTL or a caller about to set it; the circuit is opened only over three faults, each counted once, however the commands interleave |
| `breaker_serial` | 3 callers, one call at a time, `Prompt`, threshold 3; windows end anywhere | the four keys implement `ThreeStateBreaker` |
| `breaker_live` | 2 callers, 2 deaths, any expiry, declined cards, threshold 2 | nobody is locked out for ever; once the gateway stays up and declines nobody any more the breaker closes for good |
| `breaker_declines` | 2 agent threads and the worker with its own breaker on the same keys | finding: three declined cards at the worker open the circuit, without a fault |
| `charge_once` | 2 callers, 2 orders, 1 death, the ledger may run out once | one copy in flight; an order is captured at most once per ledger; every answer is the receipt of a capture of it; `ExactlyOnce` implemented; no order blocked for ever |
| `recovery_again` | 2 checkouts of one order, 1 worker, deadlines, 1 death, symmetry of the checkouts | parked orders stay accounted for; entries do not multiply; attempts are real; who is told paid has a capture, and an order has one per day of the ledger |
| `recovery_calm` | 2 checkouts of 2 orders, 1 worker, no deadline fires, no death, the ledger may run out once | no entry dropped; parked only if uncharged; every parked order is settled once the gateway stays up |
| `recovery_drop` | 1 checkout, 1 worker, deadlines | finding: the worker goes down with the entry |
| `stages` | 2 customers who want the same shirt, each stage under each profile | a failed payment took no money; nobody pays twice; in stage 4 everybody who is confirmed has paid; a flaky warehouse loses no order; from stage 2 on every order is answered, crashes or waits for a person |
| `cache` | 1 conversation, 2 questions about one product, 2 products, 2 places, 1 operator, 2 price changes, 1 death or error of the state Redis | after a purge nothing stale is left but what a turn under way held; what is served is no older than `max_age`, twice that through cached rows; a turn that hit an error is not stored; a failed purge is made up for if it was queued |
| `cache_window` | the same with 1 change, no death, and tools called again | finding: the window that the order of write and purge leaves |
| `agents` | the seven agents, one per behaviour | the properties of each, under one name per agent in `Agents` |

### Bounds

A threshold of three is the code's, and three callers are the fewest for which counts, trips and late recorders can all be different processes;
two suffice for every pairwise race on a key or a claim, and the claims of two
orders never touch. Callers repeat without bound, so retries and replays do not
need more of them. One death (two in `breaker_live`) puts a crash at every point of
every operation. `MaxAttempts` is 2 as in the code; `MaxReplays` is 2 instead of 5, enough
for an entry to be requeued and then given up. One day is enough for an order to be
known, forgotten and charged again.

`stages`: two customers suffice for a shared key and for a failure of one in the middle
of the other's order; warehouse calls count to three, the first that succeeds, and
faults to the threshold. Two attempts of a charge by two customers come to four, so the
breaker really refuses. Both want the same shirt, so of `EveryonePays` the run sees the half about
stage 4; what it says of stages 1 to 3, where nobody else wants the item, is in the theorem
`ConfirmedHavePaid` only. The order of a customer ends, so deadlock is not checked.

`cache`: two places hold an answer and the rows it was made from; two changes let a
purge fail and a later one make up for it; a batch of one makes a purge of two
entries take two rounds, with evictions between them; `MaxAge` 1 makes three ages of an entry
(fresh, old, too old) and twice that for an answer from rows. Places and questions are
symmetric: the questions differ in a token, and each is near the other. The model
calls the tool once a turn here (`CallsAgain` is FALSE), and in `cache_window` and the theorems as often as it
likes. With two conversations the state space leaves the time there is; a second reader adds a
second holder of an old price, and one already reaches `exposed`. The theorems
of `CachedShoppingProofs` hold for any number of turns, places and products.

`agents`: four calls with three signatures, two at a time, against brakes of three
calls and two empty ones (the code's are 8 and 3, with a window of 10; what the brakes need is that the
window is not smaller than the cap); the handoff cap of the code; three requests
against four rounds, so that the rounds run out inside a session; three requests of the form on the
estimator's card, for zip codes of both kinds and next to the boundary, a sentence and a single
word; four sessions of three customers, two of them without a `user_id`; two products, two ingredients and one edit; the six steps of the raw loop.
Behaviours end where a bound or the code ends them, so deadlock is not checked.

Every MC constant named `Max*`, and the saturation of counters (the breaker's above the
threshold, `hits` at 3, ages when too old) are the only bounds on otherwise unbounded
quantities.

### Fairness

Each caller's next command is weakly fair: a Redis command is answered and a
wrapped call returns or raises, which is how every client here is built. Keys with
a TTL expire. The breaker's callers keep calling, since the worker's loop never
ends. In `IdempotentCharge` a call under way goes on and a claim's TTL runs out; nobody has to come
back to an order, since neither the agent nor the worker does after a RuntimeError. `NeverBlocked`
therefore promises that an order is recorded or its claim is free, again and again, so that
whoever comes next is not refused for ever. Nothing makes the
gateway recover, a deadline fire, a person decide or a process die; where
recovery matters the property says `<>[]serving` or `<>[]up`, and `ClosesWhenHealthy` also that
cards are no longer declined.

In `CheckoutRecovery` only threads, nodes and workers are fair. A claim is released by its
failing holder or left by a successful one, in which case the record answers, so
no expiry has to be assumed.

In `CheckoutStages` the runner keeps running the graph (`Ending`, weak fairness per
customer): a node returns, raises or is cut off. The model nodes of stage 1 have no timeout and
nothing makes them end, so `EveryOrderEnds` is about stages 2 to 4; the warehouse and the gateway are
this repository's fixtures, which answer after a sleep. Nobody has to decide an escalation,
and `EveryOrderEnds` counts waiting for a person as an end.

The cache and the agents have safety properties only. Nothing there has to
happen: a model that never answers is no fault of this code.

## 4. What is proved

Theorems hold for every value of the constants: any number of callers, customers,
orders, turns, places, products, expiries, days and deaths, under the assumptions
named. Every invariant and every action property that a passing run checks has its
theorem, and so have the three refinements.

### The charge: `IdempotentChargeProofs`

| Theorem | Property | Assumes |
|---|---|---|
| `TypeCorrect` | `TypeOK` | nothing about time |
| `OneReceipt` | `SameReceipt` | nothing about time |
| `NoSecondCopy` | `OneCopyInFlight` | `LockOutlivesCalls` |
| `OneCapturePerLedger` | `ChargedOncePerLedger` | `LockOutlivesCalls` |
| `ImplementsExactlyOnce` | the refinement of `ExactlyOnce` | `LockOutlivesCalls` |

`SameReceipt` needs only that a receipt comes from a capture wherever it is passed on
(`Answers`: `RecordIsCapture`, `StoringIsPaid`, `AnsweredIsPaid`), so it holds even when a
claim runs out under its call.

`ChargedOncePerLedger` is not inductive: nothing in it says why a caller about to
charge finds an order the ledger does not have. The inductive invariant `Claims` says so
in parts. Whoever is past the claim has its key in Redis (`HoldersAreLocked`, which
is where `LockOutlivesCalls` enters), so two callers past it are one
(`OneCopyInFlight`). The ledger has the last capture of an order or has run out
since, and every capture but the last is paid for with a day (`LedgerIsLast`). A caller
between its look at the ledger and its charge works on an order the ledger still does not
have (`ChargingIsNew`). Each action preserves each part, one step of the proof per action.

### The checkout and its worker: `CheckoutRecoveryProofs`

| Theorem | Property | Assumes |
|---|---|---|
| `ImplementsCharge` | each behaviour is one of `IdempotentCharge` | |
| `TypeCorrect` | `TypeOK` | |
| `ConfirmedIsCaptured` | `PaidOnce` | `LockOutlivesCalls` |
| `GivesUpAfterTrying` | `ExhaustedWasTried` | |
| `ParkedIsKept` | `NothingLost` | |
| `EntriesAreNotCopied` | `NoEntryMultiplied` | |
| `CalmDropsNothing` | `NothingDropped` | no deaths, no deadline fires, each order is placed once |
| `ParkingIsFree` | `ParkedUncharged` | the same |

Threads and workers are callers of `IdempotentCharge`. Each step of agent or
worker that touches the charge is one of that module's, and the others leave it alone; that needs only
the types. So what `IdempotentChargeProofs` proves of any callers holds here, and
`PaidOnce` follows: `Claims` counts the captures, and a node says paid only after a receipt
(`PaidIsCaptured`). That the receipt is for the right order needs `Roles`: a thread asks for
its checkout's order, and a worker for that of the entry in its hand.

`ExhaustedWasTried` is about a history of attempts and needs it carried along with the entry
through queue and hand (`AttemptsWereMade`). `NothingLost` is preserved as it is,
action by action, since whatever takes an entry up has it in its hand and
puts it back or down. `NoEntryMultiplied` counts: an entry is pushed by a checkout
that becomes one of the parked, or by a worker that gives its own up.

The last two are about the RuntimeError for an order still in flight, whose entry the
worker drops. `Calm` shows when it cannot occur: an order is with its checkout, in the
queue once or in one hand (`OneOwner`), so nobody else is at work on it (`AloneAtWork`); hence a
claim in the way is the caller's own or left by a charge that is on record
(`LockIsExplained`), and who finds it taken has seen the record first (`ClaimingIsNew`). Each
hypothesis is needed: `recovery_drop` is the case with deadlines, and `recovery_calm` fails
`NothingDropped` with `MaxDeaths = 1` (the worker dies) and with `OrderOf` giving both
checkouts one order (the worker runs into the claim of the second).

### The breaker: `CircuitBreakerProofs`

| Theorem | Property | Assumes |
|---|---|---|
| `TypeCorrect` | `TypeOK` | |
| `CounterAlwaysExpires` | `CounterExpires` | no deaths |
| `OpensOnFaultsOnly` | `OpensOnFaults` | no deaths, `Prompt`, who can be told of a declined card expects it |
| `ImplementsThreeStates` | the refinement of `ThreeStateBreaker` | no deaths, `Prompt`, calls do not overlap |

The hypotheses are those of the runs. `CounterExpires` is inductive with the types: a caller about
to EXPIRE found the counter at one.

For `OpensOnFaults`, `Evident` compares the counter with the history: counter and
faults still to be counted never exceed the evidence (`CountIsEvident`), but for a
caller that has opened the circuit and not yet deleted the counter. Whoever is in
`record_failure` meanwhile is `busy` (`OpenersAreMet`), and the open key outlives these (`BusyIsOpen`, which is where
`Prompt` enters), so nobody who counts then opens a breaker that is not open
(`TrippingIsEvident`). The uncounted faults are the cardinality of a set of callers,
whence the lemmas on how one caller's step changes it.

For the refinement, `Serial` says that with one caller at a time the keys
are where its position says (`KeysAgree`), that an open circuit is marked or about to be
(`OpenIsMarked`), that the counter is below the threshold or its caller on the way to
trip (`CountAgrees`), and that an opener is `busy` (`OpenersAreBusy`). Then every command is a step of the three-state breaker or a stutter.
It assumes nothing of `Expecting`.

### The staged checkouts: `CheckoutStagesProofs`

`NobodyPaysTwice`, `FailuresAreFree`, `ConfirmedHavePaid`, `FlakyWarehouseIsRiddenOut` and
`TypeCorrect` (`ChargedOnce`, `FailedUncharged`, `EveryonePays`, `RidesOutFlakyWarehouse`,
`TypeOK`), for any customers, any choice of what they want, any threshold. The invariant follows
the money: an order that has not passed its charge is unpaid and nobody's late thread
is at it (`OpenIsUnpaid`); whoever is inside the gateway stands at an open order
(`PayingIsOpen`); a late thread belongs to an order that was cut off and is still unpaid
(`LateIsUnpaid`); a key is in the ledger only if a customer with that key has paid
(`LedgerIsPaid`), which is where the session in stage 4's key matters.

The warehouse needs a second invariant, `Tries`. Its failures are the first calls whoever
makes them, so an order still at reserve has had no more failures than there were calls; the
third call answers, and the policy allows four.

### The cache: `CachedShoppingProofs`

`TypeCorrect`, `ErrorsStayOut` and `AgeBoundsDamage` (`TypeOK`, `OnlyCleanStored`,
`DamageBounded`) assume nothing about the runs of `invalidation.py`. Their invariant
`Sound` says of each entry and of all a turn holds that it is well formed,
comes from the graph and is no older than the lookups it came through allow: the age of what
a turn found is checked at the search, and rows put into an answer add at most `MaxAge` to it.

`PurgeLeavesFresh` and `BacklogKeeps` (`PurgedIsFresh`, `FailedPurgeIsKept`) assume
`OneOperator`: one run of `invalidation.py` at a time. A product is `Dirty` while an old price
of it is in the cache or in a turn. A dirty product is known to a run, the backlog, `unqueued` or `exposed`
(`DirtyIsKnown`); between the end of its purge and the SREM only to `exposed`
(`PurgedIsExposed`); and a run has taken the backlog over, so nothing it gives up is
unpurged (`RunsOK`). What a step can write into the cache comes from a turn, and what it can
put into a turn from the cache or the graph (`Inherits`), so no step but a price change
makes a product dirty.

### The agents: `AgentsProofs`, `ReactBrakesProofs`, `HandoffProofs`

A behaviour of `Agents` is one of each of its seven modules, six of which stutter (the
lemmas `StepsOf...`), so each is proved by itself and the composition inherits it.

| Theorem | Property | Argument |
|---|---|---|
| `BrakesAlwaysHold` | `BrakesHold` | a call let through, and a tool that ran, has its entry, and no two have one signature (`EntriesDiffer`, `RanOnce`, `ToRun`): the brake looks and appends in one step; while calls come one at a time the scratchpad is the outcomes |
| `TransfersAlwaysBounded` | `TransfersBounded` | every other transfer at least is a counted one: at most twice the count, and one more unless the coordinator has the conversation |
| `LoopsAlwaysSound` | `LoopsAreSound` | one round is added per judged draft, so what the check reads is about the last draft |
| `CallsAlwaysAnswered` | `CallsAnswered` | the history is calls followed by their responses, but for the call under way |
| `EstimatesAlwaysAgree` | `EstimatesAgree` | the two rules agree on every zip code (`RulesAgree`), and no answer outlives its request, however that ended |
| `FactsAlwaysPrivate` | `FactsStayPrivate` | a stored fact bears the id of the session that stated it |
| `GraphAlwaysTrue` | `GraphTellsTruth` | a run that merged part of a catalog has what it merged in the graph (`SeedRuns`, `EmbedRuns`), and nothing takes it out again until the catalog is loaded (`SeedLoaded`, `EmbedLoaded`) |
| `AgentsTyped` | `TypesOK` | the types are part of each invariant |

They assume of the constants what the code has: limits are numbers and there is a round
(`LimitsAssumption`), the scratchpad's window holds as many entries as calls are allowed
(`BrakesAssumption`), every order is for something, and for products of the catalog (`ShopAssumption`), and
a `user_id` belongs to one customer and is not the `default_user` that `memory_tools.py` falls back to
(`UsersAssumption`). `HandoffBounded` of `HandoffProofs` assumes only that the cap is a natural number.

## 5. What is only model-checked

The five liveness properties (`NeverWedged`, `ClosesWhenHealthy`, `NeverBlocked`,
`ParkedIsResolved`, `EveryOrderEnds`): the prover has no rules for fairness or ENABLED. And
the three findings, which are counterexamples of an instance. No module has a RECURSIVE
operator, and no theorem needs an induction over data.

## 6. Where the code and its words part

With a run that shows it:

1. reliability.py:34-35 says a breaker must not count business outcomes.
   replay_worker.py:38 builds its breaker on the agent's keys without
   `expected_exceptions`, so three declined replays open the agent's circuit (`breaker_declines`).
2. replay_worker.py:3-5 promises a real recovery. A RuntimeError from an order still
   in flight ends the worker with the entry in its hand (`recovery_drop`).
3. invalidation.py:44-45 says the other order of write and purge leaves a window. This
   order leaves one too: a turn that read the old price before the write stores it
   after the purge (`cache_window`). `PurgedIsFresh` says that this and a death are the only
   ways, and `DamageBounded` how long it lasts.

Without a run of their own, as they follow from reading the code or from a
configuration in which a property fails:

* reliability.py:30-31 says exactly one probe. The probe key lives 15 s and any
  recorded outcome deletes it; a slower probe is joined by a second.
* reliability.py:30 says the cooldown ends half open. A success that began before the circuit
  opened deletes the marker, and it ends closed.
* A call slower than the 120 s of its claim is joined by a second, and the ledger's
  check and write are two commands: two captures (`ChargedOncePerLedger` fails with
  `LockOutlivesCalls = FALSE`), against the exactly-once of reliability.py:113.
* reliability.py:28-29 says a rolling window. The window is fixed: of faults at 0, 58, 61 and
  62 s the last three are within four seconds and the circuit stays closed, since the key of the first
  takes the second with it at 60 s.
* A process that dies between INCR and EXPIRE leaves a counter without a window
  (`CounterExpires` fails with `MaxDeaths = 1` in `breaker_agents`).
* An order replayed after a day is charged again, although `mint_order_id` promises
  an id that survives "a replay a day later"; `charge_once` allows it once per day
  and no more.
* stage_2_timeouts_and_retries/agent.py:3-5 says that with its timeouts a hung dependency stops the
  request. Its charge blocks the event loop, so its deadline cannot cut that off
  (stage_3_containment/agent.py:111-114 says so); the gateway of the repository sleeps and answers.
* stage_4_recovery/agent.py:238 tells the customer that nothing was charged. The deadline
  ended the await and not the thread; `FailedUncharged` excepts `NodeTimeoutError` for it.
* stage_4_recovery/agent.py:268: `apply_decision` records the person's action and does
  nothing else; "retry" and "cancel" change neither the queue nor the money.
* An escalation whose reservation failed has no order id yet, and all of them share
  the interrupt id "checkout-unassigned".
* A quantity that is not a number raises ValueError from `as_order` (order.py), which is
  on no list of permanent failures: stage 4 tells the customer that the warehouse cannot be reached.
* invalidation.py:55 says that the TTL bounds the damage of a failed purge. Every hit renews
  the TTL (semantic_cache.py:178), so it bounds nothing; `max_age_seconds` does, 24 h for an entry and
  twice that for an answer made from cached rows (`DamageBounded`).
* invalidation.py:54-55 prints that the product is queued for the next run for every RedisError,
  also of the SMEMBERS or the SADD that failed to queue it. `FailedPurgeIsKept` and
  `PurgedIsFresh` except such a run, and one that dies before it has queued (`unqueued`).
* Two operators break `FailedPurgeIsKept`: the SREM of a run that has purged removes
  what another has just queued.
* stage_1_react_with_brakes/agent.py:50: the calls "per task" are the calls of the session.
  After `MAX_TOOL_CALLS` of them the agent never calls a tool again.
* chapter-05-decision-making/README.md:53 and agent.py:82 there say that the last three lookups
  came back empty, or that three in a row stop the agent. With several calls in one response `record_outcome`
  writes the first outcome into another call's entry and loses the rest (agent.py:96-100), so more empty lookups
  than that are let through: `StopsOnEmpties` is about sessions that call one tool at a time, and fails
  without its hypothesis.
* memory_tools.py:47 and 69-72 speak of the current user. Without a `user_id` in the session's
  state (57, 79), which no agent of the repository sets, everybody is `default_user` and finds
  what everybody else has stated. `FactsStayPrivate` is about sessions with a `user_id`.
* `MAX_HANDOFFS` caps the specialists' transfers; the session may make one more than
  twice as many.
* The shipping service takes the second word of the text for the zip code
  (shipping_worker.py), so a request in prose gets the estimate of another;
  `EstimatesAgree` is about the form on the card.
* A plan that is JSON but names no specialist ends the run without a reply;
  only text that is no JSON falls back to all four.
* After one request that used all rounds, every later request of a session gets one round
  (stage_3_evaluator_optimizer/agent.py:75).
* A worker that dies with an entry in its hand takes it along: BRPOP has removed it from Redis
  (replay_worker.py:86). `NothingLost` excepts such an entry.
* A reply from the returns service that is lost is asked for again, and `initiate_return` has no key to
  know the order by; it keeps no state either, so nothing comes of it here.
* While the first `seed.py` runs, or after it died, `safety_check` may call a product safe whose
  ingredients are not in the graph yet; `SafeMeansSafe` is about catalogs that were loaded.
* `seed.py` never removes an edge: an ingredient taken out of the catalog stays
  in the graph. `SafeMeansSafe` holds all the same; products that became safe stay unsafe.

## 7. Not modelled, and the plan

Not modelled, and why:

* Plan-and-execute (chapter 5 stage 2), the workshop agent and the session-state
  callback (chapters 2 and 4): calls in a row, without a branch, a failure path or
  shared state.
* The returns desk (chapter 6) and the router (chapter 5 stage 4): a classification by the model and a
  table lookup that writes nothing.
* The MCP servers (chapter 3): stateless lookups in a constant table.
* `observability.py`: log lines and a counter nothing reads, with every error swallowed. (Its
  counter of "today" renews its TTL with every failure, so it is not of a day.)
* `token_brake` never fires, since nothing writes `tokens_used`; `assert_cache_safe` is a
  check at start-up over lists that the one cached agent does not meet.
* The ranking of searches, embeddings, ADK, MCP, A2A, LangGraph, Neo4j, Mem0 and the
  model: external, modelled only by how the code uses them.
* Benchmarks, exploration and timing scripts.
* Redis does not fail in chapter 8 (append-only file; an error of a command inside
  an operation is not modelled there). In chapter 10 the cache's Redis does.

Left to do: two operators at once with a backlog that counts its purges, if the code
gets one. All that
the prover reaches of what the runs check is proved.

---------------------------- MODULE CachedShopping ----------------------------
(***************************************************************************)
(* Chapter 10 put together: the cached shopping agent (cache_plugin.py,    *)
(* cached_retrievers.py) answering from a graph whose prices change, and   *)
(* invalidation.py changing them.  A step is one Redis or graph command    *)
(* of one turn or of one run of invalidation.py: between any two, anything *)
(* else may happen.  Any command to the cache may raise: its Redis is slow *)
(* or down.  What the model says is nondeterministic.                      *)
(***************************************************************************)
EXTENDS SemanticCache

CONSTANTS
  Turns,      \* conversations that may be open at once
  CallsAgain, \* whether the model calls the tool again in a turn that has rows
  Operators,  \* processes that may run invalidation.py at once
  MaxChanges, \* how often prices change
  MaxCrashes  \* how often a run dies or the state Redis answers it with an error

ASSUME LimitsAssumption ==
  MaxChanges \in Nat /\ MaxCrashes \in Nat /\ CallsAgain \in BOOLEAN

VARIABLES
  enabled,   \* per namespace, whether its index could be created at start-up
  price,     \* the graph: how often the price of each product has changed
  turn,      \* each conversation's turn
  change,    \* each operator's run of invalidation.py
  backlog,   \* cache:purge_backlog, in the state Redis
  changes,   \* runs of invalidation.py so far
  crashes,   \* deaths and such errors so far
  owed,      \* history: products whose purge failed and was not made up for
  unqueued,  \* history: products whose run ended, by a death or by an error of
             \* the state Redis, before they were purged or queued
  exposed    \* history: products with a turn holding the old price as their
             \* purge ended

counts  == <<changes, crashes>>
history == <<owed, unqueued, exposed>>
vars == <<entries, enabled, price, turn, change, backlog, counts, history>>

None == [question |-> "none"]

Idle == [at |-> "idle", ns |-> "shopping", question |-> None, key |-> NoKey,
         found |-> None, rows |-> None, pending |-> FALSE, tainted |-> FALSE,
         erred |-> FALSE]

NoRun == [at |-> "idle", product |-> "none", ids |-> {}, keys |-> {}]

\* After lookup, the rest of the turn (shopping) or of the retriever (tool).
TurnSteps == {"idle", "search", "exists", "touch", "model", "read", "store"}

RunSteps == {"idle", "smembers", "search", "delete", "sadd", "srem"}

TypeOK ==
  /\ DOMAIN entries = Places
  /\ \A i \in Whole : entries[i].ns \in Namespaces /\ entries[i].quote \in Quotes
  /\ enabled \in [Namespaces -> BOOLEAN]
  /\ price \in [Products -> 0 .. MaxChanges]
  /\ \A t \in Turns : turn[t].at \in TurnSteps /\ turn[t].ns \in Namespaces
                      /\ turn[t].rows \in Quotes \cup {None}
  /\ \A o \in Operators : change[o].at \in RunSteps /\ change[o].ids \subseteq Products
  /\ backlog \cup owed \cup unqueued \cup exposed \subseteq Products

Init ==
  /\ entries = [i \in Places |-> Absent]
  /\ enabled \in [Namespaces -> BOOLEAN]
  /\ price = [p \in Products |-> 0]
  /\ turn = [t \in Turns |-> Idle]
  /\ change = [o \in Operators |-> NoRun]
  /\ backlog = {}
  /\ changes = 0
  /\ crashes = 0
  /\ owed = {}
  /\ unqueued = {}
  /\ exposed = {}

Held == {turn[t].key : t \in Turns}

Become(t, new) == turn' = [turn EXCEPT ![t] = new]

\* What the turn was given, seen or read so far that names a price.
Carries(t, p) ==
  \E x \in {turn[t].rows, turn[t].found} :
    x # None /\ p \in x.quoted /\ x.price < price[p]

-----------------------------------------------------------------------------
(* lookup, from before_model_callback and from the retriever *)

Ask(t, q) ==
  /\ turn[t].at = "idle"
  /\ Become(t, [Idle EXCEPT !.at = IF enabled["shopping"] THEN "search" ELSE "model",
                            !.question = q])
  /\ UNCHANGED <<entries, enabled, price, change, backlog, counts, history>>

\* Where a lookup without a usable answer goes on.  The plugin remembers the
\* question unless the lookup raised.
Miss(tn, raised) ==
  IF tn.ns = "tool" THEN [tn EXCEPT !.at = "read", !.key = NoKey, !.found = None]
  ELSE [tn EXCEPT !.at = "model", !.key = NoKey, !.found = None, !.pending = ~raised]

LookupFails(t) ==
  /\ turn[t].at \in {"search", "exists", "touch"}
  /\ Become(t, Miss(turn[t], TRUE))
  /\ UNCHANGED <<entries, enabled, price, change, backlog, counts, history>>

Search(t) ==
  LET hits == Nearest(turn[t].ns, turn[t].question) IN
  /\ turn[t].at = "search"
  /\ \/ hits = {} /\ Become(t, Miss(turn[t], FALSE))
     \/ \E i \in hits :
          Become(t, [turn[t] EXCEPT !.at = "exists", !.key = i,
                                  !.found = entries[i].quote])
  /\ UNCHANGED <<entries, enabled, price, change, backlog, counts, history>>

Exists(t) ==
  /\ turn[t].at = "exists"
  /\ Become(t, IF entries[turn[t].key] = Absent THEN Miss(turn[t], FALSE)
               ELSE [turn[t] EXCEPT !.at = "touch"])
  /\ UNCHANGED <<entries, enabled, price, change, backlog, counts, history>>

\* after_tool_callback: the ids of every result are remembered for the tags.  The
\* text will quote this result or one the turn had before.
ToolResults(tn, rows) ==
  {[tn EXCEPT !.at = "model", !.ns = "shopping", !.key = NoKey, !.found = None,
              !.rows = [r EXCEPT !.question = tn.question,
                                 !.tags = UNION {x.tags : x \in {rows, tn.rows} \ {None}}]] :
     r \in {rows, tn.rows} \ {None}}

\* A hit: the retriever returns it; the plugin serves it if the guard agrees,
\* which ends the turn, and goes on to the model if not.
Hit(t) ==
  LET tn == turn[t] IN
  /\ tn.at = "touch"
  /\ Touch(tn.key)
  /\ \/ tn.ns = "tool" /\ \E new \in ToolResults(tn, tn.found) : Become(t, new)
     \/ /\ tn.ns = "shopping"
        /\ Become(t, IF SameSpecifics(tn.question, tn.found.question) THEN Idle
                     ELSE Miss(tn, FALSE))
  /\ UNCHANGED <<enabled, price, change, backlog, counts, history>>

-----------------------------------------------------------------------------
(* The rest of a turn *)

\* The model calls products_and_alternatives, once or again.
CallTool(t) ==
  /\ turn[t].at = "model"
  /\ turn[t].rows = None \/ CallsAgain
  /\ Become(t, [turn[t] EXCEPT !.ns = "tool",
                               !.at = IF enabled["tool"] THEN "search" ELSE "read"])
  /\ UNCHANGED <<entries, enabled, price, change, backlog, counts, history>>

\* _alternatives.search on the graph.
Read(t) ==
  LET q == turn[t].question
      p == ProductOf[q]
  IN
  /\ turn[t].at = "read" /\ turn[t].ns = "tool"
  /\ Become(t, [turn[t] EXCEPT !.at = "store", !.found =
       [question |-> q, quoted |-> {p}, price |-> price[p], dataAge |-> 0,
        tags |-> {p}, clean |-> TRUE]])
  /\ UNCHANGED <<entries, enabled, price, change, backlog, counts, history>>

\* Mutant: on_tool_error_callback does not taint the turn.
ToolErrorUntainted(t) ==
  /\ turn[t].at = "read"
  /\ Become(t, [turn[t] EXCEPT !.at = "model", !.ns = "shopping", !.erred = TRUE])
  /\ UNCHANGED <<entries, enabled, price, change, backlog, counts, history>>

\* The search raises.  If the run goes on, the model has no rows.
ToolError(t) ==
  /\ turn[t].at = "read"
  /\ Become(t, [turn[t] EXCEPT !.at = "model", !.ns = "shopping", !.erred = TRUE,
                               !.tainted = TRUE])
  /\ UNCHANGED <<entries, enabled, price, change, backlog, counts, history>>

\* The retriever stores its rows, if it can, and returns them.
StoreRows(t) ==
  LET rows == turn[t].found IN
  /\ turn[t].at = "store" /\ turn[t].ns = "tool"
  /\ UNCHANGED entries \/ (enabled["tool"] /\ Put("tool", rows, Held))
  /\ \E new \in ToolResults(turn[t], rows) : Become(t, new)
  /\ UNCHANGED <<enabled, price, change, backlog, counts, history>>

\* The final text.  It is to be stored if the question was remembered and the
\* turn is clean; an error or an empty answer ends the turn like any other.
Answer(t) ==
  /\ turn[t].at = "model"
  /\ Become(t, IF turn[t].pending /\ ~turn[t].tainted
               THEN [turn[t] EXCEPT !.at = "store"] ELSE Idle)
  /\ UNCHANGED <<entries, enabled, price, change, backlog, counts, history>>

NoAnswer(t) ==
  /\ turn[t].at = "model"
  /\ Become(t, Idle)
  /\ UNCHANGED <<entries, enabled, price, change, backlog, counts, history>>

\* Without rows the answer quotes no price and is tagged with no product.
FinalText(t) ==
  IF turn[t].rows # None THEN [turn[t].rows EXCEPT !.clean = ~turn[t].erred]
  ELSE [question |-> turn[t].question, quoted |-> {}, price |-> 0, dataAge |-> 0,
        tags |-> {}, clean |-> ~turn[t].erred]

\* Mutant: the answer is stored without the product tags.
StoreAnswerUntagged(t) ==
  /\ turn[t].at = "store" /\ turn[t].ns = "shopping"
  /\ UNCHANGED entries \/ Put("shopping", [FinalText(t) EXCEPT !.tags = {}], Held)
  /\ Become(t, Idle)
  /\ UNCHANGED <<enabled, price, change, backlog, counts, history>>

StoreAnswer(t) ==
  /\ turn[t].at = "store" /\ turn[t].ns = "shopping"
  /\ UNCHANGED entries \/ Put("shopping", FinalText(t), Held)
  /\ Become(t, Idle)
  /\ UNCHANGED <<enabled, price, change, backlog, counts, history>>

-----------------------------------------------------------------------------
(* change_price and purge_with_backlog *)

Go(o, from, to) ==
  /\ change[o].at = from
  /\ change' = [change EXCEPT ![o].at = to, ![o].keys = {}]

Finish(o, from) ==
  /\ change[o].at = from
  /\ change' = [change EXCEPT ![o] = NoRun]

ChangePrice(o, p) ==
  /\ changes < MaxChanges
  /\ change[o].at = "idle"
  /\ changes' = changes + 1
  /\ price' = [price EXCEPT ![p] = @ + 1]
  /\ change' = [change EXCEPT ![o] = [NoRun EXCEPT !.at = "smembers", !.product = p]]
  /\ UNCHANGED <<entries, enabled, turn, backlog, crashes, history>>

\* Mutant: change_price passes the id for the list, and set() takes its letters.
ReadBacklogLetters(o) ==
  /\ change[o].at = "smembers"
  /\ change' = [change EXCEPT ![o].at = "search", ![o].ids = {"p", "0"} \cup backlog]
  /\ UNCHANGED <<entries, enabled, price, turn, backlog, counts, history>>

ReadBacklog(o) ==
  /\ change[o].at = "smembers"
  /\ change' = [change EXCEPT ![o].at = "search",
                              ![o].ids = {change[o].product} \cup backlog]
  /\ UNCHANGED <<entries, enabled, price, turn, backlog, counts, history>>

PurgeFails(o) ==
  /\ change[o].at \in {"search", "delete"}
  /\ change' = [change EXCEPT ![o].at = "sadd", ![o].keys = {}]
  /\ owed' = owed \cup change[o].ids
  /\ UNCHANGED <<entries, enabled, price, turn, backlog, counts, unqueued, exposed>>

FindTagged(o) ==
  /\ change[o].at = "search"
  /\ \E keys \in Replies(change[o].ids) \ {{}} :
       change' = [change EXCEPT ![o].at = "delete", ![o].keys = keys]
  /\ UNCHANGED <<entries, enabled, price, turn, backlog, counts, history>>

DeleteTagged(o) ==
  /\ Go(o, "delete", "search")
  /\ Delete(change[o].keys)
  /\ UNCHANGED <<enabled, price, turn, backlog, counts, history>>

\* The last search finds nothing.  A turn that still carries an old price of
\* one of the products may store it from now on.
Purged(o) ==
  /\ Tagged(change[o].ids) = {}
  /\ Go(o, "search", "srem")
  /\ exposed' = (exposed \ change[o].ids)
                \cup {p \in change[o].ids : \E t \in Turns : Carries(t, p)}
  /\ owed' = owed \ change[o].ids
  /\ unqueued' = unqueued \ change[o].ids
  /\ UNCHANGED <<entries, enabled, price, turn, backlog, counts>>

\* Mutant: a failed purge replaces the backlog by its own product.
QueueOwnOnly(o) ==
  /\ Finish(o, "sadd")
  /\ backlog' = {change[o].product}
  /\ unqueued' = unqueued \ change[o].ids
  /\ UNCHANGED <<entries, enabled, price, turn, counts, owed, exposed>>

Queue(o) ==
  /\ Finish(o, "sadd")
  /\ backlog' = backlog \cup change[o].ids
  /\ unqueued' = unqueued \ change[o].ids
  /\ UNCHANGED <<entries, enabled, price, turn, counts, owed, exposed>>

Unqueue(o) ==
  /\ Finish(o, "srem")
  /\ backlog' = backlog \ change[o].ids
  /\ UNCHANGED <<entries, enabled, price, turn, counts, history>>

\* The run is over, its product neither purged nor queued.
Abandon(o) ==
  /\ crashes < MaxCrashes
  /\ crashes' = crashes + 1
  /\ change' = [change EXCEPT ![o] = NoRun]
  /\ unqueued' = unqueued \cup {change[o].product}
  /\ UNCHANGED <<entries, enabled, price, turn, backlog, changes, owed, exposed>>

\* SMEMBERS or SADD raises.  main prints "It is queued for the next run" all the
\* same, and exits.
StateRedisFails(o) == change[o].at \in {"smembers", "sadd"} /\ Abandon(o)

\* SREM raises, or the script dies before it: what was purged stays in the backlog.
UnqueueFails(o) ==
  /\ Finish(o, "srem")
  /\ UNCHANGED <<entries, enabled, price, turn, backlog, counts, history>>

\* The script dies before it has purged or queued.
Crash(o) == change[o].at \notin {"idle", "srem"} /\ Abandon(o)

-----------------------------------------------------------------------------
(* The environment *)

EvictKey ==
  /\ Evict
  /\ UNCHANGED <<enabled, price, turn, change, backlog, counts, history>>

\* A turn and a run are much shorter than a tick.  Keys may still go during one:
\* EvictKey.
Tick ==
  /\ \A t \in Turns : turn[t].at = "idle"
  /\ \A o \in Operators : change[o].at = "idle"
  /\ TickEntries
  /\ UNCHANGED <<enabled, price, turn, change, backlog, counts, history>>

TurnStep(t) ==
  \/ LookupFails(t) \/ Search(t) \/ Exists(t) \/ Hit(t) \/ CallTool(t) \/ Read(t)
  \/ ToolError(t) \/ StoreRows(t) \/ Answer(t) \/ NoAnswer(t) \/ StoreAnswer(t)

RunStep(o) ==
  \/ ReadBacklog(o) \/ PurgeFails(o) \/ FindTagged(o) \/ DeleteTagged(o)
  \/ Purged(o) \/ Queue(o) \/ Unqueue(o) \/ StateRedisFails(o) \/ UnqueueFails(o)

Next ==
  \/ \E t \in Turns : TurnStep(t) \/ \E q \in Questions : Ask(t, q)
  \/ \E o \in Operators : RunStep(o) \/ Crash(o) \/ \E p \in Products : ChangePrice(o, p)
  \/ EvictKey \/ Tick

Spec == Init /\ [][Next]_vars

-----------------------------------------------------------------------------
(* Properties *)

\* Products between their graph write and the end of their purge.
Changing ==
  UNION {{change[o].product} \cup change[o].ids : o \in {o \in Operators : change[o].at # "idle"}}

(***************************************************************************)
(* change_price writes the graph and then purges, the backlog with it, so  *)
(* no entry quotes an old price any more, unless its purge is still under  *)
(* way or queued, or a turn was holding the old price as the purge ended,  *)
(* or the run ended before it could purge or queue.  Answers built from    *)
(* cached rows go with the rows: they carry the same tags.                 *)
(***************************************************************************)
PurgedIsFresh ==
  \A i \in Whole : \A p \in entries[i].quote.quoted :
    entries[i].quote.price < price[p] => p \in Changing \cup backlog \cup unqueued \cup exposed

(***************************************************************************)
(* The comment in change_price: the order of write and purge leaves no     *)
(* window in which an old price is read and cached again.                  *)
(***************************************************************************)
NoWindow ==
  \A i \in Whole : \A p \in entries[i].quote.quoted :
    entries[i].quote.price < price[p] => p \in Changing \cup backlog

(***************************************************************************)
(* max_age_seconds (the filter of lookup on created_ts): what is served    *)
(* says what the graph said at most MaxAge ago for rows, and twice that    *)
(* for an answer made from cached rows, with or without a purge.  It is    *)
(* this filter that bounds the damage of a lost purge; the TTL, which      *)
(* invalidation.py names, does not, since every hit renews it.             *)
(***************************************************************************)
DamageBounded ==
  \A t \in Turns : turn[t].found # None =>
    turn[t].found.dataAge <= (IF turn[t].ns = "tool" THEN MaxAge ELSE 2 * MaxAge)

(***************************************************************************)
(* A turn that hit an error is not reusable (on_tool_error_callback),      *)
(* however it went on.                                                     *)
(***************************************************************************)
OnlyCleanStored == \A i \in Whole : entries[i].quote.clean

(***************************************************************************)
(* A product whose purge failed is kept until a later run purges it (the   *)
(* comment on BACKLOG_KEY): it is in the backlog, or its run is about to   *)
(* put it there, or that run died or its SADD failed before it was queued, *)
(* whatever else fails, as long as one run follows another.                *)
(***************************************************************************)
Queueing == UNION {change[o].ids : o \in {o \in Operators : change[o].at = "sadd"}}

FailedPurgeIsKept == owed \subseteq backlog \cup Queueing \cup unqueued

=============================================================================

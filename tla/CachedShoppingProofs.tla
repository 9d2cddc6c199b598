-------------------------- MODULE CachedShoppingProofs --------------------------
(***************************************************************************)
(* How stale the cache can be, for any number of conversations, questions, *)
(* places, products, price changes and deaths.  What the age filter and    *)
(* the tainting of turns give (Sound) holds however many runs of           *)
(* invalidation.py are under way; what a purge leaves (IInv) needs one run *)
(* to follow another.                                                      *)
(***************************************************************************)
EXTENDS CachedShopping, TLAPS

OneOperator == \A o, r \in Operators : o = r

(***************************************************************************)
(* Responses that are tagged with whatever they quote and come from a turn *)
(* without an error, wherever they are: in the cache, or in a turn.        *)
(***************************************************************************)
QuoteOK(q) == q \in Quotes /\ q.quoted \subseteq q.tags /\ q.clean

Cells ==
  {Absent, Partial} \cup [kind : {"whole"}, ns : Namespaces, quote : Quotes, age : Nat]

(***************************************************************************)
(* While a lookup still returns an entry, its prices are as old as the     *)
(* entry if they were read from the graph for it, and at most MaxAge older *)
(* if they came from cached rows.                                          *)
(***************************************************************************)
MayLag(ns) == IF ns = "tool" THEN 0 ELSE MaxAge

(* Both are numbers. *)
LEMMA LagType == MaxAge \in Nat /\ \A ns : MayLag(ns) \in Nat
BY CacheAssumption DEF MayLag

EntryOK(e) ==
  /\ QuoteOK(e.quote)
  /\ e.age <= MaxAge => e.quote.dataAge <= e.age + MayLag(e.ns)

EntriesOK ==
  /\ entries \in [Places -> Cells]
  /\ \A i \in Whole : EntryOK(entries[i])

TurnRecords ==
  [at : TurnSteps, ns : Namespaces, question : Questions \cup {None}, key : Places \cup {NoKey},
   found : Quotes \cup {None}, rows : Quotes \cup {None}, pending : BOOLEAN, tainted : BOOLEAN,
   erred : BOOLEAN]

TurnAged(tn) ==
  /\ tn.rows # None => tn.rows.dataAge <= MaxAge
  /\ tn.found # None => tn.found.dataAge <= MaxAge + MayLag(tn.ns)
  /\ tn.at \in {"model", "read", "search"} => tn.found = None
  /\ tn.at = "store" /\ tn.ns = "tool" => tn.found.dataAge = 0

TurnOK(tn) ==
  /\ tn \in TurnRecords
  /\ tn.at # "idle" => tn.question \in Questions
  /\ tn.at \in {"exists", "touch"} => tn.found # None /\ tn.key \in Places
  /\ tn.at = "model" => tn.ns = "shopping"
  /\ tn.at = "store" /\ tn.ns = "tool" => tn.found # None
  /\ tn.at = "store" /\ tn.ns = "shopping" => ~tn.tainted
  /\ tn.erred => tn.tainted
  /\ tn.found # None => QuoteOK(tn.found)
  /\ tn.rows # None => QuoteOK(tn.rows)
  /\ TurnAged(tn)

TurnsOK ==
  /\ turn \in [Turns -> TurnRecords]
  /\ \A t \in Turns : TurnOK(turn[t])

(***************************************************************************)
(* The rest of the types.  No price has changed more often than a run of   *)
(* invalidation.py began.                                                  *)
(***************************************************************************)
Runs ==
  [at : RunSteps, product : Products \cup {"none"}, ids : SUBSET Products, keys : SUBSET Places]

RestOK ==
  /\ enabled \in [Namespaces -> BOOLEAN]
  /\ price \in [Products -> Nat] /\ changes \in 0 .. MaxChanges
  /\ \A p \in Products : price[p] <= changes
  /\ change \in [Operators -> Runs]
  /\ \A o \in Operators : change[o].at # "idle" => change[o].product \in Products
  /\ backlog \subseteq Products /\ owed \subseteq Products
  /\ unqueued \subseteq Products /\ exposed \subseteq Products

Sound == EntriesOK /\ TurnsOK /\ RestOK

(***************************************************************************)
(* A run has taken the backlog over, and gives none of it up before it has *)
(* purged it.                                                              *)
(***************************************************************************)
RunsOK ==
  \A o \in Operators : change[o].at # "idle" =>
    /\ change[o].ids \ {change[o].product} \subseteq backlog
    /\ change[o].at # "smembers" => change[o].product \in change[o].ids

(***************************************************************************)
(* A product is dirty while an old price of it is anywhere.  Then a run or *)
(* the backlog knows it, or it was left unqueued or exposed; and once its  *)
(* run has purged, only the last.                                          *)
(***************************************************************************)
Stale(q, p) == p \in q.quoted /\ q.price < price[p]

Dirty(p) ==
  \/ \E i \in Whole : Stale(entries[i].quote, p)
  \/ \E t \in Turns : Carries(t, p)

DirtyIsKnown ==
  \A p \in Products : Dirty(p) => p \in Changing \cup backlog \cup unqueued \cup exposed

PurgedIsExposed ==
  \A o \in Operators : change[o].at = "srem" =>
    /\ \A p \in change[o].ids : Dirty(p) => p \in exposed
    /\ change[o].ids \cap owed = {}

IInv ==
  /\ Sound /\ RunsOK
  /\ DirtyIsKnown /\ PurgedIsExposed /\ FailedPurgeIsKept

-----------------------------------------------------------------------------
(* Turns *)

(* Whatever a turn turns into, if what it then holds was there already. *)
Inherits(new) ==
  \A x \in {new.rows, new.found} : x # None => \A p \in Products : Stale(x, p) => Dirty(p)

(* What a step does to the entries: nothing but to take some away, or to add one
   that was there already. *)
EntriesInherit ==
  /\ entries' \in [Places -> Cells]
  /\ \A i \in Places : entries'[i].kind = "whole" =>
       \/ entries'[i] = entries[i]
       \/ EntryOK(entries'[i])
          /\ \A p \in Products : Stale(entries'[i].quote, p) => Dirty(p)

Rest == <<enabled, price, change, backlog, counts, history>>

(* A step of a turn: what it holds afterwards was there already. *)
TurnMoves(t) ==
  \E new :
    /\ Become(t, new) /\ TurnOK(new) /\ Inherits(new)
    /\ EntriesInherit /\ UNCHANGED Rest

(* A witness is enough. *)
LEMMA MovesTo ==
  ASSUME NEW t \in Turns, NEW new, Become(t, new), TurnOK(new), Inherits(new),
         EntriesInherit, UNCHANGED Rest
  PROVE  TurnMoves(t)
BY DEF TurnMoves

(* Entries that were there already are as sound, and no staler. *)
LEMMA InheritedIsSound ==
  ASSUME EntriesOK, EntriesInherit
  PROVE  /\ EntriesOK'
         /\ \A i \in Whole' : \A p \in Products : Stale(entries'[i].quote, p) => Dirty(p)
<1>1. \A i \in Whole' :
        EntryOK(entries'[i]) /\ \A p \in Products : Stale(entries'[i].quote, p) => Dirty(p)
  BY DEF EntriesInherit, EntriesOK, Whole, Dirty
<1>2. EntriesOK'
  BY <1>1 DEF EntriesOK, EntriesInherit, EntryOK, QuoteOK, MayLag
<1> QED
  BY <1>1, <1>2

(* A turn leaves everything sound, and makes no product dirty. *)
LEMMA TurnKeepsSound ==
  ASSUME Sound, NEW t \in Turns, TurnMoves(t)
  PROVE  Sound' /\ \A p \in Products : Dirty(p)' => Dirty(p)
<1> USE DEF Sound
<1>0. PICK new :
        /\ Become(t, new) /\ TurnOK(new) /\ Inherits(new) /\ EntriesInherit
        /\ UNCHANGED <<enabled, price, change, backlog, changes, owed, unqueued, exposed>>
  BY DEF TurnMoves, Rest, counts, history
<1>1. TurnsOK'
  BY <1>0 DEF TurnsOK, TurnOK, TurnAged, Become, QuoteOK, MayLag
<1>2. EntriesOK'
  BY <1>0, InheritedIsSound
<1>3. \A p \in Products : Dirty(p)' => Dirty(p)
  <2> SUFFICES ASSUME NEW p \in Products, Dirty(p)' PROVE Dirty(p)
    OBVIOUS
  <2>1. CASE \E i \in Whole' : Stale(entries[i].quote, p)'
    BY <2>1, <1>0, InheritedIsSound DEF Stale
  <2>2. CASE \E u \in Turns : Carries(u, p)'
    <3>1. PICK u \in Turns : Carries(u, p)'
      BY <2>2
    <3>2. CASE u = t
      BY <1>0, <3>1, <3>2 DEF Carries, Become, TurnsOK, Inherits, Stale
    <3>3. CASE u # t
      BY <1>0, <3>1, <3>3 DEF Carries, Become, TurnsOK, Dirty
    <3> QED
      BY <3>2, <3>3
  <2> QED
    BY <2>1, <2>2 DEF Dirty
<1>4. RestOK'
  BY <1>0 DEF RestOK
<1> QED
  BY <1>1, <1>2, <1>3, <1>4

(* So it leaves what the runs know true. *)
LEMMA TurnKeepsIInv ==
  ASSUME IInv, NEW t \in Turns, TurnMoves(t)
  PROVE  IInv'
<1>0. Sound' /\ \A p \in Products : Dirty(p)' => Dirty(p)
  BY TurnKeepsSound DEF IInv
<1>1. UNCHANGED <<change, backlog, owed, unqueued, exposed>>
  BY DEF TurnMoves, Rest, history
<1>2. RunsOK'
  BY <1>1 DEF IInv, RunsOK
<1>3. DirtyIsKnown'
  BY <1>0, <1>1 DEF IInv, DirtyIsKnown, Changing
<1>4. PurgedIsExposed'
  BY <1>0, <1>1 DEF IInv, PurgedIsExposed, Sound, RestOK, Runs
<1>5. FailedPurgeIsKept'
  BY <1>1 DEF IInv, FailedPurgeIsKept, Queueing
<1> QED
  BY <1>0, <1>2, <1>3, <1>4, <1>5 DEF IInv

LEMMA EntriesStay == ASSUME EntriesOK, UNCHANGED entries PROVE EntriesInherit
BY DEF EntriesOK, EntriesInherit, Whole

LEMMA TouchInherits == ASSUME EntriesOK, NEW i \in Places, Touch(i) PROVE EntriesInherit
<1>1. \A j \in Places : entries'[j] \in {entries[j], Partial}
  BY DEF Touch, EntriesOK
<1>2. entries' \in [Places -> Cells]
  BY DEF Touch, EntriesOK, Cells
<1>3. Partial.kind # "whole"
  BY DEF Partial
<1> QED
  BY <1>1, <1>2, <1>3 DEF EntriesInherit, Whole

LEMMA PutInherits ==
  ASSUME EntriesOK, NEW ns \in Namespaces, NEW q, QuoteOK(q), q.dataAge <= MayLag(ns),
         NEW held, Put(ns, q, held),
         \A p \in Products : Stale(q, p) => Dirty(p)
  PROVE  EntriesInherit
<1>1. PICK i \in Places : entries' = [entries EXCEPT ![i] = Hash(ns, q)]
  BY DEF Put
<1>2. Hash(ns, q) \in Cells /\ Hash(ns, q).quote = q /\ EntryOK(Hash(ns, q))
  BY LagType DEF Hash, Cells, QuoteOK, EntryOK, Quotes
<1>3. \A j \in Places : entries'[j] = (IF j = i THEN Hash(ns, q) ELSE entries[j])
  BY <1>1 DEF EntriesOK
<1>4. entries' \in [Places -> Cells]
  BY <1>1, <1>2 DEF EntriesOK
<1> QED
  BY <1>2, <1>3, <1>4 DEF EntriesInherit, Whole, EntriesOK

LEMMA NoneIsNoQuote == None \notin Quotes
<1>1. DOMAIN None = {"question"}
  BY DEF None
<1>2. \A q \in Quotes : "price" \in DOMAIN q
  BY DEF Quotes
<1> QED
  BY <1>1, <1>2

(* What a turn holds was there already. *)
LEMMA HeldIsKnown ==
  ASSUME TurnsOK, NEW t \in Turns PROVE Inherits(turn[t])
BY DEF Inherits, Stale, Dirty, Carries

(* A response of the cache is sound, not too old, and was there already. *)
LEMMA HitIsKnown ==
  ASSUME Sound, NEW ns \in Namespaces, NEW q, NEW i \in Nearest(ns, q)
  PROVE  /\ i \in Places /\ QuoteOK(entries[i].quote)
         /\ entries[i].quote.dataAge <= MaxAge + MayLag(ns)
         /\ \A p \in Products : Stale(entries[i].quote, p) => Dirty(p)
<1>1. i \in Whole /\ entries[i].ns = ns /\ entries[i].age <= MaxAge
  BY DEF Nearest, InScope
<1>2. entries[i] \in [kind : {"whole"}, ns : Namespaces, quote : Quotes, age : Nat]
  BY <1>1 DEF Sound, EntriesOK, Whole, Cells, Absent, Partial
<1>3. EntryOK(entries[i])
  BY <1>1 DEF Sound, EntriesOK
<1>4. entries[i].quote.dataAge <= MaxAge + MayLag(ns)
  BY <1>1, <1>2, <1>3, CacheAssumption DEF EntryOK, MayLag, Quotes
<1> QED
  BY <1>1, <1>3, <1>4 DEF EntryOK, Whole, Dirty

-----------------------------------------------------------------------------

LEMMA TurnStepMoves ==
  ASSUME Sound, NEW t \in Turns, TurnStep(t) \/ \E q \in Questions : Ask(t, q)
  PROVE  TurnMoves(t)
<1> USE DEF Sound, TurnSteps, Namespaces
<1> DEFINE tn == turn[t]
<1>0. TurnOK(tn) /\ Inherits(tn) /\ tn \in TurnRecords
  BY HeldIsKnown DEF TurnsOK
<1>a. None.question = "none"
  BY DEF None
<1>1. ASSUME NEW q \in Questions, Ask(t, q) PROVE TurnMoves(t)
  <2> DEFINE new == [Idle EXCEPT !.at = IF enabled["shopping"] THEN "search" ELSE "model",
                                 !.question = q]
  <2>1. TurnOK(new) /\ Inherits(new)
    BY DEF TurnOK, TurnAged, TurnRecords, Idle, Inherits
  <2> QED
    BY <1>1, <2>1, EntriesStay, MovesTo DEF Ask, Rest
<1>2. ASSUME NEW raised \in BOOLEAN, tn.at # "idle"
      PROVE TurnOK(Miss(tn, raised)) /\ Inherits(Miss(tn, raised))
  BY <1>0, <1>2 DEF TurnOK, TurnAged, TurnRecords, Miss, Inherits
<1>3. CASE LookupFails(t)
  BY <1>2, <1>3, EntriesStay, MovesTo DEF LookupFails, Rest
<1>4. CASE Search(t)
  <2>1. tn.at = "search" /\ UNCHANGED entries /\ UNCHANGED Rest
    BY <1>4 DEF Search, Rest
  <2>2. CASE Become(t, Miss(tn, FALSE))
    BY <1>2, <2>1, <2>2, EntriesStay, MovesTo
  <2>3. ASSUME NEW i \in Nearest(tn.ns, tn.question),
               Become(t, [tn EXCEPT !.at = "exists", !.key = i, !.found = entries[i].quote])
        PROVE TurnMoves(t)
    <3> DEFINE new == [tn EXCEPT !.at = "exists", !.key = i, !.found = entries[i].quote]
    <3>1. /\ i \in Places /\ QuoteOK(entries[i].quote)
          /\ entries[i].quote.dataAge <= MaxAge + MayLag(tn.ns)
          /\ \A p \in Products : Stale(entries[i].quote, p) => Dirty(p)
      BY <1>0, HitIsKnown DEF TurnRecords
    <3>2. entries[i].quote # None
      BY <3>1, NoneIsNoQuote DEF QuoteOK
    <3>3. TurnAged(new)
      BY <1>0, <2>1, <3>1 DEF TurnOK, TurnAged, TurnRecords
    <3>4. TurnOK(new) /\ Inherits(new)
      BY <1>0, <2>1, <3>1, <3>2, <3>3 DEF TurnOK, TurnRecords, Inherits, QuoteOK
    <3> QED
      BY <2>1, <2>3, <3>4, EntriesStay, MovesTo
  <2> QED
    BY <1>4, <2>2, <2>3 DEF Search
<1>5. CASE Exists(t)
  <2> DEFINE new == IF entries[tn.key] = Absent THEN Miss(tn, FALSE) ELSE [tn EXCEPT !.at = "touch"]
  <2>1. /\ tn.at = "exists" /\ Become(t, new)
        /\ UNCHANGED entries /\ UNCHANGED Rest
    BY <1>5 DEF Exists, Rest
  <2>2. TurnOK([tn EXCEPT !.at = "touch"]) /\ Inherits([tn EXCEPT !.at = "touch"])
    BY <1>0, <2>1 DEF TurnOK, TurnAged, TurnRecords, Inherits
  <2>3. TurnOK(new) /\ Inherits(new)
    BY <1>2, <2>1, <2>2
  <2> QED
    BY <2>1, <2>3, EntriesStay, MovesTo
<1>6. ASSUME tn.at # "idle", QuoteOK(tn.found), tn.found.dataAge <= MaxAge,
             tn.found # None \/ \A p \in Products : Stale(tn.found, p) => Dirty(p)
      PROVE  \A new \in ToolResults(tn, tn.found) : TurnOK(new) /\ Inherits(new)
  <2>0. tn.found # None /\ tn.question \in Questions
    BY <1>0, <1>6, NoneIsNoQuote DEF QuoteOK, TurnOK
  <2> SUFFICES ASSUME NEW r \in {tn.found, tn.rows} \ {None}
               PROVE  LET rows == [r EXCEPT !.question = tn.question,
                                            !.tags = UNION {x.tags : x \in {tn.found, tn.rows} \ {None}}]
                          new == [tn EXCEPT !.at = "model", !.ns = "shopping", !.key = NoKey,
                                            !.found = None, !.rows = rows]
                      IN  TurnOK(new) /\ Inherits(new)
    BY DEF ToolResults
  <2> DEFINE tags == UNION {x.tags : x \in {tn.found, tn.rows} \ {None}}
             rows == [r EXCEPT !.question = tn.question, !.tags = tags]
  <2>q. \A x \in {tn.found, tn.rows} \ {None} : QuoteOK(x) /\ x.dataAge <= MaxAge
    BY <1>0, <1>6 DEF TurnOK, TurnAged
  <2>t. tags \subseteq Products /\ r.tags \subseteq tags
    BY <2>q DEF QuoteOK, Quotes
  <2>k. \A p \in Products : Stale(r, p) => Dirty(p)
    BY <1>0, <1>6, <2>0 DEF Inherits
  <2> HIDE DEF tags
  <2>1. /\ QuoteOK(rows) /\ rows.quoted = r.quoted /\ rows.price = r.price
        /\ rows.dataAge <= MaxAge
    BY <2>0, <2>q, <2>t DEF QuoteOK, Quotes
  <2> DEFINE new == [tn EXCEPT !.at = "model", !.ns = "shopping", !.key = NoKey,
                               !.found = None, !.rows = rows]
  <2> HIDE DEF rows
  <2>3. /\ new.at = "model" /\ new.ns = "shopping" /\ new.found = None /\ new.rows = rows
        /\ new.question = tn.question /\ new.erred = tn.erred /\ new.tainted = tn.tainted
    BY <1>0 DEF TurnRecords
  <2>4. new \in TurnRecords
    BY <1>0, <2>1 DEF TurnRecords, QuoteOK
  <2> HIDE DEF new
  <2>5. TurnOK(new)
    BY <1>0, <1>6, <2>1, <2>3, <2>4 DEF TurnOK, TurnAged
  <2>6. Inherits(new)
    BY <2>1, <2>3, <2>k DEF Inherits, Stale
  <2> QED
    BY <2>5, <2>6 DEF new, rows, tags
<1>7. CASE Hit(t)
  <2> DEFINE served == IF SameSpecifics(tn.question, tn.found.question) THEN Idle
                       ELSE Miss(tn, FALSE)
  <2>1. /\ tn.at = "touch" /\ Touch(tn.key)
        /\ \/ tn.ns = "tool" /\ \E new \in ToolResults(tn, tn.found) : Become(t, new)
           \/ tn.ns = "shopping" /\ Become(t, served)
        /\ UNCHANGED Rest
    BY <1>7 DEF Hit, Rest
  <2>2. TurnOK(Idle) /\ Inherits(Idle)
    BY DEF TurnOK, TurnAged, TurnRecords, Idle, Inherits
  <2>3. tn.key \in Places /\ tn.found # None /\ QuoteOK(tn.found)
    BY <1>0, <2>1 DEF TurnOK
  <2>4. TurnOK(served) /\ Inherits(served)
    BY <1>2, <2>1, <2>2
  <2>5. EntriesInherit
    BY <2>1, <2>3, TouchInherits
  <2>6. tn.ns = "tool" => tn.found.dataAge <= MaxAge
    BY <1>0, <2>3, LagType DEF TurnOK, TurnAged, MayLag
  <2>7. CASE tn.ns = "tool"
    BY <1>6, <2>1, <2>3, <2>5, <2>6, <2>7, MovesTo
  <2>8. CASE tn.ns = "shopping"
    BY <2>1, <2>4, <2>5, <2>8, MovesTo
  <2> QED
    BY <2>1, <2>7, <2>8
<1>8. CASE CallTool(t)
  <2> DEFINE new == [tn EXCEPT !.ns = "tool", !.at = IF enabled["tool"] THEN "search" ELSE "read"]
  <2>1. TurnOK(new) /\ Inherits(new)
    BY <1>0, <1>8 DEF CallTool, TurnOK, TurnAged, TurnRecords, Inherits
  <2> QED
    BY <1>8, <2>1, EntriesStay, MovesTo DEF CallTool, Rest
<1>9. CASE Read(t)
  <2> DEFINE p == ProductOf[tn.question]
             read == [question |-> tn.question, quoted |-> {p}, price |-> price[p], dataAge |-> 0,
                      tags |-> {p}, clean |-> TRUE]
             new == [tn EXCEPT !.at = "store", !.found = read]
  <2>1. /\ tn.at = "read" /\ tn.ns = "tool" /\ Become(t, new)
        /\ UNCHANGED entries /\ UNCHANGED Rest
    BY <1>9 DEF Read, Rest
  <2>2. p \in Products /\ price[p] \in Nat /\ tn.question \in Questions
    BY <1>0, <2>1, CacheAssumption DEF TurnOK, RestOK
  <2>3. read \in Quotes
    BY <2>2 DEF Quotes
  <2>4. QuoteOK(read) /\ read # None
    BY <2>3, NoneIsNoQuote DEF QuoteOK
  <2>5. \A r \in Products : ~Stale(read, r)
    BY <2>2 DEF Stale
  <2>6. read.dataAge = 0
    OBVIOUS
  <2> HIDE DEF read
  <2>7. TurnAged(new)
    BY <1>0, <2>1, <2>6, LagType DEF TurnOK, TurnAged, TurnRecords
  <2>8. TurnOK(new) /\ Inherits(new)
    BY <1>0, <2>1, <2>2, <2>3, <2>4, <2>5, <2>7 DEF TurnOK, TurnRecords, Inherits
  <2> QED
    BY <2>1, <2>8, EntriesStay, MovesTo
<1>10. CASE ToolError(t)
  <2> DEFINE new == [tn EXCEPT !.at = "model", !.ns = "shopping", !.erred = TRUE, !.tainted = TRUE]
  <2>1. TurnOK(new) /\ Inherits(new)
    BY <1>0, <1>10 DEF ToolError, TurnOK, TurnAged, TurnRecords, Inherits
  <2> QED
    BY <1>10, <2>1, EntriesStay, MovesTo DEF ToolError, Rest
<1>11. CASE StoreRows(t)
  <2>1. /\ tn.at = "store" /\ tn.ns = "tool"
        /\ \E new \in ToolResults(tn, tn.found) : Become(t, new)
        /\ UNCHANGED entries \/ Put("tool", tn.found, Held)
        /\ UNCHANGED Rest
    BY <1>11 DEF StoreRows, Rest
  <2>2. tn.found # None /\ QuoteOK(tn.found) /\ \A p \in Products : Stale(tn.found, p) => Dirty(p)
    BY <1>0, <2>1 DEF TurnOK, Inherits
  <2>3. tn.found.dataAge <= MayLag("tool") /\ tn.found.dataAge <= MaxAge
    BY <1>0, <2>1, LagType DEF TurnOK, TurnAged
  <2>4. EntriesInherit
    BY <2>1, <2>2, <2>3, EntriesStay, PutInherits
  <2> QED
    BY <1>6, <2>1, <2>2, <2>3, <2>4, MovesTo
<1>12. CASE Answer(t) \/ NoAnswer(t)
  <2>1. TurnOK(Idle) /\ Inherits(Idle)
    BY DEF TurnOK, TurnAged, TurnRecords, Idle, Inherits
  <2>2. CASE Become(t, Idle)
    BY <1>12, <2>1, <2>2, EntriesStay, MovesTo DEF Answer, NoAnswer, Rest
  <2>3. CASE ~tn.tainted /\ Become(t, [tn EXCEPT !.at = "store"])
    <3>1. tn.at = "model" /\ UNCHANGED entries /\ UNCHANGED Rest
      BY <1>12 DEF Answer, NoAnswer, Rest
    <3>2. TurnOK([tn EXCEPT !.at = "store"]) /\ Inherits([tn EXCEPT !.at = "store"])
      BY <1>0, <2>3, <3>1 DEF TurnOK, TurnAged, TurnRecords, Inherits
    <3> QED
      BY <2>3, <3>1, <3>2, EntriesStay, MovesTo
  <2> QED
    BY <1>12, <2>2, <2>3 DEF Answer, NoAnswer
<1>13. CASE StoreAnswer(t)
  <2>1. /\ tn.at = "store" /\ tn.ns = "shopping" /\ Become(t, Idle)
        /\ UNCHANGED entries \/ Put("shopping", FinalText(t), Held)
        /\ UNCHANGED Rest
    BY <1>13 DEF StoreAnswer, Rest
  <2>2. TurnOK(Idle) /\ Inherits(Idle)
    BY DEF TurnOK, TurnAged, TurnRecords, Idle, Inherits
  <2>3. QuoteOK(FinalText(t)) /\ \A p \in Products : Stale(FinalText(t), p) => Dirty(p)
    <3>1. ~tn.erred /\ tn.question \in Questions
      BY <1>0, <2>1 DEF TurnOK, TurnRecords
    <3>2. CASE tn.rows = None
      BY <3>1, <3>2 DEF FinalText, QuoteOK, Quotes, Stale
    <3>3. CASE tn.rows # None
      <4>1. FinalText(t) = [tn.rows EXCEPT !.clean = TRUE]
        BY <3>1, <3>3 DEF FinalText
      <4>2. QuoteOK(tn.rows) /\ \A p \in Products : Stale(tn.rows, p) => Dirty(p)
        BY <1>0, <3>3 DEF TurnOK, Inherits
      <4> QED
        BY <4>1, <4>2 DEF QuoteOK, Quotes, Stale
    <3> QED
      BY <3>2, <3>3
  <2>5. FinalText(t).dataAge <= MayLag("shopping")
    <3>1. tn.rows # None => FinalText(t).dataAge = tn.rows.dataAge /\ tn.rows.dataAge <= MaxAge
      BY <1>0 DEF FinalText, TurnOK, TurnAged, QuoteOK, Quotes
    <3>2. tn.rows = None => FinalText(t).dataAge = 0
      BY DEF FinalText
    <3> QED
      BY <3>1, <3>2, LagType DEF MayLag
  <2>4. EntriesInherit
    BY <2>1, <2>3, <2>5, EntriesStay, PutInherits
  <2> QED
    BY <2>1, <2>2, <2>4, MovesTo
<1> QED
  BY <1>1, <1>3, <1>4, <1>5, <1>7, <1>8, <1>9, <1>10, <1>11, <1>12, <1>13 DEF TurnStep

-----------------------------------------------------------------------------
(* Runs of invalidation.py, evictions and time *)

(* A step that leaves turns and prices alone makes nothing dirty. *)
LEMMA NothingNewIsDirty ==
  ASSUME Sound, EntriesInherit, UNCHANGED <<turn, price>>
  PROVE  EntriesOK' /\ TurnsOK' /\ \A p \in Products : Dirty(p)' => Dirty(p)
<1> USE DEF Sound
<1>1. EntriesOK'
  BY InheritedIsSound
<1>2. TurnsOK'
  BY DEF TurnsOK, TurnOK, TurnAged, QuoteOK, MayLag
<1>3. ASSUME NEW p \in Products, Dirty(p)' PROVE Dirty(p)
  <2>1. CASE \E i \in Whole' : Stale(entries[i].quote, p)'
    BY <2>1, InheritedIsSound DEF Stale
  <2>2. CASE \E u \in Turns : Carries(u, p)'
    BY <2>2 DEF Carries, Dirty
  <2> QED
    BY <1>3, <2>1, <2>2 DEF Dirty
<1> QED
  BY <1>1, <1>2, <1>3

LEMMA DeleteInherits ==
  ASSUME EntriesOK, NEW keys, Delete(keys) PROVE EntriesInherit
<1>1. Absent.kind # "whole" /\ Absent \in Cells
  BY DEF Absent, Cells
<1> QED
  BY <1>1 DEF Delete, EntriesOK, EntriesInherit, Whole

LEMMA TickInherits == ASSUME EntriesOK, TickEntries PROVE EntriesInherit
<1> DEFINE aged(i) == [entries[i] EXCEPT !.age = Older(@, MaxAge),
                                         !.quote.dataAge =
                                           IF entries[i].quote.quoted = {} THEN 0
                                           ELSE Older(@, 2 * MaxAge)]
<1>1. ASSUME NEW i \in Whole
      PROVE  /\ aged(i) \in Cells /\ EntryOK(aged(i))
             /\ \A p \in Products : Stale(aged(i).quote, p) => Dirty(p)
  <2>1. entries[i] \in [kind : {"whole"}, ns : Namespaces, quote : Quotes, age : Nat]
    BY DEF EntriesOK, Whole, Cells, Absent, Partial
  <2>2. EntryOK(entries[i])
    BY DEF EntriesOK
  <2>3. /\ Older(entries[i].age, MaxAge) \in Nat
        /\ Older(entries[i].quote.dataAge, 2 * MaxAge) \in Nat
        /\ Older(entries[i].age, MaxAge) <= MaxAge
             => entries[i].age <= MaxAge /\ Older(entries[i].age, MaxAge) = entries[i].age + 1
        /\ Older(entries[i].quote.dataAge, 2 * MaxAge) <= entries[i].quote.dataAge + 1
    BY <2>1, LagType DEF Older, Quotes
  <2>5. aged(i).age <= MaxAge => aged(i).quote.dataAge <= aged(i).age + MayLag(aged(i).ns)
    <3>1. /\ aged(i).age = Older(entries[i].age, MaxAge) /\ aged(i).ns = entries[i].ns
          /\ aged(i).quote.dataAge \in {0, Older(entries[i].quote.dataAge, 2 * MaxAge)}
      BY <2>1 DEF Quotes
    <3>2. MayLag(aged(i).ns) \in Nat /\ entries[i].quote.dataAge \in Nat /\ entries[i].age \in Nat
      BY <2>1, LagType DEF Quotes
    <3>3. entries[i].age <= MaxAge
            => entries[i].quote.dataAge <= entries[i].age + MayLag(entries[i].ns)
      BY <2>2 DEF EntryOK
    <3> HIDE DEF aged
    <3> QED
      BY <2>3, <3>1, <3>2, <3>3
  <2>4. /\ aged(i).quote \in Quotes /\ aged(i).quote.quoted = entries[i].quote.quoted
        /\ aged(i).quote.tags = entries[i].quote.tags /\ aged(i).quote.clean = entries[i].quote.clean
        /\ aged(i).quote.price = entries[i].quote.price /\ aged(i) \in Cells
    BY <2>1, <2>3 DEF Quotes, Cells
  <2>6. QuoteOK(aged(i).quote)
    BY <2>2, <2>4 DEF EntryOK, QuoteOK
  <2> HIDE DEF aged
  <2> QED
    BY <2>4, <2>5, <2>6 DEF Stale, Dirty, EntryOK
<1>2. \A i \in Places : entries'[i] = (IF i \in Whole THEN aged(i) ELSE entries[i])
  BY DEF TickEntries
<1>3. entries' \in [Places -> Cells]
  BY <1>1, <1>2 DEF TickEntries, EntriesOK
<1> QED
  BY <1>1, <1>2, <1>3 DEF EntriesInherit, Whole, EntriesOK

(***************************************************************************)
(* A run never gives up an id that names no product, and changes a price   *)
(* only as it begins.  Any number of runs may be under way.                *)
(***************************************************************************)
LEMMA RunStepKeepsSound ==
  ASSUME Sound, NEW o \in Operators,
         RunStep(o) \/ Crash(o) \/ \E p \in Products : ChangePrice(o, p)
  PROVE  Sound'
<1> USE DEF RunSteps
<1> DEFINE co == change[o]
<1>0. /\ RestOK /\ change \in [Operators -> Runs]
      /\ changes \in 0 .. MaxChanges
      /\ co \in Runs /\ (co.at # "idle" => co.product \in Products)
      /\ backlog \subseteq Products /\ owed \subseteq Products
      /\ unqueued \subseteq Products /\ exposed \subseteq Products
  BY DEF Sound, RestOK
<1>1. ASSUME NEW p \in Products, ChangePrice(o, p) PROVE EntriesOK' /\ TurnsOK' /\ RestOK'
  <2>0. UNCHANGED <<entries, turn>>
    BY <1>1 DEF ChangePrice
  <2>1. EntriesOK' /\ TurnsOK'
    <3>1. EntriesOK'
      BY <2>0, EntriesStay, InheritedIsSound DEF Sound
    <3>2. TurnsOK'
      BY <2>0 DEF Sound, TurnsOK, TurnOK, TurnAged, QuoteOK, MayLag
    <3> QED
      BY <3>1, <3>2
  <2>2. changes \in Nat /\ changes' = changes + 1 /\ changes' \in 0 .. MaxChanges
    <3>1. changes < MaxChanges /\ changes' = changes + 1
      BY <1>1 DEF ChangePrice
    <3> QED
      BY <1>0, <3>1, LimitsAssumption
  <2>3. /\ price' = [price EXCEPT ![p] = @ + 1]
        /\ change' = [change EXCEPT ![o] = [NoRun EXCEPT !.at = "smembers", !.product = p]]
        /\ UNCHANGED <<enabled, backlog, owed, unqueued, exposed>>
    BY <1>1 DEF ChangePrice, history
  <2>4. price' \in [Products -> Nat] /\ \A q \in Products : price'[q] <= changes'
    BY <1>0, <2>2, <2>3 DEF RestOK
  <2>5. change' \in [Operators -> Runs]
    BY <1>0, <2>3 DEF NoRun, Runs
  <2>6. \A r \in Operators : change'[r].at # "idle" => change'[r].product \in Products
    BY <1>0, <2>3 DEF NoRun, RestOK
  <2> QED
    BY <1>0, <2>1, <2>2, <2>3, <2>4, <2>5, <2>6 DEF RestOK
<1>2. ASSUME RunStep(o) \/ Crash(o)
      PROVE  EntriesInherit /\ UNCHANGED <<turn, price, enabled, changes>>
  <2>1. CASE DeleteTagged(o)
    BY <2>1, DeleteInherits DEF DeleteTagged, Sound, counts
  <2>2. CASE UNCHANGED entries
    BY <1>2, <2>1, <2>2, EntriesStay
       DEF RunStep, ReadBacklog, PurgeFails, FindTagged, Purged, Queue, Unqueue, StateRedisFails,
           UnqueueFails, Crash, Abandon, Sound, counts
  <2> QED
    BY <1>2, <2>1, <2>2
       DEF RunStep, ReadBacklog, PurgeFails, FindTagged, Purged, Queue, Unqueue, StateRedisFails,
           UnqueueFails, Crash, Abandon
<1>3. ASSUME RunStep(o) \/ Crash(o) PROVE EntriesOK' /\ TurnsOK' /\ RestOK'
  <2>1. EntriesOK' /\ TurnsOK' /\ UNCHANGED <<price, enabled, changes>>
    BY <1>2, <1>3, NothingNewIsDirty
  <2> SUFFICES RestOK'
    BY <2>1
  <2>2. ASSUME NEW run \in Runs, run.at # "idle" => run.product \in Products,
               change' = [change EXCEPT ![o] = run],
               backlog' \subseteq Products, owed' \subseteq Products,
               unqueued' \subseteq Products, exposed' \subseteq Products
        PROVE  RestOK'
    BY <1>0, <2>1, <2>2 DEF RestOK
  <2>3. NoRun \in Runs /\ NoRun.at = "idle"
    BY DEF Runs, NoRun
  <2>4. CASE ReadBacklog(o)
    <3>1. [co EXCEPT !.at = "search", !.ids = {co.product} \cup backlog] \in Runs
      BY <1>0, <2>4 DEF ReadBacklog, Runs
    <3>2. change' =
            [change EXCEPT ![o] = [co EXCEPT !.at = "search", !.ids = {co.product} \cup backlog]]
      BY <1>0, <2>4 DEF ReadBacklog, Runs
    <3>3. co.at # "idle" /\ UNCHANGED <<backlog, owed, unqueued, exposed>>
      BY <2>4 DEF ReadBacklog, history
    <3> QED
      BY <1>0, <2>2, <3>1, <3>2, <3>3 DEF Runs
  <2>5. CASE PurgeFails(o)
    <3>1. [co EXCEPT !.at = "sadd", !.keys = {}] \in Runs
      BY <1>0 DEF Runs
    <3>2. change' = [change EXCEPT ![o] = [co EXCEPT !.at = "sadd", !.keys = {}]]
      BY <1>0, <2>5 DEF PurgeFails, Runs
    <3>3. co.at # "idle" /\ owed' = owed \cup co.ids /\ co.ids \subseteq Products
          /\ UNCHANGED <<backlog, unqueued, exposed>>
      BY <1>0, <2>5 DEF PurgeFails, Runs
    <3> QED
      BY <1>0, <2>2, <3>1, <3>2, <3>3 DEF Runs
  <2>6. CASE FindTagged(o)
    <3>1. PICK keys \in Replies(co.ids) \ {{}} :
            change' = [change EXCEPT ![o].at = "delete", ![o].keys = keys]
      BY <2>6 DEF FindTagged
    <3>2. keys \in SUBSET Places
      BY <3>1 DEF Replies, Tagged, Whole, kSubset
    <3>3. [co EXCEPT !.at = "delete", !.keys = keys] \in Runs
      BY <1>0, <3>2 DEF Runs
    <3>4. change' = [change EXCEPT ![o] = [co EXCEPT !.at = "delete", !.keys = keys]]
      BY <1>0, <3>1 DEF Runs
    <3>5. co.at # "idle" /\ UNCHANGED <<backlog, owed, unqueued, exposed>>
      BY <2>6 DEF FindTagged, history
    <3> QED
      BY <1>0, <2>2, <3>3, <3>4, <3>5 DEF Runs
  <2>7. ASSUME NEW to \in RunSteps, change' = [change EXCEPT ![o].at = to, ![o].keys = {}],
               co.at # "idle", UNCHANGED backlog,
               owed' \subseteq owed, unqueued' \subseteq unqueued,
               exposed' \subseteq exposed \cup co.ids
        PROVE  RestOK'
    <3>1. [co EXCEPT !.at = to, !.keys = {}] \in Runs /\ co.ids \subseteq Products
      BY <1>0 DEF Runs
    <3>2. change' = [change EXCEPT ![o] = [co EXCEPT !.at = to, !.keys = {}]]
      BY <1>0, <2>7 DEF Runs
    <3> QED
      BY <1>0, <2>2, <2>7, <3>1, <3>2 DEF Runs
  <2>8. CASE DeleteTagged(o)
    BY <2>7, <2>8 DEF DeleteTagged, Go, history
  <2>9. CASE Purged(o)
    <3>1. {p \in co.ids : \E t \in Turns : Carries(t, p)} \subseteq co.ids
      OBVIOUS
    <3>2. /\ change' = [change EXCEPT ![o].at = "srem", ![o].keys = {}] /\ co.at = "search"
          /\ UNCHANGED backlog /\ owed' = owed \ co.ids /\ unqueued' = unqueued \ co.ids
          /\ exposed' = (exposed \ co.ids) \cup {p \in co.ids : \E t \in Turns : Carries(t, p)}
      BY <2>9 DEF Purged, Go
    <3> QED
      BY <2>7, <3>1, <3>2
  <2>10. CASE Queue(o) \/ Unqueue(o) \/ UnqueueFails(o)
    <3>1. /\ change' = [change EXCEPT ![o] = NoRun] /\ UNCHANGED <<owed, exposed>>
          /\ backlog' \subseteq backlog \cup co.ids /\ unqueued' \subseteq unqueued
      BY <2>10 DEF Queue, Unqueue, UnqueueFails, Finish, history
    <3>2. co.ids \subseteq Products
      BY <1>0 DEF Runs
    <3> QED
      BY <1>0, <2>2, <2>3, <3>1, <3>2
  <2>11. CASE StateRedisFails(o) \/ Crash(o)
    <3>1. /\ change' = [change EXCEPT ![o] = NoRun] /\ co.at # "idle"
          /\ UNCHANGED <<backlog, owed, exposed>> /\ unqueued' = unqueued \cup {co.product}
      BY <2>11 DEF StateRedisFails, Crash, Abandon
    <3> QED
      BY <1>0, <2>2, <2>3, <3>1
  <2> QED
    BY <1>3, <2>4, <2>5, <2>6, <2>8, <2>9, <2>10, <2>11 DEF RunStep
<1> QED
  BY <1>1, <1>3 DEF Sound

LEMMA OneIsChanging ==
  ASSUME OneOperator, NEW o \in Operators
  PROVE  Changing = IF change[o].at = "idle" THEN {} ELSE {change[o].product} \cup change[o].ids
<1>1. Operators = {o}
  BY DEF OneOperator
<1> QED
  BY <1>1 DEF Changing

(* What a run is about to queue. *)
Waiting(run) == IF run.at = "sadd" THEN run.ids ELSE {}

LEMMA OneIsQueueing ==
  ASSUME OneOperator, NEW o \in Operators PROVE Queueing = Waiting(change[o])
<1>1. Operators = {o}
  BY DEF OneOperator
<1> QED
  BY <1>1 DEF Queueing, Waiting

(***************************************************************************)
(* A step of the one run: what is known of its next state is enough.       *)
(***************************************************************************)
LEMMA RunKeepsIInv ==
  ASSUME IInv, OneOperator, NEW o \in Operators, NEW run \in Runs,
         change' = [change EXCEPT ![o] = run],
         Sound', owed' \subseteq backlog' \cup unqueued' \cup Waiting(run),
         run.at # "idle" =>
           /\ run.ids \ {run.product} \subseteq backlog'
           /\ run.at # "smembers" => run.product \in run.ids,
         \A p \in Products : Dirty(p)' =>
           \/ p \in backlog' \cup unqueued' \cup exposed'
           \/ run.at # "idle" /\ p \in {run.product} \cup run.ids,
         run.at = "srem" =>
           /\ \A p \in run.ids : Dirty(p)' => p \in exposed'
           /\ run.ids \cap owed' = {}
  PROVE  IInv'
<1>1. Operators = {o} /\ change'[o] = run /\ change' \in [Operators -> Runs]
  BY DEF IInv, Sound, RestOK, OneOperator
<1>2. Changing' = IF run.at = "idle" THEN {} ELSE {run.product} \cup run.ids
  BY <1>1 DEF Changing
<1>3. RunsOK'
  BY <1>1 DEF RunsOK
<1>4. DirtyIsKnown'
  BY <1>2 DEF DirtyIsKnown
<1>5. PurgedIsExposed'
  BY <1>1 DEF PurgedIsExposed
<1>6. Queueing' = Waiting(run)
  BY <1>1 DEF Queueing, Waiting
<1>7. FailedPurgeIsKept'
  BY <1>6 DEF FailedPurgeIsKept
<1> QED
  BY <1>3, <1>4, <1>5, <1>7 DEF IInv

LEMMA RunStepKeepsIInv ==
  ASSUME IInv, OneOperator, NEW o \in Operators,
         RunStep(o) \/ Crash(o) \/ \E p \in Products : ChangePrice(o, p)
  PROVE  IInv'
<1> USE DEF IInv, Sound, RunSteps
<1>s. Sound'
  BY RunStepKeepsSound
<1> DEFINE co == change[o]
<1>0. /\ co \in Runs
      /\ co.at # "idle" =>
           /\ co.product \in Products /\ co.ids \ {co.product} \subseteq backlog
           /\ co.at # "smembers" => co.product \in co.ids
      /\ \A p \in Products : Dirty(p) =>
           \/ p \in backlog \cup unqueued \cup exposed
           \/ co.at # "idle" /\ p \in {co.product} \cup co.ids
      /\ co.at = "srem" =>
           /\ \A p \in co.ids : Dirty(p) => p \in exposed
           /\ co.ids \cap owed = {}
      /\ owed \subseteq backlog \cup unqueued \cup Waiting(co)
  BY OneIsChanging, OneIsQueueing
     DEF RunsOK, DirtyIsKnown, PurgedIsExposed, FailedPurgeIsKept, RestOK
<1>a. change \in [Operators -> Runs] /\ co.ids \subseteq Products
  BY <1>0 DEF RestOK, Runs
<1>1. ASSUME NEW p \in Products, ChangePrice(o, p) PROVE IInv'
  <2> DEFINE run == [NoRun EXCEPT !.at = "smembers", !.product = p]
  <2>1. /\ co.at = "idle" /\ change' = [change EXCEPT ![o] = run]
        /\ price' = [price EXCEPT ![p] = @ + 1]
        /\ UNCHANGED <<entries, turn, backlog, owed, unqueued, exposed>>
    BY <1>1 DEF ChangePrice, history
  <2>2. run \in Runs /\ run.product = p /\ run.ids = {} /\ run.at = "smembers"
    BY DEF Runs, NoRun
  <2>3. price' \in [Products -> Nat] /\ \A q \in Products \ {p} : price'[q] = price[q]
    BY <2>1 DEF RestOK
  <2>4. EntriesOK' /\ TurnsOK'
    BY <2>1 DEF EntriesOK, TurnsOK, TurnOK, QuoteOK, Whole
  <2>5. \A q \in Products \ {p} : Dirty(q)' => Dirty(q)
    BY <2>1, <2>3 DEF Dirty, Stale, Carries, Whole
  <2>6. owed' \subseteq backlog' \cup unqueued' \cup Waiting(run)
    BY <1>0, <2>1 DEF Waiting, Runs
  <2>7. \A q \in Products : Dirty(q)' => q \in backlog' \cup unqueued' \cup exposed' \/ q = p
    BY <1>0, <2>1, <2>5
  <2> QED
    BY <2>1, <2>2, <2>3, <2>4, <2>6, <2>7, <1>s, RunKeepsIInv
<1>2. CASE ReadBacklog(o)
  <2> DEFINE run == [co EXCEPT !.at = "search", !.ids = {co.product} \cup backlog]
  <2>0. backlog \subseteq Products
    BY DEF RestOK
  <2>1. /\ co.at = "smembers" /\ change' = [change EXCEPT ![o] = run]
        /\ UNCHANGED <<entries, turn, price, backlog, owed, unqueued, exposed>>
    BY <1>2, <1>a DEF ReadBacklog, history
  <2>2. run \in Runs
    BY <1>0, <2>0, <2>1 DEF Runs
  <2>3. EntriesOK' /\ TurnsOK' /\ \A p \in Products : Dirty(p)' => Dirty(p)
    BY <2>1, EntriesStay, NothingNewIsDirty
  <2>4. owed' \subseteq backlog' \cup unqueued' \cup Waiting(run)
    BY <1>0, <2>1 DEF Waiting, Runs
  <2>5. \A p \in Products : Dirty(p)' => p \in backlog' \cup unqueued' \cup exposed' \/ p \in {run.product} \cup run.ids
    BY <1>0, <2>1, <2>3 DEF Runs
  <2> QED
    BY <1>0, <2>1, <2>2, <2>3, <2>4, <2>5, <1>s, RunKeepsIInv DEF Runs
<1>3. CASE PurgeFails(o)
  <2> DEFINE run == [co EXCEPT !.at = "sadd", !.keys = {}]
  <2>1. /\ co.at \in {"search", "delete"} /\ change' = [change EXCEPT ![o] = run]
        /\ owed' = owed \cup co.ids
        /\ UNCHANGED <<entries, turn, price, backlog, unqueued, exposed>>
    BY <1>3, <1>a DEF PurgeFails
  <2>2. run \in Runs
    BY <1>0 DEF Runs
  <2>3. EntriesOK' /\ TurnsOK' /\ \A p \in Products : Dirty(p)' => Dirty(p)
    BY <2>1, EntriesStay, NothingNewIsDirty
  <2>4. owed' \subseteq backlog' \cup unqueued' \cup Waiting(run)
    BY <1>0, <2>1 DEF Waiting, Runs
  <2> QED
    BY <1>0, <2>1, <2>2, <2>3, <2>4, <1>s, RunKeepsIInv DEF Runs
<1>4. CASE FindTagged(o)
  <2>0. PICK keys \in Replies(co.ids) \ {{}} :
          change' = [change EXCEPT ![o].at = "delete", ![o].keys = keys]
    BY <1>4 DEF FindTagged
  <2> DEFINE run == [co EXCEPT !.at = "delete", !.keys = keys]
  <2>1. /\ co.at = "search" /\ change' = [change EXCEPT ![o] = run]
        /\ UNCHANGED <<entries, turn, price, backlog, owed, unqueued, exposed>>
    BY <1>4, <1>a, <2>0 DEF FindTagged, history
  <2>2. keys \in SUBSET Places
    BY <2>0 DEF Replies, Tagged, Whole, kSubset
  <2>3. run \in Runs
    BY <1>0, <2>2 DEF Runs
  <2>4. EntriesOK' /\ TurnsOK' /\ \A p \in Products : Dirty(p)' => Dirty(p)
    BY <2>1, EntriesStay, NothingNewIsDirty
  <2>5. owed' \subseteq backlog' \cup unqueued' \cup Waiting(run)
    BY <1>0, <2>1 DEF Waiting, Runs
  <2> QED
    BY <1>0, <2>1, <2>3, <2>4, <2>5, <1>s, RunKeepsIInv DEF Runs
<1>5. CASE DeleteTagged(o)
  <2> DEFINE run == [co EXCEPT !.at = "search", !.keys = {}]
  <2>1. /\ co.at = "delete" /\ change' = [change EXCEPT ![o] = run] /\ Delete(co.keys)
        /\ UNCHANGED <<turn, price, backlog, owed, unqueued, exposed>>
    BY <1>5, <1>a DEF DeleteTagged, Go, history
  <2>2. run \in Runs
    BY <1>0 DEF Runs
  <2>3. EntriesOK' /\ TurnsOK' /\ \A p \in Products : Dirty(p)' => Dirty(p)
    BY <2>1, DeleteInherits, NothingNewIsDirty
  <2>4. owed' \subseteq backlog' \cup unqueued' \cup Waiting(run)
    BY <1>0, <2>1 DEF Waiting, Runs
  <2> QED
    BY <1>0, <2>1, <2>2, <2>3, <2>4, <1>s, RunKeepsIInv DEF Runs
<1>6. CASE Purged(o)
  <2> DEFINE run == [co EXCEPT !.at = "srem", !.keys = {}]
             carried == {p \in co.ids : \E t \in Turns : Carries(t, p)}
  <2>1. /\ co.at = "search" /\ change' = [change EXCEPT ![o] = run] /\ Tagged(co.ids) = {}
        /\ exposed' = (exposed \ co.ids) \cup carried /\ owed' = owed \ co.ids
        /\ unqueued' = unqueued \ co.ids
        /\ UNCHANGED <<entries, turn, price, backlog>>
    BY <1>6, <1>a DEF Purged, Go
  <2>2. run \in Runs /\ run.at = "srem" /\ run.ids = co.ids /\ run.product = co.product
    BY <1>0 DEF Runs
  <2>3. EntriesOK' /\ TurnsOK' /\ \A p \in Products : Dirty(p)' => Dirty(p)
    BY <2>1, EntriesStay, NothingNewIsDirty
  <2>4. owed' \subseteq backlog' \cup unqueued' \cup Waiting(run)
    BY <1>0, <2>1 DEF Waiting, Runs
  <2>5. \A p \in co.ids : ~\E i \in Whole : Stale(entries[i].quote, p)
    BY <2>1 DEF Tagged, Stale, EntriesOK, EntryOK, QuoteOK
  <2>6. \A p \in run.ids : Dirty(p)' => p \in exposed'
    BY <1>a, <2>1, <2>2, <2>3, <2>5 DEF Dirty
  <2>7. \A p \in Products : Dirty(p)' =>
          p \in backlog' \cup unqueued' \cup exposed' \/ p \in {run.product} \cup run.ids
    BY <1>0, <2>1, <2>2, <2>3
  <2> QED
    BY <1>0, <2>1, <2>2, <2>3, <2>4, <2>6, <2>7, <1>s, RunKeepsIInv
<1>7. CASE Queue(o)
  <2>1. /\ co.at = "sadd" /\ change' = [change EXCEPT ![o] = NoRun]
        /\ backlog' = backlog \cup co.ids /\ unqueued' = unqueued \ co.ids
        /\ UNCHANGED <<entries, turn, price, owed, exposed>>
    BY <1>7 DEF Queue, Finish
  <2>2. NoRun \in Runs /\ NoRun.at = "idle"
    BY DEF Runs, NoRun
  <2>3. EntriesOK' /\ TurnsOK' /\ \A p \in Products : Dirty(p)' => Dirty(p)
    BY <2>1, EntriesStay, NothingNewIsDirty
  <2>4. owed' \subseteq backlog' \cup unqueued' \cup Waiting(NoRun)
    BY <1>0, <2>1 DEF Waiting
  <2>5. \A p \in Products : Dirty(p)' => p \in backlog' \cup unqueued' \cup exposed'
    BY <1>0, <2>1, <2>3
  <2> QED
    BY <2>1, <2>2, <2>3, <2>4, <2>5, <1>s, RunKeepsIInv
<1>8. CASE Unqueue(o)
  <2>1. /\ co.at = "srem" /\ change' = [change EXCEPT ![o] = NoRun]
        /\ backlog' = backlog \ co.ids
        /\ UNCHANGED <<entries, turn, price, owed, unqueued, exposed>>
    BY <1>8 DEF Unqueue, Finish, history
  <2>2. NoRun \in Runs /\ NoRun.at = "idle"
    BY DEF Runs, NoRun
  <2>3. EntriesOK' /\ TurnsOK' /\ \A p \in Products : Dirty(p)' => Dirty(p)
    BY <2>1, EntriesStay, NothingNewIsDirty
  <2>4. owed' \subseteq backlog' \cup unqueued' \cup Waiting(NoRun)
    BY <1>0, <2>1 DEF Waiting
  <2>5. \A p \in Products : Dirty(p)' => p \in backlog' \cup unqueued' \cup exposed'
    BY <1>0, <2>1, <2>3
  <2> QED
    BY <2>1, <2>2, <2>3, <2>4, <2>5, <1>s, RunKeepsIInv
<1>9. CASE StateRedisFails(o) \/ Crash(o)
  <2>1. /\ co.at # "idle" /\ change' = [change EXCEPT ![o] = NoRun]
        /\ unqueued' = unqueued \cup {co.product}
        /\ UNCHANGED <<entries, turn, price, backlog, owed, exposed>>
    BY <1>9 DEF StateRedisFails, Crash, Abandon
  <2>2. NoRun \in Runs /\ NoRun.at = "idle"
    BY DEF Runs, NoRun
  <2>3. EntriesOK' /\ TurnsOK' /\ \A p \in Products : Dirty(p)' => Dirty(p)
    BY <2>1, EntriesStay, NothingNewIsDirty
  <2>4. owed' \subseteq backlog' \cup unqueued' \cup Waiting(NoRun)
    BY <1>0, <2>1 DEF Waiting
  <2>5. \A p \in Products : Dirty(p)' => p \in backlog' \cup unqueued' \cup exposed'
    BY <1>0, <2>1, <2>3
  <2> QED
    BY <2>1, <2>2, <2>3, <2>4, <2>5, <1>s, RunKeepsIInv
<1>10. CASE UnqueueFails(o)
  <2>1. /\ co.at = "srem" /\ change' = [change EXCEPT ![o] = NoRun]
        /\ UNCHANGED <<entries, turn, price, backlog, owed, unqueued, exposed>>
    BY <1>10 DEF UnqueueFails, Finish, history
  <2>2. NoRun \in Runs /\ NoRun.at = "idle"
    BY DEF Runs, NoRun
  <2>3. EntriesOK' /\ TurnsOK' /\ \A p \in Products : Dirty(p)' => Dirty(p)
    BY <2>1, EntriesStay, NothingNewIsDirty
  <2>4. owed' \subseteq backlog' \cup unqueued' \cup Waiting(NoRun)
    BY <1>0, <2>1 DEF Waiting
  <2>5. \A p \in Products : Dirty(p)' => p \in backlog' \cup unqueued' \cup exposed'
    BY <1>0, <2>1, <2>3
  <2> QED
    BY <2>1, <2>2, <2>3, <2>4, <2>5, <1>s, RunKeepsIInv
<1> QED
  BY <1>1, <1>2, <1>3, <1>4, <1>5, <1>6, <1>7, <1>8, <1>9, <1>10 DEF RunStep

-----------------------------------------------------------------------------

LEMMA InitSound == Init => Sound
<1> SUFFICES ASSUME Init PROVE Sound
  OBVIOUS
<1>1. Absent \in Cells /\ Absent.kind # "whole"
  BY DEF Absent, Cells
<1>2. EntriesOK
  BY <1>1 DEF Init, EntriesOK, Whole
<1>3. Idle \in TurnRecords /\ TurnOK(Idle)
  BY DEF Idle, TurnRecords, TurnOK, TurnAged, TurnSteps, Namespaces
<1>4. TurnsOK
  BY <1>3 DEF Init, TurnsOK
<1>5. NoRun \in Runs /\ NoRun.at = "idle"
  BY DEF NoRun, Runs, RunSteps
<1>6. RestOK
  BY <1>5, LimitsAssumption DEF Init, RestOK
<1> QED
  BY <1>2, <1>4, <1>6 DEF Sound

LEMMA InitIInv == Init => IInv
<1> SUFFICES ASSUME Init PROVE IInv
  OBVIOUS
<1>1. RunsOK /\ PurgedIsExposed
  BY DEF Init, RunsOK, PurgedIsExposed, NoRun
<1>2. Whole = {}
  BY DEF Init, Whole, Absent
<1>3. \A p \in Products : ~Dirty(p)
  BY <1>2 DEF Init, Dirty, Carries, Idle
<1> QED
  BY InitSound, <1>1, <1>3 DEF Init, IInv, DirtyIsKnown, FailedPurgeIsKept

(* Evictions and time. *)
LEMMA CacheStep ==
  ASSUME Sound, EvictKey \/ Tick \/ UNCHANGED vars
  PROVE  EntriesInherit /\ UNCHANGED <<turn, Rest>>
<1>1. CASE EvictKey
  BY <1>1, DeleteInherits DEF EvictKey, Evict, Sound, Rest
<1>2. CASE Tick
  BY <1>2, TickInherits DEF Tick, Sound, Rest
<1>3. CASE UNCHANGED vars
  BY <1>3, EntriesStay DEF vars, Sound, Rest
<1> QED
  BY <1>1, <1>2, <1>3

LEMMA StepKeepsSound == Sound /\ [Next]_vars => Sound'
<1> SUFFICES ASSUME Sound, [Next]_vars PROVE Sound'
  OBVIOUS
<1>1. ASSUME NEW t \in Turns, TurnStep(t) \/ \E q \in Questions : Ask(t, q) PROVE Sound'
  BY <1>1, TurnStepMoves, TurnKeepsSound
<1>2. ASSUME NEW o \in Operators, RunStep(o) \/ Crash(o) \/ \E p \in Products : ChangePrice(o, p)
      PROVE Sound'
  BY <1>2, RunStepKeepsSound
<1>3. CASE EvictKey \/ Tick \/ UNCHANGED vars
  <2>1. EntriesInherit /\ UNCHANGED <<turn, Rest>>
    BY <1>3, CacheStep
  <2>2. EntriesOK' /\ TurnsOK'
    BY <2>1, NothingNewIsDirty DEF Rest
  <2>3. RestOK'
    BY <2>1 DEF Sound, RestOK, Rest, counts, history
  <2> QED
    BY <2>2, <2>3 DEF Sound
<1> QED
  BY <1>1, <1>2, <1>3 DEF Next

LEMMA SoundHolds == Spec => []Sound
BY InitSound, StepKeepsSound, PTL DEF Spec

LEMMA StepKeepsIInv == ASSUME OneOperator PROVE IInv /\ [Next]_vars => IInv'
<1> SUFFICES ASSUME IInv, [Next]_vars PROVE IInv'
  OBVIOUS
<1>1. ASSUME NEW t \in Turns, TurnStep(t) \/ \E q \in Questions : Ask(t, q) PROVE IInv'
  BY <1>1, TurnStepMoves, TurnKeepsIInv DEF IInv
<1>2. ASSUME NEW o \in Operators, RunStep(o) \/ Crash(o) \/ \E p \in Products : ChangePrice(o, p)
      PROVE IInv'
  BY <1>2, RunStepKeepsIInv
<1>3. CASE EvictKey \/ Tick \/ UNCHANGED vars
  <2>1. Sound' /\ EntriesInherit /\ UNCHANGED <<turn, price, change, backlog, owed, unqueued, exposed>>
    BY <1>3, CacheStep, StepKeepsSound DEF IInv, Next, Rest, history
  <2>2. \A p \in Products : Dirty(p)' => Dirty(p)
    BY <2>1, NothingNewIsDirty DEF IInv
  <2>3. DirtyIsKnown'
    BY <2>1, <2>2 DEF IInv, DirtyIsKnown, Changing
  <2>4. PurgedIsExposed'
    BY <2>1, <2>2 DEF IInv, PurgedIsExposed, Sound, RestOK, Runs
  <2> QED
    BY <2>1, <2>3, <2>4 DEF IInv, RunsOK, FailedPurgeIsKept, Queueing
<1> QED
  BY <1>1, <1>2, <1>3 DEF Next

LEMMA IInvHolds == ASSUME OneOperator PROVE Spec => []IInv
<1>1. IInv /\ [Next]_vars => IInv'
  BY StepKeepsIInv
<1> QED
  BY InitIInv, <1>1, PTL DEF Spec

-----------------------------------------------------------------------------
(***************************************************************************)
(* The variables keep their types, with any number of conversations and of *)
(* runs of invalidation.py at once.                                        *)
(***************************************************************************)
THEOREM TypeCorrect == Spec => []TypeOK
<1>1. Sound => TypeOK
  <2> SUFFICES ASSUME Sound PROVE TypeOK
    OBVIOUS
  <2>1. DOMAIN entries = Places
    BY DEF Sound, EntriesOK
  <2>2. ASSUME NEW i \in Whole PROVE entries[i].ns \in Namespaces /\ entries[i].quote \in Quotes
    <3>1. entries[i] \in Cells /\ entries[i].kind = "whole"
      BY DEF Sound, EntriesOK, Whole
    <3> QED
      BY <3>1 DEF Cells, Absent, Partial
  <2>3. price \in [Products -> 0 .. MaxChanges]
    BY LimitsAssumption DEF Sound, RestOK
  <2>4. \A t \in Turns : turn[t].at \in TurnSteps /\ turn[t].ns \in Namespaces
                          /\ turn[t].rows \in Quotes \cup {None}
    BY DEF Sound, TurnsOK, TurnRecords
  <2>5. \A o \in Operators : change[o].at \in RunSteps /\ change[o].ids \subseteq Products
    BY DEF Sound, RestOK, Runs
  <2> QED
    BY <2>1, <2>2, <2>3, <2>4, <2>5 DEF TypeOK, Sound, RestOK
<1> QED
  BY SoundHolds, <1>1, PTL

(***************************************************************************)
(* Whatever a lookup returned says what the graph said at most MaxAge ago, *)
(* or twice that for an answer made from cached rows: the age filter of    *)
(* the search bounds it.  The TTLs bound nothing, since every hit renews   *)
(* them.  It needs no purge at all, and no order among the runs.           *)
(***************************************************************************)
THEOREM AgeBoundsDamage == Spec => []DamageBounded
<1>1. Sound => DamageBounded
  <2> SUFFICES ASSUME Sound, NEW t \in Turns, turn[t].found # None
               PROVE  turn[t].found.dataAge <= (IF turn[t].ns = "tool" THEN MaxAge ELSE 2 * MaxAge)
    BY DEF DamageBounded
  <2>1. turn[t].found.dataAge <= MaxAge + MayLag(turn[t].ns)
    BY DEF Sound, TurnsOK, TurnOK, TurnAged
  <2> QED
    BY <2>1, CacheAssumption DEF MayLag
<1> QED
  BY SoundHolds, <1>1, PTL

(***************************************************************************)
(* After a purge nothing in the cache quotes an old price of its products, *)
(* but for what a turn under way held, or a run left that died or that the *)
(* state Redis answered with an error (change_price).                      *)
(***************************************************************************)
THEOREM PurgeLeavesFresh == ASSUME OneOperator PROVE Spec => []PurgedIsFresh
<1>1. IInv => PurgedIsFresh
  <2> SUFFICES ASSUME IInv, NEW i \in Whole, NEW p \in entries[i].quote.quoted,
                      entries[i].quote.price < price[p]
               PROVE  p \in Changing \cup backlog \cup unqueued \cup exposed
    BY DEF PurgedIsFresh
  <2>1. p \in Products
    BY DEF IInv, Sound, EntriesOK, EntryOK, QuoteOK, Quotes
  <2>2. Dirty(p)
    BY DEF Dirty, Stale
  <2> QED
    BY <2>1, <2>2 DEF IInv, DirtyIsKnown
<1> QED
  BY IInvHolds, <1>1, PTL

(***************************************************************************)
(* No answer of a turn that hit an error is in the shared cache            *)
(* (on_tool_error_callback).                                               *)
(***************************************************************************)
THEOREM ErrorsStayOut == Spec => []OnlyCleanStored
<1>1. Sound => OnlyCleanStored
  BY DEF Sound, EntriesOK, EntryOK, QuoteOK, OnlyCleanStored
<1> QED
  BY SoundHolds, <1>1, PTL

(***************************************************************************)
(* A product whose purge failed is in the backlog, or about to be put      *)
(* there, until a run purges it (purge_with_backlog), unless its run ended *)
(* first: it died, or its SADD raised.                                     *)
(***************************************************************************)
THEOREM BacklogKeeps == ASSUME OneOperator PROVE Spec => []FailedPurgeIsKept
<1>1. IInv => FailedPurgeIsKept
  BY DEF IInv
<1> QED
  BY IInvHolds, <1>1, PTL

=============================================================================

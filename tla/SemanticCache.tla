---------------------------- MODULE SemanticCache ----------------------------
(***************************************************************************)
(* The Redis semantic cache of chapter 10 (semantic_cache.py) with its     *)
(* lexical guard (guards.py): the entries, and what each command of        *)
(* lookup, put and purge does to them.  Namespaces tell the tags apart:    *)
(* final answers of the shopping agent, and rows of its retriever.         *)
(*                                                                         *)
(* Age is counted in ticks.  TTLs are not: the cache evicts under memory   *)
(* pressure, so a key may go at any moment, and as every hit renews the    *)
(* TTL, with the default and not the entry's own, it may also stay.  A     *)
(* place is not used again while a lookup remembers its key: a uuid is     *)
(* never used twice.                                                       *)
(***************************************************************************)
EXTENDS Naturals, FiniteSets, FiniteSetsExt

CONSTANTS
  Places,     \* how many hashes the cache's memory holds
  Questions,
  Tokens,     \* the tokens of each question that specifics() looks at
  Near,       \* Near[q]: the questions within the threshold of q
  ProductOf,  \* the product the rows for each question are about
  Products,
  MaxAge,     \* max_age_seconds
  Batch,      \* batch of purge
  NoKey

Namespaces == {"shopping", "tool"}

ASSUME CacheAssumption ==
  /\ {MaxAge, Batch} \subseteq Nat \ {0}
  /\ NoKey \notin Places
  /\ ProductOf \in [Questions -> Products]
  /\ \A q \in Questions : q \in Near[q] /\ Near[q] \subseteq Questions

VARIABLE entries  \* the hash at each place, Absent or Partial

Absent == [kind |-> "absent"]

\* What HINCRBY makes of a key that has gone; FT.SEARCH never returns it.
Partial == [kind |-> "partial"]

Whole == {i \in Places : entries[i].kind = "whole"}

\* What a response says: the product whose price it quotes and how old that price
\* is; the ids it was tagged with; and, for the properties only, whether its turn
\* went without an error.
Quotes == [question : Questions, quoted : SUBSET Products, price : Nat, dataAge : Nat,
           tags : SUBSET Products, clean : BOOLEAN]

-----------------------------------------------------------------------------
(* guards.py *)

\* Ids, products named in words as their ids, numbers, and the words that turn
\* a question round.  Everything else is left to the embedding.
Specifics(q) ==
  LET w == Tokens[q] IN w.ids \cup w.names \cup w.numbers \cup w.words

SameSpecifics(q, cached) == Specifics(q) = Specifics(cached)

-----------------------------------------------------------------------------
(* lookup *)

\* Mutant: no @created_ts filter.
InScopeAnyAge(ns) == {i \in Whole : entries[i].ns = ns}

InScope(ns) == {i \in Whole : entries[i].ns = ns /\ entries[i].age <= MaxAge}

\* KNN 1 within the threshold: an entry for the question itself is nearest.
Nearest(ns, q) ==
  LET same == {i \in InScope(ns) : entries[i].quote.question = q}
      near == {i \in InScope(ns) : entries[i].quote.question \in Near[q]}
  IN IF same # {} THEN same ELSE near

\* HINCRBY and EXPIRE in one transaction, whatever the key is by now.
Touch(i) ==
  entries' = [entries EXCEPT ![i] = IF @ = Absent THEN Partial ELSE @]

-----------------------------------------------------------------------------
(* put: HSET and EXPIRE in one transaction, under a new key *)

Hash(ns, quote) ==
  [kind |-> "whole", ns |-> ns, quote |-> quote, age |-> 0]

Put(ns, quote, held) ==
  \E i \in Places \ held :
    /\ entries[i] = Absent
    /\ entries' = [entries EXCEPT ![i] = Hash(ns, quote)]

-----------------------------------------------------------------------------
(* purge: FT.SEARCH for a batch, DEL it, until a search finds nothing *)

Tagged(products) == {i \in Whole : entries[i].quote.tags \cap products # {}}

\* The replies an FT.SEARCH paged to a batch may give.
Replies(products) ==
  LET all == Tagged(products)
  IN IF Cardinality(all) <= Batch THEN {all} ELSE kSubset(Batch, all)

Delete(keys) == entries' = [i \in Places |-> IF i \in keys THEN Absent ELSE entries[i]]

-----------------------------------------------------------------------------
(* The environment of the entries: TTLs and allkeys-lfu, and time *)

Evict == \E i \in Places : entries[i] # Absent /\ Delete({i})

Older(age, most) == IF age > most THEN age ELSE age + 1

\* Ages are counted until they are too old to matter.
TickEntries ==
  entries' = [i \in Places |->
    IF i \in Whole
    THEN [entries[i] EXCEPT !.age = Older(@, MaxAge),
                            !.quote.dataAge =
                              IF entries[i].quote.quoted = {} THEN 0 ELSE Older(@, 2 * MaxAge)]
    ELSE entries[i]]

=============================================================================

-------------------------- MODULE ReactBrakesProofs --------------------------
(***************************************************************************)
(* The brakes of the ReAct agent, for every set of calls, however many of  *)
(* them one response makes, and for every limit.                           *)
(***************************************************************************)
EXTENDS ReactBrakes, TLAPS, FiniteSetTheorems

Entries == [sig : Sigs, outcome : Outcomes]

Pads ==
  /\ talking \in BOOLEAN
  /\ pad \in Seq(Entries)
  /\ calls \in [Slots -> Call \cup {None}]

SigAt(s) == Signature(calls[s].arg)

AtTool(s) == calls[s] # None /\ calls[s].at = "tool"

(***************************************************************************)
(* What keeps a lookup from being made twice: a call that a brake has let  *)
(* through, and a tool that has run, has its entry; no two entries, and no *)
(* two calls that are let through, have one signature.  A tool that is to  *)
(* run has not run before.                                                 *)
(***************************************************************************)
Tried(g) == \E i \in DOMAIN pad : pad[i].sig = g

EntriesDiffer == \A i, j \in DOMAIN pad : pad[i].sig = pad[j].sig => i = j

RanOnce == \A g \in Sigs : ran[g] \in {0, 1} /\ (ran[g] = 1 => Tried(g))

ToRun ==
  \A s \in Slots : AtTool(s) =>
    /\ Tried(SigAt(s)) /\ ran[SigAt(s)] = 0
    /\ \A t \in Slots : AtTool(t) /\ SigAt(t) = SigAt(s) => t = s

(***************************************************************************)
(* No more than MaxEmpty entries in a row are recorded as empty.           *)
(***************************************************************************)
RecordedStops ==
  \A i \in 1 .. Len(pad) - MaxEmpty : \E j \in i .. i + MaxEmpty - 1 : pad[j].outcome # "empty"

(***************************************************************************)
(* As long as calls come one at a time, the entries are the tools that     *)
(* ran, each with its own outcome; one more is there while a call that was *)
(* let through has not run, and the last is pending until its own call     *)
(* records it.                                                             *)
(***************************************************************************)
Unrecorded(s) == calls[s].at = "after" /\ pad # <<>> /\ pad[Len(pad)].outcome = "pending"

OneCall == \A s, t \in Slots : calls[s] # None /\ calls[t] # None => s = t

EntryPerRun ==
  /\ (\E s \in Slots : AtTool(s)) => Len(outcomes) = Len(pad) - 1
  /\ (\A s \in Slots : ~AtTool(s)) => Len(outcomes) = Len(pad)

OneAtATime ==
  /\ OneCall /\ EntryPerRun
  /\ \A i \in DOMAIN pad : pad[i].outcome = "pending" =>
       i = Len(pad) /\ \E s \in Slots : calls[s] # None /\ calls[s].at \in {"tool", "after"}
  /\ \A s \in Slots : AtTool(s) => pad # <<>> /\ pad[Len(pad)].outcome = "pending"
  /\ \A s \in Slots : calls[s] # None /\ Unrecorded(s) => outcomes[Len(pad)] = Outcome(calls[s].empty)
  /\ \A i \in DOMAIN outcomes : pad[i].outcome # "pending" =>
       outcomes[i] = pad[i].outcome

OwnOutcomes == ~parallel => OneAtATime

IInv ==
  /\ Pads /\ ran \in [Sigs -> Nat]
  /\ outcomes \in Seq(Outcomes) /\ parallel \in BOOLEAN
  /\ EntriesDiffer /\ RanOnce /\ ToRun
  /\ PadIsBounded /\ RecordedStops
  /\ OwnOutcomes

(* A call is no empty slot. *)
LEMMA CallsAreCalls == \A c \in Call : c # None
<1> SUFFICES ASSUME NEW c \in Call, c = None PROVE FALSE
  OBVIOUS
<1>1. "at" \in DOMAIN c
  BY DEF Call
<1>2. "at" \notin DOMAIN None
  BY DEF None
<1> QED
  BY <1>1, <1>2

LEMMA SigsOfCalls ==
  ASSUME Pads, NEW s \in Slots, calls[s] # None
  PROVE  calls[s] \in Call /\ calls[s].arg \in Args /\ SigAt(s) \in Sigs
BY DEF Pads, Call, SigAt, Signature, Sigs

LEMMA EmptyRunIsFinite ==
  ASSUME pad \in Seq(Entries)
  PROVE  /\ IsFiniteSet({i \in DOMAIN pad : \A j \in i .. Len(pad) : pad[j].outcome = "empty"})
         /\ EmptyRun \in Nat
<1>1. Len(pad) \in Nat /\ DOMAIN pad = 1 .. Len(pad)
  OBVIOUS
<1>2. IsFiniteSet(1 .. Len(pad))
  BY <1>1, FS_Interval
<1>3. IsFiniteSet({i \in DOMAIN pad : \A j \in i .. Len(pad) : pad[j].outcome = "empty"})
  BY <1>1, <1>2, FS_Subset
<1> QED
  BY <1>3, FS_CardinalityType DEF EmptyRun

(***************************************************************************)
(* If the last MaxEmpty outcomes were all empty, the brakes would count at *)
(* least as many: a call is let through only if one of them was not.       *)
(***************************************************************************)
LEMMA EmptiesAreCounted ==
  ASSUME pad \in Seq(Entries), EmptyRun < MaxEmpty, Len(pad) >= MaxEmpty
  PROVE  \E j \in Len(pad) - MaxEmpty + 1 .. Len(pad) : pad[j].outcome # "empty"
<1>1. MaxEmpty \in Nat /\ MaxEmpty > 0 /\ Len(pad) \in Nat /\ DOMAIN pad = 1 .. Len(pad)
  BY BrakesAssumption
<1> DEFINE tail == Len(pad) - MaxEmpty + 1 .. Len(pad)
           counted == {i \in DOMAIN pad : \A j \in i .. Len(pad) : pad[j].outcome = "empty"}
<1> SUFFICES ASSUME \A j \in tail : pad[j].outcome = "empty" PROVE FALSE
  OBVIOUS
<1>2. tail \subseteq counted
  BY <1>1
<1>3. IsFiniteSet(counted)
  BY EmptyRunIsFinite
<1>4. Cardinality(tail) = MaxEmpty
  BY <1>1, FS_Interval
<1>5. Cardinality(tail) <= Cardinality(counted)
  BY <1>2, <1>3, FS_Subset
<1>6. Cardinality(counted) \in Nat
  BY <1>3, FS_CardinalityType
<1> QED
  BY <1>1, <1>4, <1>5, <1>6 DEF EmptyRun

-----------------------------------------------------------------------------

LEMMA BrakesInit == Init => IInv
<1> SUFFICES ASSUME Init PROVE IInv
  OBVIOUS
<1>1. pad = <<>> /\ Len(pad) = 0 /\ DOMAIN pad = {}
  BY DEF Init
<1>2. \A s \in Slots : calls[s] = None
  BY DEF Init
<1>3. Pads /\ ran \in [Sigs -> Nat]
  <2>1. pad \in Seq(Entries)
    BY <1>1
  <2>2. calls \in [Slots -> Call \cup {None}]
    BY DEF Init
  <2>3. ran \in [Sigs -> Nat]
    BY DEF Init
  <2> QED
    BY <2>1, <2>2, <2>3 DEF Init, Pads
<1>4. EntriesDiffer /\ RanOnce
  BY <1>1 DEF Init, EntriesDiffer, RanOnce
<1>5. ToRun
  BY <1>2 DEF ToRun, AtTool
<1>6. PadIsBounded /\ RecordedStops
  BY <1>1, BrakesAssumption DEF PadIsBounded, RecordedStops
<1>7. outcomes = <<>> /\ outcomes \in Seq(Outcomes) /\ Len(outcomes) = 0
  BY DEF Init
<1>9. parallel \in BOOLEAN
  BY Zenon DEF Init
<1>8. OwnOutcomes
  BY <1>1, <1>2, <1>7 DEF OwnOutcomes, OneAtATime, OneCall, EntryPerRun, AtTool
<1> QED
  BY <1>3, <1>4, <1>5, <1>6, <1>7, <1>8, <1>9 DEF IInv

(* New calls have not been let through yet. *)
LEMMA CallsInv == IInv /\ CallTools => IInv'
<1> SUFFICES ASSUME IInv, CallTools PROVE IInv'
  OBVIOUS
<1>1. PICK chosen \in [Slots -> Args \cup {"none"}] :
        /\ calls' = [s \in Slots |->
             IF chosen[s] = "none" THEN None
             ELSE [arg |-> chosen[s], at |-> "before", empty |-> FALSE]]
        /\ parallel' = (parallel \/ \E s, t \in Slots : s # t /\ "none" \notin {chosen[s], chosen[t]})
  BY DEF CallTools
<1>2. UNCHANGED <<talking, pad, ran, outcomes>> /\ Resting
  BY DEF CallTools
<1>3. \A s \in Slots :
        \/ calls'[s] = None
        \/ calls'[s] = [arg |-> chosen[s], at |-> "before", empty |-> FALSE] /\ chosen[s] \in Args
  BY <1>1
<1>4. ASSUME NEW s \in Slots PROVE calls'[s] \in Call \cup {None} /\ ~AtTool(s)'
  <2>1. CASE calls'[s] = None
    BY <2>1 DEF AtTool
  <2>2. CASE calls'[s] # None
    <3>1. calls'[s] = [arg |-> chosen[s], at |-> "before", empty |-> FALSE] /\ chosen[s] \in Args
      BY <1>3, <2>2
    <3>2. calls'[s] \in Call
      BY <3>1 DEF Call
    <3>3. calls'[s].at = "before"
      BY <3>1
    <3> QED
      BY <3>2, <3>3 DEF AtTool
  <2> QED
    BY <2>1, <2>2
<1>5. Pads'
  BY <1>1, <1>2, <1>4 DEF IInv, Pads
<1>6. ToRun'
  BY <1>4 DEF ToRun
<1>7. parallel' \in BOOLEAN /\ (~parallel' => ~parallel)
  BY <1>1, Zenon DEF IInv
<1>8. OwnOutcomes'
  <2> SUFFICES ASSUME ~parallel' PROVE OneAtATime'
    BY DEF OwnOutcomes
  <2>1. OneAtATime
    BY <1>7 DEF IInv, OwnOutcomes
  <2>2. \A s \in Slots : ~AtTool(s)
    BY <1>2 DEF Resting, AtTool
  <2>3. \A s, t \in Slots : calls'[s] # None /\ calls'[t] # None => s = t
    <3> SUFFICES ASSUME NEW s \in Slots, NEW t \in Slots, calls'[s] # None, calls'[t] # None, s # t
                 PROVE  FALSE
      OBVIOUS
    <3>1. chosen[s] # "none" /\ chosen[t] # "none"
      BY <1>1
    <3>2. parallel'
      BY <1>1, <3>1, Zenon
    <3> QED
      BY <3>2
  <2>4. \A s \in Slots : calls'[s] # None => ~Unrecorded(s)'
    <3>1. ASSUME NEW s \in Slots, calls'[s] # None PROVE calls'[s].at = "before"
      <4>1. calls'[s] = [arg |-> chosen[s], at |-> "before", empty |-> FALSE]
        BY <1>3, <3>1
      <4> QED
        BY <4>1
    <3> QED
      BY <3>1 DEF Unrecorded
  <2>5. \A i \in DOMAIN pad : pad[i].outcome # "pending"
    BY <1>2, <2>1 DEF Resting, OneAtATime, OneCall, EntryPerRun
  <2> QED
    BY <1>2, <1>4, <2>1, <2>2, <2>3, <2>4, <2>5 DEF OneAtATime, OneCall, EntryPerRun
<1> QED
  BY <1>2, <1>5, <1>6, <1>7, <1>8
  DEF IInv, EntriesDiffer, RanOnce, Tried, PadIsBounded, RecordedStops

(* A brake answers: the call is not let through. *)
LEMMA BrakeInv ==
  ASSUME IInv, NEW s \in Slots, calls[s] # None, calls[s].at = "before",
         calls' = [calls EXCEPT ![s].at = "after"], UNCHANGED <<talking, pad, log>>
  PROVE  IInv'
<1>0. UNCHANGED <<ran, outcomes, parallel>>
  BY DEF log
<1>1. calls[s] \in Call
  BY SigsOfCalls DEF IInv
<1>2. calls' = [calls EXCEPT ![s] = [calls[s] EXCEPT !.at = "after"]]
  OBVIOUS
<1> DEFINE new == [calls[s] EXCEPT !.at = "after"]
<1>3. new \in Call /\ new.at = "after"
  BY <1>1 DEF Call
<1> HIDE DEF new
<1>4. \A t \in Slots : calls'[t] = IF t = s THEN new ELSE calls[t]
  BY <1>2 DEF IInv, Pads, new
<1>5. Pads'
  BY <1>2, <1>3 DEF IInv, Pads, new
<1>6. \A t \in Slots : AtTool(t)' => AtTool(t) /\ SigAt(t)' = SigAt(t)
  BY <1>3, <1>4 DEF AtTool, SigAt, Signature
<1>7. ToRun'
  BY <1>0, <1>6 DEF IInv, ToRun, Tried
<1>8. OwnOutcomes'
  <2> SUFFICES ASSUME ~parallel, OneAtATime PROVE OneAtATime'
    BY <1>0 DEF IInv, OwnOutcomes
  <2>1. \A t \in Slots : calls'[t] # None <=> calls[t] # None
    BY <1>3, <1>4, CallsAreCalls
  <2>2. \A t \in Slots : calls[t] # None => t = s
    BY DEF OneAtATime, OneCall, EntryPerRun
  <2>3. \A t \in Slots : ~AtTool(t)
    BY <2>2 DEF AtTool
  <2>4. \A i \in DOMAIN pad : pad[i].outcome # "pending"
    BY <2>2 DEF OneAtATime, OneCall, EntryPerRun
  <2>5. \A t \in Slots : ~AtTool(t)'
    BY <1>6, <2>3
  <2>6. \A t \in Slots : ~Unrecorded(t)'
    <3>1. pad # <<>> => Len(pad) \in DOMAIN pad
      BY DEF IInv, Pads
    <3> QED
      BY <2>4, <3>1 DEF Unrecorded
  <2> QED
    BY <1>0, <2>1, <2>2, <2>3, <2>4, <2>5, <2>6 DEF OneAtATime, OneCall, EntryPerRun
<1> QED
  BY <1>0, <1>5, <1>7, <1>8 DEF IInv, EntriesDiffer, RanOnce, Tried, PadIsBounded, RecordedStops

(***************************************************************************)
(* A call is let through: nothing drops out of the scratchpad, since the   *)
(* limit keeps it shorter than its window, and the new entry's signature   *)
(* is in no other.                                                         *)
(***************************************************************************)
LEMMA LetThroughInv ==
  ASSUME IInv, NEW s \in Slots, calls[s] # None, calls[s].at = "before",
         ~Brakes(SigAt(s)),
         calls' = [calls EXCEPT ![s].at = "tool"],
         pad' = Newest(Append(pad, [sig |-> SigAt(s), outcome |-> "pending"])),
         UNCHANGED <<talking, log>>
  PROVE  IInv'
<1>0. UNCHANGED <<ran, outcomes, parallel>>
  BY DEF log
<1> DEFINE entry == [sig |-> SigAt(s), outcome |-> "pending"]
           new == [calls[s] EXCEPT !.at = "tool"]
<1>1. /\ calls[s] \in Call /\ SigAt(s) \in Sigs
      /\ pad \in Seq(Entries) /\ Len(pad) \in Nat /\ DOMAIN pad = 1 .. Len(pad)
      /\ {MaxCalls, MaxEmpty, Window} \subseteq Nat \ {0} /\ MaxCalls <= Window
  BY SigsOfCalls, BrakesAssumption DEF IInv, Pads
<1>2. Len(pad) < MaxCalls /\ ~Tried(SigAt(s)) /\ EmptyRun < MaxEmpty
  <2>1. EmptyRun \in Nat
    BY <1>1, EmptyRunIsFinite
  <2> QED
    BY <2>1, <1>1 DEF Brakes, Tried
<1>3. entry \in Entries /\ entry.sig = SigAt(s) /\ entry.outcome = "pending"
  BY <1>1 DEF Entries, Outcomes
<1> HIDE DEF entry
<1>4. Append(pad, entry) \in Seq(Entries) /\ Len(Append(pad, entry)) = Len(pad) + 1
  BY <1>1, <1>3
<1>5. pad' = Append(pad, entry)
  BY <1>1, <1>2, <1>4 DEF Newest, entry
<1>6. /\ DOMAIN pad' = 1 .. Len(pad) + 1 /\ Len(pad') = Len(pad) + 1
      /\ \A i \in 1 .. Len(pad) : pad'[i] = pad[i]
      /\ pad'[Len(pad) + 1] = entry
  BY <1>1, <1>3, <1>4, <1>5
<1>7. new \in Call /\ new.at = "tool" /\ new.arg = calls[s].arg
  BY <1>1 DEF Call
<1>8. calls' = [calls EXCEPT ![s] = new]
  OBVIOUS
<1> HIDE DEF new
<1>9. \A t \in Slots : calls'[t] = IF t = s THEN new ELSE calls[t]
  BY <1>8 DEF IInv, Pads
<1>10. Pads'
  BY <1>4, <1>5, <1>7, <1>8 DEF IInv, Pads
<1>11. \A g \in Sigs : Tried(g)' <=> Tried(g) \/ g = SigAt(s)
  BY <1>1, <1>3, <1>6 DEF Tried
<1>12. EntriesDiffer'
  <2>1. EntriesDiffer
    BY DEF IInv
  <2> QED
    BY <1>1, <1>2, <1>3, <1>6, <2>1 DEF EntriesDiffer, Tried
<1>13. RanOnce'
  BY <1>0, <1>11 DEF IInv, RanOnce
<1>14. ran[SigAt(s)] = 0
  BY <1>1, <1>2 DEF IInv, RanOnce
<1>15. \A t \in Slots : t # s => (AtTool(t)' <=> AtTool(t)) /\ SigAt(t)' = SigAt(t)
  BY <1>9 DEF AtTool, SigAt, Signature
<1>16. AtTool(s)' /\ SigAt(s)' = SigAt(s)
  BY <1>7, <1>9, CallsAreCalls DEF AtTool, SigAt, Signature
<1>17. \A t \in Slots : t # s /\ AtTool(t) => SigAt(t) \in Sigs /\ SigAt(t) # SigAt(s)
  BY <1>2, SigsOfCalls DEF IInv, ToRun, AtTool
<1>18. ToRun'
  <2> SUFFICES ASSUME NEW u \in Slots, AtTool(u)'
               PROVE  /\ Tried(SigAt(u))' /\ ran'[SigAt(u)'] = 0
                      /\ \A t \in Slots : AtTool(t)' /\ SigAt(t)' = SigAt(u)' => t = u
    BY DEF ToRun
  <2>1. CASE u = s
    <3>1. Tried(SigAt(u))'
      BY <1>3, <1>6, <1>16, <2>1 DEF Tried
    <3>2. ran'[SigAt(u)'] = 0
      BY <1>0, <1>14, <1>16, <2>1
    <3>3. \A t \in Slots : AtTool(t)' /\ SigAt(t)' = SigAt(u)' => t = u
      BY <1>15, <1>16, <1>17, <2>1
    <3> QED
      BY <3>1, <3>2, <3>3
  <2>2. CASE u # s
    <3>1. AtTool(u) /\ SigAt(u)' = SigAt(u)
      BY <1>15, <2>2
    <3>2. Tried(SigAt(u))'
      <4>1. Tried(SigAt(u))
        BY <3>1 DEF IInv, ToRun
      <4> QED
        BY <1>6, <1>1, <3>1, <4>1 DEF Tried
    <3>3. ran'[SigAt(u)'] = 0
      BY <1>0, <3>1 DEF IInv, ToRun
    <3>4. \A t \in Slots : AtTool(t)' /\ SigAt(t)' = SigAt(u)' => t = u
      BY <1>15, <1>16, <1>17, <2>2, <3>1 DEF IInv, ToRun
    <3> QED
      BY <3>2, <3>3, <3>4
  <2> QED
    BY <2>1, <2>2
<1>19. PadIsBounded'
  BY <1>1, <1>2, <1>6 DEF PadIsBounded
<1>20. RecordedStops'
  <2> SUFFICES ASSUME NEW i \in 1 .. Len(pad') - MaxEmpty
               PROVE  \E j \in i .. i + MaxEmpty - 1 : pad'[j].outcome # "empty"
    BY DEF RecordedStops
  <2>1. CASE i \in 1 .. Len(pad) - MaxEmpty
    <3>1. PICK j \in i .. i + MaxEmpty - 1 : pad[j].outcome # "empty"
      BY <2>1 DEF IInv, RecordedStops
    <3>2. j \in 1 .. Len(pad)
      BY <1>1, <2>1, <3>1
    <3> QED
      BY <1>6, <3>1, <3>2
  <2>2. CASE i = Len(pad) + 1 - MaxEmpty
    <3>1. Len(pad) >= MaxEmpty
      BY <1>1, <2>2
    <3>2. PICK j \in Len(pad) - MaxEmpty + 1 .. Len(pad) : pad[j].outcome # "empty"
      BY <1>1, <1>2, <3>1, EmptiesAreCounted
    <3>3. j \in 1 .. Len(pad) /\ j \in i .. i + MaxEmpty - 1
      BY <1>1, <2>2, <3>1, <3>2
    <3> QED
      BY <1>6, <3>2, <3>3
  <2> QED
    <3>1. i \in 1 .. Len(pad) + 1 - MaxEmpty
      BY <1>1, <1>6
    <3>2. i \in 1 .. Len(pad) - MaxEmpty \/ i = Len(pad) + 1 - MaxEmpty
      BY <1>1, <3>1
    <3> QED
      BY <2>1, <2>2, <3>2
<1>21. OwnOutcomes'
  <2> SUFFICES ASSUME ~parallel, OneAtATime PROVE OneAtATime'
    BY <1>0 DEF IInv, OwnOutcomes
  <2>1. \A t \in Slots : calls[t] # None => t = s
    BY DEF OneAtATime, OneCall, EntryPerRun
  <2>2. \A t \in Slots : ~AtTool(t) /\ (calls'[t] # None => t = s)
    BY <1>9, <2>1 DEF AtTool
  <2>3. \A i \in DOMAIN pad : pad[i].outcome # "pending"
    BY <2>1 DEF OneAtATime, OneCall, EntryPerRun
  <2>4. outcomes \in Seq(Outcomes) /\ Len(outcomes) = Len(pad) /\ DOMAIN outcomes = 1 .. Len(pad)
    BY <2>2 DEF OneAtATime, OneCall, EntryPerRun, IInv
  <2>5. calls'[s] = new /\ calls'[s] # None /\ calls'[s].at = "tool"
    BY <1>7, <1>9, CallsAreCalls
  <2>6. /\ pad' # <<>> /\ pad'[Len(pad')].outcome = "pending"
        /\ Len(outcomes') = Len(pad') - 1
    BY <1>0, <1>1, <1>3, <1>6, <2>4
  <2>7. \A i \in DOMAIN pad' : pad'[i].outcome = "pending" => i = Len(pad')
    BY <1>1, <1>6, <2>3
  <2>8. \A i \in DOMAIN outcomes' : outcomes'[i] = pad'[i].outcome
    BY <1>0, <1>1, <1>6, <2>3, <2>4 DEF OneAtATime, OneCall, EntryPerRun
  <2>9. \A t \in Slots : calls'[t] # None => ~Unrecorded(t)'
    BY <2>2, <2>5 DEF Unrecorded
  <2> QED
    BY <1>16, <2>2, <2>5, <2>6, <2>7, <2>8, <2>9 DEF OneAtATime, OneCall, EntryPerRun
<1> QED
  BY <1>0, <1>10, <1>12, <1>13, <1>18, <1>19, <1>20, <1>21 DEF IInv

(* A tool runs: it was the only call let through with its signature. *)
LEMMA ToolInv ==
  ASSUME IInv, NEW s \in Slots, calls[s] # None, RunTool(s)
  PROVE  IInv'
<1>1. calls[s] \in Call /\ calls[s].at = "tool" /\ AtTool(s) /\ SigAt(s) \in Sigs
  BY SigsOfCalls DEF IInv, RunTool, AtTool
<1>2. PICK looksEmpty \in BOOLEAN :
        /\ calls' = [calls EXCEPT ![s].at = "after", ![s].empty = looksEmpty]
        /\ outcomes' = Append(outcomes, Outcome(looksEmpty))
  BY DEF RunTool
<1> DEFINE new == [calls[s] EXCEPT !.at = "after", !.empty = looksEmpty]
<1>3. new \in Call /\ new.at = "after" /\ new.empty = looksEmpty
  BY <1>1 DEF Call
<1>4. calls' = [calls EXCEPT ![s] = new]
  BY <1>1, <1>2 DEF IInv, Pads
<1> HIDE DEF new
<1>5. \A t \in Slots : calls'[t] = IF t = s THEN new ELSE calls[t]
  BY <1>4 DEF IInv, Pads
<1>6. UNCHANGED <<talking, pad, parallel>> /\ ran' = [ran EXCEPT ![SigAt(s)] = @ + 1]
  BY DEF RunTool, SigAt
<1>7. Pads'
  BY <1>3, <1>4, <1>6 DEF IInv, Pads
<1>8. ran[SigAt(s)] = 0 /\ Tried(SigAt(s))
  BY <1>1 DEF IInv, ToRun
<1>9. ran' \in [Sigs -> Nat] /\ \A g \in Sigs : ran'[g] = IF g = SigAt(s) THEN 1 ELSE ran[g]
  BY <1>1, <1>6, <1>8 DEF IInv
<1>10. RanOnce'
  BY <1>6, <1>8, <1>9 DEF IInv, RanOnce, Tried
<1>11. \A t \in Slots : AtTool(t)' => t # s /\ AtTool(t) /\ SigAt(t)' = SigAt(t)
  BY <1>3, <1>5 DEF AtTool, SigAt, Signature
<1>12. \A t \in Slots : AtTool(t)' => SigAt(t) \in Sigs /\ SigAt(t) # SigAt(s)
  BY <1>1, <1>11, SigsOfCalls DEF IInv, ToRun, AtTool
<1>13. ToRun'
  BY <1>6, <1>9, <1>11, <1>12 DEF IInv, ToRun, Tried
<1>14. outcomes \in Seq(Outcomes) /\ Outcome(looksEmpty) \in Outcomes /\ outcomes' \in Seq(Outcomes)
  BY <1>2 DEF IInv, Outcome, Outcomes
<1>15. OwnOutcomes'
  <2> SUFFICES ASSUME ~parallel, OneAtATime PROVE OneAtATime'
    BY <1>6 DEF IInv, OwnOutcomes
  <2>1. \A t \in Slots : calls[t] # None => t = s
    BY DEF OneAtATime, OneCall, EntryPerRun
  <2>2. /\ pad # <<>> /\ pad[Len(pad)].outcome = "pending"
        /\ Len(outcomes) = Len(pad) - 1 /\ Len(pad) \in Nat
    BY <1>1 DEF OneAtATime, OneCall, EntryPerRun, IInv, Pads
  <2>3. /\ Len(outcomes') = Len(pad) /\ outcomes'[Len(pad)] = Outcome(looksEmpty)
        /\ \A i \in DOMAIN outcomes' : i # Len(pad) => i \in DOMAIN outcomes /\ outcomes'[i] = outcomes[i]
    BY <1>2, <1>14, <2>2
  <2>4. \A t \in Slots : ~AtTool(t)' /\ (calls'[t] # None => t = s)
    BY <1>5, <1>11, <2>1 DEF AtTool
  <2>5. calls'[s] = new /\ calls'[s] # None
    BY <1>3, <1>5, CallsAreCalls
  <2>6. \A i \in DOMAIN pad : pad[i].outcome = "pending" => i = Len(pad)
    BY DEF OneAtATime, OneCall, EntryPerRun
  <2>7. \A i \in DOMAIN outcomes' : pad[i].outcome # "pending" =>
          outcomes'[i] = pad[i].outcome
    BY <2>2, <2>3 DEF OneAtATime, OneCall, EntryPerRun
  <2> QED
    BY <1>3, <1>6, <2>3, <2>4, <2>5, <2>6, <2>7 DEF OneAtATime, OneCall, EntryPerRun
<1> QED
  BY <1>6, <1>7, <1>9, <1>10, <1>13, <1>14, <1>15
  DEF IInv, EntriesDiffer, Tried, PadIsBounded, RecordedStops

(***************************************************************************)
(* An outcome lands on the last entry, whichever call's it is: no window   *)
(* that RecordedStops speaks of reaches it, and no signature changes. One  *)
(* call at a time finds its own entry there.                               *)
(***************************************************************************)
LEMMA OutcomeInv ==
  ASSUME IInv, NEW s \in Slots, calls[s] # None, RecordOutcome(s)
  PROVE  IInv'
<1>1. /\ pad \in Seq(Entries) /\ Len(pad) \in Nat /\ DOMAIN pad = 1 .. Len(pad)
      /\ MaxEmpty \in Nat \ {0}
  BY BrakesAssumption DEF IInv, Pads
<1>2. UNCHANGED <<talking, ran, outcomes, parallel>> /\ calls' = [calls EXCEPT ![s] = None]
  BY DEF RecordOutcome, log
<1>13. calls[s].at = "after" /\ calls[s] \in Call /\ Outcome(calls[s].empty) \in {"empty", "hit"}
  BY SigsOfCalls DEF RecordOutcome, Outcome, IInv
<1>3. \A t \in Slots : calls'[t] = IF t = s THEN None ELSE calls[t]
  BY <1>2 DEF IInv, Pads
<1>4. /\ pad' \in Seq(Entries) /\ Len(pad') = Len(pad) /\ DOMAIN pad' = DOMAIN pad
      /\ \A i \in DOMAIN pad : pad'[i].sig = pad[i].sig
      /\ \A i \in DOMAIN pad : i < Len(pad) => pad'[i] = pad[i]
      /\ \A i \in DOMAIN pad :
           \/ pad[i].outcome # "pending" /\ pad'[i].outcome = pad[i].outcome
           \/ i < Len(pad)
           \/ pad[i].outcome = "pending" /\ pad'[i].outcome = Outcome(calls[s].empty)
  <2>1. CASE pad' = pad
    <3>1. pad = <<>> \/ pad[Len(pad)].outcome # "pending"
      <4> SUFFICES ASSUME pad # <<>>, pad[Len(pad)].outcome = "pending" PROVE FALSE
        OBVIOUS
      <4>1. pad' = [pad EXCEPT ![Len(pad)].outcome = Outcome(calls[s].empty)]
        BY DEF RecordOutcome, Last
      <4>2. Len(pad) \in DOMAIN pad /\ pad[Len(pad)] \in Entries
        BY <1>1
      <4>3. pad'[Len(pad)].outcome = Outcome(calls[s].empty)
        BY <1>1, <4>1, <4>2 DEF Entries
      <4> QED
        BY <1>13, <2>1, <4>3
    <3> QED
      BY <1>1, <2>1, <3>1
  <2>2. CASE pad' # pad
    <3> DEFINE outcome == Outcome(calls[s].empty)
               entry == [pad[Len(pad)] EXCEPT !.outcome = outcome]
    <3>1. /\ pad # <<>> /\ pad[Len(pad)].outcome = "pending"
          /\ pad' = [pad EXCEPT ![Len(pad)].outcome = outcome]
      BY <2>2 DEF RecordOutcome, Last
    <3>2. Len(pad) \in DOMAIN pad /\ pad[Len(pad)] \in Entries
      BY <1>1, <3>1
    <3>3. entry \in Entries /\ entry.sig = pad[Len(pad)].sig /\ entry.outcome = outcome
      BY <1>13, <3>2 DEF Entries, Outcomes
    <3>4. pad' = [pad EXCEPT ![Len(pad)] = entry]
      BY <3>1
    <3> HIDE DEF entry
    <3>5. pad' \in Seq(Entries) /\ Len(pad') = Len(pad) /\ DOMAIN pad' = DOMAIN pad
      BY <1>1, <3>2, <3>3, <3>4
    <3>6. \A i \in DOMAIN pad : pad'[i] = IF i = Len(pad) THEN entry ELSE pad[i]
      BY <1>1, <3>4
    <3> QED
      BY <1>1, <3>1, <3>3, <3>5, <3>6
  <2> QED
    BY <2>1, <2>2
<1>5. Pads'
  BY <1>2, <1>4 DEF IInv, Pads
<1>6. \A g : Tried(g)' <=> Tried(g)
  BY <1>4 DEF Tried
<1>7. EntriesDiffer'
  BY <1>4 DEF IInv, EntriesDiffer
<1>8. RanOnce'
  BY <1>2, <1>6 DEF IInv, RanOnce
<1>9. \A t \in Slots : AtTool(t)' => AtTool(t) /\ SigAt(t)' = SigAt(t)
  BY <1>3 DEF AtTool, SigAt, Signature
<1>10. ToRun'
  BY <1>2, <1>4, <1>9 DEF IInv, ToRun, Tried
<1>11. PadIsBounded'
  BY <1>4 DEF IInv, PadIsBounded
<1>12. RecordedStops'
  <2> SUFFICES ASSUME NEW i \in 1 .. Len(pad) - MaxEmpty
               PROVE  \E j \in i .. i + MaxEmpty - 1 : pad'[j].outcome # "empty"
    BY <1>4 DEF RecordedStops
  <2>1. PICK j \in i .. i + MaxEmpty - 1 : pad[j].outcome # "empty"
    BY DEF IInv, RecordedStops
  <2>2. j \in DOMAIN pad /\ j < Len(pad)
    BY <1>1, <2>1
  <2> QED
    BY <1>4, <2>1, <2>2
<1>14. OwnOutcomes'
  <2> SUFFICES ASSUME ~parallel, OneAtATime PROVE OneAtATime'
    BY <1>2 DEF IInv, OwnOutcomes
  <2>1. \A t \in Slots : calls[t] # None => t = s
    BY DEF OneAtATime, OneCall, EntryPerRun
  <2>2. \A t \in Slots : calls'[t] = None
    BY <1>3, <2>1
  <2>3. \A t \in Slots : ~AtTool(t) /\ ~AtTool(t)'
    BY <1>13, <2>1, <2>2 DEF AtTool
  <2>4. \A i \in DOMAIN pad : pad[i].outcome = "pending" => i = Len(pad)
    BY DEF OneAtATime, OneCall, EntryPerRun
  <2>5. \A i \in DOMAIN pad' : pad'[i].outcome # "pending"
    BY <1>1, <1>4, <1>13, <2>4
  <2>0. outcomes \in Seq(Outcomes)
    BY DEF IInv
  <2>6. Len(outcomes) = Len(pad) /\ DOMAIN outcomes = DOMAIN pad
    <3>1. Len(outcomes) = Len(pad)
      BY <2>3, Zenon DEF OneAtATime, EntryPerRun
    <3> QED
      BY <1>1, <2>0, <3>1
  <2>7. pad # <<>> /\ pad[Len(pad)].outcome = "pending" => outcomes[Len(pad)] = Outcome(calls[s].empty)
    BY <1>13 DEF OneAtATime, OneCall, EntryPerRun, Unrecorded
  <2>8. \A i \in DOMAIN outcomes : outcomes[i] = pad'[i].outcome
    <3> SUFFICES ASSUME NEW i \in DOMAIN pad PROVE outcomes[i] = pad'[i].outcome
      BY <2>6
    <3>1. CASE pad[i].outcome = "pending"
      BY <1>1, <1>4, <2>4, <2>7, <3>1
    <3>2. CASE pad[i].outcome # "pending"
      BY <1>4, <2>6, <3>2 DEF OneAtATime, OneCall, EntryPerRun
    <3> QED
      BY <3>1, <3>2
  <2> QED
    BY <1>2, <1>4, <2>2, <2>3, <2>5, <2>6, <2>8 DEF OneAtATime, OneCall, EntryPerRun
<1> QED
  BY <1>2, <1>5, <1>7, <1>8, <1>10, <1>11, <1>12, <1>14 DEF IInv

LEMMA BrakesNext == IInv /\ [Next]_vars => IInv'
<1> SUFFICES ASSUME IInv, [Next]_vars PROVE IInv'
  OBVIOUS
<1> USE DEF EntriesDiffer, RanOnce, ToRun, Tried, PadIsBounded, RecordedStops
<1>1. CASE Ask \/ Answer \/ UNCHANGED vars
  <2>1. UNCHANGED <<pad, calls, ran, outcomes, parallel>> /\ talking' \in BOOLEAN
    BY <1>1 DEF Ask, Answer, vars, log, IInv, Pads
  <2>2. \A s \in Slots : (AtTool(s)' <=> AtTool(s)) /\ SigAt(s)' = SigAt(s)
    BY <2>1 DEF AtTool, SigAt, Signature
  <2>3. OneAtATime => OneAtATime'
    BY <2>1, <2>2 DEF OneAtATime, OneCall, EntryPerRun, Unrecorded
  <2> QED
    BY <2>1, <2>2, <2>3 DEF IInv, Pads, OwnOutcomes
<1>2. CASE CallTools
  BY <1>2, CallsInv
<1>3. ASSUME NEW s \in Slots, calls[s] # None, CycleBrake(s) PROVE IInv'
  <2>1. CASE Brakes(SigAt(s))
    BY <1>3, <2>1, BrakeInv DEF CycleBrake, SigAt
  <2>2. CASE ~Brakes(SigAt(s))
    BY <1>3, <2>2, LetThroughInv DEF CycleBrake, SigAt
  <2> QED
    BY <2>1, <2>2
<1>4. ASSUME NEW s \in Slots, calls[s] # None, RunTool(s) PROVE IInv'
  BY <1>4, ToolInv
<1>5. ASSUME NEW s \in Slots, calls[s] # None, RecordOutcome(s) PROVE IInv'
  BY <1>5, OutcomeInv
<1> QED
  BY <1>1, <1>2, <1>3, <1>4, <1>5 DEF Next

LEMMA BrakesAreTyped == IInv => TypeOK
BY BrakesAssumption DEF IInv, Pads, Entries, TypeOK, RanOnce, PadIsBounded

(***************************************************************************)
(* The last entry may be pending, but those that RecordedStops speaks of   *)
(* are recorded, and each with the outcome of the tool that ran.           *)
(***************************************************************************)
LEMMA EmptiesStop == IInv => StopsOnEmpties
<1> SUFFICES ASSUME IInv, ~parallel, NEW i \in 1 .. Len(outcomes) - MaxEmpty
             PROVE  \E j \in i .. i + MaxEmpty - 1 : outcomes[j] # "empty"
  BY DEF StopsOnEmpties
<1>1. /\ MaxEmpty \in Nat \ {0} /\ Len(pad) \in Nat /\ DOMAIN pad = 1 .. Len(pad)
      /\ Len(outcomes) \in Nat /\ DOMAIN outcomes = 1 .. Len(outcomes)
  BY BrakesAssumption DEF IInv, Pads
<1>0. OneAtATime
  BY Zenon DEF IInv, OwnOutcomes
<1>2. Len(outcomes) <= Len(pad)
  <2>1. EntryPerRun
    BY <1>0, Zenon DEF OneAtATime
  <2>2. Len(outcomes) = Len(pad) - 1 \/ Len(outcomes) = Len(pad)
    BY <2>1, Zenon DEF EntryPerRun
  <2>3. \A m, n \in Nat : m = n - 1 \/ m = n => m <= n
    OBVIOUS
  <2> QED
    BY <1>1, <2>2, <2>3, Zenon
<1>3. PICK j \in i .. i + MaxEmpty - 1 : pad[j].outcome # "empty"
  BY <1>1, <1>2 DEF IInv, RecordedStops
<1>4. j \in DOMAIN outcomes /\ j \in DOMAIN pad /\ j < Len(pad)
  BY <1>1, <1>2, <1>3
<1>5. pad[j].outcome # "pending"
  <2>1. pad[j].outcome = "pending" => j = Len(pad)
    BY <1>0, <1>4, Zenon DEF OneAtATime
  <2> QED
    BY <1>1, <1>4, <2>1
<1> QED
  BY <1>0, <1>3, <1>4, <1>5, Zenon DEF OneAtATime

(***************************************************************************)
(* Whatever is called at once and in whatever order callbacks and tools    *)
(* run, no lookup is made twice and no more than the limit are made; and   *)
(* in a session that calls one tool at a time none is made after MaxEmpty  *)
(* that really came back empty (cycle_brake).  The limits are positive and *)
(* the scratchpad's window is no shorter than the limit on calls.          *)
(***************************************************************************)
THEOREM BrakesAreKept == Spec => [](TypeOK /\ NeverTwice /\ PadIsBounded /\ StopsOnEmpties)
<1>1. IInv => TypeOK /\ NeverTwice /\ PadIsBounded /\ StopsOnEmpties
  BY BrakesAreTyped, EmptiesStop DEF IInv, RanOnce, NeverTwice
<1> QED
  BY <1>1, BrakesInit, BrakesNext, PTL DEF Spec

=============================================================================

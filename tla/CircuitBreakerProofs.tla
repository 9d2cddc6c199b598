------------------------ MODULE CircuitBreakerProofs ------------------------
(***************************************************************************)
(* Proofs about CircuitBreaker for any set of callers and any threshold.   *)
(* TypeCorrect holds for any timing of the key expiries and any deaths,    *)
(* CounterAlwaysExpires for any timing.  What opens the breaker            *)
(* (OpensOnFaultsOnly) and that it is the three-state breaker when it is   *)
(* called one call at a time (ImplementsThreeStates) need Prompt: the      *)
(* cooldown of 20 s outlasts the record_failures that were under way while *)
(* the circuit was being opened.  The window may end between any commands. *)
(***************************************************************************)
EXTENDS CircuitBreaker, FiniteSetTheorems, TLAPS

(***************************************************************************)
(* The history restarts inside its range.                                  *)
(***************************************************************************)
LEMMA UncountedType ==
  ASSUME NEW c \in Callers PROVE Uncounted(c) \in 0 .. Threshold
<1> DEFINE D == {d \in Callers \ {c} : pc[d] \in {"failed", "incr"}}
<1>1. IsFiniteSet(D)
  BY CallersAssumption, FS_Subset
<1>2. Cardinality(D) \in Nat
  BY <1>1, FS_CardinalityType
<1>3. QED
  BY <1>2, ThresholdAssumption DEF Uncounted, Enough

(***************************************************************************)
(* Zero is inside every range that starts there.                           *)
(***************************************************************************)
LEMMA Zeroes == 0 \in 0 .. Threshold + 1 /\ 0 \in 0 .. Threshold /\ 0 \in 0 .. MaxDeaths
BY ThresholdAssumption, DeathsAssumption

(***************************************************************************)
(* The types hold at first and every step keeps them.                      *)
(***************************************************************************)
LEMMA TypeInit == Init => TypeOK
BY Zeroes, Zenon DEF Init, TypeOK, Positions

LEMMA BusyNext ==
  ASSUME busy \subseteq Callers, [Next]_vars PROVE busy' \subseteq Callers
<1>1. MetOpener \subseteq Callers
  BY DEF MetOpener
<1>2. busy' = MetOpener \/ busy' = busy
  BY DEF Next, Step, Crash, OpenExpires, ProbeExpires, WindowExpires, Outage, vars
<1>3. QED
  BY <1>1, <1>2

LEMMA TypeNext == TypeOK /\ [Next]_vars => TypeOK'
<1> SUFFICES ASSUME TypeOK, [Next]_vars PROVE TypeOK'
  OBVIOUS
<1>b. busy' \subseteq Callers
  BY BusyNext DEF TypeOK
<1> USE <1>b, ThresholdAssumption DEF TypeOK, Positions, Allowing, Inside, Failing
<1>1. ASSUME NEW c \in Callers, Call(c) PROVE TypeOK'
  BY <1>1 DEF Call, Go
<1>2. ASSUME NEW c \in Callers, ExistsOpen(c) PROVE TypeOK'
  BY <1>2 DEF ExistsOpen, Go
<1>3. ASSUME NEW c \in Callers, ExistsHalf(c) PROVE TypeOK'
  BY <1>3 DEF ExistsHalf, Go
<1>4. ASSUME NEW c \in Callers, SetProbe(c) PROVE TypeOK'
  BY <1>4 DEF SetProbe, Go
<1>5. ASSUME NEW c \in Callers, FnReturns(c) PROVE TypeOK'
  BY <1>5 DEF FnReturns
<1>6. ASSUME NEW c \in Callers, FnDeclines(c) PROVE TypeOK'
  BY <1>6 DEF FnDeclines
<1>7. ASSUME NEW c \in Callers, FnFails(c) PROVE TypeOK'
  BY <1>7 DEF FnFails, Enough
<1>8. ASSUME NEW c \in Callers, DelAll(c) PROVE TypeOK'
  BY <1>8, Zeroes, Zenon DEF DelAll, Go
<1>9. ASSUME NEW c \in Callers, FailureExistsHalf(c) PROVE TypeOK'
  BY <1>9 DEF FailureExistsHalf, Go
<1>10. ASSUME NEW c \in Callers, Reopen(c) PROVE TypeOK'
  BY <1>10 DEF Reopen, Go
<1>11. ASSUME NEW c \in Callers, DropProbe(c) PROVE TypeOK'
  BY <1>11 DEF DropProbe, Go
<1>12. ASSUME NEW c \in Callers, Incr(c) PROVE TypeOK'
  BY <1>12 DEF Incr, Go, AfterIncr, Bump
<1>13. ASSUME NEW c \in Callers, Expire(c) PROVE TypeOK'
  BY <1>13 DEF Expire, Go
<1>14. ASSUME NEW c \in Callers, Trip(c) PROVE TypeOK'
  BY <1>14, UncountedType DEF Trip, Go
<1>15. ASSUME NEW c \in Callers, MarkHalf(c) PROVE TypeOK'
  BY <1>15 DEF MarkHalf, Go
<1>16. ASSUME NEW c \in Callers, Clear(c) PROVE TypeOK'
  BY <1>16, Zeroes, Zenon DEF Clear, Go
<1>17. ASSUME NEW c \in Callers, Crash(c) PROVE TypeOK'
  BY <1>17, DeathsAssumption DEF Crash
<1>18. CASE OpenExpires
  BY <1>18 DEF OpenExpires
<1>19. CASE ProbeExpires
  BY <1>19 DEF ProbeExpires
<1>20. CASE WindowExpires
  BY <1>20, Zeroes, Zenon DEF WindowExpires
<1>21. CASE Outage
  BY <1>21 DEF Outage
<1>22. CASE UNCHANGED vars
  BY <1>22 DEF vars
<1>23. QED
  BY <1>1, <1>2, <1>3, <1>4, <1>5, <1>6, <1>7, <1>8, <1>9, <1>10, <1>11,
     <1>12, <1>13, <1>14, <1>15, <1>16, <1>17, <1>18, <1>19, <1>20,
     <1>21, <1>22
     DEF Next, Step, Allow, Fn, RecordFailure

(***************************************************************************)
(* The variables keep their types: the counter and the history never leave *)
(* the ranges the bounds of the model name.                                *)
(***************************************************************************)
THEOREM TypeCorrect == Spec => []TypeOK
BY TypeInit, TypeNext, PTL DEF Spec

-----------------------------------------------------------------------------
(***************************************************************************)
(* The failure counter is never left without a TTL by any interleaving of  *)
(* callers that do not die: the INCR that creates the key answers 1, so    *)
(* its caller still has the EXPIRE before it.  The invariant is inductive  *)
(* given the types.                                                        *)
(***************************************************************************)
THEOREM CounterAlwaysExpires ==
  ASSUME MaxDeaths = 0 PROVE Spec => []CounterExpires
<1>1. Init => CounterExpires
  BY DEF Init, CounterExpires
<1>2. TypeOK /\ CounterExpires /\ [Next]_vars => CounterExpires'
  <2> SUFFICES ASSUME TypeOK, CounterExpires, [Next]_vars PROVE CounterExpires'
    OBVIOUS
  <2> USE ThresholdAssumption
      DEF TypeOK, CounterExpires, Positions, Allowing, Inside, Failing
  <2>1. ASSUME NEW c \in Callers, Call(c) PROVE CounterExpires'
    BY <2>1 DEF Call, Go
  <2>2. ASSUME NEW c \in Callers, ExistsOpen(c) PROVE CounterExpires'
    BY <2>2 DEF ExistsOpen, Go
  <2>3. ASSUME NEW c \in Callers, ExistsHalf(c) PROVE CounterExpires'
    BY <2>3 DEF ExistsHalf, Go
  <2>4. ASSUME NEW c \in Callers, SetProbe(c) PROVE CounterExpires'
    BY <2>4 DEF SetProbe, Go
  <2>5. ASSUME NEW c \in Callers, FnReturns(c) PROVE CounterExpires'
    BY <2>5 DEF FnReturns
  <2>6. ASSUME NEW c \in Callers, FnDeclines(c) PROVE CounterExpires'
    BY <2>6 DEF FnDeclines
  <2>7. ASSUME NEW c \in Callers, FnFails(c) PROVE CounterExpires'
    BY <2>7 DEF FnFails
  <2>8. ASSUME NEW c \in Callers, DelAll(c) PROVE CounterExpires'
    BY <2>8 DEF DelAll, Go
  <2>9. ASSUME NEW c \in Callers, FailureExistsHalf(c) PROVE CounterExpires'
    BY <2>9 DEF FailureExistsHalf, Go
  <2>10. ASSUME NEW c \in Callers, Reopen(c) PROVE CounterExpires'
    BY <2>10 DEF Reopen, Go
  <2>11. ASSUME NEW c \in Callers, DropProbe(c) PROVE CounterExpires'
    BY <2>11 DEF DropProbe, Go
  <2>12. ASSUME NEW c \in Callers, Incr(c) PROVE CounterExpires'
    BY <2>12 DEF Incr, Go, AfterIncr, Bump
  <2>13. ASSUME NEW c \in Callers, Expire(c) PROVE CounterExpires'
    BY <2>13 DEF Expire, Go
  <2>14. ASSUME NEW c \in Callers, Trip(c) PROVE CounterExpires'
    BY <2>14 DEF Trip, Go
  <2>15. ASSUME NEW c \in Callers, MarkHalf(c) PROVE CounterExpires'
    BY <2>15 DEF MarkHalf, Go
  <2>16. ASSUME NEW c \in Callers, Clear(c) PROVE CounterExpires'
    BY <2>16 DEF Clear, Go
  <2>17. ASSUME NEW c \in Callers, Crash(c) PROVE CounterExpires'
    BY <2>17 DEF Crash
  <2>18. CASE OpenExpires
    BY <2>18 DEF OpenExpires
  <2>19. CASE ProbeExpires
    BY <2>19 DEF ProbeExpires
  <2>20. CASE WindowExpires
    BY <2>20 DEF WindowExpires
  <2>21. CASE Outage
    BY <2>21 DEF Outage
  <2>22. CASE UNCHANGED vars
    BY <2>22 DEF vars
  <2>23. QED
    BY <2>1, <2>2, <2>3, <2>4, <2>5, <2>6, <2>7, <2>8, <2>9, <2>10, <2>11,
       <2>12, <2>13, <2>14, <2>15, <2>16, <2>17, <2>18, <2>19, <2>20,
       <2>21, <2>22
       DEF Next, Step, Allow, Fn, RecordFailure
<1>3. QED
  BY <1>1, <1>2, TypeCorrect, PTL DEF Spec

-----------------------------------------------------------------------------
(* What opens the breaker *)

\* Every breaker that can be told of a declined card expects it.
AllExpect == Declining => Expecting = Callers

\* Faults that were answered and not counted yet.
Pending == {d \in Callers : pc[d] \in {"failed", "incr"}}

\* c has counted the fault that opens the circuit, and not opened it yet.
Tripping(c) == pc[c] = "trip" \/ (pc[c] = "expire" /\ Threshold = 1)

(***************************************************************************)
(* The open key outlives busy, the callers who met an opener inside        *)
(* record_failure.  An opener is one of them itself, and so is everybody   *)
(* who counts before the opener has deleted the counter, which until then  *)
(* holds faults of before the trip: none of these can open a breaker that  *)
(* is not open.  At any other time the evidence covers the counter and the *)
(* faults still to be counted.                                             *)
(***************************************************************************)
BusyIsOpen == busy # {} => open

OpenersAreMet ==
  \A c, d \in Callers : pc[d] \in Openers /\ pc[c] \in Failing => c \in busy

PendingIsEvident == Enough(Cardinality(Pending)) <= evidence

CountIsEvident ==
  (\A c \in Callers : pc[c] \notin {"mark_half", "clear"})
    => Enough(failures + Cardinality(Pending)) <= evidence

TrippingIsEvident ==
  \A c \in Callers : Tripping(c) => c \in busy \/ evidence = Threshold

Covered ==
  PendingIsEvident /\ CountIsEvident /\ TrippingIsEvident

Evident == TypeOK /\ BusyIsOpen /\ OpenersAreMet /\ Covered

(***************************************************************************)
(* The faults still to be counted are finitely many, and a step of one     *)
(* caller changes their number by at most one.                             *)
(***************************************************************************)
LEMMA PendingFinite == IsFiniteSet(Pending) /\ Cardinality(Pending) \in Nat
<1>1. IsFiniteSet(Pending)
  BY CallersAssumption, FS_Subset DEF Pending
<1>2. QED
  BY <1>1, FS_CardinalityType

LEMMA PendingStays ==
  ASSUME NEW c \in Callers, NEW to, pc \in [Callers -> Positions],
         pc' = [pc EXCEPT ![c] = to],
         pc[c] \in {"failed", "incr"} <=> to \in {"failed", "incr"}
  PROVE  Pending' = Pending
BY DEF Pending

LEMMA PendingGrows ==
  ASSUME NEW c \in Callers, pc \in [Callers -> Positions],
         pc[c] \notin {"failed", "incr"}, pc' = [pc EXCEPT ![c] = "failed"]
  PROVE  Cardinality(Pending') = Cardinality(Pending) + 1
<1>1. Pending' = Pending \cup {c} /\ c \notin Pending
  BY DEF Pending
<1>2. QED
  BY <1>1, PendingFinite, FS_AddElement

LEMMA PendingShrinks ==
  ASSUME NEW c \in Callers, NEW to, pc \in [Callers -> Positions],
         pc[c] \in {"failed", "incr"}, to \notin {"failed", "incr"},
         pc' = [pc EXCEPT ![c] = to]
  PROVE  /\ Cardinality(Pending) \in Nat \ {0}
         /\ Cardinality(Pending') = Cardinality(Pending) - 1
<1>1. Pending' = Pending \ {c} /\ c \in Pending
  BY DEF Pending
<1>2. Cardinality(Pending') = Cardinality(Pending) - 1
  BY <1>1, PendingFinite, FS_RemoveElement
<1>3. Cardinality(Pending') \in Nat
  BY <1>1, PendingFinite, FS_RemoveElement, FS_CardinalityType
<1>4. QED
  BY <1>2, <1>3, PendingFinite

(***************************************************************************)
(* The faults that wait while c trips are those the history restarts from. *)
(***************************************************************************)
LEMMA UncountedArePending ==
  ASSUME NEW c \in Callers, pc[c] = "trip"
  PROVE  Uncounted(c) = Enough(Cardinality(Pending))
<1>1. {d \in Callers \ {c} : pc[d] \in {"failed", "incr"}} = Pending
  BY DEF Pending
<1>2. QED
  BY <1>1, Zenon DEF Uncounted

LEMMA EvidentInit == Init => Evident
<1> SUFFICES ASSUME Init PROVE Evident
  OBVIOUS
<1>1. TypeOK
  BY Zeroes, Zenon DEF Init, TypeOK, Positions
<1>2. Cardinality(Pending) = 0
  <2>1. Pending = {}
    BY DEF Init, Pending
  <2>2. QED
    BY <2>1, FS_EmptySet
<1>3. BusyIsOpen /\ OpenersAreMet /\ TrippingIsEvident
  BY DEF Init, BusyIsOpen, OpenersAreMet, Openers, TrippingIsEvident, Tripping
<1>4. PendingIsEvident /\ CountIsEvident
  BY <1>2, ThresholdAssumption DEF Init, PendingIsEvident, CountIsEvident, Enough
<1>5. QED
  BY <1>1, <1>3, <1>4 DEF Evident, Covered

(***************************************************************************)
(* Whoever steps, busy stays what its name says: those inside              *)
(* record_failure who met an opener, and the key they met is still there.  *)
(***************************************************************************)
LEMMA BusyIs ==
  ASSUME MaxDeaths = 0, TypeOK, NEW c \in Callers, Step(c)
  PROVE  /\ \E to : pc' = [pc EXCEPT ![c] = to]
         /\ pc[c] \notin Openers /\ pc'[c] \in Openers => open'
         /\ open => open'
         /\ busy' = MetOpener
BY DEF TypeOK, Step, Call, Allow, ExistsOpen, ExistsHalf, SetProbe, Fn, FnReturns,
   FnDeclines, FnFails, DelAll, RecordFailure, FailureExistsHalf, Reopen,
   DropProbe, Incr, Expire, Trip, MarkHalf, Clear, Go, Openers, Inside, AfterIncr

LEMMA MetNext ==
  ASSUME Prompt, MaxDeaths = 0, TypeOK, BusyIsOpen, OpenersAreMet, [Next]_vars
  PROVE  BusyIsOpen' /\ OpenersAreMet'
<1> USE DEF BusyIsOpen, OpenersAreMet
<1>t. pc \in [Callers -> Positions] /\ Openers \subseteq Failing
  BY DEF TypeOK, Openers, Failing
<1>1. ASSUME NEW c \in Callers, Step(c) PROVE BusyIsOpen' /\ OpenersAreMet'
  <2>1. PICK to : pc' = [pc EXCEPT ![c] = to]
    BY <1>1, BusyIs
  <2>2. /\ pc[c] \notin Openers /\ pc'[c] \in Openers => open'
        /\ open => open'
        /\ busy' = MetOpener
    BY <1>1, BusyIs
  <2>3. OpenersAreMet'
    BY <2>2 DEF MetOpener
  <2>4. ASSUME NEW d \in Callers, pc'[d] \in Openers PROVE open'
    BY <1>t, <2>1, <2>2, <2>4
  <2>5. BusyIsOpen'
    BY <2>2, <2>4 DEF MetOpener
  <2>6. QED
    BY <2>3, <2>5
<1>2. ASSUME NEW c \in Callers PROVE ~Crash(c)
  BY DEF Crash, TypeOK
<1>3. CASE OpenExpires
  BY <1>3, <1>t DEF OpenExpires
<1>4. CASE ProbeExpires \/ WindowExpires \/ Outage \/ UNCHANGED vars
  BY <1>4 DEF ProbeExpires, WindowExpires, Outage, vars
<1>5. QED
  BY <1>1, <1>2, <1>3, <1>4 DEF Next

LEMMA EvidentNext ==
  ASSUME Prompt, MaxDeaths = 0, AllExpect, Evident, [Next]_vars
  PROVE  Evident'
<1> TypeOK' /\ BusyIsOpen' /\ OpenersAreMet'
  BY TypeNext, MetNext DEF Evident
<1> SUFFICES Covered'
  BY DEF Evident
<1>s. ASSUME NEW c \in Callers, Step(c), NEW d \in Callers, d \in busy, pc'[d] \in Failing
      PROVE  d \in busy'
  BY <1>s DEF Step, MetOpener
<1>m. ASSUME NEW c \in Callers, pc'[c] \in {"mark_half", "clear"},
             NEW d \in Callers, pc'[d] \in Failing
      PROVE  d \in busy'
  BY <1>m DEF OpenersAreMet, Openers
<1> USE DEF Evident, Covered, PendingIsEvident, CountIsEvident, TrippingIsEvident,
            Tripping, Failing
<1>p. Cardinality(Pending) \in Nat
  BY PendingFinite
<1>t. /\ pc \in [Callers -> Positions] /\ failures \in Nat
      /\ evidence \in 0 .. Threshold /\ Threshold \in Nat \ {0}
  BY ThresholdAssumption DEF TypeOK
<1>0. ASSUME NEW c \in Callers, Step(c), NEW from, NEW to, pc[c] = from,
             pc' = [pc EXCEPT ![c] = to],
             to \notin {"failed", "incr", "mark_half", "clear", "expire", "trip"},
             from \notin {"failed", "incr", "mark_half", "clear"},
             UNCHANGED <<failures, evidence>>
      PROVE  Covered'
  <2>1. Pending' = Pending
    BY <1>0, <1>t, PendingStays
  <2>2. TrippingIsEvident'
    BY <1>0, <1>t, <1>s
  <2>3. QED
    BY <1>0, <1>t, <2>1, <2>2 DEF Enough
<1>1. ASSUME NEW c \in Callers, Step(c),
             Call(c) \/ ExistsOpen(c) \/ ExistsHalf(c) \/ SetProbe(c)
      PROVE  Covered'
  BY <1>0, <1>1 DEF Call, ExistsOpen, ExistsHalf, SetProbe, Go
<1>2. ASSUME NEW c \in Callers, Step(c), FnReturns(c) \/ FnDeclines(c) PROVE Covered'
  BY <1>0, <1>2 DEF FnReturns, FnDeclines, Inside, AllExpect
<1>3. ASSUME NEW c \in Callers, Step(c), FnFails(c) PROVE Covered'
  <2>1. Cardinality(Pending') = Cardinality(Pending) + 1
    BY <1>3, <1>t, PendingGrows DEF FnFails, Inside
  <2>2. TrippingIsEvident'
    BY <1>3, <1>t, <1>s DEF FnFails, Enough, Inside
  <2>3. QED
    BY <1>3, <1>t, <1>p, <2>1, <2>2 DEF FnFails, Enough, Inside
<1>4. ASSUME NEW c \in Callers, Step(c), DelAll(c) PROVE Covered'
  <2>1. Pending' = Pending
    BY <1>4, <1>t, PendingStays DEF DelAll, Go
  <2>2. TrippingIsEvident'
    BY <1>4, <1>t, <1>s DEF DelAll, Go
  <2>3. QED
    BY <1>4, <1>t, <1>p, <2>1, <2>2 DEF DelAll, Go, Enough
<1>5. ASSUME NEW c \in Callers, Step(c), FailureExistsHalf(c) PROVE Covered'
  <2>1. CASE half
    <3>1. Cardinality(Pending') = Cardinality(Pending) - 1
      BY <1>5, <2>1, <1>t, PendingShrinks DEF FailureExistsHalf, Go
    <3>2. QED
      BY <1>5, <2>1, <1>t, <1>p, <1>s, <3>1 DEF FailureExistsHalf, Go, Enough
  <2>2. CASE ~half
    <3>1. Pending' = Pending
      BY <1>5, <2>2, <1>t, PendingStays DEF FailureExistsHalf, Go
    <3>2. QED
      BY <1>5, <2>2, <1>t, <1>p, <1>s, <3>1 DEF FailureExistsHalf, Go, Enough
  <2>3. QED
    BY <2>1, <2>2
<1>7. ASSUME NEW c \in Callers, Step(c), Reopen(c) \/ DropProbe(c) PROVE Covered'
  <2>1. Pending' = Pending
    BY <1>7, <1>t, PendingStays DEF Reopen, DropProbe, Go
  <2>2. QED
    BY <1>7, <1>t, <1>p, <1>s, <2>1 DEF Reopen, DropProbe, Go, Enough
<1>8. ASSUME NEW c \in Callers, Step(c), Incr(c) PROVE Covered'
  <2>0. PICK to \in {"expire", "trip", "idle"} :
          pc[c] = "incr" /\ pc' = [pc EXCEPT ![c] = to]
    BY <1>8 DEF Incr, Go, AfterIncr
  <2>1. /\ Cardinality(Pending) \in Nat \ {0}
        /\ Cardinality(Pending') = Cardinality(Pending) - 1
    BY <2>0, <1>t, PendingShrinks
  <2>2. ASSUME Tripping(c)' PROVE c \in busy' \/ evidence' = Threshold
    <3>1. CASE \E d \in Callers : pc[d] \in {"mark_half", "clear"}
      BY <2>0, <2>2, <3>1, <1>t, <1>m
    <3>2. CASE \A d \in Callers : pc[d] \notin {"mark_half", "clear"}
      BY <1>8, <1>t, <2>1, <2>2, <3>2 DEF Incr, Go, AfterIncr, Enough, Bump
    <3>3. QED
      BY <3>1, <3>2
  <2>3. TrippingIsEvident'
    BY <1>8, <2>0, <1>t, <1>s, <2>2 DEF Incr
  <2>4. QED
    BY <1>8, <1>t, <2>1, <2>3 DEF Incr, Go, Enough, Bump, AfterIncr
<1>9. ASSUME NEW c \in Callers, Step(c), Expire(c) PROVE Covered'
  <2>1. Pending' = Pending
    BY <1>9, <1>t, PendingStays DEF Expire, Go
  <2>2. QED
    BY <1>9, <1>t, <1>p, <1>s, <2>1 DEF Expire, Go, Enough
<1>10. ASSUME NEW c \in Callers, Step(c), Trip(c) PROVE Covered'
  <2>1. Pending' = Pending
    BY <1>10, <1>t, PendingStays DEF Trip, Go
  <2>2. evidence' = Enough(Cardinality(Pending))
    BY <1>10, UncountedArePending DEF Trip, Go
  <2>3. TrippingIsEvident'
    BY <1>10, <1>t, <1>m DEF Trip, Go
  <2>4. QED
    BY <1>10, <1>t, <1>p, <2>1, <2>2, <2>3 DEF Trip, Go, Enough
<1>11. ASSUME NEW c \in Callers, Step(c), MarkHalf(c) \/ Clear(c) PROVE Covered'
  <2>1. Pending' = Pending
    BY <1>11, <1>t, PendingStays DEF MarkHalf, Clear, Go
  <2>2. QED
    BY <1>11, <1>t, <1>p, <1>s, <2>1 DEF MarkHalf, Clear, Go, Enough
<1>12. ASSUME NEW c \in Callers PROVE ~Crash(c)
  BY DEF Crash, TypeOK
<1>13. CASE OpenExpires \/ ProbeExpires \/ WindowExpires \/ Outage \/ UNCHANGED vars
  <2>1. Pending' = Pending /\ busy' = busy /\ pc' = pc
    BY <1>13 DEF OpenExpires, ProbeExpires, WindowExpires, Outage, vars, Pending
  <2>2. CASE WindowExpires
    BY <2>1, <2>2, <1>t, <1>p DEF WindowExpires, Enough
  <2>3. CASE OpenExpires \/ ProbeExpires \/ Outage \/ UNCHANGED vars
    BY <2>1, <2>3, <1>t DEF OpenExpires, ProbeExpires, Outage, vars, Enough
  <2>4. QED
    BY <1>13, <2>2, <2>3
<1>14. QED
  BY <1>1, <1>2, <1>3, <1>4, <1>5, <1>7, <1>8, <1>9, <1>10, <1>11, <1>12, <1>13
     DEF Next, Step, Allow, Fn, RecordFailure

(***************************************************************************)
(* record_failure opens a breaker that is not open only over Threshold     *)
(* faults of the infrastructure, whoever interleaves with whom: a declined *)
(* card is never one of them, and a fault opens the circuit at most once.  *)
(* The hypotheses are those of the run: the breaker is told what to        *)
(* expect (the run of CountsFaultsOnly shows one that is not), nobody dies *)
(* inside record_failure, and the cooldown outlasts it (Prompt).           *)
(***************************************************************************)
THEOREM OpensOnFaultsOnly ==
  ASSUME Prompt, MaxDeaths = 0, AllExpect
  PROVE  Spec => OpensOnFaults
<1>1. Evident /\ [Next]_vars
        => [\A c \in Callers : Trip(c) /\ ~open => evidence = Threshold]_vars
  BY DEF Evident, BusyIsOpen, Covered, TrippingIsEvident, Tripping, Trip, Go
<1>2. QED
  BY <1>1, EvidentInit, EvidentNext, PTL DEF Spec, OpensOnFaults

-----------------------------------------------------------------------------
(* One call at a time *)

\* A position whose caller found the circuit not open and has not opened it.
Admitted == {"exists_half", "set_probe"} \cup Inside
              \cup {"succeeded", "failed", "reopen", "incr", "expire", "trip"}

OneAtATime == \A c, d \in Callers : pc[c] # "idle" /\ pc[d] # "idle" => c = d

(* The keys agree with where the one caller is: it took the branch of the marker
   that is still there, since nobody else changes it. *)
KeysAgree ==
  \A c \in Callers :
    /\ pc[c] \in Admitted => ~open
    /\ pc[c] \in {"set_probe", "probing", "reopen"} => half
    /\ pc[c] \in {"calling", "incr", "expire", "trip"} => ~half
    /\ pc[c] = "mark_half" => open /\ ~half
    /\ pc[c] \in {"clear", "drop_probe"} => open /\ half

(* An open circuit is marked half open, or is about to be. *)
OpenIsMarked == open /\ ~half => \E c \in Callers : pc[c] = "mark_half"

(* The counter is at the threshold only on the way to the trip; only a counter that
   is there has a window that can end, and not before its EXPIRE. *)
CountAgrees ==
  /\ failures >= Threshold
       => \E c \in Callers : pc[c] \in {"expire", "trip", "mark_half", "clear"}
  /\ window => failures > 0
  /\ \A c \in Callers : pc[c] = "expire" => failures = 1 /\ ~window

(* The cooldown outlasts the opener. *)
OpenersAreBusy == \A c \in Callers : pc[c] \in Openers => c \in busy

Serial ==
  TypeOK /\ OneAtATime /\ KeysAgree /\ OpenIsMarked /\ CountAgrees /\ OpenersAreBusy

LEMMA SerialInit == Init => Serial
BY TypeInit, ThresholdAssumption
   DEF Init, Serial, OneAtATime, KeysAgree, OpenIsMarked, CountAgrees, OpenersAreBusy,
       Openers, Admitted, Inside

(***************************************************************************)
(* A caller that acts is the only one that is not idle, before and after.  *)
(***************************************************************************)
LEMMA ActsAlone ==
  ASSUME ~Overlap, MaxDeaths = 0, Serial, NEW c \in Callers, Step(c)
  PROVE  /\ \A d \in Callers \ {c} : pc[d] = "idle" /\ pc'[d] = "idle"
         /\ pc[c] # "idle" \/ Call(c)
         /\ DOMAIN pc' = Callers
<1> USE DEF Serial, OneAtATime, TypeOK
<1>1. PICK to : pc' = [pc EXCEPT ![c] = to]
  BY DEF Step, Call, Allow, ExistsOpen, ExistsHalf, SetProbe, Fn, FnReturns, FnDeclines,
         FnFails, DelAll, RecordFailure, FailureExistsHalf, Reopen, DropProbe,
         Incr, Expire, Trip, MarkHalf, Clear, Go
<1>2. pc[c] # "idle" \/ Call(c)
  BY DEF Step, Allow, ExistsOpen, ExistsHalf, SetProbe, Fn, FnReturns, FnDeclines,
         FnFails, DelAll, RecordFailure, FailureExistsHalf, Reopen, DropProbe,
         Incr, Expire, Trip, MarkHalf, Clear, Go, Inside
<1>3. \A d \in Callers \ {c} : pc[d] = "idle"
  BY <1>2 DEF Call
<1>4. QED
  BY <1>1, <1>2, <1>3

LEMMA SerialNext ==
  ASSUME Prompt, ~Overlap, MaxDeaths = 0, Serial, [Next]_vars
  PROVE  Serial'
<1> TypeOK'
  BY TypeNext DEF Serial
<1>b. OpenersAreBusy'
  <2>1. CASE busy' = MetOpener
    BY <2>1 DEF MetOpener, OpenersAreBusy, Openers, Failing
  <2>2. CASE UNCHANGED <<pc, busy>>
    BY <2>2 DEF Serial, OpenersAreBusy
  <2>3. QED
    BY <2>1, <2>2 DEF Next, Step, Crash, OpenExpires, ProbeExpires, WindowExpires,
       Outage, vars
<1> SUFFICES (OneAtATime /\ KeysAgree /\ OpenIsMarked /\ CountAgrees)'
  BY <1>b DEF Serial
<1>t. /\ pc \in [Callers -> Positions] /\ failures \in Nat
      /\ Threshold \in Nat \ {0} /\ open \in BOOLEAN /\ half \in BOOLEAN
      /\ window \in BOOLEAN
  BY ThresholdAssumption DEF Serial, TypeOK
<1>1. ASSUME NEW c \in Callers, Step(c)
      PROVE  (OneAtATime /\ KeysAgree /\ OpenIsMarked /\ CountAgrees)'
  <2>a. /\ \A d \in Callers \ {c} : pc[d] = "idle" /\ pc'[d] = "idle"
        /\ pc[c] # "idle" \/ Call(c)
    BY <1>1, ActsAlone
  <2>b. OneAtATime'
    BY <2>a DEF OneAtATime
  <2> USE <1>t, <2>a DEF Serial, KeysAgree, OpenIsMarked, CountAgrees, Admitted, Inside, Go
  <2>1. CASE Call(c)
    BY <2>b, <2>1 DEF Call
  <2>2. CASE ExistsOpen(c)
    BY <2>b, <2>2 DEF ExistsOpen
  <2>3. CASE ExistsHalf(c)
    BY <2>b, <2>3 DEF ExistsHalf
  <2>4. CASE SetProbe(c)
    BY <2>b, <2>4 DEF SetProbe
  <2>5. CASE FnReturns(c)
    BY <2>b, <2>5 DEF FnReturns
  <2>6. CASE FnDeclines(c)
    BY <2>b, <2>6 DEF FnDeclines
  <2>7. CASE FnFails(c)
    BY <2>b, <2>7 DEF FnFails
  <2>8. CASE DelAll(c)
    BY <2>b, <2>8 DEF DelAll
  <2>9. CASE FailureExistsHalf(c)
    BY <2>b, <2>9 DEF FailureExistsHalf
  <2>10. CASE Reopen(c)
    BY <2>b, <2>10 DEF Reopen
  <2>11. CASE DropProbe(c)
    BY <2>b, <2>11 DEF DropProbe
  <2>12. CASE Incr(c)
    BY <2>b, <2>12 DEF Incr, Bump, AfterIncr
  <2>13. CASE Expire(c)
    BY <2>b, <2>13 DEF Expire
  <2>14. CASE Trip(c)
    BY <2>b, <2>14 DEF Trip
  <2>15. CASE MarkHalf(c)
    BY <2>b, <2>15 DEF MarkHalf
  <2>16. CASE Clear(c)
    BY <2>b, <2>16 DEF Clear
  <2>17. QED
    BY <1>1, <2>1, <2>2, <2>3, <2>4, <2>5, <2>6, <2>7, <2>8, <2>9, <2>10, <2>11,
       <2>12, <2>13, <2>14, <2>15, <2>16
       DEF Step, Allow, Fn, RecordFailure
<1>2. ASSUME NEW c \in Callers PROVE ~Crash(c)
  BY DEF Crash, Serial, TypeOK
<1>3. CASE OpenExpires
  BY <1>3, <1>t DEF OpenExpires, Serial, OneAtATime, KeysAgree,
     OpenIsMarked, CountAgrees, OpenersAreBusy, Openers, Admitted, Inside
<1>4. CASE WindowExpires
  BY <1>4, <1>t DEF WindowExpires, Serial, OneAtATime, KeysAgree,
     OpenIsMarked, CountAgrees, Admitted, Inside
<1>5. CASE ProbeExpires \/ Outage \/ UNCHANGED vars
  BY <1>5 DEF ProbeExpires, Outage, vars, Serial, OneAtATime, KeysAgree,
     OpenIsMarked, CountAgrees, Admitted, Inside
<1>6. QED
  BY <1>1, <1>2, <1>3, <1>4, <1>5 DEF Next

(***************************************************************************)
(* Every step of a serial breaker is a step of the three-state breaker, or *)
(* leaves its mode, its tally and its call alone.                          *)
(***************************************************************************)
LEMMA SerialSteps ==
  ASSUME Prompt, ~Overlap, MaxDeaths = 0, Serial, [Next]_vars
  PROVE  [Promised!Next]_(Promised!vars)
<1> DEFINE UnderWay == Inside \cup {"succeeded", "failed", "reopen", "incr"}
<1>t. /\ pc \in [Callers -> Positions] /\ failures \in Nat
      /\ Threshold \in Nat \ {0} /\ open \in BOOLEAN /\ half \in BOOLEAN
  BY ThresholdAssumption DEF Serial, TypeOK
<1>1. ASSUME NEW c \in Callers, Step(c)
      PROVE  [Promised!Next]_(Promised!vars)
  <2>a. /\ \A d \in Callers \ {c} : pc[d] = "idle" /\ pc'[d] = "idle"
        /\ pc[c] # "idle" \/ Call(c)
    BY <1>1, ActsAlone
  <2>b. /\ CallUnderWay <=> pc[c] \in UnderWay
        /\ CallUnderWay' <=> pc'[c] \in UnderWay
    BY <2>a DEF CallUnderWay, Inside
  <2>d. /\ (\E d \in Callers : pc[d] = "trip") <=> pc[c] = "trip"
        /\ (\E d \in Callers : pc'[d] = "trip") <=> pc'[c] = "trip"
    BY <2>a
  <2>c. /\ pc[c] \in Admitted => ~open
        /\ pc[c] \in {"set_probe", "probing", "reopen"} => half
        /\ pc[c] \in {"calling", "incr", "expire", "trip"} => ~half
        /\ pc[c] = "mark_half" => open /\ ~half
        /\ pc[c] \in {"clear", "drop_probe"} => open /\ half
        /\ pc[c] = "expire" => failures = 1
        /\ pc[c] \notin {"expire", "trip", "mark_half", "clear"} => failures < Threshold
    BY <1>t, <2>a DEF Serial, KeysAgree, CountAgrees
  <2> USE <1>t, <2>a, <2>c, <2>d DEF Admitted, Inside, Go, Mode, Promised!vars
  <2>1. CASE Call(c)
    BY <2>b, <2>1 DEF Call
  <2>2. CASE ExistsOpen(c)
    BY <2>b, <2>2 DEF ExistsOpen
  <2>3. CASE ExistsHalf(c)
    BY <2>b, <2>3 DEF ExistsHalf, Promised!Admit, Promised!Next
  <2>4. CASE SetProbe(c)
    BY <2>b, <2>4 DEF SetProbe, Promised!Admit, Promised!Next
  <2>5. CASE FnReturns(c)
    BY <2>b, <2>5 DEF FnReturns
  <2>6. CASE FnDeclines(c)
    BY <2>b, <2>6 DEF FnDeclines, Promised!Inconclusive, Promised!Next
  <2>7. CASE FnFails(c)
    BY <2>b, <2>7 DEF FnFails
  <2>8. CASE DelAll(c)
    BY <2>b, <2>8 DEF DelAll, Promised!NormalSucceeds, Promised!ProbeSucceeds, Promised!Next
  <2>9. CASE FailureExistsHalf(c)
    BY <2>b, <2>9 DEF FailureExistsHalf
  <2>10. CASE Reopen(c)
    BY <2>b, <2>10 DEF Reopen, Promised!ProbeFails, Promised!Next
  <2>11. CASE DropProbe(c)
    BY <2>b, <2>11 DEF DropProbe
  <2>12. CASE Incr(c)
    BY <2>b, <2>12 DEF Incr, Promised!NormalFails, Bump, AfterIncr, Promised!Next
  <2>13. CASE Expire(c)
    BY <2>b, <2>13 DEF Expire
  <2>14. CASE Trip(c)
    BY <2>b, <2>14 DEF Trip, Promised!Trips, Promised!Next
  <2>15. CASE MarkHalf(c)
    BY <2>b, <2>15 DEF MarkHalf
  <2>16. CASE Clear(c)
    BY <2>b, <2>16 DEF Clear
  <2>17. QED
    BY <1>1, <2>1, <2>2, <2>3, <2>4, <2>5, <2>6, <2>7, <2>8, <2>9, <2>10, <2>11,
       <2>12, <2>13, <2>14, <2>15, <2>16
       DEF Step, Allow, Fn, RecordFailure
<1>2. ASSUME NEW c \in Callers PROVE ~Crash(c)
  BY DEF Crash, Serial, TypeOK
<1>3. CASE OpenExpires
  <2>1. half
    BY <1>3 DEF Serial, OpenIsMarked, OpenersAreBusy, Openers, OpenExpires
  <2>2. ~CallUnderWay /\ ~CallUnderWay'
    BY <1>3 DEF Serial, KeysAgree, Admitted, OpenExpires, CallUnderWay
  <2>3. QED
    BY <1>3, <2>1, <2>2 DEF OpenExpires, Mode, Promised!CooldownEnds, Promised!Next
<1>4. CASE WindowExpires
  <2>1. CallUnderWay' <=> CallUnderWay
    BY <1>4 DEF WindowExpires, CallUnderWay
  <2>2. CASE \E c \in Callers : pc[c] = "trip"
    BY <1>4, <2>1, <2>2 DEF WindowExpires, Mode, Promised!vars
  <2>3. CASE ~\E c \in Callers : pc[c] = "trip"
    BY <1>4, <1>t, <2>1, <2>3 DEF WindowExpires, Mode, Serial, CountAgrees,
       Promised!WindowEnds, Promised!Next, Promised!vars
  <2>4. QED
    BY <2>2, <2>3
<1>5. CASE ProbeExpires \/ Outage \/ UNCHANGED vars
  <2>1. CallUnderWay' <=> CallUnderWay
    BY <1>5 DEF ProbeExpires, Outage, vars, CallUnderWay
  <2>2. QED
    BY <1>5, <2>1 DEF ProbeExpires, Outage, vars, Mode, Promised!vars
<1>6. QED
  BY <1>1, <1>2, <1>3, <1>4, <1>5 DEF Next

(***************************************************************************)
(* The Redis keys implement a three-state breaker with a fixed window for  *)
(* callers that come one at a time and do not die: an open breaker lets    *)
(* nobody in, a cooldown always ends half open, and then only the probe    *)
(* decides.  It holds for any caller, told or not what to expect, and      *)
(* wherever the window ends; Prompt only keeps the cooldown from ending    *)
(* between the SETEX of an opener and its last command.                    *)
(***************************************************************************)
THEOREM ImplementsThreeStates ==
  ASSUME Prompt, ~Overlap, MaxDeaths = 0
  PROVE  Spec => ThreeStates
<1>1. Init => Promised!Init
  BY DEF Init, Promised!Init, Mode, CallUnderWay, Inside
<1>2. QED
  BY <1>1, SerialInit, SerialNext, SerialSteps, PTL DEF Spec, ThreeStates, Promised!Spec

=============================================================================

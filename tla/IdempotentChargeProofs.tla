----------------------- MODULE IdempotentChargeProofs -----------------------
(***************************************************************************)
(* Proofs about IdempotentCharge for any callers, any orders and any       *)
(* number of deaths and days, if a claim outlasts a live call.             *)
(*                                                                         *)
(* ChargedOncePerLedger is not inductive: a caller about to charge is safe *)
(* only because nobody else is, and because the ledger it read empty is    *)
(* still empty.  Claims adds exactly that.                                 *)
(***************************************************************************)
EXTENDS IdempotentCharge, TLAPS

(***************************************************************************)
(* Whatever time does, the record, the ledger, the receipt about to be     *)
(* stored and the answers name captures that happened.                     *)
(***************************************************************************)
RecordIsCapture ==
  \A k \in Orders : result[k] <= captured[k] /\ ledger[k] <= captured[k]

StoringIsPaid ==
  \A c \in Callers : pc[c] = "store" => receipt[c] \in 1 .. captured[order[c]]

AnsweredIsPaid ==
  \A c \in Callers : outcome[c] = "receipt" => captured[order[c]] >= 1

\* A call that is still at work has come to nothing yet.
OutcomeIsLast ==
  \A c \in Callers : pc[c] \notin {"idle", "release"} => outcome[c] = "none"

Answers ==
  /\ TypeOK /\ OutcomeIsLast
  /\ RecordIsCapture /\ StoringIsPaid /\ AnsweredIsPaid /\ SameReceipt

(***************************************************************************)
(* Every caller past the claim holds it, alone; the ledger has the last    *)
(* capture of an order or has run out since; a caller about to charge      *)
(* works on an order the ledger does not have.                             *)
(***************************************************************************)
HoldersAreLocked == \A c \in Callers : pc[c] \in Holding => lock[order[c]]

LedgerIsLast ==
  \A k \in Orders :
    /\ ledger[k] \in {None, captured[k]}
    /\ captured[k] <= (IF ledger[k] = None THEN days ELSE days + 1)

ChargingIsNew == \A c \in Callers : pc[c] = "charge" => ledger[order[c]] = None

Claims ==
  /\ TypeOK
  /\ HoldersAreLocked
  /\ OneCopyInFlight
  /\ LedgerIsLast
  /\ ChargingIsNew

-----------------------------------------------------------------------------
(***************************************************************************)
(* The variables keep their types.  It needs neither assumption.           *)
(***************************************************************************)
THEOREM TypeCorrect == Spec => []TypeOK
<1>1. Init => TypeOK
  BY LimitsAssumption DEF Init, TypeOK, Positions, Outcomes, None
<1>2. TypeOK /\ [Next]_vars => TypeOK'
  <2> SUFFICES ASSUME TypeOK, [Next]_vars PROVE TypeOK'
    OBVIOUS
  <2> USE DEF TypeOK, Positions, Outcomes, Exceptions, Holding, None, redis, local, counts
  <2>1. ASSUME NEW c \in Callers, NEW k \in Orders, Run(c, k) PROVE TypeOK'
    BY <2>1 DEF Run, Go
  <2>2. ASSUME NEW c \in Callers, Replay(c) PROVE TypeOK'
    BY <2>2 DEF Replay, Go, Tell
  <2>3. ASSUME NEW c \in Callers, NoRecord(c) PROVE TypeOK'
    BY <2>3 DEF NoRecord, Go
  <2>4. ASSUME NEW c \in Callers, Claim(c) PROVE TypeOK'
    BY <2>4 DEF Claim, Go
  <2>5. ASSUME NEW c \in Callers, InFlight(c) PROVE TypeOK'
    BY <2>5 DEF InFlight, Go
  <2>6. ASSUME NEW c \in Callers, Deduplicate(c) PROVE TypeOK'
    BY <2>6 DEF Deduplicate, Go
  <2>7. ASSUME NEW c \in Callers, NotSeen(c) PROVE TypeOK'
    BY <2>7 DEF NotSeen, Go
  <2>8. ASSUME NEW c \in Callers, Charge(c) PROVE TypeOK'
    BY <2>8 DEF Charge, Go
  <2>9. ASSUME NEW c \in Callers, Refuse(c) \/ Fail(c) \/ Decline(c) PROVE TypeOK'
    BY <2>9 DEF Refuse, Fail, Decline, Raise, Go
  <2>10. ASSUME NEW c \in Callers, Store(c) PROVE TypeOK'
    BY <2>10 DEF Store, Go, Tell
  <2>11. ASSUME NEW c \in Callers, Release(c) \/ Return(c) PROVE TypeOK'
    BY <2>11 DEF Release, Return, Go
  <2>12. ASSUME NEW c \in Callers, Crash(c) PROVE TypeOK'
    BY <2>12, LimitsAssumption DEF Crash
  <2>13. ASSUME NEW k \in Orders, LockExpires(k) PROVE TypeOK'
    BY <2>13 DEF LockExpires
  <2>14. ASSUME NEW k \in Orders, ResultExpires(k) PROVE TypeOK'
    BY <2>14 DEF ResultExpires
  <2>15. CASE LedgerExpires
    BY <2>15, LimitsAssumption DEF LedgerExpires
  <2>16. CASE Outage
    BY <2>16 DEF Outage
  <2>17. CASE UNCHANGED vars
    BY <2>17 DEF vars
  <2>18. QED
    BY <2>1, <2>2, <2>3, <2>4, <2>5, <2>6, <2>7, <2>8, <2>9, <2>10, <2>11,
       <2>12, <2>13, <2>14, <2>15, <2>16, <2>17 DEF Next, Continue
<1>3. QED
  BY <1>1, <1>2, PTL DEF Spec

-----------------------------------------------------------------------------
(***************************************************************************)
(* Answers holds at the start and every step keeps it.                     *)
(***************************************************************************)
LEMMA AnswersInit == Init => Answers
BY LimitsAssumption
   DEF Init, Answers, TypeOK, Positions, Outcomes, Exceptions, Holding, None, RecordIsCapture,
       StoringIsPaid, AnsweredIsPaid, OutcomeIsLast, SameReceipt

LEMMA AnswersNext ==
  ASSUME TypeOK', Answers, [Next]_vars
  PROVE Answers'
<1> USE DEF Answers, TypeOK, Positions, Outcomes, Exceptions, Holding, None, redis, local, counts,
            RecordIsCapture, StoringIsPaid, AnsweredIsPaid, OutcomeIsLast, SameReceipt
<1>1. ASSUME NEW c \in Callers, NEW k \in Orders, Run(c, k) PROVE Answers'
  BY <1>1 DEF Run, Go
<1>2. ASSUME NEW c \in Callers, Replay(c) PROVE Answers'
  BY <1>2 DEF Replay, Go, Tell
<1>3. ASSUME NEW c \in Callers, NoRecord(c) PROVE Answers'
  BY <1>3 DEF NoRecord, Go
<1>4. ASSUME NEW c \in Callers, Claim(c) PROVE Answers'
  BY <1>4 DEF Claim, Go
<1>5. ASSUME NEW c \in Callers, InFlight(c) PROVE Answers'
  BY <1>5 DEF InFlight, Go
<1>6. ASSUME NEW c \in Callers, Deduplicate(c) PROVE Answers'
  BY <1>6 DEF Deduplicate, Go
<1>7. ASSUME NEW c \in Callers, NotSeen(c) PROVE Answers'
  BY <1>7 DEF NotSeen, Go
<1>8. ASSUME NEW c \in Callers, Charge(c) PROVE Answers'
  BY <1>8 DEF Charge, Go
<1>9. ASSUME NEW c \in Callers, Refuse(c) \/ Fail(c) \/ Decline(c) PROVE Answers'
  BY <1>9 DEF Refuse, Fail, Decline, Raise, Go
<1>10. ASSUME NEW c \in Callers, Store(c) PROVE Answers'
  BY <1>10 DEF Store, Go, Tell
<1>11. ASSUME NEW c \in Callers, Release(c) \/ Return(c) PROVE Answers'
  BY <1>11 DEF Release, Return, Go
<1>12. ASSUME NEW c \in Callers, Crash(c) PROVE Answers'
  BY <1>12 DEF Crash
<1>13. ASSUME NEW k \in Orders, LockExpires(k) PROVE Answers'
  BY <1>13 DEF LockExpires, Holds
<1>14. ASSUME NEW k \in Orders, ResultExpires(k) PROVE Answers'
  BY <1>14 DEF ResultExpires
<1>15. CASE LedgerExpires
  BY <1>15 DEF LedgerExpires
<1>16. CASE Outage
  BY <1>16 DEF Outage
<1>17. CASE UNCHANGED vars
  BY <1>17 DEF vars
<1>18. QED
  BY <1>1, <1>2, <1>3, <1>4, <1>5, <1>6, <1>7, <1>8, <1>9, <1>10, <1>11,
     <1>12, <1>13, <1>14, <1>15, <1>16, <1>17 DEF Next, Continue

LEMMA AnswersHold == Spec => []Answers
<1>1. TypeOK' /\ Answers /\ [Next]_vars => Answers'
  BY AnswersNext
<1>2. QED
  BY AnswersInit, <1>1, TypeCorrect, PTL DEF Spec

(***************************************************************************)
(* Everybody who gets an answer for an order gets the receipt of a capture *)
(* of it.  It needs no assumption about time: a claim that expires too     *)
(* early lets the money be taken twice, but nobody is told of a charge     *)
(* that was not made.                                                      *)
(***************************************************************************)
THEOREM OneReceipt == Spec => []SameReceipt
<1>1. Answers => SameReceipt
  BY DEF Answers
<1>2. QED
  BY AnswersHold, <1>1, PTL

-----------------------------------------------------------------------------
(***************************************************************************)
(* Claims holds at the start and every step keeps it.                      *)
(***************************************************************************)
LEMMA ClaimsInit == Init => Claims
BY LimitsAssumption
   DEF Init, Claims, TypeOK, Positions, Outcomes, Exceptions, Holding, None, HoldersAreLocked,
       OneCopyInFlight, LedgerIsLast, ChargingIsNew

LEMMA ClaimsNext ==
  ASSUME LockOutlivesCalls, TypeOK', Claims, [Next]_vars
  PROVE Claims'
<1> USE DEF Claims, TypeOK, Positions, Outcomes, Exceptions, Holding, None, redis, local, counts,
            HoldersAreLocked, OneCopyInFlight, LedgerIsLast, ChargingIsNew
<1>1. ASSUME NEW c \in Callers, NEW k \in Orders, Run(c, k) PROVE Claims'
  BY <1>1 DEF Run, Go
<1>2. ASSUME NEW c \in Callers, Replay(c) PROVE Claims'
  BY <1>2 DEF Replay, Go, Tell
<1>3. ASSUME NEW c \in Callers, NoRecord(c) PROVE Claims'
  BY <1>3 DEF NoRecord, Go
<1>4. ASSUME NEW c \in Callers, Claim(c) PROVE Claims'
  BY <1>4 DEF Claim, Go
<1>5. ASSUME NEW c \in Callers, InFlight(c) PROVE Claims'
  BY <1>5 DEF InFlight, Go
<1>6. ASSUME NEW c \in Callers, Deduplicate(c) PROVE Claims'
  BY <1>6 DEF Deduplicate, Go
<1>7. ASSUME NEW c \in Callers, NotSeen(c) PROVE Claims'
  BY <1>7 DEF NotSeen, Go
<1>8. ASSUME NEW c \in Callers, Charge(c) PROVE Claims'
  BY <1>8 DEF Charge, Go
<1>9. ASSUME NEW c \in Callers, Refuse(c) \/ Fail(c) \/ Decline(c) PROVE Claims'
  BY <1>9 DEF Refuse, Fail, Decline, Raise, Go
<1>10. ASSUME NEW c \in Callers, Store(c) PROVE Claims'
  BY <1>10 DEF Store, Go, Tell
<1>11. ASSUME NEW c \in Callers, Release(c) \/ Return(c) PROVE Claims'
  BY <1>11 DEF Release, Return, Go
<1>12. ASSUME NEW c \in Callers, Crash(c) PROVE Claims'
  BY <1>12 DEF Crash
<1>13. ASSUME NEW k \in Orders, LockExpires(k) PROVE Claims'
  BY <1>13 DEF LockExpires, Holds
<1>14. ASSUME NEW k \in Orders, ResultExpires(k) PROVE Claims'
  BY <1>14 DEF ResultExpires
<1>15. CASE LedgerExpires
  BY <1>15 DEF LedgerExpires
<1>16. CASE Outage
  BY <1>16 DEF Outage
<1>17. CASE UNCHANGED vars
  BY <1>17 DEF vars
<1>18. QED
  BY <1>1, <1>2, <1>3, <1>4, <1>5, <1>6, <1>7, <1>8, <1>9, <1>10, <1>11,
     <1>12, <1>13, <1>14, <1>15, <1>16, <1>17 DEF Next, Continue

-----------------------------------------------------------------------------
LEMMA ClaimsHold == ASSUME LockOutlivesCalls PROVE Spec => []Claims
<1>1. TypeOK' /\ Claims /\ [Next]_vars => Claims'
  BY ClaimsNext
<1>2. QED
  BY ClaimsInit, <1>1, TypeCorrect, PTL DEF Spec

(***************************************************************************)
(* While a claim is held no second copy of the work starts (the comment in *)
(* IdempotencyStore.run), if the claim's TTL outlasts the call.            *)
(***************************************************************************)
THEOREM NoSecondCopy == ASSUME LockOutlivesCalls PROVE Spec => []OneCopyInFlight
<1>1. Claims => OneCopyInFlight
  BY DEF Claims
<1>2. QED
  BY ClaimsHold, <1>1, PTL

(***************************************************************************)
(* An order's money is taken once more only after the gateway's ledger has *)
(* run out once more, for any number of agent threads, replay workers,     *)
(* orders, key expiries and deaths.                                        *)
(***************************************************************************)
THEOREM OneCapturePerLedger ==
  ASSUME LockOutlivesCalls PROVE Spec => []ChargedOncePerLedger
<1>1. Claims => ChargedOncePerLedger
  BY DEF Claims, TypeOK, LedgerIsLast, ChargedOncePerLedger
<1>2. QED
  BY ClaimsHold, <1>1, PTL

-----------------------------------------------------------------------------
(* IdempotentCharge implements ExactlyOnce. *)

LEMMA PromisedInit == Init => Promised!Init
BY DEF Init, Promised!Init

(***************************************************************************)
(* Charge is the abstract capture, Replay and Store are the abstract       *)
(* answer, LedgerExpires is Forget, and every other step is no step.       *)
(***************************************************************************)
LEMMA PromisedNext ==
  ASSUME Answers, Claims, [Next]_vars
  PROVE [Promised!Next]_(Promised!vars)
<1> USE DEF Answers, Claims, TypeOK, Positions, Outcomes, Exceptions, Holding, None, redis, local, counts,
            Promised!vars
<1>1. ASSUME NEW c \in Callers, Charge(c) PROVE Promised!Next
  <2>1. order[c] \in Orders /\ captured[order[c]] <= days
    BY <1>1 DEF Charge, Go, ChargingIsNew, LedgerIsLast
  <2>2. Promised!Capture(order[c])
    BY <1>1, <2>1 DEF Charge, Promised!Capture
  <2>3. QED
    BY <2>1, <2>2 DEF Promised!Next
<1>2. ASSUME NEW c \in Callers, Replay(c) PROVE Promised!Next
  <2>1. order[c] \in Orders /\ result[order[c]] \in 1 .. captured[order[c]]
    BY <1>2 DEF Replay, RecordIsCapture
  <2>2. Promised!Tell(order[c])
    BY <1>2, <2>1 DEF Replay, Tell, Promised!Tell
  <2>3. QED
    BY <2>1, <2>2 DEF Promised!Next
<1>3. ASSUME NEW c \in Callers, Store(c) PROVE Promised!Next
  <2>1. order[c] \in Orders /\ receipt[c] \in 1 .. captured[order[c]]
    BY <1>3 DEF Store, Go, StoringIsPaid
  <2>2. Promised!Tell(order[c])
    BY <1>3, <2>1 DEF Store, Tell, Promised!Tell
  <2>3. QED
    BY <2>1, <2>2 DEF Promised!Next
<1>4. ASSUME NEW c \in Callers,
             \/ NoRecord(c) \/ Claim(c) \/ InFlight(c) \/ Deduplicate(c)
             \/ NotSeen(c) \/ Refuse(c) \/ Fail(c) \/ Decline(c)
             \/ Release(c) \/ Return(c) \/ Crash(c)
             \/ \E k \in Orders : Run(c, k)
      PROVE UNCHANGED <<captured, told, days>>
  BY <1>4 DEF NoRecord, Claim, InFlight, Deduplicate, NotSeen, Refuse, Fail,
              Decline, Raise, Release, Return, Crash, Run
<1>5. CASE \/ \E k \in Orders : LockExpires(k) \/ ResultExpires(k)
           \/ Outage \/ UNCHANGED vars
  BY <1>5 DEF LockExpires, ResultExpires, Outage, vars
<1>6. CASE LedgerExpires
  BY <1>6 DEF LedgerExpires, Promised!Forget, Promised!Next
<1>7. QED
  BY <1>1, <1>2, <1>3, <1>4, <1>5, <1>6 DEF Next, Continue

(***************************************************************************)
(* The store, the breaker and the ledger keep the promise of the store's   *)
(* class comment, and of as much of it as outlives the ledger.             *)
(***************************************************************************)
THEOREM ImplementsExactlyOnce ==
  ASSUME LockOutlivesCalls PROVE Spec => ExactlyOncePromise
<1>1. Answers /\ Claims /\ [Next]_vars => [Promised!Next]_(Promised!vars)
  BY PromisedNext
<1>2. QED
  BY PromisedInit, <1>1, AnswersHold, ClaimsHold, PTL DEF Spec, ExactlyOncePromise, Promised!Spec

=============================================================================

--------------------------- MODULE CircuitBreaker ---------------------------
(***************************************************************************)
(* The circuit breaker of chapter 8 (reliability.py, class                 *)
(* CircuitBreaker).  The breaker has no memory of its own: its state is    *)
(* four Redis keys shared by every process that builds a breaker with the  *)
(* same name (the checkout agent's worker threads and the replay worker).  *)
(* Each Redis command is atomic; nothing makes two of them atomic          *)
(* together.  So a step of this specification is one Redis command of one  *)
(* caller, the wrapped call itself, the expiry of a key, or the death of a *)
(* process between two commands.                                           *)
(***************************************************************************)
EXTENDS Naturals, FiniteSets

CONSTANTS
  Callers,    \* the threads and processes that call through the breaker
  Expecting,  \* those whose breaker was built with expected_exceptions
  MaxDeaths,  \* how often a process may die between two commands
  Threshold,  \* failures that open the circuit
  Declining,  \* whether a working gateway may also decline a card
  Overlap,    \* whether two calls may be in progress at the same time
  Prompt      \* whether record_failure takes less than half a cooldown

ASSUME CallersAssumption ==
  /\ Expecting \subseteq Callers
  /\ IsFiniteSet(Callers)

ASSUME ThresholdAssumption == Threshold \in Nat \ {0}

ASSUME DeathsAssumption == MaxDeaths \in Nat

ASSUME SwitchesAssumption == {Declining, Overlap, Prompt} \subseteq BOOLEAN

VARIABLES
  failures,  \* cb:<name>:failures, 0 when the key is absent
  window,    \* whether cb:<name>:failures carries a TTL
  open,      \* whether cb:<name>:open exists
  half,      \* whether cb:<name>:half_open exists
  probe,     \* whether cb:<name>:probe exists
  up,        \* whether the dependency answers
  pc,        \* where each caller is
  deaths,    \* processes that died so far
  evidence,  \* history: faults answered since a count last tripped
  busy       \* history: callers in record_failure since the circuit was opened

vars == <<failures, window, open, half, probe, up, pc, deaths, evidence, busy>>

(***************************************************************************)
(* A caller's position names the command it is about to send.              *)
(***************************************************************************)
Allowing  == {"exists_open", "exists_half", "set_probe"}
Inside    == {"calling", "probing"}
Failing   == {"failed", "reopen", "drop_probe", "incr", "expire", "trip",
              "mark_half", "clear"}
Openers   == {"drop_probe", "mark_half", "clear"}
Positions == {"idle", "succeeded"} \cup Allowing \cup Inside \cup Failing

TypeOK ==
  /\ failures \in 0 .. Threshold + 1
  /\ window \in BOOLEAN
  /\ open \in BOOLEAN
  /\ half \in BOOLEAN
  /\ probe \in BOOLEAN
  /\ up \in BOOLEAN
  /\ pc \in [Callers -> Positions]
  /\ deaths \in 0 .. MaxDeaths
  /\ evidence \in 0 .. Threshold
  /\ busy \subseteq Callers

Init ==
  /\ failures = 0
  /\ window = FALSE
  /\ open = FALSE
  /\ half = FALSE
  /\ probe = FALSE
  /\ up = TRUE
  /\ pc = [c \in Callers |-> "idle"]
  /\ deaths = 0
  /\ evidence = 0
  /\ busy = {}

Go(c, from, to) ==
  /\ pc[c] = from
  /\ pc' = [pc EXCEPT ![c] = to]

\* Only "= 1" and ">= Threshold" are ever asked of the counter, so counting
\* stops one above the threshold.
Bump(n) == IF n > Threshold THEN n ELSE n + 1

\* The history only has to tell fewer than Threshold faults from enough.
Enough(n) == IF n > Threshold THEN Threshold ELSE n

\* What the history restarts from when c trips the breaker: the faults already
\* answered whose INCR is still to come.
Uncounted(c) ==
  Enough(Cardinality({d \in Callers \ {c} : pc[d] \in {"failed", "incr"}}))

\* state()
Mode == IF open THEN "open" ELSE IF half THEN "half_open" ELSE "closed"

-----------------------------------------------------------------------------
(* allow() *)

\* call() begins with allow().
Call(c) ==
  /\ Overlap \/ \A d \in Callers : pc[d] = "idle"
  /\ Go(c, "idle", "exists_open")
  /\ UNCHANGED <<failures, window, open, half, probe, up, deaths, evidence>>

\* EXISTS open: CircuitOpen is raised while the key is there.
ExistsOpen(c) ==
  /\ Go(c, "exists_open", IF open THEN "idle" ELSE "exists_half")
  /\ UNCHANGED <<failures, window, open, half, probe, up, deaths, evidence>>

\* EXISTS half_open: without the marker the breaker is closed.
ExistsHalf(c) ==
  /\ Go(c, "exists_half", IF half THEN "set_probe" ELSE "calling")
  /\ UNCHANGED <<failures, window, open, half, probe, up, deaths, evidence>>

\* SET probe NX EX 15: whoever creates the key is the probe.
SetProbe(c) ==
  /\ Go(c, "set_probe", IF probe THEN "idle" ELSE "probing")
  /\ probe' = TRUE
  /\ UNCHANGED <<failures, window, open, half, up, deaths, evidence>>

-----------------------------------------------------------------------------
(* fn(), and what call() makes of its outcome *)

FnReturns(c) ==
  /\ up
  /\ pc[c] \in Inside
  /\ pc' = [pc EXCEPT ![c] = "succeeded"]
  /\ UNCHANGED <<failures, window, open, half, probe, up, deaths, evidence>>

\* Mutant: the expected set is not consulted.
FnDeclinesCounted(c) ==
  /\ up /\ Declining
  /\ pc[c] \in Inside
  /\ pc' = [pc EXCEPT ![c] = "failed"]
  /\ UNCHANGED <<failures, window, open, half, probe, up, deaths, evidence>>

\* A declined card is a fault only to a breaker that was not told to expect it.
FnDeclines(c) ==
  /\ up /\ Declining
  /\ pc[c] \in Inside
  /\ pc' = [pc EXCEPT ![c] = IF c \in Expecting THEN "idle" ELSE "failed"]
  /\ UNCHANGED <<failures, window, open, half, probe, up, deaths, evidence>>

FnFails(c) ==
  /\ ~up
  /\ pc[c] \in Inside
  /\ pc' = [pc EXCEPT ![c] = "failed"]
  /\ evidence' = Enough(evidence + 1)
  /\ UNCHANGED <<failures, window, open, half, probe, up, deaths>>

-----------------------------------------------------------------------------
(* record_success() *)

\* Mutant: a success takes one failure back instead of deleting the counter.
DelAllButOne(c) ==
  /\ Go(c, "succeeded", "idle")
  /\ failures' = failures - 1
  /\ window' = FALSE
  /\ half' = FALSE
  /\ probe' = FALSE
  /\ UNCHANGED <<open, up, deaths, evidence>>

\* Mutant: a success leaves the half-open marker.
DelAllButHalf(c) ==
  /\ Go(c, "succeeded", "idle")
  /\ failures' = 0
  /\ window' = FALSE
  /\ probe' = FALSE
  /\ UNCHANGED <<open, half, up, deaths, evidence>>

\* One DEL of three keys; the open key is not among them.
DelAll(c) ==
  /\ Go(c, "succeeded", "idle")
  /\ failures' = 0
  /\ window' = FALSE
  /\ half' = FALSE
  /\ probe' = FALSE
  /\ UNCHANGED <<open, up, deaths, evidence>>

-----------------------------------------------------------------------------
(* record_failure() *)

FailureExistsHalf(c) ==
  /\ Go(c, "failed", IF half THEN "reopen" ELSE "incr")
  /\ UNCHANGED <<failures, window, open, half, probe, up, deaths, evidence>>

\* SETEX open, in the half-open branch.
Reopen(c) ==
  /\ Go(c, "reopen", "drop_probe")
  /\ open' = TRUE
  /\ UNCHANGED <<failures, window, half, probe, up, deaths, evidence>>

DropProbe(c) ==
  /\ Go(c, "drop_probe", "idle")
  /\ probe' = FALSE
  /\ UNCHANGED <<failures, window, open, half, up, deaths, evidence>>

\* Mutant: the counter is never given a TTL.
AfterIncrNoExpire(n) == IF n >= Threshold THEN "trip" ELSE "idle"

\* What follows the count: expire the key the INCR created, or trip, or leave.
AfterIncr(n) ==
  IF n = 1 THEN "expire" ELSE IF n >= Threshold THEN "trip" ELSE "idle"

Incr(c) ==
  /\ failures' = Bump(failures)
  /\ Go(c, "incr", AfterIncr(failures'))
  /\ UNCHANGED <<window, open, half, probe, up, deaths, evidence>>

\* EXPIRE has no effect on a key that has gone.
Expire(c) ==
  /\ Go(c, "expire", IF Threshold = 1 THEN "trip" ELSE "idle")
  /\ window' = (failures > 0)
  /\ UNCHANGED <<failures, open, half, probe, up, deaths, evidence>>

\* SETEX open, in the counting branch.
Trip(c) ==
  /\ Go(c, "trip", "mark_half")
  /\ open' = TRUE
  /\ evidence' = Uncounted(c)
  /\ UNCHANGED <<failures, window, half, probe, up, deaths>>

\* Mutant: the half-open marker is not set when the breaker opens.
MarkHalfForgotten(c) ==
  /\ Go(c, "mark_half", "clear")
  /\ UNCHANGED <<failures, window, open, half, probe, up, deaths, evidence>>

MarkHalf(c) ==
  /\ Go(c, "mark_half", "clear")
  /\ half' = TRUE
  /\ UNCHANGED <<failures, window, open, probe, up, deaths, evidence>>

Clear(c) ==
  /\ Go(c, "clear", "idle")
  /\ failures' = 0
  /\ window' = FALSE
  /\ UNCHANGED <<open, half, probe, up, deaths, evidence>>

-----------------------------------------------------------------------------
(* The environment: key expiry, the dependency, and process death *)

\* Who is in record_failure and met there somebody who had set the open key:
\* half a cooldown (10 s) after the key was set they are all done, or half a
\* cooldown after the last of them began.
MetOpener ==
  {c \in Callers :
     /\ Prompt /\ pc'[c] \in Failing
     /\ c \in busy \/ \E d \in Callers : pc'[d] \in Openers}

\* The cooldown of SETEX open runs out: 20 s, so not inside a record_failure
\* that began before the opener's own was over.
OpenExpires ==
  /\ open /\ busy = {}
  /\ open' = FALSE
  /\ UNCHANGED <<failures, window, half, probe, up, pc, deaths, evidence, busy>>

\* Mutant: SET probe NX without EX.
ProbeStays == FALSE /\ UNCHANGED vars

\* The 15 seconds of SET probe run out, whatever the probe is doing.
ProbeExpires ==
  /\ probe
  /\ probe' = FALSE
  /\ UNCHANGED <<failures, window, open, half, up, pc, deaths, evidence, busy>>

\* The window's 60 s began at its first fault, so they may run out between any
\* two commands, also between the INCR that reaches the threshold and SETEX.
WindowExpires ==
  /\ window
  /\ failures' = 0
  /\ window' = FALSE
  /\ UNCHANGED <<open, half, probe, up, pc, deaths, evidence, busy>>

Outage ==
  /\ up' = ~up
  /\ UNCHANGED <<failures, window, open, half, probe, pc, deaths, evidence, busy>>

\* A restarted process begins again with an idle caller; Redis keeps its keys.
Crash(c) ==
  /\ deaths < MaxDeaths
  /\ pc[c] # "idle"
  /\ pc' = [pc EXCEPT ![c] = "idle"]
  /\ deaths' = deaths + 1
  /\ busy' = MetOpener
  /\ UNCHANGED <<failures, window, open, half, probe, up, evidence>>

-----------------------------------------------------------------------------
Allow(c) == ExistsOpen(c) \/ ExistsHalf(c) \/ SetProbe(c)

Fn(c) == FnReturns(c) \/ FnDeclines(c) \/ FnFails(c)

RecordFailure(c) ==
  \/ FailureExistsHalf(c) \/ Reopen(c) \/ DropProbe(c)
  \/ Incr(c) \/ Expire(c) \/ Trip(c) \/ MarkHalf(c) \/ Clear(c)

Step(c) ==
  /\ Call(c) \/ Allow(c) \/ Fn(c) \/ DelAll(c) \/ RecordFailure(c)
  /\ busy' = MetOpener

Next ==
  \/ \E c \in Callers : Step(c) \/ Crash(c)
  \/ OpenExpires \/ ProbeExpires \/ WindowExpires \/ Outage

Spec == Init /\ [][Next]_vars

(***************************************************************************)
(* Redis expires every key that has a TTL; a wrapped call returns or       *)
(* raises (no client here waits for ever); and somebody keeps calling: the *)
(* replay worker's main loop never ends.                                   *)
(***************************************************************************)
Fairness ==
  /\ \A c \in Callers : WF_vars(Step(c))
  /\ WF_vars(OpenExpires)
  /\ WF_vars(ProbeExpires)

FairSpec == Spec /\ Fairness

-----------------------------------------------------------------------------
(* Properties *)

(***************************************************************************)
(* The window of record_failure: a failure counter that exists either      *)
(* carries its TTL or has a caller about to set it, however the INCRs,     *)
(* EXPIREs and DELs of several callers interleave.  A counter left without *)
(* a TTL would add up faults that are hours apart.  It needs callers that  *)
(* do not die between the INCR and the EXPIRE.                             *)
(***************************************************************************)
CounterExpires ==
  failures > 0 /\ ~window => \E c \in Callers : pc[c] = "expire"

(***************************************************************************)
(* record_failure opens a breaker that is not open only over Threshold     *)
(* infrastructure faults answered since a count last opened it.  Declined  *)
(* cards do not count (call, the expected set), nor does a fault count     *)
(* twice.  That the faults fall inside one window is not stated: neither a *)
(* success nor the end of the window takes anything from the evidence.     *)
(***************************************************************************)
OpensOnFaults ==
  [][\A c \in Callers : Trip(c) /\ ~open => evidence = Threshold]_vars

(***************************************************************************)
(* Called one call at a time, by callers that do not die, the Redis keys   *)
(* implement a three-state breaker with a fixed window.  The call under    *)
(* way is a probe exactly when the breaker is half open, and a caller that *)
(* has counted the last fault opens the circuit even if the window, and    *)
(* the counter with it, ends before its SETEX.                             *)
(***************************************************************************)
CallUnderWay ==
  \E c \in Callers :
    pc[c] \in Inside \cup {"succeeded", "failed", "reopen", "incr"}

Promised == INSTANCE ThreeStateBreaker WITH
  mode  <- Mode,
  tally <- IF Mode # "closed" THEN 0
           ELSE IF \E c \in Callers : pc[c] = "trip" THEN Threshold
           ELSE failures,
  call  <- IF ~CallUnderWay THEN "none"
           ELSE IF Mode = "closed" THEN "normal" ELSE "probe"

ThreeStates == Promised!Spec

(***************************************************************************)
(* The class comment: a breaker counts infrastructure faults, it must not  *)
(* count business outcomes.  Whoever opens a circuit that is not open does *)
(* it over one fault at least, never over declined cards alone.            *)
(***************************************************************************)
CountsFaultsOnly ==
  [][\A c \in Callers : Trip(c) /\ ~open => evidence > 0]_vars

(***************************************************************************)
(* Nobody is locked out for ever: whatever the breaker's keys are and      *)
(* whoever died holding the probe, some caller is let through again.       *)
(***************************************************************************)
NeverWedged == []<>(\E c \in Callers : pc[c] \in Inside)

(***************************************************************************)
(* Once the dependency stays up and declines nobody any more, the breaker  *)
(* closes and stays closed, whatever faults were still being recorded and  *)
(* whichever probe ended in a declined card, which records neither a       *)
(* success nor a failure and leaves the probe key to its TTL.              *)
(***************************************************************************)
ClosesWhenHealthy ==
  <>[]up /\ <>[][\A c \in Callers : ~FnDeclines(c)]_vars
    => <>[](Mode = "closed")

=============================================================================

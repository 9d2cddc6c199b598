-------------------------- MODULE ThreeStateBreaker --------------------------
(***************************************************************************)
(* What the class CircuitBreaker (reliability.py) amounts to for calls     *)
(* made one at a time: closed, open or half open, a tally of faults, and   *)
(* the call that is under way.  Only Threshold faults open a closed        *)
(* breaker, an open breaker lets nobody in, a cooldown always ends half    *)
(* open, and only the probe decides what comes after that.  The states are *)
(* those of the class comment; the window is the code's, which is fixed:   *)
(* it begins with a first fault, and its end forgets the whole tally,      *)
(* where the comment says a rolling window.                                *)
(***************************************************************************)
EXTENDS Naturals

CONSTANT Threshold

VARIABLES
  mode,   \* "closed", "open" or "half_open"
  tally,  \* faults since the window began, while closed
  call    \* "none", "normal" or "probe"

vars == <<mode, tally, call>>

Init == mode = "closed" /\ tally = 0 /\ call = "none"

Admit ==
  /\ call = "none"
  /\ \/ mode = "closed" /\ tally < Threshold /\ call' = "normal"
     \/ mode = "half_open" /\ call' = "probe"
  /\ UNCHANGED <<mode, tally>>

\* A business answer: says nothing about the dependency's health.
Inconclusive ==
  /\ call # "none"
  /\ call' = "none"
  /\ UNCHANGED <<mode, tally>>

NormalSucceeds ==
  /\ call = "normal"
  /\ call' = "none" /\ tally' = 0
  /\ UNCHANGED mode

NormalFails ==
  /\ call = "normal"
  /\ call' = "none" /\ tally' = tally + 1
  /\ UNCHANGED mode

Trips ==
  /\ mode = "closed" /\ tally = Threshold
  /\ mode' = "open" /\ tally' = 0
  /\ UNCHANGED call

\* EX of the counter: all the faults go at once, the recent ones too.
WindowEnds ==
  /\ mode = "closed" /\ tally > 0
  /\ tally' = 0
  /\ UNCHANGED <<mode, call>>

CooldownEnds ==
  /\ mode = "open"
  /\ mode' = "half_open"
  /\ UNCHANGED <<tally, call>>

ProbeSucceeds ==
  /\ call = "probe"
  /\ mode' = "closed" /\ call' = "none"
  /\ UNCHANGED tally

ProbeFails ==
  /\ call = "probe"
  /\ mode' = "open" /\ call' = "none"
  /\ UNCHANGED tally

Next ==
  \/ Admit \/ Inconclusive \/ NormalSucceeds \/ NormalFails \/ Trips
  \/ WindowEnds \/ CooldownEnds \/ ProbeSucceeds \/ ProbeFails

Spec == Init /\ [][Next]_vars

=============================================================================

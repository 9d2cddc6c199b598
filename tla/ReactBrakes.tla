----------------------------- MODULE ReactBrakes -----------------------------
(***************************************************************************)
(* The ReAct agent of chapter 5, stage 1: a model that calls tools until   *)
(* it answers, and the brakes on its calls.  One response may call several *)
(* tools; their callbacks and the tools themselves interleave.  The        *)
(* scratchpad is in the session state, over all questions of the session.  *)
(***************************************************************************)
EXTENDS Naturals, Sequences, FiniteSets, SequencesExt

CONSTANTS
  Args,       \* tool names with their arguments, as the model writes them
  SigOf,      \* their canonical signatures
  Slots,      \* the calls of one response
  MaxCalls,   \* MAX_TOOL_CALLS
  MaxEmpty,   \* MAX_EMPTY_IN_A_ROW
  Window      \* SCRATCHPAD_WINDOW

ASSUME BrakesAssumption ==
  {MaxCalls, MaxEmpty, Window} \subseteq Nat \ {0} /\ MaxCalls <= Window

VARIABLES
  talking,  \* whether a question is open
  pad,      \* state["scratchpad"]
  calls,    \* the calls of the last response
  ran,      \* history: how often each signature's tool was really run
  outcomes, \* history: what the tools that ran came back with, in that order
  parallel  \* history: whether one response has called several tools

log == <<ran, outcomes, parallel>>

vars == <<talking, pad, calls, log>>

Signature(a) == SigOf[a]

Sigs == {SigOf[a] : a \in Args}

Outcomes == {"pending", "empty", "hit"}
Outcome(looksEmpty) == IF looksEmpty THEN "empty" ELSE "hit"

Call == [arg : Args, at : {"before", "tool", "after"}, empty : BOOLEAN]

None == [arg |-> "none"]

TypeOK ==
  /\ talking \in BOOLEAN
  /\ pad \in Seq([sig : Sigs, outcome : Outcomes]) /\ Len(pad) <= Window
  /\ calls \in [Slots -> Call \cup {None}]
  /\ ran \in [Sigs -> 0 .. 2]
  /\ outcomes \in Seq(Outcomes) /\ parallel \in BOOLEAN

Init ==
  /\ talking = FALSE
  /\ pad = <<>>
  /\ calls = [s \in Slots |-> None]
  /\ ran = [g \in Sigs |-> 0] /\ outcomes = <<>> /\ parallel = FALSE

Resting == \A s \in Slots : calls[s] = None

Ask == ~talking /\ talking' = TRUE /\ UNCHANGED <<pad, calls, log>>

\* The model answers with text, which ends the turn, or with calls.
Answer == talking /\ Resting /\ talking' = FALSE /\ UNCHANGED <<pad, calls, log>>

CallTools ==
  /\ talking /\ Resting
  /\ \E chosen \in [Slots -> Args \cup {"none"}] :
       /\ \E s \in Slots : chosen[s] # "none"
       /\ calls' = [s \in Slots |->
            IF chosen[s] = "none" THEN None
            ELSE [arg |-> chosen[s], at |-> "before", empty |-> FALSE]]
       /\ parallel' = (parallel \/ \E s, t \in Slots : s # t /\ "none" \notin {chosen[s], chosen[t]})
  /\ UNCHANGED <<talking, pad, ran, outcomes>>

\* The empty outcomes at the end of the pad.
EmptyRun ==
  Cardinality({i \in DOMAIN pad : \A j \in i .. Len(pad) : pad[j].outcome = "empty"})

\* Mutant: the repetition is looked for in the last call only.
BrakesLastOnly(sig) ==
  \/ Len(pad) >= MaxCalls
  \/ pad # <<>> /\ Last(pad).sig = sig
  \/ EmptyRun >= MaxEmpty

\* The limit, a call already tried, and lookups that keep coming back empty.
Brakes(sig) ==
  \/ Len(pad) >= MaxCalls
  \/ \E i \in DOMAIN pad : pad[i].sig = sig
  \/ EmptyRun >= MaxEmpty

\* pad[-SCRATCHPAD_WINDOW:]
Newest(seq) == IF Len(seq) <= Window THEN seq ELSE SubSeq(seq, Len(seq) - Window + 1, Len(seq))

\* A brake answers instead of the tool: not an empty answer (no count, no error).
CycleBrake(s) ==
  LET sig == Signature(calls[s].arg) IN
  /\ calls[s].at = "before"
  /\ IF Brakes(sig)
     THEN calls' = [calls EXCEPT ![s].at = "after"] /\ UNCHANGED pad
     ELSE /\ calls' = [calls EXCEPT ![s].at = "tool"]
          /\ pad' = Newest(Append(pad, [sig |-> sig, outcome |-> "pending"]))
  /\ UNCHANGED <<talking, log>>

\* The tool's answer looks empty or not: an error, or a count of 0.
RunTool(s) ==
  /\ calls[s].at = "tool"
  /\ \E looksEmpty \in BOOLEAN :
       /\ calls' = [calls EXCEPT ![s].at = "after", ![s].empty = looksEmpty]
       /\ outcomes' = Append(outcomes, Outcome(looksEmpty))
  /\ ran' = [ran EXCEPT ![Signature(calls[s].arg)] = @ + 1]
  /\ UNCHANGED <<talking, pad, parallel>>

\* The last entry gets the outcome, if it has none, whichever call it stands for.
RecordOutcome(s) ==
  /\ calls[s].at = "after"
  /\ calls' = [calls EXCEPT ![s] = None]
  /\ pad' = IF pad # <<>> /\ Last(pad).outcome = "pending"
            THEN [pad EXCEPT ![Len(pad)].outcome = Outcome(calls[s].empty)]
            ELSE pad
  /\ UNCHANGED <<talking, log>>

Next ==
  \/ Ask \/ Answer \/ CallTools
  \/ \E s \in Slots : calls[s] # None /\ (CycleBrake(s) \/ RunTool(s) \/ RecordOutcome(s))

Spec == Init /\ [][Next]_vars

-----------------------------------------------------------------------------

(***************************************************************************)
(* What the brakes promise of a session.  Also when calls run at once and  *)
(* outcomes land on other calls' entries, no lookup is really made twice   *)
(* and no more than MaxCalls are made (cycle_brake); it takes Window >=    *)
(* MaxCalls.                                                               *)
(***************************************************************************)
NeverTwice == \A g \in Sigs : ran[g] <= 1

PadIsBounded == Len(pad) <= MaxCalls

(***************************************************************************)
(* No lookup is made after MaxEmpty in a row that really came back empty,  *)
(* over all questions of the session, if the model calls one tool at a     *)
(* time.  Calls made at once lose each other's outcomes (record_outcome    *)
(* writes to the last entry only), and more may be empty in a row.         *)
(***************************************************************************)
StopsOnEmpties ==
  ~parallel =>
    \A i \in 1 .. Len(outcomes) - MaxEmpty : \E j \in i .. i + MaxEmpty - 1 : outcomes[j] # "empty"

=============================================================================

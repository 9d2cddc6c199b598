------------------------------- MODULE RawLoop -------------------------------
(***************************************************************************)
(* The agent loop of chapter 2 written out by hand: ask the model, run the *)
(* tool it calls, append both to the history, ask again, up to max_steps   *)
(* times.  The history is all the model ever sees, and an API refuses one  *)
(* in which a call has no response.                                        *)
(***************************************************************************)
EXTENDS Naturals, Sequences

CONSTANTS
  Tools,    \* TOOLS
  Unknown,  \* a name the model makes up
  MaxSteps  \* max_steps

VARIABLES
  history,
  step,    \* how often the model was asked
  status,  \* "running", or how run_agent ended
  ran      \* history: how many tools were run

vars == <<history, step, status, ran>>

\* What one response may hold; only its first part is looked at.
Parts == {"text", Unknown} \cup Tools
Responses == {<<p>> : p \in Parts} \cup (Parts \X Parts)

TypeOK ==
  /\ \A i \in DOMAIN history : history[i].role \in {"user", "model"}
  /\ step \in 0 .. MaxSteps /\ ran \in 0 .. MaxSteps
  /\ status \in {"running", "answered", "raised", "limit"}

Init ==
  /\ history = <<[role |-> "user", parts |-> <<"text">>]>>
  /\ step = 0 /\ status = "running" /\ ran = 0

\* Mutant: the whole content is kept, with the calls nobody runs.
KeptWhole(response) == response

Kept(response) == <<response[1]>>

\* The response begins with a call: run the tool, append call and result.
CallTool(response) ==
  /\ response[1] \in Tools
  /\ history' = history \o <<[role |-> "model", parts |-> Kept(response)],
                             [role |-> "user", parts |-> <<response[1]>>]>>
  /\ ran' = ran + 1
  /\ UNCHANGED status

\* A name that is not in TOOLS, or a tool or the client raises: so does run_agent.
Raises(response) ==
  /\ response[1] # "text"
  /\ status' = "raised"
  /\ UNCHANGED <<history, ran>>

\* The response begins with text: a call after it is never looked at.
Answer(response) ==
  /\ response[1] = "text"
  /\ status' = "answered"
  /\ UNCHANGED <<history, ran>>

Generate ==
  /\ status = "running" /\ step < MaxSteps
  /\ step' = step + 1
  /\ \E response \in Responses : CallTool(response) \/ Raises(response) \/ Answer(response)

\* Whatever the last tool returned is not read any more.
GiveUp ==
  /\ status = "running" /\ step = MaxSteps
  /\ status' = "limit"
  /\ UNCHANGED <<history, step, ran>>

Next == Generate \/ GiveUp

Spec == Init /\ [][Next]_vars

-----------------------------------------------------------------------------

(***************************************************************************)
(* Every history sent to the model is well formed, whatever it called at   *)
(* once: each call in it is followed by its response, and by nothing else. *)
(***************************************************************************)
EveryCallAnswered ==
  \A i \in DOMAIN history : history[i].role = "model" =>
    i < Len(history) /\ history[i + 1].role = "user"
    /\ history[i + 1].parts = history[i].parts

(***************************************************************************)
(* The loop gives up only after MaxSteps tools really ran.                 *)
(***************************************************************************)
LimitIsReal == status = "limit" => ran = MaxSteps /\ Len(history) = 2 * MaxSteps + 1

=============================================================================

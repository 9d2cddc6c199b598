---------------------------- MODULE EvaluatorLoop ----------------------------
(***************************************************************************)
(* The evaluator-optimizer of chapter 5, stage 3: generator, critic and    *)
(* exit_check in a loop, over the requests of one session.  Its state is   *)
(* the session's: the draft, the verdict, the feedback and the rounds.     *)
(***************************************************************************)
EXTENDS Naturals

CONSTANTS MaxRounds, MaxRequests

VARIABLES
  node,      \* the node about to run, or "idle"
  request,   \* requests so far
  draft,     \* draft_message: of which request and round, as generated
  verdict,   \* critic_verdict: PASS or FAIL, and on which draft
  feedback,  \* critic_feedback: the draft it is about, or Nothing
  rounds,    \* rounds, of the session
  broke      \* history: the last request ended in an error

vars == <<node, request, draft, verdict, feedback, rounds, broke>>

Nothing == <<0, 0>>
Drafts == (0 .. MaxRequests) \X (0 .. MaxRounds)

TypeOK ==
  /\ node \in {"idle", "message_generator", "message_critic", "exit_check", "finalize"}
  /\ request \in 0 .. MaxRequests /\ draft \in Drafts /\ feedback \in Drafts
  /\ verdict \in [pass : BOOLEAN, on : Drafts]
  /\ rounds \in 0 .. MaxRounds + MaxRequests - 1 /\ broke \in BOOLEAN

Init ==
  /\ node = "idle" /\ request = 0 /\ rounds = 0 /\ broke = FALSE
  /\ draft = Nothing /\ feedback = Nothing
  /\ verdict = [pass |-> FALSE, on |-> Nothing]

Ask ==
  /\ node = "idle" /\ request < MaxRequests
  /\ request' = request + 1
  /\ node' = "message_generator"
  /\ UNCHANGED <<draft, verdict, feedback, rounds, broke>>

\* The generator reads the feedback and overwrites the draft.
Generate ==
  /\ node = "message_generator"
  /\ draft' = <<request, IF draft[1] = request THEN draft[2] + 1 ELSE 1>>
  /\ node' = "message_critic"
  /\ UNCHANGED <<request, verdict, feedback, rounds, broke>>

Criticise ==
  /\ node = "message_critic"
  /\ \E pass \in BOOLEAN : verdict' = [pass |-> pass, on |-> draft]
  /\ node' = "exit_check"
  /\ UNCHANGED <<request, draft, feedback, rounds, broke>>

\* Mutant: the last round leaves its feedback behind.
ExitCheckKeeps ==
  /\ node = "exit_check"
  /\ rounds' = rounds + 1
  /\ IF verdict.pass \/ rounds' >= MaxRounds
     THEN feedback' = (IF verdict.pass THEN Nothing ELSE verdict.on) /\ node' = "finalize"
     ELSE feedback' = verdict.on /\ node' = "message_generator"
  /\ UNCHANGED <<request, draft, verdict, broke>>

ExitCheck ==
  /\ node = "exit_check"
  /\ rounds' = rounds + 1
  /\ IF verdict.pass \/ rounds' >= MaxRounds
     THEN feedback' = Nothing /\ node' = "finalize"
     ELSE feedback' = verdict.on /\ node' = "message_generator"
  /\ UNCHANGED <<request, draft, verdict, broke>>

Finalize ==
  /\ node = "finalize"
  /\ node' = "idle"
  /\ broke' = FALSE
  /\ UNCHANGED <<request, draft, verdict, feedback, rounds>>

\* A model node raises and the run ends; the session state stays as it is.
NodeFails ==
  /\ node \in {"message_generator", "message_critic"}
  /\ node' = "idle"
  /\ broke' = TRUE
  /\ UNCHANGED <<request, draft, verdict, feedback, rounds>>

Next == Ask \/ Generate \/ Criticise \/ ExitCheck \/ Finalize \/ NodeFails

Spec == Init /\ [][Next]_vars

-----------------------------------------------------------------------------

(***************************************************************************)
(* "If the field below has feedback from a previous round": the generator  *)
(* is given the critic's words on its last draft for this request, or none *)
(* on the first; unless the request before ended in an error, whose        *)
(* feedback the session still holds.                                       *)
(***************************************************************************)
FreshFeedback ==
  node = "message_generator" /\ ~broke =>
    feedback = IF draft[1] = request THEN draft ELSE Nothing

(***************************************************************************)
(* What finalize emits was accepted by the critic, or the session's rounds *)
(* are used up: "emit the accepted message" holds until then.              *)
(***************************************************************************)
EmittedWasJudged ==
  node = "finalize" => verdict.on = draft /\ (verdict.pass \/ rounds >= MaxRounds)

=============================================================================

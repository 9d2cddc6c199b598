----------------------------- MODULE AgentsProofs -----------------------------
(***************************************************************************)
(* The agents of chapters 2 to 9, for all values of their constants.  Each *)
(* has an inductive invariant of its own; that the composition behaves as  *)
(* each of them, which moves alone or stands still, carries it over.       *)
(***************************************************************************)
EXTENDS Agents, ReactBrakesProofs

allVars ==
  <<app, vars, handoffVars, loopVars, supervisorVars, memoryVars, graphVars, rawVars>>

-----------------------------------------------------------------------------
(* The composition steps as each of its agents, or leaves it alone. *)

LEMMA Limits ==
  /\ MaxHandoffs \in Nat /\ MaxRequests \in Nat
  /\ MaxEdits \in Nat /\ MaxSteps \in Nat /\ MaxRounds \in Nat /\ MaxRounds > 0
BY LimitsAssumption

LEMMA NothingMapped == DOMAIN <<>> = {}
OBVIOUS

LEMMA StepsOfBrakes == AppSpec => Spec
<1>1. AppInit => Init
  BY DEF AppInit
<1>2. [AppNext]_allVars => [Next]_vars
  BY DEF AppNext, allVars
<1> QED
  BY <1>1, <1>2, PTL DEF AppSpec, Spec, allVars

LEMMA StepsOfCoordinator == AppSpec => Coordinator!Spec
<1>1. AppInit => Coordinator!Init
  BY DEF AppInit
<1>2. [AppNext]_allVars => [Coordinator!Next]_Coordinator!vars
  BY DEF AppNext, allVars, handoffVars, Coordinator!vars
<1> QED
  BY <1>1, <1>2, PTL DEF AppSpec, Coordinator!Spec, allVars

LEMMA StepsOfEvaluator == AppSpec => Evaluator!Spec
<1>1. AppInit => Evaluator!Init
  BY DEF AppInit
<1>2. [AppNext]_allVars => [Evaluator!Next]_Evaluator!vars
  BY DEF AppNext, allVars, loopVars, Evaluator!vars
<1> QED
  BY <1>1, <1>2, PTL DEF AppSpec, Evaluator!Spec, allVars

LEMMA StepsOfLoop == AppSpec => Loop!Spec
<1>1. AppInit => Loop!Init
  BY DEF AppInit
<1>2. [AppNext]_allVars => [Loop!Next]_Loop!vars
  BY DEF AppNext, allVars, rawVars, Loop!vars
<1> QED
  BY <1>1, <1>2, PTL DEF AppSpec, Loop!Spec, allVars

LEMMA StepsOfOrchestrator == AppSpec => Orchestrator!Spec
<1>1. AppInit => Orchestrator!Init
  BY DEF AppInit
<1>2. [AppNext]_allVars => [Orchestrator!Next]_Orchestrator!vars
  BY DEF AppNext, allVars, supervisorVars, Orchestrator!vars
<1> QED
  BY <1>1, <1>2, PTL DEF AppSpec, Orchestrator!Spec, allVars

LEMMA StepsOfMemory == AppSpec => Memory!Spec
<1>1. AppInit => Memory!Init
  BY DEF AppInit
<1>2. [AppNext]_allVars => [Memory!Next]_Memory!vars
  BY DEF AppNext, allVars, memoryVars, Memory!vars
<1> QED
  BY <1>1, <1>2, PTL DEF AppSpec, Memory!Spec, allVars

LEMMA StepsOfShop == AppSpec => Shop!Spec
<1>1. AppInit => Shop!Init
  BY DEF AppInit
<1>2. [AppNext]_allVars => [Shop!Next]_Shop!vars
  BY DEF AppNext, allVars, graphVars, Shop!vars, Shop!scripts
<1> QED
  BY <1>1, <1>2, PTL DEF AppSpec, Shop!Spec, allVars

-----------------------------------------------------------------------------
(* ReactBrakes *)

(***************************************************************************)
(* Whatever the models call, at once too, no lookup is made twice and no   *)
(* more than the limit are made; and as long as a session calls one tool   *)
(* at a time, none is made after MaxEmpty that really came back empty      *)
(* (cycle_brake).                                                          *)
(***************************************************************************)
THEOREM BrakesAlwaysHold == AppSpec => []BrakesHold
<1>1. TypeOK /\ NeverTwice /\ PadIsBounded /\ StopsOnEmpties => BrakesHold
  BY DEF BrakesHold
<1> QED
  BY <1>1, StepsOfBrakes, BrakesAreKept, PTL

-----------------------------------------------------------------------------
(* Handoff *)

Bound == INSTANCE HandoffProofs

LEMMA HandoffTyped == Coordinator!Spec => []Coordinator!TypeOK
<1> USE DEF Coordinator!Specialists, Coordinator!Desk
<1> DEFINE Numbers == /\ agent \in {"shopping_specialist", "returns_specialist", "shopping_desk"}
                      /\ counted \in 0 .. MaxHandoffs /\ transfers \in Nat
           Said == speaking \in BOOLEAN
<1>1. Coordinator!Init => Numbers
  BY Limits DEF Coordinator!Init
<1>2. Coordinator!Init => Said
  BY Zenon DEF Coordinator!Init
<1>3. Numbers /\ [Coordinator!Next]_Coordinator!vars => Numbers'
  BY Limits
  DEF Coordinator!Next, Coordinator!Message, Coordinator!Reply, Coordinator!Route,
      Coordinator!HandOff, Coordinator!Transfer, Coordinator!vars
<1>4. Said /\ [Coordinator!Next]_Coordinator!vars => Said'
  BY Zenon
  DEF Coordinator!Next, Coordinator!Message, Coordinator!Reply, Coordinator!Route,
      Coordinator!HandOff, Coordinator!Transfer, Coordinator!vars
<1>5. Coordinator!TypeOK <=> Numbers /\ Said
  BY DEF Coordinator!TypeOK
<1> HIDE DEF Numbers, Said
<1> QED
  BY <1>1, <1>2, <1>3, <1>4, <1>5, PTL DEF Coordinator!Spec

(***************************************************************************)
(* handoff_counter caps a session's transfers although the coordinator's   *)
(* own are not counted.                                                    *)
(***************************************************************************)
THEOREM TransfersAlwaysBounded == AppSpec => []TransfersBounded
<1>1. Bound!Spec => []Bound!TransfersBounded
  <2>1. MaxHandoffs \in Nat
    BY Limits
  <2> QED
    BY <2>1, Bound!HandoffBounded
<1>2. Coordinator!Init => Bound!Init
  BY DEF Coordinator!Init, Bound!Init, Coordinator!Desk, Bound!Desk
<1>3. [Coordinator!Next]_Coordinator!vars => [Bound!Next]_Bound!vars
  BY DEF Coordinator!Next, Coordinator!Message, Coordinator!Reply, Coordinator!Route,
         Coordinator!HandOff, Coordinator!Transfer, Coordinator!vars,
         Coordinator!Specialists, Coordinator!Desk,
         Bound!Next, Bound!Message, Bound!Reply, Bound!Route,
         Bound!HandOff, Bound!Transfer, Bound!vars, Bound!Specialists, Bound!Desk
<1>4. Bound!TransfersBounded => TransfersBounded
  BY DEF TransfersBounded, Bound!TransfersBounded, Coordinator!TransfersBounded
<1> QED
  BY <1>1, <1>2, <1>3, <1>4, StepsOfCoordinator, PTL DEF Coordinator!Spec, Bound!Spec

-----------------------------------------------------------------------------
(* EvaluatorLoop *)

(***************************************************************************)
(* While a request is worked on there is a round left for it, or the       *)
(* session's are used up and it is the request's only one; a draft is of   *)
(* at most as many rounds as the session has run, until exit_check.        *)
(***************************************************************************)
RoundsAdd ==
  /\ loopRequest \in 0 .. MaxRequests /\ rounds \in Nat
  /\ IF loopNode \in {"idle", "finalize"}
     THEN rounds <= MaxRounds + loopRequest - 1
     ELSE loopRequest > 0 /\ rounds <= MaxRounds + loopRequest - 2
  /\ draft \in (0 .. loopRequest) \X (0 .. MaxRounds)
  /\ loopNode = "message_generator" /\ draft[1] = loopRequest =>
       draft[2] <= rounds /\ rounds < MaxRounds
  /\ loopNode \in {"message_critic", "exit_check"} =>
       draft[1] = loopRequest /\ draft[2] <= rounds + 1

(* What exit_check and finalize judge is the draft, and no feedback outlives
   the request it was given on, unless that ended in an error. *)
Judged ==
  /\ loopNode \in {"exit_check", "finalize"} => verdict.on = draft
  /\ loopNode = "finalize" => verdict.pass \/ rounds >= MaxRounds
  /\ loopNode = "finalize" \/ (loopNode = "idle" /\ ~broke) => feedback = Evaluator!Nothing
  /\ Evaluator!FreshFeedback

EvaluatorInv ==
  /\ loopNode \in {"idle", "message_generator", "message_critic", "exit_check", "finalize"}
  /\ verdict \in [pass : BOOLEAN, on : Evaluator!Drafts]
  /\ feedback \in Evaluator!Drafts /\ broke \in BOOLEAN
  /\ RoundsAdd /\ Judged

LEMMA EvaluatorNext ==
  EvaluatorInv /\ [Evaluator!Next]_Evaluator!vars => EvaluatorInv'
<1> SUFFICES ASSUME EvaluatorInv, [Evaluator!Next]_Evaluator!vars PROVE EvaluatorInv'
  OBVIOUS
<1> USE Limits DEF EvaluatorInv, RoundsAdd, Judged, Evaluator!FreshFeedback,
          Evaluator!Nothing, Evaluator!Drafts
<1>1. CASE Evaluator!Ask
  BY <1>1 DEF Evaluator!Ask
<1>2. CASE Evaluator!Generate
  BY <1>2 DEF Evaluator!Generate
<1>3. CASE Evaluator!Criticise
  BY <1>3 DEF Evaluator!Criticise
<1>4. CASE Evaluator!ExitCheck
  BY <1>4 DEF Evaluator!ExitCheck
<1>5. CASE Evaluator!Finalize
  BY <1>5 DEF Evaluator!Finalize
<1>6. CASE Evaluator!NodeFails
  BY <1>6 DEF Evaluator!NodeFails
<1>7. CASE UNCHANGED Evaluator!vars
  BY <1>7 DEF Evaluator!vars
<1> QED
  BY <1>1, <1>2, <1>3, <1>4, <1>5, <1>6, <1>7 DEF Evaluator!Next

LEMMA EvaluatorKept ==
  Evaluator!Spec => [](Evaluator!TypeOK /\ Evaluator!FreshFeedback /\ Evaluator!EmittedWasJudged)
<1>1. Evaluator!Init => EvaluatorInv
  <2> SUFFICES ASSUME Evaluator!Init PROVE EvaluatorInv
    OBVIOUS
  <2>1. broke \in BOOLEAN /\ verdict = [pass |-> FALSE, on |-> Evaluator!Nothing]
    BY Zenon DEF Evaluator!Init
  <2>2. Evaluator!Nothing \in Evaluator!Drafts
    BY Limits DEF Evaluator!Nothing, Evaluator!Drafts
  <2>3. RoundsAdd
    BY Limits DEF Evaluator!Init, RoundsAdd, Evaluator!Nothing
  <2>4. Judged
    BY DEF Evaluator!Init, Judged, Evaluator!FreshFeedback
  <2> QED
    BY <2>1, <2>2, <2>3, <2>4 DEF Evaluator!Init, EvaluatorInv
<1>2. EvaluatorInv => Evaluator!TypeOK /\ Evaluator!FreshFeedback /\ Evaluator!EmittedWasJudged
  <2> SUFFICES ASSUME EvaluatorInv PROVE Evaluator!TypeOK /\ Evaluator!EmittedWasJudged
    BY DEF EvaluatorInv, Judged
  <2>1. rounds \in 0 .. MaxRounds + MaxRequests - 1
    BY Limits DEF EvaluatorInv, RoundsAdd
  <2>2. draft \in Evaluator!Drafts /\ loopRequest \in 0 .. MaxRequests
    BY Limits DEF EvaluatorInv, RoundsAdd, Evaluator!Drafts
  <2> QED
    BY <2>1, <2>2 DEF EvaluatorInv, Judged, Evaluator!TypeOK, Evaluator!EmittedWasJudged
<1> QED
  BY <1>1, <1>2, EvaluatorNext, PTL DEF Evaluator!Spec

(***************************************************************************)
(* The generator reads what the critic said of its own last draft, and     *)
(* what finalize emits was accepted or is the session's last, for every    *)
(* number of rounds and requests.                                          *)
(***************************************************************************)
THEOREM LoopsAlwaysSound == AppSpec => []LoopsAreSound
<1>1. Evaluator!TypeOK /\ Evaluator!FreshFeedback /\ Evaluator!EmittedWasJudged => LoopsAreSound
  BY DEF LoopsAreSound
<1> QED
  BY <1>1, StepsOfEvaluator, EvaluatorKept, PTL

-----------------------------------------------------------------------------
(* RawLoop *)

Messages == [role : {"user", "model"}, parts : Seq(Loop!Parts)]

(***************************************************************************)
(* Every tool that ran has left a call and its response, and as long as    *)
(* the loop runs the model has asked for a tool each time it was asked.    *)
(***************************************************************************)
RawInv ==
  /\ messages \in Seq(Messages) /\ Len(messages) = 2 * rawRan + 1
  /\ rawRan \in Nat /\ step \in 0 .. MaxSteps /\ rawRan <= step
  /\ status \in {"running", "answered", "raised", "limit"}
  /\ status \in {"running", "limit"} => rawRan = step
  /\ status = "limit" => step = MaxSteps
  /\ Loop!EveryCallAnswered

LEMMA RawCallKeeps ==
  ASSUME RawInv, NEW response, Loop!CallTool(response)
  PROVE  /\ messages' \in Seq(Messages) /\ Len(messages') = 2 * rawRan' + 1
         /\ Loop!EveryCallAnswered'
<1> DEFINE call == [role |-> "model", parts |-> <<response[1]>>]
           result == [role |-> "user", parts |-> <<response[1]>>]
<1>1. /\ messages \in Seq(Messages) /\ Len(messages) \in Nat
      /\ rawRan \in Nat /\ Len(messages) = 2 * rawRan + 1
      /\ DOMAIN messages = 1 .. Len(messages)
  BY DEF RawInv
<1>2. call \in Messages /\ result \in Messages
  <2>1. <<response[1]>> \in Seq(Loop!Parts)
    BY DEF Loop!CallTool, Loop!Parts
  <2> QED
    BY <2>1 DEF Messages
<1>3. call.role = "model" /\ result.role = "user" /\ call.parts = result.parts
  OBVIOUS
<1>4. messages' = messages \o <<call, result>> /\ rawRan' = rawRan + 1
  BY DEF Loop!CallTool, Loop!Kept
<1> HIDE DEF call, result
<1>5. /\ messages' \in Seq(Messages) /\ Len(messages') = Len(messages) + 2
      /\ \A i \in 1 .. Len(messages) : messages'[i] = messages[i]
      /\ messages'[Len(messages) + 1] = call /\ messages'[Len(messages) + 2] = result
  BY <1>1, <1>2, <1>4
<1>6. DOMAIN messages' = 1 .. Len(messages) + 2
  BY <1>5
<1>7. ASSUME NEW i \in DOMAIN messages', messages'[i].role = "model"
      PROVE  /\ i < Len(messages') /\ messages'[i + 1].role = "user"
             /\ messages'[i + 1].parts = messages'[i].parts
  <2>1. CASE i \in 1 .. Len(messages)
    <3>1. i < Len(messages) /\ messages[i + 1].role = "user"
          /\ messages[i + 1].parts = messages[i].parts
      BY <1>1, <1>5, <1>7, <2>1 DEF RawInv, Loop!EveryCallAnswered
    <3>2. i + 1 \in 1 .. Len(messages)
      BY <1>1, <2>1, <3>1
    <3> QED
      BY <1>1, <1>5, <2>1, <3>1, <3>2
  <2>2. CASE i = Len(messages) + 1
    <3>1. i + 1 = Len(messages) + 2
      BY <1>1, <2>2
    <3> QED
      BY <1>1, <1>3, <1>5, <2>2, <3>1
  <2>3. CASE i = Len(messages) + 2
    BY <1>3, <1>5, <1>7, <2>3
  <2> QED
    BY <1>1, <1>6, <2>1, <2>2, <2>3
<1>8. Loop!EveryCallAnswered'
  BY <1>7 DEF Loop!EveryCallAnswered
<1> QED
  BY <1>1, <1>4, <1>5, <1>8

LEMMA RawNext == RawInv /\ [Loop!Next]_Loop!vars => RawInv'
<1> SUFFICES ASSUME RawInv, [Loop!Next]_Loop!vars PROVE RawInv'
  OBVIOUS
<1>1. ASSUME NEW response, Loop!Generate, Loop!CallTool(response) PROVE RawInv'
  <2>1. /\ messages' \in Seq(Messages) /\ Len(messages') = 2 * rawRan' + 1
        /\ Loop!EveryCallAnswered'
    BY <1>1, RawCallKeeps
  <2> QED
    BY <1>1, <2>1, Limits DEF Loop!Generate, Loop!CallTool, RawInv
<1>2. ASSUME NEW response, Loop!Generate, Loop!Raises(response) \/ Loop!Answer(response)
      PROVE  RawInv'
  <2>1. /\ status = "running" /\ step < MaxSteps /\ step' = step + 1
        /\ status' \in {"answered", "raised"}
        /\ UNCHANGED <<messages, rawRan>>
    BY <1>2 DEF Loop!Generate, Loop!Raises, Loop!Answer
  <2>2. step' \in 0 .. MaxSteps /\ rawRan' <= step'
    BY <2>1, Limits DEF RawInv
  <2>3. Loop!EveryCallAnswered'
    BY <2>1 DEF RawInv, Loop!EveryCallAnswered
  <2> QED
    BY <2>1, <2>2, <2>3 DEF RawInv
<1>3. CASE Loop!GiveUp
  BY <1>3, Limits DEF Loop!GiveUp, RawInv, Loop!EveryCallAnswered
<1>4. CASE UNCHANGED Loop!vars
  BY <1>4 DEF Loop!vars, RawInv, Loop!EveryCallAnswered
<1>5. CASE Loop!Generate
  <2>1. PICK response \in Loop!Responses :
          Loop!CallTool(response) \/ Loop!Raises(response) \/ Loop!Answer(response)
    BY <1>5 DEF Loop!Generate
  <2> QED
    BY <1>1, <1>2, <1>5, <2>1
<1> QED
  BY <1>3, <1>4, <1>5 DEF Loop!Next

LEMMA RawKept == Loop!Spec => [](Loop!TypeOK /\ Loop!EveryCallAnswered /\ Loop!LimitIsReal)
<1>1. Loop!Init => RawInv
  <2> SUFFICES ASSUME Loop!Init PROVE RawInv
    OBVIOUS
  <2> DEFINE first == [role |-> "user", parts |-> <<"text">>]
  <2>1. messages = <<first>>
    BY DEF Loop!Init
  <2>2. first \in Messages
    <3>1. <<"text">> \in Seq(Loop!Parts)
      BY DEF Loop!Parts
    <3> QED
      BY <3>1 DEF Messages
  <2>3. first.role = "user"
    OBVIOUS
  <2> HIDE DEF first
  <2>4. messages \in Seq(Messages) /\ Len(messages) = 1 /\ messages[1] = first
    BY <2>1, <2>2
  <2>5. Loop!EveryCallAnswered
    BY <2>3, <2>4 DEF Loop!EveryCallAnswered
  <2> QED
    BY <2>4, <2>5, Limits DEF Loop!Init, RawInv
<1>2. RawInv => Loop!TypeOK /\ Loop!EveryCallAnswered /\ Loop!LimitIsReal
  <2> SUFFICES ASSUME RawInv PROVE Loop!TypeOK /\ Loop!LimitIsReal
    BY DEF RawInv
  <2>1. \A i \in DOMAIN messages : messages[i].role \in {"user", "model"}
    <3>1. \A i \in DOMAIN messages : messages[i] \in Messages
      BY DEF RawInv
    <3> QED
      BY <3>1 DEF Messages
  <2> QED
    BY <2>1, Limits DEF RawInv, Loop!TypeOK, Loop!LimitIsReal
<1> QED
  BY <1>1, <1>2, RawNext, PTL DEF Loop!Spec

(***************************************************************************)
(* Whatever the model calls at once, every call in the history it is shown *)
(* is followed by its response, and the loop gives up only after max_steps *)
(* tools ran.                                                              *)
(***************************************************************************)
THEOREM CallsAlwaysAnswered == AppSpec => []CallsAnswered
<1>1. Loop!TypeOK /\ Loop!EveryCallAnswered /\ Loop!LimitIsReal => CallsAnswered
  BY DEF CallsAnswered
<1> QED
  BY <1>1, StepsOfLoop, RawKept, PTL

-----------------------------------------------------------------------------
(* Supervisor *)

(***************************************************************************)
(* Nobody works but in "workers", and a run starts with no answer of the   *)
(* one before, however that ended.                                         *)
(***************************************************************************)
OrchestratorInv ==
  /\ Orchestrator!TypeOK
  /\ node \in {"idle", "planner", "dispatch", "silent"} => DOMAIN answers = {}
  /\ node # "workers" => working = {}
  /\ Orchestrator!EstimatesAgree

(* The shop and the service have the same rule, each of its own. *)
LEMMA RulesAgree ==
  \A zip : Orchestrator!FetchEstimate(zip) = Orchestrator!EstimateShipping(zip)
BY DEF Orchestrator!FetchEstimate, Orchestrator!EstimateShipping

LEMMA EstimateIsRight ==
  ASSUME remote => Orchestrator!AsOnCard(request)
  PROVE  Orchestrator!WorkerAnswer("shipping_estimator")
           = Orchestrator!EstimateShipping(ZipIn[request])
<1>1. CASE remote
  <2>1. Len(request) > 1 /\ request[2] = ZipIn[request]
    BY <1>1 DEF Orchestrator!AsOnCard
  <2>2. Orchestrator!Execute(request) = Orchestrator!FetchEstimate(ZipIn[request])
    BY <2>1 DEF Orchestrator!Execute
  <2> QED
    BY <1>1, <2>2, RulesAgree DEF Orchestrator!WorkerAnswer
<1>2. CASE ~remote
  BY <1>2 DEF Orchestrator!WorkerAnswer
<1> QED
  BY <1>1, <1>2

LEMMA WorkKeeps ==
  ASSUME OrchestratorInv, NEW w \in Orchestrator!Specialists, Orchestrator!Work(w)
  PROVE  OrchestratorInv'
<1>1. node = "workers" /\ w \in working /\ working' = working \ {w}
  BY DEF Orchestrator!Work, OrchestratorInv
<1>2. UNCHANGED <<remote, request, plan>>
  BY DEF Orchestrator!Work
<1>3. /\ answers' = [v \in DOMAIN answers \cup {w} |->
                       IF v = w THEN Orchestrator!WorkerAnswer(w) ELSE answers[v]]
      /\ node' = IF working = {w} THEN "synthesizer" ELSE node
  BY DEF Orchestrator!Work
<1>4. DOMAIN answers' = DOMAIN answers \cup {w}
  BY <1>3
<1>5. Orchestrator!TypeOK'
  BY <1>1, <1>2, <1>3, <1>4 DEF OrchestratorInv, Orchestrator!TypeOK
<1>6. \/ node' = "synthesizer" /\ working' = {}
      \/ node' = "workers"
  BY <1>1, <1>3
<1>7. Orchestrator!EstimatesAgree'
  <2> SUFFICES ASSUME "shipping_estimator" \in DOMAIN answers',
                      remote => Orchestrator!AsOnCard(request)
               PROVE  answers'["shipping_estimator"]
                        = Orchestrator!EstimateShipping(ZipIn[request])
    BY <1>2 DEF Orchestrator!EstimatesAgree, Orchestrator!EstimateShipping,
                Orchestrator!AsOnCard
  <2>1. CASE w = "shipping_estimator"
    BY <1>3, <2>1, EstimateIsRight
  <2>2. CASE w # "shipping_estimator"
    BY <1>3, <1>4, <2>2 DEF OrchestratorInv, Orchestrator!EstimatesAgree
  <2> QED
    BY <2>1, <2>2
<1> QED
  BY <1>1, <1>5, <1>6, <1>7 DEF OrchestratorInv

LEMMA OrchestratorNext ==
  OrchestratorInv /\ [Orchestrator!Next]_Orchestrator!vars => OrchestratorInv'
<1> SUFFICES ASSUME OrchestratorInv, [Orchestrator!Next]_Orchestrator!vars
             PROVE  OrchestratorInv'
  OBVIOUS
<1>1. ASSUME DOMAIN answers' = {} PROVE Orchestrator!EstimatesAgree'
  BY <1>1 DEF Orchestrator!EstimatesAgree
<1>2. CASE Orchestrator!Ask
  <2>1. DOMAIN answers' = {}
    BY <1>2, NothingMapped DEF Orchestrator!Ask
  <2> QED
    BY <1>1, <1>2, <2>1 DEF Orchestrator!Ask, OrchestratorInv, Orchestrator!TypeOK
<1>3. CASE Orchestrator!Synthesize
  <2>1. DOMAIN answers' = {}
    BY <1>3, NothingMapped DEF Orchestrator!Synthesize
  <2> QED
    BY <1>1, <1>3, <2>1 DEF Orchestrator!Synthesize, OrchestratorInv, Orchestrator!TypeOK
<1>4. CASE Orchestrator!Planner
  BY <1>1, <1>4 DEF Orchestrator!Planner, OrchestratorInv, Orchestrator!TypeOK
<1>5. CASE Orchestrator!Dispatch
  BY <1>1, <1>5
  DEF Orchestrator!Dispatch, Orchestrator!Chosen, OrchestratorInv, Orchestrator!TypeOK
<1> USE DEF OrchestratorInv, Orchestrator!TypeOK, Orchestrator!EstimatesAgree,
            Orchestrator!EstimateShipping, Orchestrator!AsOnCard
<1>6. CASE Orchestrator!NodeFails
  BY <1>6 DEF Orchestrator!NodeFails
<1>7. CASE UNCHANGED Orchestrator!vars
  BY <1>7 DEF Orchestrator!vars
<1> HIDE DEF OrchestratorInv
<1>8. ASSUME NEW w \in Orchestrator!Specialists, Orchestrator!Work(w) PROVE OrchestratorInv'
  BY <1>8, WorkKeeps
<1> QED
  BY <1>2, <1>3, <1>4, <1>5, <1>6, <1>7, <1>8 DEF Orchestrator!Next

LEMMA OrchestratorKept ==
  Orchestrator!Spec => [](Orchestrator!TypeOK /\ Orchestrator!EstimatesAgree)
<1>1. Orchestrator!Init => OrchestratorInv
  BY NothingMapped
  DEF Orchestrator!Init, OrchestratorInv, Orchestrator!TypeOK, Orchestrator!EstimatesAgree
<1>2. OrchestratorInv => Orchestrator!TypeOK /\ Orchestrator!EstimatesAgree
  BY DEF OrchestratorInv
<1> QED
  BY <1>1, <1>2, OrchestratorNext, PTL DEF Orchestrator!Spec

(***************************************************************************)
(* Whatever was planned, failed or asked before, and whoever makes it, the *)
(* estimate the synthesizer gets is the shop's own for the customer's zip  *)
(* code, if the service, when it makes it, was asked in its card's form.   *)
(***************************************************************************)
THEOREM EstimatesAlwaysAgree == AppSpec => []EstimatesAgree
<1>1. Orchestrator!EstimatesAgree => EstimatesAgree
  BY DEF EstimatesAgree
<1> QED
  BY <1>1, StepsOfOrchestrator, OrchestratorKept, PTL

-----------------------------------------------------------------------------
(* MemoryTools *)

(* A fact is under the id of the session that stated it, and a session has found
   only facts that are under its own. *)
MemoryInv ==
  /\ Memory!TypeOK
  /\ \A m \in store : m.user = Memory!UserId(m.fact)
  /\ \A s \in Sessions : \A fact \in found[s] : Memory!UserId(fact) = Memory!UserId(s)

LEMMA MemoryNext == MemoryInv /\ [Memory!Next]_Memory!vars => MemoryInv'
<1> SUFFICES ASSUME MemoryInv, [Memory!Next]_Memory!vars PROVE MemoryInv'
  OBVIOUS
<1>1. ASSUME NEW s \in Sessions, Memory!SaveMemory(s) PROVE MemoryInv'
  <2> DEFINE memory == [user |-> Memory!UserId(s), fact |-> s]
  <2>1. /\ memory \in [user : {UserOf[t] : t \in Sessions} \cup {Memory!Default}, fact : Sessions]
        /\ memory.user = Memory!UserId(memory.fact)
    BY DEF Memory!UserId
  <2>2. UNCHANGED found /\ store' \in {store, store \cup {memory}}
    BY <1>1 DEF Memory!SaveMemory
  <2> HIDE DEF memory
  <2>3. \A m \in store' : m \in store \/ m = memory
    BY <2>2
  <2> QED
    BY <2>1, <2>2, <2>3 DEF MemoryInv, Memory!TypeOK
<1>2. ASSUME NEW s \in Sessions, Memory!SearchMemory(s) PROVE MemoryInv'
  <2>1. PICK r \in SUBSET {m \in store : m.user = Memory!UserId(s)} :
          found' = [found EXCEPT ![s] = {m.fact : m \in r}]
    BY <1>2 DEF Memory!SearchMemory
  <2>2. UNCHANGED store
    BY <1>2 DEF Memory!SearchMemory
  <2>3. \A m \in r : m.fact \in Sessions /\ Memory!UserId(m.fact) = Memory!UserId(s)
    BY <2>1 DEF MemoryInv, Memory!TypeOK
  <2> DEFINE facts == {m.fact : m \in r}
  <2>4. facts \subseteq Sessions /\ \A fact \in facts : Memory!UserId(fact) = Memory!UserId(s)
    BY <2>3
  <2>5. found' = [found EXCEPT ![s] = facts]
    BY <2>1
  <2> HIDE DEF facts
  <2>6. /\ found' \in [Sessions -> SUBSET Sessions]
        /\ \A t \in Sessions : found'[t] = IF t = s THEN facts ELSE found[t]
    BY <2>4, <2>5 DEF MemoryInv, Memory!TypeOK
  <2> QED
    BY <2>2, <2>4, <2>6 DEF MemoryInv, Memory!TypeOK
<1>3. CASE UNCHANGED Memory!vars
  BY <1>3 DEF Memory!vars, MemoryInv, Memory!TypeOK
<1> QED
  BY <1>1, <1>2, <1>3 DEF Memory!Next

LEMMA MemoryKept == Memory!Spec => [](Memory!TypeOK /\ Memory!FactsStayPrivate)
<1>1. Memory!Init => MemoryInv
  BY DEF Memory!Init, MemoryInv, Memory!TypeOK
<1>2. MemoryInv => Memory!TypeOK /\ Memory!FactsStayPrivate
  <2> SUFFICES ASSUME MemoryInv, NEW s \in Sessions, NEW fact \in found[s],
                      ~(UserOf[fact] = NoUser /\ UserOf[s] = NoUser)
               PROVE  CustomerOf[fact] = CustomerOf[s]
    BY DEF MemoryInv, Memory!FactsStayPrivate
  <2>1. fact \in Sessions /\ Memory!UserId(fact) = Memory!UserId(s)
    BY DEF MemoryInv, Memory!TypeOK
  <2>2. UserOf[fact] = UserOf[s] /\ UserOf[s] # NoUser
    BY <2>1, UsersAssumption DEF Memory!UserId, Memory!Default
  <2> QED
    BY <2>1, <2>2, UsersAssumption
<1> QED
  BY <1>1, <1>2, MemoryNext, PTL DEF Memory!Spec

(***************************************************************************)
(* In however many sessions, nobody finds what another customer has        *)
(* stated, except where neither's session has a user_id: then both are the *)
(* default user.  A user_id must be one customer's, and not that one.      *)
(***************************************************************************)
THEOREM FactsAlwaysPrivate == AppSpec => []FactsStayPrivate
<1>1. Memory!TypeOK /\ Memory!FactsStayPrivate => FactsStayPrivate
  BY DEF FactsStayPrivate
<1> QED
  BY <1>1, StepsOfMemory, MemoryKept, PTL

-----------------------------------------------------------------------------
(* ProductGraph *)

Cats == [Products -> [ingredients : SUBSET Ingredients, text : 0 .. MaxEdits]]

Seeds ==
  [running : BOOLEAN, catalog : Cats \cup {<<>>}, products : SUBSET Products,
   product : Products \cup {"none"}, left : SUBSET Ingredients, orders : SUBSET DOMAIN Bought]

Embeds ==
  [running : BOOLEAN, catalog : Cats \cup {<<>>}, products : SUBSET Products, seeded : BOOLEAN]

(* What there is, and that a script which does not run has nothing to do. *)
GraphOK ==
  /\ catalog \in Cats /\ edits \in 0 .. MaxEdits
  /\ DOMAIN contains \subseteq Products
  /\ \A p \in DOMAIN contains : contains[p] \subseteq Ingredients
  /\ DOMAIN history \subseteq DOMAIN Bought
  /\ DOMAIN chunks \subseteq DOMAIN contains
  /\ seeding \in Seeds /\ embedding \in Embeds
  /\ loaded \subseteq {"seed", "embed"}

ScriptsOK ==
  /\ IF seeding.running THEN seeding.catalog \in Cats ELSE seeding = Shop!NoSeed
  /\ IF embedding.running THEN embedding.catalog \in Cats ELSE embedding = Shop!NoEmbedding

Complete(o) == o \in DOMAIN history /\ history[o] = Bought[o]

(* No order has an edge to what was not bought; the order of the run's statements
   makes what it has done so far complete. *)
SeedRuns ==
  /\ \A o \in DOMAIN history : history[o] \subseteq Bought[o]
  /\ seeding.left # {} => seeding.product \in DOMAIN contains
  /\ seeding.running =>
       /\ \A p \in Products \ seeding.products :
            /\ p \in DOMAIN contains
            /\ \A i \in seeding.catalog[p].ingredients :
                 i \in contains[p] \/ (p = seeding.product /\ i \in seeding.left)
       /\ \A o \in DOMAIN Bought \ seeding.orders : Complete(o)

EmbedRuns ==
  embedding.running /\ embedding.seeded =>
    /\ Products \subseteq DOMAIN contains
    /\ \A p \in Products \ embedding.products :
         p \in DOMAIN chunks /\ chunks[p] = embedding.catalog[p].text

(* What has been loaded stays so until the next edit: the scripts only add, and
   the run of embed_products.py that is under way has the catalog as it is. *)
SeedLoaded ==
  "seed" \in loaded =>
    /\ \A p \in Products : p \in DOMAIN contains /\ catalog[p].ingredients \subseteq contains[p]
    /\ \A o \in DOMAIN Bought : Complete(o)

EmbedLoaded ==
  "embed" \in loaded =>
    /\ \A p \in Products : p \in DOMAIN chunks /\ chunks[p] = catalog[p].text
    /\ embedding.running => embedding.catalog = catalog

ShopInv == GraphOK /\ ScriptsOK /\ SeedRuns /\ EmbedRuns /\ SeedLoaded /\ EmbedLoaded

LEMMA EditKeeps == ShopInv /\ Shop!Edit => ShopInv'
<1> SUFFICES ASSUME ShopInv, Shop!Edit PROVE ShopInv'
  OBVIOUS
<1>1. /\ edits < MaxEdits /\ edits' = edits + 1 /\ loaded' = {}
      /\ UNCHANGED <<contains, history, chunks, seeding, embedding>>
  BY DEF Shop!Edit, Shop!scripts
<1>2. PICK p \in Products, is \in SUBSET Ingredients :
        catalog' = [catalog EXCEPT ![p] = [ingredients |-> is, text |-> edits']]
  BY DEF Shop!Edit
<1>3. edits' \in 0 .. MaxEdits
  BY <1>1, Limits DEF ShopInv, GraphOK
<1>4. catalog' \in Cats
  BY <1>2, <1>3 DEF ShopInv, GraphOK, Cats
<1>5. GraphOK'
  BY <1>1, <1>3, <1>4 DEF ShopInv, GraphOK
<1> QED
  BY <1>1, <1>5
  DEF ShopInv, ScriptsOK, SeedRuns, EmbedRuns, SeedLoaded, EmbedLoaded, Complete

LEMMA StartSeedKeeps == ShopInv /\ Shop!StartSeed => ShopInv'
<1> SUFFICES ASSUME ShopInv, Shop!StartSeed PROVE ShopInv'
  OBVIOUS
<1> DEFINE new == [running |-> TRUE, catalog |-> catalog, products |-> Products,
                   product |-> "none", left |-> {}, orders |-> DOMAIN Bought]
<1>1. UNCHANGED <<catalog, edits, contains, history, chunks, embedding, loaded>>
  BY DEF Shop!StartSeed
<1>2. seeding' = new
  BY DEF Shop!StartSeed, Shop!NoSeed
<1>3. /\ new \in Seeds /\ new.running = TRUE /\ new.catalog \in Cats
      /\ new.products = Products /\ new.left = {} /\ new.orders = DOMAIN Bought
  BY DEF ShopInv, GraphOK, Seeds
<1> HIDE DEF new
<1>4. GraphOK' /\ ScriptsOK'
  BY <1>1, <1>2, <1>3 DEF ShopInv, GraphOK, ScriptsOK
<1>5. SeedRuns'
  BY <1>1, <1>2, <1>3 DEF ShopInv, SeedRuns
<1> QED
  BY <1>1, <1>4, <1>5 DEF ShopInv, EmbedRuns, SeedLoaded, EmbedLoaded, Complete

(***************************************************************************)
(* A product is only taken off when the one before has all its edges, and  *)
(* its own are then all left.                                              *)
(***************************************************************************)
LEMMA MergeProductKeeps ==
  ASSUME ShopInv, NEW p \in Products, Shop!MergeProduct(p)
  PROVE  ShopInv'
<1> DEFINE new == [seeding EXCEPT !.products = @ \ {p}, !.product = p,
                                  !.left = seeding.catalog[p].ingredients]
<1>1. UNCHANGED <<catalog, edits, history, chunks, embedding, loaded>>
  BY DEF Shop!MergeProduct
<1>2. seeding' = new
  BY DEF Shop!MergeProduct
<1>3. p \in seeding.products /\ seeding.left = {}
  BY DEF Shop!MergeProduct
<1>4. seeding.running
  BY <1>3 DEF ShopInv, ScriptsOK, Shop!NoSeed
<1>5. seeding \in Seeds /\ seeding.catalog \in Cats
  BY <1>4 DEF ShopInv, GraphOK, ScriptsOK
<1>6. /\ new \in Seeds /\ new.running = seeding.running /\ new.catalog = seeding.catalog
      /\ new.products = seeding.products \ {p} /\ new.product = p
      /\ new.left = seeding.catalog[p].ingredients /\ new.orders = seeding.orders
  BY <1>5 DEF Seeds, Cats
<1> HIDE DEF new
<1>7. /\ DOMAIN contains' = DOMAIN contains \cup {p}
      /\ \A q \in DOMAIN contains : contains'[q] = contains[q]
      /\ p \notin DOMAIN contains => contains'[p] = {}
  <2>1. CASE p \in DOMAIN contains
    BY <2>1 DEF Shop!MergeProduct
  <2>2. CASE p \notin DOMAIN contains
    <3>1. contains' = Shop!With(contains, p, {})
      BY <2>2 DEF Shop!MergeProduct
    <3> QED
      BY <2>2, <3>1 DEF Shop!With
  <2> QED
    BY <2>1, <2>2
<1>8. GraphOK'
  BY <1>1, <1>2, <1>6, <1>7 DEF ShopInv, GraphOK
<1>9. ScriptsOK'
  BY <1>1, <1>2, <1>4, <1>5, <1>6 DEF ShopInv, ScriptsOK
<1>10. SeedRuns'
  BY <1>1, <1>2, <1>3, <1>4, <1>6, <1>7 DEF ShopInv, SeedRuns, Complete
<1>11. SeedLoaded' /\ EmbedLoaded' /\ EmbedRuns'
  BY <1>1, <1>7 DEF ShopInv, SeedLoaded, EmbedLoaded, EmbedRuns, Complete
<1> QED
  BY <1>8, <1>9, <1>10, <1>11 DEF ShopInv

LEMMA MergeIngredientKeeps ==
  ASSUME ShopInv, NEW i \in Ingredients, Shop!MergeIngredient(i)
  PROVE  ShopInv'
<1> DEFINE new == [seeding EXCEPT !.left = @ \ {i}]
           at == seeding.product
<1>1. UNCHANGED <<catalog, edits, history, chunks, embedding, loaded>>
  BY DEF Shop!MergeIngredient
<1>2. seeding' = new
  BY DEF Shop!MergeIngredient
<1>3. i \in seeding.left
  BY DEF Shop!MergeIngredient
<1>4. seeding.running
  BY <1>3 DEF ShopInv, ScriptsOK, Shop!NoSeed
<1>5. seeding \in Seeds /\ seeding.catalog \in Cats /\ at \in DOMAIN contains
  BY <1>3, <1>4 DEF ShopInv, GraphOK, ScriptsOK, SeedRuns
<1>6. /\ new \in Seeds /\ new.running = seeding.running /\ new.catalog = seeding.catalog
      /\ new.products = seeding.products /\ new.product = at
      /\ new.left = seeding.left \ {i} /\ new.orders = seeding.orders
  BY <1>5 DEF Seeds
<1>7. contains' = [contains EXCEPT ![at] = @ \cup {i}]
  BY DEF Shop!MergeIngredient
<1> HIDE DEF new, at
<1>8. /\ DOMAIN contains' = DOMAIN contains
      /\ \A q \in DOMAIN contains :
           contains'[q] = IF q = at THEN contains[q] \cup {i} ELSE contains[q]
  BY <1>5, <1>7
<1>9. GraphOK'
  BY <1>1, <1>2, <1>6, <1>8 DEF ShopInv, GraphOK
<1>10. ScriptsOK'
  BY <1>1, <1>2, <1>4, <1>5, <1>6 DEF ShopInv, ScriptsOK
<1>11. SeedRuns'
  BY <1>1, <1>2, <1>4, <1>5, <1>6, <1>8 DEF ShopInv, SeedRuns, Complete, at
<1>12. SeedLoaded' /\ EmbedLoaded' /\ EmbedRuns'
  BY <1>1, <1>8 DEF ShopInv, SeedLoaded, EmbedLoaded, EmbedRuns, Complete
<1> QED
  BY <1>9, <1>10, <1>11, <1>12 DEF ShopInv

(***************************************************************************)
(* Orders come after the products: all that an order only matches is there.*)
(***************************************************************************)
LEMMA MergeOrderKeeps ==
  ASSUME ShopInv, NEW o \in DOMAIN Bought, Shop!MergeOrder(o)
  PROVE  ShopInv'
<1> DEFINE new == [seeding EXCEPT !.orders = @ \ {o}]
           before == IF o \in DOMAIN history THEN history[o] ELSE {}
           after == before \cup (Bought[o] \cap DOMAIN contains)
<1>1. UNCHANGED <<catalog, edits, contains, chunks, embedding, loaded>>
  BY DEF Shop!MergeOrder
<1>2. seeding' = new /\ history' = Shop!With(history, o, after)
  BY DEF Shop!MergeOrder
<1>3. seeding.products = {} /\ seeding.left = {} /\ o \in seeding.orders
  BY DEF Shop!MergeOrder
<1>4. seeding.running
  BY <1>3 DEF ShopInv, ScriptsOK, Shop!NoSeed
<1>5. seeding \in Seeds /\ seeding.catalog \in Cats
  BY <1>4 DEF ShopInv, GraphOK, ScriptsOK
<1>6. /\ new \in Seeds /\ new.running = seeding.running /\ new.catalog = seeding.catalog
      /\ new.products = seeding.products /\ new.product = seeding.product
      /\ new.left = seeding.left /\ new.orders = seeding.orders \ {o}
  BY <1>5 DEF Seeds
<1>7. Products \subseteq DOMAIN contains
  BY <1>3, <1>4 DEF ShopInv, SeedRuns
<1>8. after = Bought[o]
  <2>1. before \subseteq Bought[o]
    BY DEF ShopInv, SeedRuns
  <2> QED
    BY <1>7, <2>1, ShopAssumption
<1> HIDE DEF new, before, after
<1>9. /\ DOMAIN history' = DOMAIN history \cup {o}
      /\ \A q \in DOMAIN history' : history'[q] = IF q = o THEN Bought[o] ELSE history[q]
  BY <1>2, <1>8 DEF Shop!With
<1>10. \A q \in DOMAIN Bought : q = o \/ Complete(q) => Complete(q)'
  BY <1>9 DEF Complete
<1>11. GraphOK'
  BY <1>1, <1>2, <1>6, <1>9 DEF ShopInv, GraphOK
<1>12. ScriptsOK'
  BY <1>1, <1>2, <1>4, <1>5, <1>6 DEF ShopInv, ScriptsOK
<1>13. SeedRuns'
  BY <1>1, <1>2, <1>4, <1>6, <1>9, <1>10 DEF ShopInv, SeedRuns
<1>14. SeedLoaded' /\ EmbedLoaded' /\ EmbedRuns'
  BY <1>1, <1>10 DEF ShopInv, SeedLoaded, EmbedLoaded, EmbedRuns
<1> QED
  BY <1>11, <1>12, <1>13, <1>14 DEF ShopInv

LEMMA EndSeedKeeps == ShopInv /\ Shop!EndSeed => ShopInv'
<1> SUFFICES ASSUME ShopInv, Shop!EndSeed PROVE ShopInv'
  OBVIOUS
<1> DEFINE done == /\ seeding.products \cup seeding.left \cup seeding.orders = {}
                   /\ seeding.catalog = catalog
<1>1. /\ UNCHANGED <<catalog, edits, contains, history, chunks, embedding>>
      /\ seeding.running /\ seeding' = Shop!NoSeed
      /\ loaded' = IF done THEN loaded \cup {"seed"} ELSE loaded
  BY DEF Shop!EndSeed
<1>2. /\ Shop!NoSeed \in Seeds /\ Shop!NoSeed.running = FALSE /\ Shop!NoSeed.left = {}
  BY DEF Shop!NoSeed, Seeds
<1>3. "seed" \in loaded' /\ "seed" \notin loaded => done
  BY <1>1
<1>4. "embed" \in loaded' => "embed" \in loaded
  BY <1>1
<1>5. loaded' \subseteq {"seed", "embed"}
  BY <1>1 DEF ShopInv, GraphOK
<1>6. done => /\ \A p \in Products : p \in DOMAIN contains /\ catalog[p].ingredients \subseteq contains[p]
              /\ \A o \in DOMAIN Bought : Complete(o)
  <2> SUFFICES ASSUME done
               PROVE  /\ \A p \in Products :
                           p \in DOMAIN contains /\ catalog[p].ingredients \subseteq contains[p]
                      /\ \A o \in DOMAIN Bought : Complete(o)
    OBVIOUS
  <2>1. seeding.products = {} /\ seeding.left = {} /\ seeding.orders = {}
    OBVIOUS
  <2>2. \A p \in Products :
          p \in DOMAIN contains /\ \A i \in seeding.catalog[p].ingredients : i \in contains[p]
    BY <1>1, <2>1 DEF ShopInv, SeedRuns
  <2>3. \A o \in DOMAIN Bought : Complete(o)
    BY <1>1, <2>1 DEF ShopInv, SeedRuns
  <2> QED
    BY <2>2, <2>3
<1> HIDE DEF done
<1>7. GraphOK' /\ ScriptsOK' /\ SeedRuns'
  BY <1>1, <1>2, <1>5 DEF ShopInv, GraphOK, ScriptsOK, SeedRuns
<1>8. SeedLoaded'
  BY <1>1, <1>3, <1>6 DEF ShopInv, SeedLoaded, Complete
<1>9. EmbedLoaded' /\ EmbedRuns'
  BY <1>1, <1>4 DEF ShopInv, EmbedLoaded, EmbedRuns
<1> QED
  BY <1>7, <1>8, <1>9 DEF ShopInv

LEMMA StartEmbeddingKeeps == ShopInv /\ Shop!StartEmbedding => ShopInv'
<1> SUFFICES ASSUME ShopInv, Shop!StartEmbedding PROVE ShopInv'
  OBVIOUS
<1> DEFINE seeded == "seed" \in loaded
           new == [running |-> TRUE, catalog |-> catalog, products |-> Products,
                   seeded |-> seeded]
<1>1. UNCHANGED <<catalog, edits, contains, history, chunks, seeding, loaded>>
  BY DEF Shop!StartEmbedding
<1>2. embedding' = new
  BY DEF Shop!StartEmbedding
<1>3. seeded \in BOOLEAN
  <2>1. CASE "seed" \in loaded
    BY <2>1
  <2>2. CASE "seed" \notin loaded
    BY <2>2
  <2> QED
    BY <2>1, <2>2
<1>4. seeded => Products \subseteq DOMAIN contains
  BY DEF ShopInv, SeedLoaded
<1> HIDE DEF seeded
<1>5. /\ new \in Embeds /\ new.running = TRUE /\ new.catalog = catalog /\ catalog \in Cats
      /\ new.products = Products /\ new.seeded = seeded
  BY <1>3 DEF ShopInv, GraphOK, Embeds
<1> HIDE DEF new
<1>6. GraphOK' /\ ScriptsOK'
  BY <1>1, <1>2, <1>5 DEF ShopInv, GraphOK, ScriptsOK
<1>7. EmbedRuns' /\ EmbedLoaded'
  BY <1>1, <1>2, <1>4, <1>5 DEF ShopInv, EmbedRuns, EmbedLoaded
<1> QED
  BY <1>1, <1>6, <1>7 DEF ShopInv, SeedRuns, SeedLoaded, Complete

LEMMA EmbedKeeps ==
  ASSUME ShopInv, NEW p \in Products, Shop!Embed(p)
  PROVE  ShopInv'
<1> DEFINE new == [embedding EXCEPT !.products = @ \ {p}]
<1>1. UNCHANGED <<catalog, edits, contains, history, seeding, loaded>>
  BY DEF Shop!Embed
<1>2. embedding' = new /\ p \in embedding.products
  BY DEF Shop!Embed
<1>3. embedding.running
  BY <1>2 DEF ShopInv, ScriptsOK, Shop!NoEmbedding
<1>4. embedding \in Embeds /\ embedding.catalog \in Cats
  BY <1>3 DEF ShopInv, GraphOK, ScriptsOK
<1>5. /\ new \in Embeds /\ new.running = embedding.running /\ new.catalog = embedding.catalog
      /\ new.products = embedding.products \ {p} /\ new.seeded = embedding.seeded
  BY <1>4 DEF Embeds
<1> HIDE DEF new
<1>6. /\ DOMAIN chunks \subseteq DOMAIN chunks'
      /\ DOMAIN chunks' \subseteq DOMAIN contains
      /\ \A q \in DOMAIN chunks :
           chunks'[q] = IF q = p THEN embedding.catalog[p].text ELSE chunks[q]
      /\ p \in DOMAIN contains =>
           p \in DOMAIN chunks' /\ chunks'[p] = embedding.catalog[p].text
  <2>1. CASE p \in DOMAIN contains
    <3>1. chunks' = Shop!With(chunks, p, embedding.catalog[p].text)
      BY <2>1 DEF Shop!Embed
    <3> QED
      BY <2>1, <3>1 DEF Shop!With, ShopInv, GraphOK
  <2>2. CASE p \notin DOMAIN contains
    BY <2>2 DEF Shop!Embed, ShopInv, GraphOK
  <2> QED
    BY <2>1, <2>2
<1>7. GraphOK'
  BY <1>1, <1>2, <1>5, <1>6 DEF ShopInv, GraphOK
<1>8. ScriptsOK'
  BY <1>1, <1>2, <1>3, <1>4, <1>5 DEF ShopInv, ScriptsOK
<1>9. EmbedRuns'
  BY <1>1, <1>2, <1>3, <1>5, <1>6 DEF ShopInv, EmbedRuns
<1>10. EmbedLoaded'
  BY <1>1, <1>2, <1>3, <1>5, <1>6 DEF ShopInv, EmbedLoaded
<1> QED
  BY <1>1, <1>7, <1>8, <1>9, <1>10 DEF ShopInv, SeedRuns, SeedLoaded, Complete

LEMMA EndEmbeddingKeeps == ShopInv /\ Shop!EndEmbedding => ShopInv'
<1> SUFFICES ASSUME ShopInv, Shop!EndEmbedding PROVE ShopInv'
  OBVIOUS
<1> DEFINE done == embedding.products = {} /\ embedding.catalog = catalog /\ embedding.seeded
<1>1. /\ UNCHANGED <<catalog, edits, contains, history, chunks, seeding>>
      /\ embedding.running /\ embedding' = Shop!NoEmbedding
      /\ loaded' = IF done THEN loaded \cup {"embed"} ELSE loaded
  BY DEF Shop!EndEmbedding
<1>2. /\ Shop!NoEmbedding \in Embeds /\ Shop!NoEmbedding.running = FALSE
  BY DEF Shop!NoEmbedding, Embeds
<1>3. "embed" \in loaded' /\ "embed" \notin loaded => done
  BY <1>1
<1>4. "seed" \in loaded' => "seed" \in loaded
  BY <1>1
<1>5. loaded' \subseteq {"seed", "embed"}
  BY <1>1 DEF ShopInv, GraphOK
<1>6. done => \A p \in Products : p \in DOMAIN chunks /\ chunks[p] = catalog[p].text
  BY <1>1 DEF ShopInv, EmbedRuns
<1> HIDE DEF done
<1>7. GraphOK' /\ ScriptsOK' /\ EmbedRuns'
  BY <1>1, <1>2, <1>5 DEF ShopInv, GraphOK, ScriptsOK, EmbedRuns
<1>8. EmbedLoaded'
  BY <1>1, <1>2, <1>3, <1>6 DEF ShopInv, EmbedLoaded
<1>9. SeedLoaded' /\ SeedRuns'
  BY <1>1, <1>4 DEF ShopInv, SeedLoaded, SeedRuns, Complete
<1> QED
  BY <1>7, <1>8, <1>9 DEF ShopInv

LEMMA ShopNext == ShopInv /\ [Shop!Next]_Shop!vars => ShopInv'
<1> SUFFICES ASSUME ShopInv, [Shop!Next]_Shop!vars PROVE ShopInv'
  OBVIOUS
<1>1. CASE Shop!Edit \/ Shop!StartSeed \/ Shop!EndSeed \/ Shop!StartEmbedding \/ Shop!EndEmbedding
  BY <1>1, EditKeeps, StartSeedKeeps, EndSeedKeeps, StartEmbeddingKeeps, EndEmbeddingKeeps
<1>2. ASSUME NEW p \in Products, Shop!MergeProduct(p) \/ Shop!Embed(p) PROVE ShopInv'
  BY <1>2, MergeProductKeeps, EmbedKeeps
<1>3. ASSUME NEW i \in Ingredients, Shop!MergeIngredient(i) PROVE ShopInv'
  BY <1>3, MergeIngredientKeeps
<1>4. ASSUME NEW o \in DOMAIN Bought, Shop!MergeOrder(o) PROVE ShopInv'
  BY <1>4, MergeOrderKeeps
<1>5. CASE UNCHANGED Shop!vars
  BY <1>5 DEF Shop!vars, Shop!scripts, ShopInv, GraphOK, ScriptsOK, SeedRuns, EmbedRuns,
              SeedLoaded, EmbedLoaded, Complete
<1> QED
  BY <1>1, <1>2, <1>3, <1>4, <1>5 DEF Shop!Next

(* The tools read what the invariant has of a loaded graph. *)
LEMMA ToolsTellTruth ==
  ASSUME ShopInv
  PROVE  Shop!SafeMeansSafe /\ Shop!HistoryIsComplete /\ Shop!EverythingIsFound
<1>1. Shop!SafeMeansSafe
  <2> SUFFICES ASSUME "seed" \in loaded, NEW c \in DOMAIN Concerns, NEW p \in Products,
                      Shop!Decision(c, p) = "safe"
               PROVE  Concerns[c] \cap catalog[p].ingredients = {}
    BY DEF Shop!SafeMeansSafe
  <2>1. Concerns[c] \cap Shop!Contents(p) = {}
    BY DEF Shop!Decision
  <2>2. catalog[p].ingredients \subseteq Shop!Contents(p)
    BY DEF ShopInv, SeedLoaded, Shop!Contents
  <2> QED
    BY <2>1, <2>2
<1>2. Shop!HistoryIsComplete
  BY ShopAssumption DEF ShopInv, SeedLoaded, Complete, Shop!HistoryIsComplete, Shop!OrdersShown
<1>3. Shop!EverythingIsFound
  <2> SUFFICES ASSUME "embed" \in loaded
               PROVE  Shop!Rows = {[product |-> p, blurb |-> catalog[p].text] : p \in Products}
    BY DEF Shop!EverythingIsFound
  <2>1. DOMAIN chunks = Products /\ \A p \in Products : chunks[p] = catalog[p].text
    BY DEF ShopInv, GraphOK, EmbedLoaded
  <2> QED
    BY <2>1 DEF Shop!Rows
<1> QED
  BY <1>1, <1>2, <1>3

LEMMA ShopKept ==
  Shop!Spec => [](/\ Shop!TypeOK
                  /\ Shop!SafeMeansSafe /\ Shop!HistoryIsComplete /\ Shop!EverythingIsFound)
<1>1. Shop!Init => ShopInv
  <2> SUFFICES ASSUME Shop!Init PROVE ShopInv
    OBVIOUS
  <2>1. PICK first \in Catalogs :
          catalog = [p \in Products |-> [ingredients |-> first[p], text |-> 0]]
    BY DEF Shop!Init
  <2>2. catalog \in Cats
    BY <2>1, ShopAssumption, Limits DEF Cats
  <2>3. /\ edits = 0 /\ DOMAIN contains = {} /\ DOMAIN history = {} /\ DOMAIN chunks = {}
        /\ seeding = Shop!NoSeed /\ embedding = Shop!NoEmbedding /\ loaded = {}
    BY NothingMapped DEF Shop!Init
  <2>4. /\ seeding \in Seeds /\ seeding.running = FALSE /\ seeding.left = {}
        /\ embedding \in Embeds /\ embedding.running = FALSE
    BY <2>3 DEF Shop!NoSeed, Shop!NoEmbedding, Seeds, Embeds
  <2>5. GraphOK
    BY <2>2, <2>3, <2>4, Limits DEF GraphOK
  <2>6. ScriptsOK /\ SeedRuns /\ EmbedRuns /\ SeedLoaded /\ EmbedLoaded
    BY <2>3, <2>4 DEF ScriptsOK, SeedRuns, EmbedRuns, SeedLoaded, EmbedLoaded
  <2> QED
    BY <2>5, <2>6 DEF ShopInv
<1>2. ShopInv => Shop!TypeOK
  BY DEF ShopInv, GraphOK, Seeds, Embeds, Cats, Shop!TypeOK
<1> QED
  BY <1>1, <1>2, ShopNext, ToolsTellTruth, PTL DEF Shop!Spec

(***************************************************************************)
(* Whenever scripts are run, at once, again, or die half way, and whatever *)
(* is edited: of a catalog that seed.py has loaded, safety_check calls     *)
(* nothing safe that is not, and the order history is complete; of one     *)
(* that embed_products.py has loaded then, everything is found.            *)
(***************************************************************************)
THEOREM GraphAlwaysTrue == AppSpec => []GraphTellsTruth
<1>1. Shop!SafeMeansSafe /\ Shop!HistoryIsComplete /\ Shop!EverythingIsFound => GraphTellsTruth
  BY DEF GraphTellsTruth
<1> QED
  BY <1>1, StepsOfShop, ShopKept, PTL

-----------------------------------------------------------------------------

(***************************************************************************)
(* The states of all seven agents have their types.                        *)
(***************************************************************************)
THEOREM AgentsTyped == AppSpec => []TypesOK
<1>1. /\ TypeOK /\ Coordinator!TypeOK /\ Evaluator!TypeOK /\ Orchestrator!TypeOK
      /\ Memory!TypeOK /\ Shop!TypeOK /\ Loop!TypeOK
      => TypesOK
  BY DEF TypesOK
<1> QED
  BY <1>1, StepsOfBrakes, StepsOfCoordinator, StepsOfEvaluator, StepsOfOrchestrator,
     StepsOfMemory, StepsOfShop, StepsOfLoop, BrakesAreKept, HandoffTyped, EvaluatorKept,
     OrchestratorKept, MemoryKept, ShopKept, RawKept, PTL

=============================================================================

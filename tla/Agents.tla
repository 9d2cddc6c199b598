-------------------------------- MODULE Agents --------------------------------
(***************************************************************************)
(* The agents of chapters 2 to 9 that keep a state of their own and share  *)
(* nothing: one of them runs in each behaviour, so that their state spaces *)
(* add up.                                                                 *)
(***************************************************************************)
EXTENDS ReactBrakes

CONSTANTS
  MaxHandoffs,                                                   \* Handoff
  MaxRounds, MaxRequests,                                        \* EvaluatorLoop
  Requests, ZipIn, Initial,                                      \* Supervisor
  Sessions, CustomerOf, UserOf, NoUser, TopK,                    \* MemoryTools
  Products, Ingredients, Concerns, Bought, Catalogs, MaxEdits,   \* ProductGraph
  Tools, Unknown, MaxSteps                                       \* RawLoop

VARIABLES
  app, agent, speaking, counted, transfers,
  loopNode, loopRequest, draft, verdict, feedback, rounds, broke,
  remote, node, request, plan, working, answers,
  store, found,
  catalog, edits, contains, history, chunks, seeding, embedding, loaded,
  messages, step, status, rawRan

Coordinator == INSTANCE Handoff
Evaluator == INSTANCE EvaluatorLoop WITH node <- loopNode, request <- loopRequest
Orchestrator == INSTANCE Supervisor
Memory == INSTANCE MemoryTools
Shop == INSTANCE ProductGraph
Loop == INSTANCE RawLoop WITH history <- messages, ran <- rawRan

ASSUME LimitsAssumption ==
  /\ {MaxHandoffs, MaxRequests, TopK, MaxEdits, MaxSteps} \subseteq Nat
  /\ MaxRounds \in Nat \ {0}

(* A user_id is one customer's, and none is the id that memory_tools.py falls
   back to. *)
ASSUME UsersAssumption ==
  \A s \in Sessions : UserOf[s] # NoUser =>
    /\ UserOf[s] # "default_user"
    /\ \A t \in Sessions : UserOf[t] = UserOf[s] => CustomerOf[t] = CustomerOf[s]

(* catalog_data.py: every order is for products of the catalog. *)
ASSUME ShopAssumption ==
  /\ Catalogs \subseteq [Products -> SUBSET Ingredients]
  /\ \A o \in DOMAIN Bought : Bought[o] \subseteq Products /\ Bought[o] # {}

handoffVars == <<agent, speaking, counted, transfers>>
loopVars == <<loopNode, loopRequest, draft, verdict, feedback, rounds, broke>>
supervisorVars == <<remote, node, request, plan, working, answers>>
memoryVars == <<store, found>>
graphVars == <<catalog, edits, contains, history, chunks, seeding, embedding, loaded>>
rawVars == <<messages, step, status, rawRan>>

Apps == {"brakes", "handoff", "evaluator", "supervisor", "memory", "graph", "raw"}

AppInit ==
  /\ app \in Apps
  /\ Init
  /\ Coordinator!Init
  /\ Evaluator!Init
  /\ Orchestrator!Init
  /\ Memory!Init
  /\ Loop!Init
  /\ Shop!Init

Run(name) == app = name /\ UNCHANGED app

AppNext ==
  \/ Run("brakes") /\ Next
     /\ UNCHANGED <<handoffVars, loopVars, supervisorVars, memoryVars, graphVars, rawVars>>
  \/ Run("handoff") /\ Coordinator!Next
     /\ UNCHANGED <<vars, loopVars, supervisorVars, memoryVars, graphVars, rawVars>>
  \/ Run("evaluator") /\ Evaluator!Next
     /\ UNCHANGED <<vars, handoffVars, supervisorVars, memoryVars, graphVars, rawVars>>
  \/ Run("supervisor") /\ Orchestrator!Next
     /\ UNCHANGED <<vars, handoffVars, loopVars, memoryVars, graphVars, rawVars>>
  \/ Run("memory") /\ Memory!Next
     /\ UNCHANGED <<vars, handoffVars, loopVars, supervisorVars, graphVars, rawVars>>
  \/ Run("graph") /\ Shop!Next
     /\ UNCHANGED <<vars, handoffVars, loopVars, supervisorVars, memoryVars, rawVars>>
  \/ Run("raw") /\ Loop!Next
     /\ UNCHANGED <<vars, handoffVars, loopVars, supervisorVars, memoryVars, graphVars>>

AppSpec == AppInit /\ [][AppNext]_<<app, vars, handoffVars, loopVars, supervisorVars, memoryVars, graphVars, rawVars>>

(* The type invariants of the seven modules. *)
TypesOK ==
  TypeOK /\ Coordinator!TypeOK /\ Evaluator!TypeOK /\ Orchestrator!TypeOK
  /\ Memory!TypeOK /\ Shop!TypeOK /\ Loop!TypeOK

(* ReactBrakes: no lookup is made twice, nor too many; and none after too many
   empty ones, if calls come one at a time. *)
BrakesHold == NeverTwice /\ PadIsBounded /\ StopsOnEmpties

(* Handoff: handoff_counter caps the session's transfers. *)
TransfersBounded == Coordinator!TransfersBounded

(* EvaluatorLoop: the generator reads the feedback on its own last draft, and
   what is emitted was judged. *)
LoopsAreSound == Evaluator!FreshFeedback /\ Evaluator!EmittedWasJudged

(* RawLoop: every call the model is shown has its response, and the loop gives up
   only at its limit. *)
CallsAnswered == Loop!EveryCallAnswered /\ Loop!LimitIsReal

(* Supervisor: the shop's and the shipping service's estimates agree. *)
EstimatesAgree == Orchestrator!EstimatesAgree

(* MemoryTools: nobody finds another customer's facts, but among the sessions
   without a user_id. *)
FactsStayPrivate == Memory!FactsStayPrivate

(* ProductGraph: what the tools say of a graph that was loaded is so. *)
GraphTellsTruth ==
  Shop!SafeMeansSafe /\ Shop!HistoryIsComplete /\ Shop!EverythingIsFound

=============================================================================

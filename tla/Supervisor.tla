------------------------------ MODULE Supervisor ------------------------------
(***************************************************************************)
(* The orchestrator of chapter 7: a planner names specialists, dispatch    *)
(* fans out to them, they work in parallel, and a join collects their      *)
(* answers for the synthesizer (stage 1).  In stage 3 the shipping         *)
(* estimator is a LangGraph service behind A2A.  What the join waits for   *)
(* is the library's, as agent.py describes it: the workers fanned out to.  *)
(***************************************************************************)
EXTENDS Naturals, Sequences

CONSTANTS
  Requests,  \* what customers ask, as their sequence of words
  ZipIn,     \* the zip code each request is about
  Initial    \* the first character of each word

VARIABLES
  remote,   \* stage 3
  node,     \* the node about to run, or how the run ended
  request,
  plan,     \* state["plan"]: what the planner wrote, as JSON
  working,  \* specialists at work
  answers   \* what the join has collected: each specialist's answer

vars == <<remote, node, request, plan, working, answers>>

Specialists ==
  {"inventory_specialist", "shipping_estimator", "policy_specialist", "catalog_specialist"}

\* Not JSON at all, a list of names, right or wrong, or JSON of another shape.
Plans == {[kind |-> "not json", names |-> {}], [kind |-> "object", names |-> {}]}
         \cup [kind : {"list"}, names : SUBSET (Specialists \cup {"shipping"})]

NoPlan == [kind |-> "none", names |-> {}]

Answers == {"none", "done"} \cup {3, 5}

TypeOK ==
  /\ remote \in BOOLEAN
  /\ node \in {"idle", "planner", "dispatch", "workers", "synthesizer", "silent", "failed"}
  /\ request \in Requests \cup {<<>>}
  /\ plan \in Plans \cup {NoPlan}
  /\ working \subseteq Specialists
  /\ DOMAIN answers \subseteq Specialists

Init ==
  /\ remote \in BOOLEAN
  /\ node = "idle" /\ request = <<>> /\ plan = NoPlan
  /\ working = {} /\ answers = <<>>

\* The next request of the session runs the graph afresh.
Ask ==
  /\ node \in {"idle", "silent", "failed"}
  /\ request' \in Requests
  /\ node' = "planner" /\ answers' = <<>>
  /\ UNCHANGED <<remote, plan, working>>

Planner ==
  /\ node = "planner"
  /\ plan' \in Plans
  /\ node' = "dispatch"
  /\ UNCHANGED <<remote, request, working, answers>>

Chosen == IF plan.kind = "not json" THEN Specialists ELSE plan.names \cap Specialists

\* Only text that is no JSON falls back to everybody.  A plan that names nobody
\* leads nowhere.
Dispatch ==
  /\ node = "dispatch"
  /\ working' = Chosen
  /\ node' = IF Chosen = {} THEN "silent" ELSE "workers"
  /\ UNCHANGED <<remote, request, plan, answers>>

\* estimate_shipping.  The local specialist's model picks the zip code out.
EstimateShipping(zip) == IF Initial[zip] \in {"0", "1", "2"} THEN 3 ELSE 5

\* Mutant: the service alone learns of a nearer warehouse.
FetchEstimateNearer(zip) == IF Initial[zip] \in {"0", "1", "2", "3"} THEN 3 ELSE 5

\* The service's own rule.
FetchEstimate(zip) == IF Initial[zip] \in {"0", "1", "2"} THEN 3 ELSE 5

\* It takes the second word of the text for the zip code.
Execute(words) == FetchEstimate(IF Len(words) > 1 THEN words[2] ELSE "10001")

WorkerAnswer(w) ==
  CASE w # "shipping_estimator" -> "done"
    [] remote -> Execute(request)
    [] OTHER -> EstimateShipping(ZipIn[request])

\* A specialist answers into the join; the last one lets the synthesizer run.
Work(w) ==
  /\ w \in working
  /\ working' = working \ {w}
  /\ answers' = [v \in DOMAIN answers \cup {w} |-> IF v = w THEN WorkerAnswer(w) ELSE answers[v]]
  /\ node' = IF working = {w} THEN "synthesizer" ELSE node
  /\ UNCHANGED <<remote, request, plan>>

\* A model fails, or the remote service cannot be reached: the graph has no guard.
NodeFails ==
  /\ node \in {"planner", "workers", "synthesizer"}
  /\ node' = "failed"
  /\ working' = {}
  /\ UNCHANGED <<remote, request, plan, answers>>

Synthesize ==
  /\ node = "synthesizer"
  /\ node' = "idle" /\ answers' = <<>> /\ request' = <<>>
  /\ UNCHANGED <<remote, plan, working>>

Next ==
  \/ Ask \/ Planner \/ Dispatch \/ NodeFails \/ Synthesize
  \/ \E w \in Specialists : Work(w)

Spec == Init /\ [][Next]_vars

-----------------------------------------------------------------------------

\* The example on the service's card: a product and the zip code.
AsOnCard(words) == Len(words) = 2 /\ words[2] = ZipIn[words]

(***************************************************************************)
(* The shipping estimate that reaches the synthesizer is the shop's own    *)
(* (workers.py) for the customer's zip code, also when the service has     *)
(* made it by its own copy of the rule (shipping_worker.py), if it was     *)
(* asked in the form of the example on its card.  In any other form it may *)
(* take a wrong word for the zip code.                                     *)
(***************************************************************************)
EstimatesAgree ==
  "shipping_estimator" \in DOMAIN answers /\ (remote => AsOnCard(request))
    => answers["shipping_estimator"] = EstimateShipping(ZipIn[request])

=============================================================================

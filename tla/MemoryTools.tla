----------------------------- MODULE MemoryTools -----------------------------
(***************************************************************************)
(* The long-term memory of chapter 4: save_memory and search_memory over   *)
(* one Mem0 store, shared by the shopping and the support agent.  What     *)
(* Mem0 keeps of a fact and which facts it finds are the library's.        *)
(***************************************************************************)
EXTENDS Naturals, FiniteSets

CONSTANTS
  Sessions,
  CustomerOf,  \* who talks in each session
  UserOf,      \* the user_id in each session's state, or NoUser
  NoUser,
  TopK

Default == "default_user"

VARIABLES
  store,  \* memories: the fact (a session's own, for each session) under a user_id
  found   \* what each session's last search returned

vars == <<store, found>>

TypeOK ==
  /\ store \subseteq [user : {UserOf[s] : s \in Sessions} \cup {Default}, fact : Sessions]
  /\ found \in [Sessions -> SUBSET Sessions]

Init == store = {} /\ found = [s \in Sessions |-> {}]

\* Mutant: the user_id is not used.
UserIdShared(s) == Default

UserId(s) == IF UserOf[s] = NoUser THEN Default ELSE UserOf[s]

\* The session's user states a fact.  Mem0 may raise or keep nothing: the tool
\* says so to the model and goes on.
SaveMemory(s) ==
  /\ store' \in {store, store \cup {[user |-> UserId(s), fact |-> s]}}
  /\ UNCHANGED found

\* At most TopK memories of the user; none if Mem0 raises.
SearchMemory(s) ==
  LET own == {m \in store : m.user = UserId(s)} IN
  /\ \E r \in {r \in SUBSET own : Cardinality(r) <= TopK} :
       found' = [found EXCEPT ![s] = {m.fact : m \in r}]
  /\ UNCHANGED store

Next == \E s \in Sessions : SaveMemory(s) \/ SearchMemory(s)

Spec == Init /\ [][Next]_vars

-----------------------------------------------------------------------------

(***************************************************************************)
(* A search finds facts of its own customer only, in whichever session     *)
(* they were stated, but for sessions without a user_id: they share one    *)
(* user among them, whoever they are, and find each other's.  No agent of  *)
(* the repository sets a user_id.                                          *)
(***************************************************************************)
FactsStayPrivate ==
  \A s \in Sessions : \A fact \in found[s] :
    CustomerOf[fact] = CustomerOf[s] \/ (UserOf[fact] = NoUser /\ UserOf[s] = NoUser)

=============================================================================

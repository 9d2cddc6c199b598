------------------------------- MODULE Handoff -------------------------------
(***************************************************************************)
(* Dynamic handoff (chapter 7, stage 2): a coordinator and two specialists *)
(* who own the conversation in turn.  Only the specialists' transfers go   *)
(* through handoff_counter.                                                *)
(***************************************************************************)
EXTENDS Naturals

CONSTANT MaxHandoffs

VARIABLES
  agent,     \* who owns the conversation
  speaking,  \* whether it is to answer a message
  counted,   \* state["handoff_count"]
  transfers  \* history: transfers of the session

vars == <<agent, speaking, counted, transfers>>

Specialists == {"shopping_specialist", "returns_specialist"}
Desk == "shopping_desk"

TypeOK ==
  /\ agent \in Specialists \cup {Desk} /\ speaking \in BOOLEAN
  /\ counted \in 0 .. MaxHandoffs /\ transfers \in Nat

Init == agent = Desk /\ speaking = FALSE /\ counted = 0 /\ transfers = 0

\* The next message goes to whoever owns the conversation.
Message == ~speaking /\ speaking' = TRUE /\ UNCHANGED <<agent, counted, transfers>>

Transfer(to) == speaking /\ agent' = to /\ transfers' = transfers + 1 /\ UNCHANGED speaking

\* "Only transfer": the coordinator has no counter.
Route(to) == agent = Desk /\ Transfer(to) /\ UNCHANGED counted

\* Mutant: the limit is compared too late.
HandOffOnceMore(to) ==
  /\ agent # Desk
  /\ counted <= MaxHandoffs /\ counted' = counted + 1
  /\ Transfer(to)

\* Mutant: the count is not written back.
HandOffUncounted(to) ==
  /\ agent # Desk
  /\ counted < MaxHandoffs /\ UNCHANGED counted
  /\ Transfer(to)

\* To the other specialist or back to the coordinator; at the limit the counter
\* answers instead of the transfer, and nothing changes.
HandOff(to) ==
  /\ agent # Desk
  /\ counted < MaxHandoffs /\ counted' = counted + 1
  /\ Transfer(to)

Reply == speaking /\ speaking' = FALSE /\ UNCHANGED <<agent, counted, transfers>>

Next ==
  \/ Message \/ Reply
  \/ \E to \in Specialists : Route(to)
  \/ \E to \in (Specialists \cup {Desk}) \ {agent} : HandOff(to)

Spec == Init /\ [][Next]_vars

-----------------------------------------------------------------------------

(***************************************************************************)
(* The counter "stops runaway ping-pong" although the coordinator's own    *)
(* transfers bypass it: it can only pass on what a specialist handed back, *)
(* and the very first message.  The session makes at most one transfer     *)
(* more than twice the cap.                                                *)
(***************************************************************************)
TransfersBounded == transfers <= 2 * MaxHandoffs + 1

=============================================================================

------------------------- MODULE MCIdempotentCharge -------------------------
(* Small instances of IdempotentCharge for TLC. *)
EXTENDS IdempotentCharge

CONSTANTS a1, w,  \* a thread of the agent, a replay worker
          o1, o2  \* orders

TwoCallers == {a1, w}
TwoOrders == {o1, o2}

=============================================================================

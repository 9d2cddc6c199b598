-------------------------- MODULE MCCircuitBreaker --------------------------
(* Small instances of CircuitBreaker for TLC. *)
EXTENDS CircuitBreaker, TLC

\* Two threads of the agent, and a third or the replay worker: what makes w
\* the worker is that a configuration leaves it out of Expecting.
CONSTANTS a1, a2, w

TwoAgents == {a1, a2}
AllThree == {a1, a2, w}

\* Sound for safety where all the callers are Expecting.
Symmetry == Permutations(Callers)

=============================================================================

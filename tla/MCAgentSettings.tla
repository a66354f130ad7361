--------------------------- MODULE MCAgentSettings ---------------------------
(* An instance of AgentSettings for TLC. *)
EXTENDS AgentSettings, TLC
CONSTANTS agent, p1, p2

\* The saves of a client differ in nothing.
MCSaves == Permutations({p1, p2})

=============================================================================

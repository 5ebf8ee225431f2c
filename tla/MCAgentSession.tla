--------------------------- MODULE MCAgentSession ---------------------------
(* Instances of AgentSession for TLC. *)
EXTENDS AgentSession, TLC

\* Handlers and sessions are interchangeable (safety runs only).
Symmetry == Permutations(Conn) \cup Permutations(Session)
=============================================================================

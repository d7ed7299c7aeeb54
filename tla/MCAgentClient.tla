--------------------------- MODULE MCAgentClient ---------------------------
(* The instances of AgentClient that TLC checks are in the .cfg files. *)
EXTENDS AgentClient
=============================================================================

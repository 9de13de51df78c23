--------------------------- MODULE MCAgentSession ---------------------------
(* Instances of AgentSession for TLC; the bounds are in the cfg files.     *)
EXTENDS AgentSession
=============================================================================

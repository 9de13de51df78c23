-------------------------- MODULE MCAgentWorkspace --------------------------
(* Instances of AgentWorkspace for TLC.                                    *)
EXTENDS AgentWorkspace, TLC

CONSTANTS f1, f2, w1, w2

(* Files and threads are interchangeable.                                  *)
Interchangeable == Permutations(Files) \cup Permutations(Workers)
=============================================================================

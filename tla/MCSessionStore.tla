--------------------------- MODULE MCSessionStore ---------------------------
(* Instances of SessionStore for TLC.                                      *)
EXTENDS SessionStore, TLC

Symmetry == Permutations(Procs) \cup Permutations(Sessions) \cup Permutations(Workspaces)
=============================================================================

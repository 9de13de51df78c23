------------------------- MODULE MCGatewayLifecycle -------------------------
(* Instances of GatewayLifecycle for TLC.                                  *)
EXTENDS GatewayLifecycle

CONSTANTS r1, r2, c1, i1, i2, i3

(* Three ids, or one that two requests share, of which one may be a check. *)
MCSent ==
  {[r \in Requests |-> CASE r = r1 -> i1 [] r = r2 -> i [] r = c1 -> j] :
     <<i, j>> \in {<<i2, i3>>, <<i1, i2>>, <<i2, i1>>}}
=============================================================================

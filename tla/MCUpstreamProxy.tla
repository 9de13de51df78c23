--------------------------- MODULE MCUpstreamProxy ---------------------------
(* Instances of UpstreamProxy for TLC.                                     *)
EXTENDS UpstreamProxy

CONSTANTS r1, r2, r3, r4, u1, u2

(* Three requests to u1, of which r3 streams, and one stream to u2.        *)
MCTargetOf == [r \in Requests |-> IF r = r4 THEN u2 ELSE u1]
MCStreaming == {r3, r4} \cap Requests
=============================================================================

---------------------------- MODULE MCRateLimiter ----------------------------
(* Instances of RateLimiter for TLC: a client on two endpoints, of which   *)
(* the second may have a rule with a longer window.                        *)
EXTENDS RateLimiter, TLC

CONSTANTS chat, embed, EmbedWindow

MCLimit == [k \in Keys |-> IF k = chat THEN 2 ELSE 1]
MCWindow == [k \in Keys |-> IF k = chat THEN GlobalWindow ELSE EmbedWindow]

Symmetry == Permutations(Threads)
=============================================================================

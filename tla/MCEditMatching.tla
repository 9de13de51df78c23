--------------------------- MODULE MCEditMatching ---------------------------
(* Instances of EditMatching for TLC.                                      *)
EXTENDS EditMatching

MCSymbols == {"nl", "sp", "a", "b"}

(* Files of up to five symbols, anchors of up to four, without the new one. *)
MCOriginals == BoundedSeq(MCSymbols \ {"b"}, 5)
MCAnchors == BoundedSeq(MCSymbols \ {"b"}, 4)
MCNews == {<<"b">>}
=============================================================================

-------------------------- MODULE MCToolCallStream --------------------------
(* Instances of ToolCallStream for TLC.                                    *)
EXTENDS ToolCallStream

Call(name, arguments, object, faulty) ==
  [name |-> name, arguments |-> arguments, object |-> object, faulty |-> faulty]

MCCalls == {Call(1, 0, TRUE, FALSE), Call(1, 2, TRUE, FALSE), Call(2, 1, TRUE, FALSE),
            Call(1, 2, FALSE, FALSE), Call(1, 2, TRUE, TRUE)}

(* Up to two calls, and three of the kind that has two pieces.             *)
MCReplies == BoundedSeq(MCCalls, 2) \cup {<<Call(1, 2, TRUE, FALSE), Call(2, 1, TRUE, FALSE),
                                           Call(1, 2, TRUE, FALSE)>>}
MCMarkers == {"<function=", "</function>", "<parameter="}
=============================================================================

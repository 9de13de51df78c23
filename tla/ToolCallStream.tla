--------------------------- MODULE ToolCallStream ---------------------------
(***************************************************************************)
(* One streamed turn of the agent's client (client.py): the tool calls of  *)
(* the model's reply arrive in fragments, _consume puts them together by   *)
(* their index, and _finalise keeps the ones that can be run.              *)
(*                                                                         *)
(* The model means to make a list of calls.  A call's text is a number of  *)
(* pieces of its name followed by pieces of its arguments, none of them    *)
(* blank; a piece is <<call, position>>, and a text is the sequence of its *)
(* pieces.  The stream interleaves the calls as it likes and may end       *)
(* anywhere, as it does at the token cap.                                  *)
(***************************************************************************)
EXTENDS Integers, Sequences, FiniteSets, FiniteSetsExt, SequencesExt

CONSTANTS
  Replies,      \* what the model may mean to send: sequences of calls
  Markers,      \* what _LEAKED_CALL and its companions look for in the content
  None

(* A call has a name, and text in pieces; object is whether its arguments  *)
(* are one, and not another value or broken JSON; faulty is whether the    *)
(* server may lose its index.                                              *)
Calls == [name : Nat \ {0}, arguments : Nat, object : BOOLEAN, faulty : BOOLEAN]

StreamShape ==
  /\ Replies \subseteq Seq(Calls)
  /\ None \notin {"id"} \X Nat
  /\ None \notin {"no_name", "cut_off", "not_json", "no_object", "tool_calls", "length"}

ASSUME StreamConstants == StreamShape

VARIABLES
  reply,      \* the calls that the model is sending
  sent,       \* how many pieces of each have been sent
  partials,   \* _PartialToolCall by index
  content,    \* the markers that AssistantTurn.content has
  finish,     \* AssistantTurn.finish_reason
  stage,      \* "streaming", and "done" after _finalise
  parsed,     \* what json.loads made of the arguments at each index
  tool_calls, \* AssistantTurn.tool_calls, and with it the raw calls
  malformed   \* AssistantTurn.malformed, as the index and the reason of each entry

streamVars == <<reply, sent, partials, content, finish, stage, parsed, tool_calls, malformed>>

Pieces(i) == reply[i].name + reply[i].arguments

Text(i, from, to) == [k \in 1..(to - from + 1) |-> <<i, from + k - 1>>]

Name(i) == Text(i, 1, reply[i].name)

Arguments(i) == Text(i, reply[i].name + 1, Pieces(i))

(* What json.loads may make of a text.  Nothing stands for {}; a whole     *)
(* text is an object if it was meant as one, and the proper start of an    *)
(* object is not JSON, as its last brace is missing.  What began a broken  *)
(* text may be anything, and so may a text that lacks a piece in its       *)
(* middle, or has pieces of several calls.                                 *)
Readings(text) ==
  {v \in {"object", "value", "error"} :
     /\ text = <<>> => v = "object"
     /\ \A i \in DOMAIN reply :
          text # <<>> /\ IsPrefix(text, Arguments(i)) =>
            IF text = Arguments(i) THEN v = "object" <=> reply[i].object
                                   ELSE reply[i].object => v = "error"}

Empty == [id |-> None, name |-> <<>>, arguments |-> <<>>]

StreamInit ==
  /\ reply \in Replies
  /\ sent = [i \in DOMAIN reply |-> 0]
  /\ partials = [k \in {} |-> Empty]
  /\ content = {}
  /\ finish = None
  /\ stage = "streaming"
  /\ parsed = [k \in {} |-> "object"]
  /\ tool_calls = <<>>
  /\ malformed = <<>>

-----------------------------------------------------------------------------
(* _consume.                                                               *)

(* A new index goes on where the last one stopped.                         *)
setdefault_Continues(index) ==
  IF index \in DOMAIN partials THEN partials[index]
  ELSE IF DOMAIN partials = {} THEN Empty ELSE partials[Max(DOMAIN partials)]

(* partials.setdefault(index, _PartialToolCall())                          *)
setdefault(index) == IF index \in DOMAIN partials THEN partials[index] ELSE Empty

(* The id replaces what was there; name and arguments are appended.        *)
Joined(p, id, name, arguments) ==
  [id |-> IF id = None THEN p.id ELSE id,
   name |-> p.name \o name,
   arguments |-> p.arguments \o arguments]

Put(index, p) ==
  [k \in DOMAIN partials \cup {index} |-> IF k = index THEN p ELSE partials[k]]

(* A fragment of call i: its next piece, with the id in the first one.  A  *)
(* server may leave out the id, or the index, which is then 0.             *)
Fragment(i, index, id) ==
  LET n == sent[i] + 1
      piece == <<<<i, n>>>>
  IN  /\ stage = "streaming" /\ finish = None
      /\ n <= Pieces(i)
      /\ sent' = [sent EXCEPT ![i] = n]
      /\ partials' = Put(index,
           IF n <= reply[i].name
           THEN Joined(setdefault(index), id, piece, <<>>)
           ELSE Joined(setdefault(index), id, <<>>, piece))
      /\ UNCHANGED <<reply, content, finish, stage, parsed, tool_calls, malformed>>

(* A fragment whose index is no int is skipped; lines that are no events,  *)
(* and events without choices, leave no trace either.                      *)
Skipped(i) ==
  /\ stage = "streaming" /\ finish = None
  /\ sent[i] < Pieces(i)
  /\ sent' = [sent EXCEPT ![i] = @ + 1]
  /\ UNCHANGED <<reply, partials, content, finish, stage, parsed, tool_calls, malformed>>

Content(marker) ==
  /\ stage = "streaming" /\ finish = None
  /\ marker \notin content
  /\ content' = content \cup {marker}
  /\ UNCHANGED <<reply, sent, partials, finish, stage, parsed, tool_calls, malformed>>

(* The last event says why the model stopped: it was done, or cut off.     *)
Finish(reason) ==
  /\ stage = "streaming" /\ finish = None
  /\ reason = "tool_calls" => \A i \in DOMAIN reply : sent[i] = Pieces(i)
  /\ finish' = reason
  /\ UNCHANGED <<reply, sent, partials, content, stage, parsed, tool_calls, malformed>>

-----------------------------------------------------------------------------
(* _finalise.                                                              *)

(* Why the call at this index cannot be run, or None.                      *)
Defect(index, value) ==
  CASE partials[index].name = <<>> -> "no_name"
    [] partials[index].name # <<>> /\ value = "error" ->
         IF finish = "length" THEN "cut_off" ELSE "not_json"
    [] partials[index].name # <<>> /\ value = "value" -> "no_object"
    [] OTHER -> None

IdAt(index) == IF partials[index].id = None THEN <<"call", index>> ELSE partials[index].id

(* Without any call that can be run, one that was written out as text.     *)
Leaked(calls) ==
  /\ calls = <<>>
  /\ {"<function=", "</function>"} \subseteq content
  /\ {"<parameter=", "</tool_call>"} \cap content # {}

Enumerated(S) ==
  CHOOSE s \in [1..Cardinality(S) -> S] : \A i, j \in DOMAIN s : i < j => s[i] < s[j]

(* Mutant: index 0 taken for no index.                                     *)
sorted_Truthy(indexes) == Enumerated(indexes \ {0})

(* The indexes of one of the two lists, in the order of the loop.          *)
sorted(indexes) == Enumerated(indexes)

(* The stream is over, with or without a finish reason.                    *)
_finalise ==
  /\ stage = "streaming"
  /\ parsed' \in [DOMAIN partials -> {"object", "value", "error"}]
  /\ \A k \in DOMAIN partials : parsed'[k] \in Readings(partials[k].arguments)
  /\ LET defect(k) == Defect(k, parsed'[k])
         good == sorted({k \in DOMAIN partials : defect(k) = None})
         bad == sorted({k \in DOMAIN partials : defect(k) # None})
         calls == [j \in DOMAIN good |-> [id |-> IdAt(good[j]), name |-> partials[good[j]].name,
                                          arguments |-> partials[good[j]].arguments]]
         notes == [j \in DOMAIN bad |-> <<bad[j], defect(bad[j])>>]
     IN  /\ tool_calls' = calls
         /\ malformed' = IF Leaked(calls) THEN notes \o <<<<-1, "leaked">>>> ELSE notes
  /\ stage' = "done"
  /\ UNCHANGED <<reply, sent, partials, content, finish>>

StreamNext ==
  \/ \E i \in DOMAIN reply :
       \/ \E id \in {None, <<"id", i>>}, index \in {i - 1, 0} :
            /\ index = i - 1 \/ reply[i].faulty
            /\ Fragment(i, index, IF sent[i] = 0 THEN id ELSE None)
       \/ reply[i].faulty /\ Skipped(i)
  \/ \E m \in Markers : Content(m)
  \/ \E reason \in {"tool_calls", "length"} : Finish(reason)
  \/ _finalise

StreamSpec == StreamInit /\ [][StreamNext]_streamVars

-----------------------------------------------------------------------------
Orderly == \A i \in DOMAIN reply : ~reply[i].faulty

(* No piece of call i is lost, and none of another is put at its index:    *)
(* what has no index goes to the first one's.                              *)
Isolated(i) == ~reply[i].faulty /\ (i = 1 => Orderly)

(* Where the stream interleaved the calls, wherever it ended and whatever  *)
(* happens to the other calls: what is run under the name of a call whose  *)
(* own pieces arrived in order is that call, whole.  A call that was cut   *)
(* off in its arguments is not run, unless they were broken anyway and     *)
(* what came of them is an object; one that was cut off before them is run *)
(* without.                                                                *)
RunsOnlyWholeCalls ==
  \A j \in DOMAIN tool_calls :
    LET c == tool_calls[j]
        i == c.name[1][1]
    IN  Isolated(i) =>
          \/ c.name = Name(i) /\ c.arguments = Arguments(i) /\ reply[i].object
          \/ IsPrefix(c.name, Name(i)) /\ c.arguments = <<>>
          \/ /\ c.name = Name(i) /\ ~reply[i].object
             /\ IsPrefix(c.arguments, Arguments(i)) /\ c.arguments # Arguments(i)

(* Nothing falls between the two lists: every index that a fragment named  *)
(* is run or complained about, once; and a finished reply of an orderly    *)
(* stream is run in full, in the model's order, but for calls that are no  *)
(* objects.  The ids of the calls are distinct, given or made up, so that  *)
(* their results can be told apart.                                        *)
EveryCallIsAccountedFor ==
  stage = "done" =>
    /\ Len(tool_calls) + Cardinality({k \in DOMAIN malformed : malformed[k][1] >= 0})
         = Cardinality(DOMAIN partials)
    /\ \A j, k \in DOMAIN tool_calls : tool_calls[j].id = tool_calls[k].id => j = k
    /\ Orderly /\ finish = "tool_calls" =>
         [j \in DOMAIN tool_calls |-> tool_calls[j].name]
           = LET run == Enumerated({i \in DOMAIN reply : reply[i].object \/ reply[i].arguments = 0})
             IN  [j \in DOMAIN run |-> Name(run[j])]
=============================================================================

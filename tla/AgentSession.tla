---------------------------- MODULE AgentSession ----------------------------
(***************************************************************************)
(* The agent's conversation loop (session.py, with the REPL of cli.py and  *)
(* the turn of client.py): what goes into the transcript, what runs, and   *)
(* what is left when the user interrupts, the prompt cannot be shown, the  *)
(* stream breaks or the transcript is compacted.                           *)
(*                                                                         *)
(* A turn awaits the model and awaits each tool, which runs in a worker    *)
(* thread.  Ctrl-C cancels the coroutine at an await; it cannot stop the   *)
(* thread.  Everything between two awaits is one step.                     *)
(***************************************************************************)
EXTENDS Integers, Sequences, FiniteSets

CONSTANTS
  Tools,       \* the calls a model makes, each with arguments of its own
  MaxCalls,    \* bound: calls in one assistant message
  MaxAsks,     \* bound: user messages over all processes
  MaxTurns,    \* bound: assistant messages over all processes
  MaxSteps,    \* _MAX_STEPS
  RepeatAbort, \* _REPEAT_ABORT
  MinMessages, \* compaction leaves a transcript this short alone
  TailCount    \* messages at the end that compaction keeps

ASSUME SessionConstants ==
  /\ Tools \subseteq {"read_file", "edit_file", "grep", "run"}
  /\ {MaxCalls, MaxAsks, MaxTurns, MaxSteps, RepeatAbort, TailCount} \subseteq Nat \ {0}
  /\ MinMessages \in Nat /\ MinMessages > TailCount

VARIABLES
  messages, \* Session.messages: what is sent to the model
  history,  \* Session.history: everything that was said
  saved,    \* the session file on disk
  pc,       \* where the REPL and its turn are
  calls,    \* the tool calls of the turn being executed
  current,  \* the index of the call being executed
  step,     \* iterations of the turn's loop
  failures, \* Session._failures: failed calls, per call signature
  workers,  \* calls whose worker thread is running
  ran,      \* calls whose worker thread has finished its work
  edited,   \* whether an edit has run in this process: until then
            \* Workspace.written_since_read is empty
  asks,     \* user messages so far
  turns     \* assistant messages so far

control == <<pc, calls, current, step>>
threads == <<workers, ran, edited>>
vars == <<messages, history, saved, control, failures, threads, asks, turns>>

-----------------------------------------------------------------------------
(* Messages.  The assistant message of turn t has the calls as tool names; *)
(* the id of its i-th call is <<t, i>>.  All that is kept of a text is     *)
(* what the code or the properties tell apart.                             *)
Ids == Nat \X Nat
Roles == {"user", "assistant", "tool"}
Texts == {"ask", "retry", "summary", "reply",
          "ok", "error", "gave_up", "declined", "not_asked", "interrupted"}
Message == [role : Roles, id : Ids, calls : Seq(Tools), text : Texts]

UserMessage(text) == [role |-> "user", id |-> <<0, 0>>, calls |-> <<>>, text |-> text]
AssistantMessage(t, cs) == [role |-> "assistant", id |-> <<t, 0>>, calls |-> cs, text |-> "reply"]
ToolMessage(id, text) == [role |-> "tool", id |-> id, calls |-> <<>>, text |-> text]

(* _say: every message goes to both lists.                                 *)
Say(ms) == messages' = messages \o ms /\ history' = history \o ms

(* approval_for: the tools that change something ask.  edit_file stands    *)
(* for write_file too, grep for every read-only tool but read_file.        *)
NeedsApproval(tool) == tool \in {"edit_file", "run"}

CallId == <<turns, current>>

-----------------------------------------------------------------------------
(* _unanswered_tool_calls, as the messages repair_after_cancel adds: one   *)
(* for each call of the latest assistant message without a later result.   *)
Assistants(m) == {p \in DOMAIN m : m[p].role = "assistant"}

LatestAssistant(m) == CHOOSE p \in Assistants(m) : \A q \in Assistants(m) : q <= p

Answered(m, p, id) == \E q \in (p + 1)..Len(m) : m[q].role = "tool" /\ m[q].id = id

(* Mutant: every call of the latest assistant message, answered or not.    *)
Unanswered_All(m) ==
  IF Assistants(m) = {} THEN <<>>
  ELSE LET p == LatestAssistant(m)
       IN  [i \in DOMAIN m[p].calls |-> <<m[p].id[1], i>>]

(* The calls at p without a result, by their place among its calls.        *)
OpenCalls(m, p) == {i \in DOMAIN m[p].calls : ~Answered(m, p, <<m[p].id[1], i>>)}

(* A set of numbers as a list, in their order.                             *)
InOrder(S) ==
  CHOOSE s \in [1..Cardinality(S) -> S] : \A i, j \in DOMAIN s : i < j => s[i] < s[j]

Unanswered(m) ==
  IF Assistants(m) = {} THEN <<>>
  ELSE LET p == LatestAssistant(m)
           open == InOrder(OpenCalls(m, p))
       IN  [n \in DOMAIN open |-> <<m[p].id[1], open[n]>>]

Repairs(m) ==
  [i \in DOMAIN Unanswered(m) |-> ToolMessage(Unanswered(m)[i], "interrupted")]

-----------------------------------------------------------------------------
(* _compact_if_needed: the first message, a note, and the last few without *)
(* the tool results at their head, whose assistant message is gone.        *)
TailStart(m) == IF Len(m) > TailCount THEN Len(m) - TailCount + 1 ELSE 1

(* Mutant: the results at the head of the tail stay.                       *)
FirstKept_KeepsResults(m) == TailStart(m)

FirstKept(m) ==
  CHOOSE i \in TailStart(m)..(Len(m) + 1) :
    /\ \A j \in TailStart(m)..(i - 1) : m[j].role = "tool"
    /\ i <= Len(m) => m[i].role # "tool"

KeptTail(m) == SubSeq(m, FirstKept(m), Len(m))

Dropped(m) == Len(m) - 1 - Len(KeptTail(m))

(* Mutant: the messages up to the last note are taken for the head.        *)
Compacted_KeepsTwo(m) == <<m[1], m[2], UserMessage("summary")>> \o KeptTail(m)

Compacted(m) == <<m[1], UserMessage("summary")>> \o KeptTail(m)

(* The tool that a result answers, if its assistant message is still there.*)
ToolOf(m, q) ==
  {m[p].calls[m[q].id[2]] :
     p \in {a \in Assistants(m) : m[a].id[1] = m[q].id[1] /\ m[q].id[2] \in DOMAIN m[a].calls}}

(* The results whose call arguments compaction looks into: among the last  *)
(* few, those of file tools while some file is being edited; among the     *)
(* dropped, those of read_file.  The arguments are the JSON text that the  *)
(* client stored, on which .get("path") raises AttributeError.             *)
LooksIntoArguments(m, editing) ==
  \/ /\ editing
     /\ \E q \in TailStart(m)..Len(m) :
          m[q].role = "tool" /\ ToolOf(m, q) \cap {"read_file", "edit_file"} # {}
  \/ /\ Dropped(m) > 0
     /\ \E q \in 2..(FirstKept(m) - 1) :
          m[q].role = "tool" /\ "read_file" \in ToolOf(m, q)

-----------------------------------------------------------------------------
Init ==
  /\ messages = <<>> /\ history = <<>> /\ saved = <<>>
  /\ pc = "prompt" /\ calls = <<>> /\ current = 0 /\ step = 0
  /\ failures = [s \in Tools |-> 0]
  /\ workers = {} /\ ran = {} /\ edited = FALSE
  /\ asks = 0 /\ turns = 0

(* The REPL reads a message; _ask starts with it.                          *)
Ask ==
  /\ pc = "prompt"
  /\ asks < MaxAsks
  /\ asks' = asks + 1
  /\ Say(<<UserMessage("ask")>>)
  /\ pc' = "loop" /\ step' = 0
  /\ UNCHANGED <<saved, calls, current, failures, threads, turns>>

(* One iteration of the loop up to the await: compact, then ask the model. *)
Send ==
  /\ pc = "loop"
  /\ step < MaxSteps
  /\ pc' = "thinking"
  /\ step' = step + 1
  /\ UNCHANGED <<messages, history, saved, calls, current, failures, threads,
                 asks, turns>>

SendCompacted(editing) ==
  /\ pc = "loop"
  /\ editing => edited
  /\ step < MaxSteps
  /\ Len(messages) > MinMessages
  /\ ~LooksIntoArguments(messages, editing)
  /\ messages' = IF Dropped(messages) > 0 THEN Compacted(messages) ELSE messages
  /\ pc' = "thinking"
  /\ step' = step + 1
  /\ UNCHANGED <<history, saved, calls, current, failures, threads, asks, turns>>

CompactionRaises(editing) ==
  /\ pc = "loop"
  /\ editing => edited
  /\ step < MaxSteps
  /\ Len(messages) > MinMessages
  /\ LooksIntoArguments(messages, editing)
  /\ pc' = "crashed"
  /\ UNCHANGED <<messages, history, saved, calls, current, step, failures, threads,
                 asks, turns>>

(* Mutant: the loop is left one step too late.                             *)
OutOfSteps_TooLate ==
  /\ pc = "loop"
  /\ step > MaxSteps
  /\ pc' = "finished"
  /\ UNCHANGED <<messages, history, saved, calls, current, step, failures, threads,
                 asks, turns>>

(* range(_MAX_STEPS) is exhausted.                                         *)
OutOfSteps ==
  /\ pc = "loop"
  /\ step = MaxSteps
  /\ pc' = "finished"
  /\ UNCHANGED <<messages, history, saved, calls, current, step, failures, threads,
                 asks, turns>>

(* The model's turn arrives with calls, ...                                *)
TurnWithCalls(cs) ==
  /\ pc = "thinking"
  /\ turns < MaxTurns
  /\ cs # <<>>
  /\ turns' = turns + 1
  /\ Say(<<AssistantMessage(turns + 1, cs)>>)
  /\ pc' = "executing" /\ calls' = cs /\ current' = 1
  /\ UNCHANGED <<saved, step, failures, threads, asks>>

(* ... with a final answer, or with calls so broken that none is left.     *)
TurnWithoutCalls(malformed) ==
  /\ pc = "thinking"
  /\ turns < MaxTurns
  /\ turns' = turns + 1
  /\ LET reply == AssistantMessage(turns + 1, <<>>)
     IN  Say(IF malformed THEN <<reply, UserMessage("retry")>> ELSE <<reply>>)
  /\ pc' = IF malformed THEN "loop" ELSE "finished"
  /\ UNCHANGED <<saved, calls, current, step, failures, threads, asks>>

(* TurnError: the gateway is unreachable or refuses the request.           *)
TurnFails ==
  /\ pc = "thinking"
  /\ pc' = "finished"
  /\ UNCHANGED <<messages, history, saved, calls, current, step, failures, threads,
                 asks, turns>>

(* The stream breaks while it is read: no handler, the process ends.       *)
StreamBreaks ==
  /\ pc = "thinking"
  /\ pc' = "crashed"
  /\ UNCHANGED <<messages, history, saved, calls, current, step, failures, threads,
                 asks, turns>>

(* Mutant: the loop over the calls runs past the last one.                 *)
NextCall_TooFar ==
  IF current <= Len(calls)
  THEN pc' = "executing" /\ current' = current + 1
  ELSE pc' = "loop" /\ current' = 0

(* The loop over the calls goes on, or the turn's iteration is complete.   *)
NextCall ==
  IF current < Len(calls)
  THEN pc' = "executing" /\ current' = current + 1
  ELSE pc' = "loop" /\ current' = 0

(* Mutant: the refusal is recorded, and the loop does not `continue`.      *)
Decline_FallsThrough ==
  /\ pc = "executing"
  /\ NeedsApproval(calls[current])
  /\ Say(<<ToolMessage(CallId, "declined")>>)
  /\ workers' = workers \cup {CallId}
  /\ pc' = "running"
  /\ UNCHANGED <<saved, calls, current, step, failures, ran, edited,
                 asks, turns>>

Decline ==
  /\ pc = "executing"
  /\ NeedsApproval(calls[current])
  /\ Say(<<ToolMessage(CallId, "declined")>>)
  /\ NextCall
  /\ UNCHANGED <<saved, calls, step, failures, threads, asks, turns>>

(* InputUnavailableError: _execute returns False at once.                  *)
CannotAsk ==
  /\ pc = "executing"
  /\ NeedsApproval(calls[current])
  /\ Say(<<ToolMessage(CallId, "not_asked")>>)
  /\ pc' = "finished"
  /\ UNCHANGED <<saved, calls, current, step, failures, threads, asks, turns>>

(* Approved, or no approval needed: the worker thread starts.              *)
Start ==
  /\ pc = "executing"
  /\ workers' = workers \cup {CallId}
  /\ pc' = "running"
  /\ UNCHANGED <<messages, history, saved, calls, current, step, failures, ran, edited,
                 asks, turns>>

Edits(id) ==
  \E p \in Assistants(history) :
    history[p].id[1] = id[1] /\ history[p].calls[id[2]] = "edit_file"

(* A thread finishes, whether or not anybody still waits for it.           *)
WorkerEnds(id) ==
  /\ workers' = workers \ {id}
  /\ ran' = ran \cup {id}
  /\ edited' = (edited \/ Edits(id))
  /\ UNCHANGED <<messages, history, saved, control, failures, asks, turns>>

(* The awaited thread is done: _repetition, _record, and maybe give up.    *)
RecordSuccess ==
  /\ pc = "running"
  /\ CallId \notin workers
  /\ Say(<<ToolMessage(CallId, "ok")>>)
  /\ NextCall
  /\ UNCHANGED <<saved, calls, step, failures, threads, asks, turns>>

RecordFailure ==
  LET tool == calls[current]
      gives_up == failures[tool] + 1 >= RepeatAbort
  IN  /\ pc = "running"
      /\ CallId \notin workers
      /\ failures' = [failures EXCEPT ![tool] = @ + 1]
      /\ Say(<<ToolMessage(CallId, IF gives_up THEN "gave_up" ELSE "error")>>)
      /\ IF gives_up THEN pc' = "finished" /\ UNCHANGED current ELSE NextCall
      /\ UNCHANGED <<saved, calls, step, threads, asks, turns>>

(* Ctrl-C: the coroutine is cancelled at its await, and ask() closes the   *)
(* calls that were left open.  A call still queued in the executor is      *)
(* cancelled with it; a thread that has it goes on.                        *)
Cancel(queued) ==
  /\ pc \in {"thinking", "running"}
  /\ queued => pc = "running" /\ CallId \in workers
  /\ workers' = IF queued THEN workers \ {CallId} ELSE workers
  /\ Say(Repairs(messages))
  /\ pc' = "finished"
  /\ UNCHANGED <<saved, calls, current, step, failures, ran, edited,
                 asks, turns>>

(* Mutant: the trimmed list is saved.                                      *)
Keep_Trimmed ==
  /\ pc = "finished"
  /\ saved' = messages
  /\ pc' = "prompt"
  /\ UNCHANGED <<messages, history, calls, current, step, failures, threads,
                 asks, turns>>

(* keep(): the session file is rewritten, or that fails with a warning.    *)
Keep ==
  /\ pc = "finished"
  /\ saved' = history
  /\ pc' = "prompt"
  /\ UNCHANGED <<messages, history, calls, current, step, failures, threads,
                 asks, turns>>

KeepFails ==
  /\ pc = "finished"
  /\ pc' = "prompt"
  /\ UNCHANGED <<messages, history, saved, calls, current, step, failures, threads,
                 asks, turns>>

(* The process ended, by /exit or by an exception, once the executor's     *)
(* threads were joined; the user resumes the saved session.                *)
Resume ==
  /\ pc \in {"crashed", "prompt"}
  /\ asks < MaxAsks
  /\ workers = {}
  /\ messages' = saved
  /\ history' = saved
  /\ pc' = "prompt"
  /\ failures' = [s \in Tools |-> 0]
  /\ edited' = FALSE
  /\ UNCHANGED <<saved, calls, current, step, workers, ran, asks, turns>>

CallLists == UNION {[1..n -> Tools] : n \in 1..MaxCalls}

Turn ==
  \/ Send
  \/ \E editing \in BOOLEAN : SendCompacted(editing) \/ CompactionRaises(editing)
  \/ OutOfSteps
  \/ \E cs \in CallLists : TurnWithCalls(cs)
  \/ \E malformed \in BOOLEAN : TurnWithoutCalls(malformed)
  \/ TurnFails \/ StreamBreaks
  \/ Decline \/ CannotAsk \/ Start
  \/ RecordSuccess \/ RecordFailure
  \/ Keep \/ KeepFails

Next ==
  \/ Ask \/ Turn \/ Resume
  \/ \E queued \in BOOLEAN : Cancel(queued)
  \/ \E id \in workers : WorkerEnds(id)

Spec == Init /\ [][Next]_vars

(* The model's reply ends or fails, the user answers the prompts, and the  *)
(* tools come to an end.                                                   *)
FairSpec ==
  /\ Spec
  /\ WF_vars(Turn)
  /\ WF_vars(\E id \in workers : WorkerEnds(id))

-----------------------------------------------------------------------------
(* Every variable stays in its type, and the turn within its bounds.       *)
TypeOK ==
  /\ messages \in Seq(Message)
  /\ history \in Seq(Message)
  /\ saved \in Seq(Message)
  /\ pc \in {"prompt", "loop", "thinking", "executing", "running", "finished", "crashed"}
  /\ calls \in Seq(Tools)
  /\ current \in 0..MaxCalls
  /\ pc \in {"executing", "running"} => current \in DOMAIN calls
  /\ step \in 0..MaxSteps
  /\ failures \in [Tools -> Nat]
  /\ workers \subseteq Ids /\ ran \subseteq Ids /\ edited \in BOOLEAN
  /\ asks \in 0..MaxAsks
  /\ turns \in 0..MaxTurns

(* The results right behind the assistant message at p.                    *)
ResultsAt(m, p) == {q \in (p + 1)..Len(m) : \A j \in (p + 1)..q : m[j].role = "tool"}

(* One result behind it for every call, and none of anything else.         *)
CallsAnswered(m, p) ==
  /\ \A i \in DOMAIN m[p].calls :
       Cardinality({q \in ResultsAt(m, p) : m[q].id = <<m[p].id[1], i>>}) = 1
  /\ \A q \in ResultsAt(m, p) :
       m[q].id[1] = m[p].id[1] /\ m[q].id[2] \in DOMAIN m[p].calls

ResultAttached(m, q) == \E p \in Assistants(m) : q \in ResultsAt(m, p)

Results(m) == {q \in DOMAIN m : m[q].role = "tool"}

(* A turn that _execute abandoned: nobody to ask, or too many failures.    *)
Stopped(t) ==
  \E q \in Results(history) :
    history[q].id[1] = t /\ history[q].text \in {"not_asked", "gave_up"}

(* Every request the agent sends answers each call of each turn once,      *)
(* right behind it, whatever was interrupted, declined, compacted or       *)
(* resumed before; only a turn that _execute abandoned may be left open.   *)
OnlyStoppedTurnsAreOpen ==
  pc = "thinking" =>
    /\ \A p \in Assistants(messages) :
         Stopped(messages[p].id[1]) \/ CallsAnswered(messages, p)
    /\ \A q \in Results(messages) :
         Stopped(messages[q].id[1]) \/ ResultAttached(messages, q)

(* No call is answered twice, however often a turn was interrupted.        *)
OneResultPerCall ==
  \A p, q \in Results(history) : history[p].id = history[q].id => p = q

(* What is sent is all that was said, or its first message, a note and its *)
(* end: compactions do not pile up notes, and repairs reach both lists.    *)
SentIsHeadAndTail ==
  \/ messages = history
  \/ \E k \in 2..(Len(history) + 1) :
       messages = <<history[1], UserMessage("summary")>> \o SubSeq(history, k, Len(history))

(* The session file only ever grows, through compactions, failed saves,    *)
(* crashes and resumptions: no save takes back what an earlier one kept.   *)
SavedOnlyGrows ==
  [][/\ Len(saved) <= Len(saved')
     /\ SubSeq(saved', 1, Len(saved)) = saved]_vars

(* What the user declined, or could not be asked about, never runs.        *)
DeclinedNeverRuns ==
  \A q \in Results(history) :
    history[q].text \in {"declined", "not_asked"} => history[q].id \notin workers \cup ran

(* A message that the user sends comes to an end: the prompt returns, or   *)
(* the process ends with an exception.                                     *)
AskEnds == pc = "loop" ~> pc \in {"prompt", "crashed"}
=============================================================================

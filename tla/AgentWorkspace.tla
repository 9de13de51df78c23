--------------------------- MODULE AgentWorkspace ---------------------------
(***************************************************************************)
(* The agent's hands on the files: the read-before-edit rule, the read     *)
(* cache and the approval of edits (workspace.py, tools.py), and what of   *)
(* them a saved session brings back (store.py).                            *)
(*                                                                         *)
(* A tool runs in a worker thread that Ctrl-C abandons but does not stop,  *)
(* so threads of several calls, the event loop that previews, asks and     *)
(* saves, and other programs all touch the same files.                     *)
(***************************************************************************)
EXTENDS Integers, Sequences, FiniteSets

CONSTANTS
  Files,
  Workers,   \* bound: threads that can be alive together
  CacheSize, \* _CACHE_MAX_SIZE
  MaxWrites  \* bound: writes to the files, the agent's and the others'

ASSUME WorkspaceConstants ==
  /\ CacheSize \in Nat \ {0}
  /\ MaxWrites \in Nat
  /\ "nobody" \notin Workers

VARIABLES
  disk,   \* the contents of each file and its mtime
  writes, \* writes so far; every write makes contents of its own
  cache,  \* Workspace._file_cache, the least recently used entry first
  seen, written_since_read, written, \* the sets of Workspace
  loop,   \* what the event loop is doing
  call,   \* the call that waits for the user's answer
  worker, \* the call each thread runs, and how far it has come
  awaited,\* the thread the turn waits for, if any
  saving, \* the files whose digests save() has, and those still to do
  store,  \* the session file
  asked   \* history: the files that the transcript asks to read or write

tracked == <<seen, written_since_read, written>>
turn == <<loop, call, awaited>>
vars == <<disk, writes, cache, tracked, turn, worker, saving, store, asked>>

-----------------------------------------------------------------------------
(* Contents are numbered by the write that made them.  A write moves the   *)
(* mtime, so that number serves as the mtime too.                          *)
Absent == 0
Nobody == "nobody"

Contents == 0..MaxWrites + 1

is_file(f) == disk[f] # Absent

Ops == {"read_file", "edit_file", "write_file"}

(* A call: its file, whether it wants a range of lines only, the contents  *)
(* of the file to edit when the call is taken up, whether the edit fits    *)
(* those (or the text to write differs from the file's, which can be read),*)
(* and whether the user approved it.  A thread adds the mtime and the text *)
(* it has, as long as it needs them.                                       *)
Call == [op : Ops, file : Files, partial : BOOLEAN, previewed : Contents,
         fits : BOOLEAN, approved : BOOLEAN]

Labels == {"begin", "open", "apply", "book"}
Job == [at : Labels, call : Call, mtime : Contents, text : Contents]
Idle == [at |-> "idle"]

Digests == [done : SUBSET (Files \X Contents), todo : SUBSET Files, all : SUBSET Files]
NotSaving == [done |-> {}, todo |-> {}, all |-> {}]

Alive(w) == worker[w] # Idle
Doing(w) == worker[w].call
File(w) == Doing(w).file

-----------------------------------------------------------------------------
(* _FileCache: an ordered dictionary of entries.                           *)
Entry == [file : Files, mtime : Contents, text : Contents]

(* path in _cache, and where; the paths of a dictionary are distinct.      *)
Has(f) == \E i \in DOMAIN cache : cache[i].file = f

Cached(f) == CHOOSE i \in DOMAIN cache : cache[i].file = f

(* The cache without its i-th entry.                                       *)
Removed(i) == [j \in 1..(Len(cache) - 1) |-> cache[IF j < i THEN j ELSE j + 1]]

(* invalidate()                                                            *)
Without(f) == IF Has(f) THEN Removed(Cached(f)) ELSE cache

Hit(f, mtime) == Has(f) /\ cache[Cached(f)].mtime = mtime

(* get(): a hit moves to the end, an outdated entry goes.                  *)
AfterGet(f, mtime) ==
  IF Hit(f, mtime) THEN Append(Without(f), cache[Cached(f)]) ELSE Without(f)

(* Mutant: a new entry is added without evicting one.                      *)
AfterPut_NoEviction(e) == Append(Without(e.file), e)

(* put(): replaces the file's entry, or makes room for it.                 *)
AfterPut(e) ==
  LET full == ~Has(e.file) /\ Len(cache) >= CacheSize
  IN  Append(IF full THEN Tail(cache) ELSE Without(e.file), e)

-----------------------------------------------------------------------------
Init ==
  /\ disk = [f \in Files |-> 1]
  /\ writes = 0
  /\ cache = <<>>
  /\ seen = {} /\ written_since_read = {} /\ written = {}
  /\ loop = "idle" /\ call = Idle /\ awaited = Nobody
  /\ worker = [w \in Workers |-> Idle]
  /\ saving = NotSaving
  /\ store = [seen |-> {}, asked |-> {}]
  /\ asked = {}

(* _edit_approval: there is a diff to show.  It reads the file itself, so  *)
(* that the preview does not count as the model having read the file.      *)
Previews(c) ==
  /\ c.fits
  /\ \/ c.op = "write_file"
     \/ c.op = "edit_file" /\ c.file \in seen /\ is_file(c.file)

StartWorker(w, c) ==
  /\ ~Alive(w)
  /\ worker' = [worker EXCEPT ![w] = [at |-> "begin", call |-> c, mtime |-> 0, text |-> 0]]
  /\ loop' = "running" /\ awaited' = w /\ call' = Idle

AsksFor(c) == IF c.op = "edit_file" THEN {} ELSE {c.file}

(* _execute takes up a call: the user is asked about it, ...               *)
AskUser(c) ==
  /\ loop = "idle"
  /\ Previews(c)
  /\ loop' = "asking"
  /\ call' = c
  /\ asked' = asked \cup AsksFor(c)
  /\ UNCHANGED <<disk, writes, cache, tracked, awaited, worker, saving, store>>

(* Mutant: the preview reads the file through Workspace.read.              *)
RunAtOnce_PreviewReads(w, c) ==
  /\ loop = "idle"
  /\ ~Previews(c)
  /\ StartWorker(w, c)
  /\ asked' = asked \cup AsksFor(c)
  /\ seen' = IF c.op = "edit_file" /\ is_file(c.file) THEN seen \cup {c.file} ELSE seen
  /\ UNCHANGED <<disk, writes, cache, written_since_read, written, saving, store>>

(* ... or there is nothing to ask and it runs at once.                     *)
RunAtOnce(w, c) ==
  /\ loop = "idle"
  /\ ~Previews(c)
  /\ StartWorker(w, c)
  /\ asked' = asked \cup AsksFor(c)
  /\ UNCHANGED <<disk, writes, cache, tracked, saving, store>>

Approve(w) ==
  /\ loop = "asking"
  /\ StartWorker(w, [call EXCEPT !.approved = TRUE])
  /\ UNCHANGED <<disk, writes, cache, tracked, saving, store, asked>>

Decline ==
  /\ loop = "asking"
  /\ loop' = "idle" /\ call' = Idle
  /\ UNCHANGED <<disk, writes, cache, tracked, awaited, worker, saving, store, asked>>

(* Ctrl-C while the turn waits for the thread.                             *)
Cancel ==
  /\ loop = "running"
  /\ loop' = "idle" /\ awaited' = Nobody
  /\ UNCHANGED <<disk, writes, cache, tracked, call, worker, saving, store, asked>>

-----------------------------------------------------------------------------
(* The thread w is done; the turn goes on if it was waiting for it.        *)
Finish(w) ==
  /\ worker' = [worker EXCEPT ![w] = Idle]
  /\ loop' = IF awaited = w THEN "idle" ELSE loop
  /\ awaited' = IF awaited = w THEN Nobody ELSE awaited
  /\ UNCHANGED call

(* Workspace.read(w) has the text: the file counts as read.  edit_file     *)
(* goes on to apply the edit, read_file shows the text to the model.       *)
GotText(w, text) ==
  LET f == File(w)
      c == Doing(w)
  IN  /\ seen' = seen \cup {f}
      /\ written_since_read' = IF c.partial THEN written_since_read ELSE written_since_read \ {f}
      /\ IF c.op = "edit_file"
         THEN /\ worker' = [worker EXCEPT ![w] = [@ EXCEPT !.at = "apply", !.mtime = 0, !.text = text]]
              /\ UNCHANGED turn
         ELSE Finish(w)
      /\ UNCHANGED written

Fails(w) == Finish(w) /\ UNCHANGED <<disk, writes, cache, tracked, saving, store, asked>>

MayRead(w) ==
  /\ worker[w].at = "begin"
  /\ Doing(w).op # "write_file"
  /\ Doing(w).op = "edit_file" => File(w) \in seen  \* require_seen

(* Workspace.read up to the cache: a missing or too large file, or one that*)
(* require_seen refuses, ends the call; ...                                *)
CannotRead(w, large) ==
  /\ worker[w].at = "begin"
  /\ Doing(w).op # "write_file"
  /\ MayRead(w) /\ is_file(File(w)) => large
  /\ Fails(w)

(* ... the cache has the text; ...                                         *)
ReadCached(w) ==
  /\ MayRead(w) /\ is_file(File(w))
  /\ Hit(File(w), disk[File(w)])
  /\ cache' = AfterGet(File(w), disk[File(w)])
  /\ GotText(w, cache[Cached(File(w))].text)
  /\ UNCHANGED <<disk, writes, saving, store, asked>>

(* ... or the file must be opened, with the mtime taken before.            *)
Stat(w) ==
  /\ MayRead(w) /\ is_file(File(w))
  /\ ~Hit(File(w), disk[File(w)])
  /\ cache' = AfterGet(File(w), disk[File(w)])
  /\ worker' = [worker EXCEPT ![w] = [@ EXCEPT !.at = "open", !.mtime = disk[File(w)]]]
  /\ UNCHANGED <<disk, writes, tracked, turn, saving, store, asked>>

(* Mutant: the text is read first and the mtime taken afterwards.          *)
ReadText_StatsLast(w) ==
  /\ worker[w].at = "open"
  /\ is_file(File(w))
  /\ cache' = AfterPut([file |-> File(w), mtime |-> disk[File(w)], text |-> worker[w].mtime])
  /\ GotText(w, worker[w].mtime)
  /\ UNCHANGED <<disk, writes, saving, store, asked>>

ReadText(w) ==
  /\ worker[w].at = "open"
  /\ is_file(File(w))
  /\ cache' = AfterPut([file |-> File(w), mtime |-> worker[w].mtime, text |-> disk[File(w)]])
  /\ GotText(w, disk[File(w)])
  /\ UNCHANGED <<disk, writes, saving, store, asked>>

(* It is gone meanwhile, or is no UTF-8 text.                              *)
OpenFails(w, utf8) ==
  /\ worker[w].at = "open"
  /\ is_file(File(w)) => ~utf8
  /\ Fails(w)

(* The edit fits the text, as it did in the preview if that had the same.  *)
Fits(w, fits) ==
  worker[w].text = Doing(w).previewed => fits = Doing(w).fits

NoMatch(w) ==
  /\ worker[w].at = "apply"
  /\ Fits(w, FALSE)
  /\ Fails(w)

Writes(w) ==
  \/ worker[w].at = "apply" /\ Fits(w, TRUE)
  \/ worker[w].at = "begin" /\ Doing(w).op = "write_file"

(* Workspace.write: the file first, ...                                    *)
Write(w) ==
  /\ Writes(w)
  /\ writes < MaxWrites
  /\ writes' = writes + 1
  /\ disk' = [disk EXCEPT ![File(w)] = writes + 2]
  /\ worker' = [worker EXCEPT ![w] = [@ EXCEPT !.at = "book", !.text = 0]]
  /\ UNCHANGED <<cache, tracked, turn, saving, store, asked>>

(* ... or not, when the file system refuses: nothing happened, or the file *)
(* was opened and is left torn, without the bookkeeping; ...               *)
WriteFails(w, torn) ==
  /\ Writes(w)
  /\ IF torn
     THEN /\ writes < MaxWrites
          /\ writes' = writes + 1
          /\ disk' = [disk EXCEPT ![File(w)] = writes + 2]
     ELSE UNCHANGED <<disk, writes>>
  /\ Finish(w)
  /\ UNCHANGED <<cache, tracked, saving, store, asked>>

(* ... then the bookkeeping.                                               *)
Book(w) ==
  /\ worker[w].at = "book"
  /\ cache' = Without(File(w))
  /\ seen' = seen \cup {File(w)}
  /\ written' = written \cup {File(w)}
  /\ written_since_read' = written_since_read \cup {File(w)}
  /\ Finish(w)
  /\ UNCHANGED <<disk, writes, saving, store, asked>>

(* Another program writes a file or removes it.                            *)
Outside(f, removes) ==
  /\ writes < MaxWrites
  /\ writes' = writes + 1
  /\ disk' = [disk EXCEPT ![f] = IF removes THEN Absent ELSE writes + 2]
  /\ UNCHANGED <<cache, tracked, turn, worker, saving, store, asked>>

-----------------------------------------------------------------------------
(* save(): _digests walks over seen, hashing each file as it is now.  A    *)
(* thread that adds to the set meanwhile makes the walk raise.             *)
BeginSave ==
  /\ loop = "idle"
  /\ loop' = "saving"
  /\ saving' = [done |-> {}, todo |-> seen, all |-> seen]
  /\ UNCHANGED <<disk, writes, cache, tracked, call, awaited, worker, store, asked>>

Digest(f) ==
  /\ loop = "saving"
  /\ seen = saving.all
  /\ f \in saving.todo
  /\ saving' = [saving EXCEPT
                  !.todo = @ \ {f},
                  !.done = IF is_file(f) THEN @ \cup {<<f, disk[f]>>} ELSE @]
  /\ UNCHANGED <<disk, writes, cache, tracked, turn, worker, store, asked>>

WalkRaises ==
  /\ loop = "saving"
  /\ seen # saving.all
  /\ loop' = "dead"
  /\ saving' = NotSaving
  /\ UNCHANGED <<disk, writes, cache, tracked, call, awaited, worker, store, asked>>

(* The file is moved into place, or that fails with a warning.             *)
EndSave(fails) ==
  /\ loop = "saving"
  /\ seen = saving.all /\ saving.todo = {}
  /\ store' = IF fails THEN store
              ELSE [seen |-> saving.done, asked |-> asked]
  /\ loop' = "idle"
  /\ saving' = NotSaving
  /\ UNCHANGED <<disk, writes, cache, tracked, call, awaited, worker, asked>>

(* restore_seen: the files whose digest is still the same.                 *)
restore_seen == {f \in Files : is_file(f) /\ <<f, disk[f]>> \in store.seen}

(* The process ends, once its threads are joined, and another one resumes  *)
(* the session.                                                            *)
Resume ==
  /\ loop \in {"idle", "dead"}
  /\ \A w \in Workers : ~Alive(w)
  /\ cache' = <<>>
  /\ seen' = restore_seen
  /\ written_since_read' = {} /\ written' = {}
  /\ asked' = store.asked
  /\ loop' = "idle"
  /\ UNCHANGED <<disk, writes, call, awaited, worker, saving, store>>

Proposed == {[op |-> op, file |-> f, partial |-> p, fits |-> b, approved |-> FALSE,
              previewed |-> IF op = "edit_file" THEN disk[f] ELSE Absent] :
               op \in Ops, f \in Files, p \in BOOLEAN, b \in BOOLEAN}

(* Only read_file takes a range of lines, and it has nothing to fit.       *)
Proposals ==
  {c \in Proposed : IF c.op = "read_file" THEN c.fits ELSE ~c.partial}

WorkerStep(w) ==
  /\ Alive(w)
  /\ \/ ReadCached(w) \/ Stat(w) \/ ReadText(w) \/ NoMatch(w) \/ Write(w) \/ Book(w)
     \/ \E b \in BOOLEAN : CannotRead(w, b) \/ OpenFails(w, b) \/ WriteFails(w, b)

Next ==
  \/ \E c \in Proposals : AskUser(c) \/ \E w \in Workers : RunAtOnce(w, c)
  \/ \E w \in Workers : Approve(w) \/ WorkerStep(w)
  \/ Decline \/ Cancel
  \/ \E f \in Files, removes \in BOOLEAN : Outside(f, removes)
  \/ BeginSave \/ (\E f \in Files : Digest(f)) \/ WalkRaises
  \/ \E fails \in BOOLEAN : EndSave(fails)
  \/ Resume

Spec == Init /\ [][Next]_vars

-----------------------------------------------------------------------------
(* Every variable stays in its type, the cache within its size, and the    *)
(* turn waits for a thread exactly while it is running a call.             *)
TypeOK ==
  /\ disk \in [Files -> Contents]
  /\ writes \in 0..MaxWrites
  /\ cache \in Seq(Entry) /\ Len(cache) <= CacheSize
  /\ {seen, written_since_read, written, asked} \subseteq SUBSET Files
  /\ loop \in {"idle", "asking", "running", "saving", "dead"}
  /\ call \in Call \cup {Idle}
  /\ call # Idle <=> loop = "asking"
  /\ worker \in [Workers -> Job \cup {Idle}]
  /\ awaited \in Workers \cup {Nobody}
  /\ awaited # Nobody <=> loop = "running"
  /\ awaited # Nobody => Alive(awaited)
  /\ saving \in Digests
  /\ store \in [seen : SUBSET (Files \X Contents), asked : SUBSET Files]

(* The cache has one entry for a file at most, and an entry that carries   *)
(* the file's present mtime holds its present text: whoever wrote the file *)
(* between a thread's stat and its read, between a write and its           *)
(* invalidation, or while an abandoned thread was still reading.           *)
CacheNeverStale ==
  \A i \in DOMAIN cache :
    /\ \A j \in DOMAIN cache : cache[j].file = cache[i].file => j = i
    /\ cache[i].mtime = disk[cache[i].file] => cache[i].text = disk[cache[i].file]

(* An edit lands, whole or torn, only on a file that the conversation, as  *)
(* it was saved or goes on, asked to read or to write before; previews,    *)
(* refused edits and resumed sessions give no such permission.             *)
EditsFollowReads ==
  [][\A w \in Workers :
       /\ Alive(w) /\ worker[w].at = "apply"
       /\ worker'[w] # worker[w] /\ disk' # disk
       => File(w) \in asked]_vars
=============================================================================

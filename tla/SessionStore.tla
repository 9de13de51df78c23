---------------------------- MODULE SessionStore ----------------------------
(***************************************************************************)
(* The directory of saved sessions (store.py) and the processes of the     *)
(* agent's command line that share it (cli.py): saving beside and moving   *)
(* into place, pruning, listing, deleting, exporting and importing, with   *)
(* processes that end and calls that fail between any two of those steps.  *)
(*                                                                         *)
(* A transcript is the workspace it belongs to and its number of turns.    *)
(***************************************************************************)
EXTENDS Integers, FiniteSets

CONSTANTS
  Procs,
  Sessions,    \* bound: session ids
  Workspaces,
  Keep,        \* _KEEP
  Shared,      \* whether two processes may have one session open
  MaxAsks,     \* bound: turns, of all processes
  MaxFaults,   \* bound: processes that end in the middle, calls that fail
  MaxExports,  \* bound: exported files
  None

Torn == [torn |-> TRUE] \* no JSON: empty, half-written, or two overlaid

Texts == [ws : Workspaces, turns : Nat]

(* A file of the directory.                                                *)
Contents == [text : Texts \cup {Torn}, updated : Nat, mtime : Nat]

ASSUME StoreConstants ==
  /\ Keep \in Nat \ {0}
  /\ Shared \in BOOLEAN
  /\ MaxAsks \in Nat /\ MaxFaults \in Nat /\ MaxExports \in Nat
  /\ None \notin Sessions \cup Workspaces \cup {"tmp", "json", "gone"}
  /\ None \notin Texts \cup {Torn} \cup Contents \cup [session : Sessions, text : Texts]

VARIABLES
  json, tmp, \* <id>.json and <id>.json.tmp: what is in them, or None
  proc,      \* what each process is doing, see Idle
  times,     \* the time that stat() has told a process of each file, or None, and
             \* history: the recorded time of the file that had it
  exports,   \* the exported files
  clock,     \* the time, which every timestamp moves
  asks, faults,
  unpruned   \* history: saves that were not followed by a whole pruning

vars == <<json, tmp, proc, times, exports, clock, asks, faults, unpruned>>

(* updated is the payload's, while it is being written; fd is where the    *)
(* file is that the process has open for writing; names are the sessions   *)
(* it has globbed, chosen or shown.                                        *)
Idle == [at |-> "idle", session |-> None, ws |-> None, turns |-> 0, updated |-> 0,
         fd |-> None, names |-> {}]

NoTimes == [s \in Sessions |-> None]

At(p, label) == proc[p].at = label

Goto(p, label) == proc' = [proc EXCEPT ![p].at = label]

Transcript(p) == [ws |-> proc[p].ws, turns |-> proc[p].turns]

(* _read: None for what is missing or does not parse.                      *)
_read(s) == IF json[s] = None \/ json[s].text = Torn THEN None ELSE json[s].text

Readable == {s \in Sessions : _read(s) # None}

(* listing: the sessions of a workspace; latest() is one of them.          *)
listing(ws) == {s \in Readable : _read(s).ws = ws}

Init ==
  /\ json = [s \in Sessions |-> None]
  /\ tmp = [s \in Sessions |-> None]
  /\ proc = [p \in Procs |-> Idle]
  /\ times = [p \in Procs |-> NoTimes]
  /\ exports = {}
  /\ clock = 0 /\ asks = 0 /\ faults = 0 /\ unpruned = 0

-----------------------------------------------------------------------------
(* A process starts.                                                       *)
Free(s) == Shared \/ \A p \in Procs : proc[p].session # s

Begin(p, s, ws, turns) ==
  /\ At(p, "idle")
  /\ proc' = [proc EXCEPT ![p] = [Idle EXCEPT !.at = "prompt", !.session = s,
                                              !.ws = ws, !.turns = turns]]
  /\ UNCHANGED <<json, tmp, times, exports, clock, asks, faults, unpruned>>

(* new_id: an id that nobody has used.                                     *)
New(p, s, ws) ==
  /\ json[s] = None /\ tmp[s] = None
  /\ \A q \in Procs : proc[q].session # s /\ s \notin proc[q].names
  /\ \A e \in exports : e.session # s
  /\ Begin(p, s, ws, 0)

(* _resume: a session of this workspace, the latest or one by its id.      *)
Resume(p, s, ws) ==
  /\ Free(s)
  /\ s \in listing(ws)
  /\ Begin(p, s, ws, _read(s).turns)

(* import_session keeps the id and moves the session to this workspace.    *)
Import(p, e, ws) ==
  /\ e \in exports
  /\ Free(e.session)
  /\ Begin(p, e.session, ws, e.turns)

(* export_session: a resumed session as it was loaded; the process ends.   *)
Export(s) ==
  /\ s \in Readable
  /\ Cardinality(exports) < MaxExports
  /\ exports' = exports \cup {[session |-> s, turns |-> _read(s).turns]}
  /\ UNCHANGED <<json, tmp, proc, times, clock, asks, faults, unpruned>>

(* The user leaves at the prompt.                                          *)
Quit(p) ==
  /\ At(p, "prompt")
  /\ proc' = [proc EXCEPT ![p] = Idle]
  /\ UNCHANGED <<json, tmp, times, exports, clock, asks, faults, unpruned>>

-----------------------------------------------------------------------------
(* A turn is over and save() has made up its payload.                      *)
Ask(p) ==
  /\ At(p, "prompt")
  /\ asks < MaxAsks
  /\ asks' = asks + 1 /\ clock' = clock + 1
  /\ proc' = [proc EXCEPT ![p].at = "open", ![p].turns = proc[p].turns + 1,
                           ![p].updated = clock + 1]
  /\ UNCHANGED <<json, tmp, times, exports, faults, unpruned>>

(* write_text opens the temporary file and truncates it, ...               *)
OpenTmp(p) ==
  /\ At(p, "open")
  /\ tmp' = [tmp EXCEPT ![proc[p].session] = [text |-> Torn, updated |-> 0, mtime |-> clock]]
  /\ proc' = [proc EXCEPT ![p].at = "fill", ![p].fd = "tmp"]
  /\ UNCHANGED <<json, times, exports, clock, asks, faults, unpruned>>

(* ... and fills it, wherever it has been moved to.  Over what another     *)
(* process has put into the same file, a shorter text leaves a rest.       *)
Filled(p, old, shorter) ==
  [text |-> IF old.text # Torn /\ shorter THEN Torn ELSE Transcript(p),
   updated |-> proc[p].updated, mtime |-> clock + 1]

Fill(p, shorter) ==
  LET s == proc[p].session
  IN  /\ At(p, "fill")
      /\ clock' = clock + 1
      /\ tmp' = IF proc[p].fd = "tmp" THEN [tmp EXCEPT ![s] = Filled(p, @, shorter)] ELSE tmp
      /\ json' = IF proc[p].fd = "json" THEN [json EXCEPT ![s] = Filled(p, @, shorter)] ELSE json
      /\ proc' = [proc EXCEPT ![p].at = "replace", ![p].fd = None, ![p].updated = 0]
      /\ UNCHANGED <<times, exports, asks, faults, unpruned>>

(* Mutant: the old file is removed before the new one is moved.            *)
Replace_UnlinksFirst(p) ==
  LET s == proc[p].session
  IN  /\ At(p, "replace")
      /\ tmp[s] # None
      /\ IF json[s] # None
         THEN json' = [json EXCEPT ![s] = None] /\ UNCHANGED <<tmp, proc>>
         ELSE /\ json' = [json EXCEPT ![s] = tmp[s]]
              /\ tmp' = [tmp EXCEPT ![s] = None]
              /\ Goto(p, "glob")
      /\ UNCHANGED <<times, exports, clock, asks, faults, unpruned>>

(* temporary.replace(path): whoever's file has that name by now.           *)
Replace(p) ==
  LET s == proc[p].session
  IN  /\ At(p, "replace")
      /\ tmp[s] # None
      /\ json' = [json EXCEPT ![s] = tmp[s]]
      /\ tmp' = [tmp EXCEPT ![s] = None]
      /\ proc' = [q \in Procs |-> [proc[q] EXCEPT
                    !.at = IF q = p THEN "glob" ELSE @,
                    !.fd = IF proc[q].session # s THEN @
                           ELSE IF @ = "json" THEN "gone" ELSE IF @ = "tmp" THEN "json" ELSE @]]
      /\ UNCHANGED <<times, exports, clock, asks, faults, unpruned>>

(* Somebody else has moved it, or the file system refuses: keep() warns.   *)
ReplaceFails(p) ==
  LET gone == tmp[proc[p].session] = None
  IN  /\ At(p, "replace")
      /\ faults' = IF gone THEN faults ELSE faults + 1
      /\ faults' <= MaxFaults
      /\ Goto(p, "prompt")
      /\ UNCHANGED <<json, tmp, times, exports, clock, asks, unpruned>>

(* The file cannot be opened, or not be filled: keep() warns.              *)
WriteFails(p) ==
  /\ proc[p].at \in {"open", "fill"}
  /\ faults < MaxFaults
  /\ faults' = faults + 1
  /\ proc' = [proc EXCEPT ![p].at = "prompt", ![p].fd = None, ![p].updated = 0]
  /\ UNCHANGED <<json, tmp, times, exports, clock, asks, unpruned>>

-----------------------------------------------------------------------------
(* _prune: the names, ...                                                  *)
Glob(p) ==
  /\ At(p, "glob")
  /\ proc' = [proc EXCEPT ![p].at = "rank", ![p].names = {s \in Sessions : json[s] # None}]
  /\ UNCHANGED <<json, tmp, times, exports, clock, asks, faults, unpruned>>

(* ... the time of one after the other, while the others go on, ...        *)
Stat(p, s) ==
  /\ At(p, "rank")
  /\ s \in proc[p].names /\ times[p][s] = None
  /\ json[s] # None
  /\ times' = [times EXCEPT ![p][s] = [updated |-> json[s].updated, mtime |-> json[s].mtime]]
  /\ UNCHANGED <<json, tmp, proc, exports, clock, asks, faults, unpruned>>

(* ... which is gone, or the file system refuses: stat() raises, and       *)
(* keep() warns that the session could not be saved; ...                   *)
StatFails(p, s) ==
  /\ At(p, "rank")
  /\ s \in proc[p].names /\ times[p][s] = None
  /\ faults' = IF json[s] = None THEN faults ELSE faults + 1
  /\ faults' <= MaxFaults
  /\ proc' = [proc EXCEPT ![p].at = "prompt", ![p].names = {}]
  /\ times' = [times EXCEPT ![p] = NoTimes]
  /\ unpruned' = unpruned + 1
  /\ UNCHANGED <<json, tmp, exports, clock, asks>>

(* Mutant: saved[_KEEP + 1:].                                              *)
Stale_OneMore(names, time, doomed) ==
  /\ doomed \subseteq names
  /\ Cardinality(names \ doomed) = IF Cardinality(names) <= Keep THEN Cardinality(names) ELSE Keep + 1
  /\ \A s \in doomed, t \in names \ doomed : time[s].mtime <= time[t].mtime

(* Mutant: without reverse=True.                                           *)
Stale_NewestGo(names, time, doomed) ==
  /\ doomed \subseteq names
  /\ Cardinality(names \ doomed) = IF Cardinality(names) < Keep THEN Cardinality(names) ELSE Keep
  /\ \A s \in doomed, t \in names \ doomed : time[s].mtime >= time[t].mtime

(* saved[_KEEP:], files of one mtime in any order.                         *)
Stale(names, time, doomed) ==
  /\ doomed \subseteq names
  /\ Cardinality(names \ doomed) = IF Cardinality(names) < Keep THEN Cardinality(names) ELSE Keep
  /\ \A s \in doomed, t \in names \ doomed : time[s].mtime <= time[t].mtime

(* ... those that go, by the times they had when each was asked, ...       *)
Rank(p, doomed) ==
  /\ At(p, "rank")
  /\ \A s \in proc[p].names : times[p][s] # None
  /\ Stale(proc[p].names, times[p], doomed)
  /\ proc' = [proc EXCEPT ![p].at = "unlink", ![p].names = doomed]
  /\ times' = [times EXCEPT ![p] = NoTimes]
  /\ UNCHANGED <<json, tmp, exports, clock, asks, faults, unpruned>>

(* s.json is unlinked; a process that was writing it goes on for nobody.   *)
Unlinked(p, s) ==
  /\ json' = [json EXCEPT ![s] = None]
  /\ proc' = [q \in Procs |-> [proc[q] EXCEPT
                !.names = IF q = p THEN @ \ {s} ELSE @,
                !.fd = IF proc[q].session = s /\ @ = "json" THEN "gone" ELSE @]]
  /\ UNCHANGED <<tmp, times, exports, clock, asks, faults, unpruned>>

(* ... and one after the other goes, if it is still there.                 *)
Unlink(p, s) ==
  /\ At(p, "unlink")
  /\ s \in proc[p].names
  /\ Unlinked(p, s)

(* The file system refuses, and the rest stays: keep() warns again.        *)
UnlinkFails(p) ==
  /\ At(p, "unlink")
  /\ proc[p].names # {}
  /\ faults < MaxFaults
  /\ faults' = faults + 1
  /\ proc' = [proc EXCEPT ![p].at = "prompt", ![p].names = {}]
  /\ unpruned' = unpruned + 1
  /\ UNCHANGED <<json, tmp, times, exports, clock, asks>>

Pruned(p) ==
  /\ At(p, "unlink")
  /\ proc[p].names = {}
  /\ Goto(p, "prompt")
  /\ UNCHANGED <<json, tmp, times, exports, clock, asks, faults, unpruned>>

-----------------------------------------------------------------------------
(* _delete_sessions: what is about to go is shown, ...                     *)
Show(p, shown) ==
  /\ At(p, "idle")
  /\ shown # {}
  /\ proc' = [proc EXCEPT ![p].at = "confirm", ![p].names = shown]
  /\ UNCHANGED <<json, tmp, times, exports, clock, asks, faults, unpruned>>

DeleteAll(p, ws) == Show(p, listing(ws))

DeleteNamed(p, s) == s \in Readable /\ Show(p, {s})

(* ... and goes after a yes.                                               *)
Confirm(p) ==
  /\ At(p, "confirm")
  /\ Goto(p, "delete")
  /\ UNCHANGED <<json, tmp, times, exports, clock, asks, faults, unpruned>>

LeaveAlone(p) ==
  /\ At(p, "confirm")
  /\ proc' = [proc EXCEPT ![p] = Idle]
  /\ UNCHANGED <<json, tmp, times, exports, clock, asks, faults, unpruned>>

delete(p, s) ==
  /\ At(p, "delete")
  /\ s \in proc[p].names
  /\ Unlinked(p, s)

(* delete() answers False for a file that cannot be removed.               *)
DeleteFails(p, s) ==
  /\ At(p, "delete")
  /\ s \in proc[p].names
  /\ faults < MaxFaults
  /\ faults' = faults + 1
  /\ proc' = [proc EXCEPT ![p].names = @ \ {s}]
  /\ UNCHANGED <<json, tmp, times, exports, clock, asks, unpruned>>

Deleted(p) ==
  /\ At(p, "delete")
  /\ proc[p].names = {}
  /\ proc' = [proc EXCEPT ![p] = Idle]
  /\ UNCHANGED <<json, tmp, times, exports, clock, asks, faults, unpruned>>

-----------------------------------------------------------------------------
(* The process is killed, the terminal closed, the machine turned off.     *)
Crash(p) ==
  /\ ~At(p, "idle")
  /\ faults < MaxFaults
  /\ faults' = faults + 1
  /\ unpruned' = IF proc[p].at \in {"glob", "rank", "unlink"} THEN unpruned + 1 ELSE unpruned
  /\ proc' = [proc EXCEPT ![p] = Idle]
  /\ times' = [times EXCEPT ![p] = NoTimes]
  /\ UNCHANGED <<json, tmp, exports, clock, asks>>

Save(p) ==
  \/ Ask(p) \/ OpenTmp(p) \/ (\E shorter \in BOOLEAN : Fill(p, shorter))
  \/ Replace(p) \/ ReplaceFails(p) \/ WriteFails(p)
  \/ Glob(p) \/ (\E s \in Sessions : Stat(p, s) \/ StatFails(p, s))
  \/ \E doomed \in SUBSET Sessions : Rank(p, doomed)
  \/ (\E s \in Sessions : Unlink(p, s)) \/ UnlinkFails(p) \/ Pruned(p)

Delete(p) ==
  \/ \E ws \in Workspaces : DeleteAll(p, ws)
  \/ \E s \in Sessions : DeleteNamed(p, s) \/ delete(p, s) \/ DeleteFails(p, s)
  \/ Confirm(p) \/ LeaveAlone(p) \/ Deleted(p)

Next ==
  \/ \E p \in Procs :
       \/ \E s \in Sessions, ws \in Workspaces : New(p, s, ws) \/ Resume(p, s, ws)
       \/ \E e \in exports, ws \in Workspaces : Import(p, e, ws)
       \/ Save(p) \/ Delete(p) \/ Quit(p) \/ Crash(p)
  \/ \E s \in Sessions : Export(s)

Spec == Init /\ [][Next]_vars

-----------------------------------------------------------------------------
Files == {s \in Sessions : json[s] # None}

Saving(p) == proc[p].at \in {"glob", "rank", "unlink"}

(* _prune keeps the directory within _KEEP files, but for those of saves   *)
(* that are still under way, and one for each save whose pruning a crash,  *)
(* a failed call or a file that another process removed cut short.         *)
WithinLimit ==
  Cardinality(Files) <= Keep + unpruned + Cardinality({p \in Procs : Saving(p)})

(* Pruning goes by mtime, --resume by the recorded time.  They disagree    *)
(* when saves overlap, but with no more processes than _KEEP never so far  *)
(* that the most recent of the files that were ranked goes: for whatever   *)
(* goes, a later one stays, both as they were when stat() told their time. *)
(* (Who is saved again after that is ranked as the file it was before.)    *)
LatestIsKept ==
  [][\A p \in Procs : proc[p].at = "rank" /\ proc'[p].at = "unlink" =>
       \A s \in proc'[p].names : \E t \in proc[p].names \ proc'[p].names :
         times[p][t].updated > times[p][s].updated]_vars

(* What the store's promise is about, in terms of its files.               *)
Saved == [s \in Sessions |-> IF json[s] = None THEN None ELSE json[s].text]

Holds(x) == IF x.session = None THEN None
            ELSE [session |-> x.session, text |-> [ws |-> x.ws, turns |-> x.turns]]

Dooms(x) == IF x.at \in {"unlink", "delete"} THEN x.names ELSE {}

Lists(x) == IF x.at \in {"rank", "confirm"} THEN x.names ELSE {}

Held == [p \in Procs |-> Holds(proc[p])]

Doomed == [p \in Procs |-> Dooms(proc[p])]

Listed == [p \in Procs |-> Lists(proc[p])]

Promise == INSTANCE SavedSessions
             WITH saved <- Saved, held <- Held, listed <- Listed, doomed <- Doomed

(* The store implements its promise, wherever a process ends and whatever  *)
(* fails: what readers see changes only by whole transcripts of the        *)
(* process that saves, and by removals of what was listed and decided on   *)
(* before, of which a pruning spares _KEEP.  It takes that nobody else     *)
(* saves the same session meanwhile.                                       *)
KeepsItsPromise == Promise!Spec

-----------------------------------------------------------------------------
(* What the documentation says, and the code does not do once two          *)
(* processes have the same session open, whose temporary file is then one  *)
(* file: no process is filling the session's file any more, and it is no   *)
(* whole transcript.                                                       *)
NothingHalfIsLeft ==
  \A s \in Sessions : json[s] # None /\ json[s].text = Torn =>
    \E p \in Procs : proc[p].session = s /\ proc[p].fd = "json"
=============================================================================

------------------------- MODULE AgentWorkspaceProofs -------------------------
(***************************************************************************)
(* The safety of AgentWorkspace for every set of files, however many       *)
(* threads are alive, every size of the cache and every number of writes.  *)
(*                                                                         *)
(* The cache is never stale because contents are never written twice, so   *)
(* that an entry whose mtime is outdated stays so: CacheOK bounds the      *)
(* mtimes by the writes so far.  Edits follow reads because the files that *)
(* count as read, those that threads are at, those that are being saved    *)
(* and those that were saved were all asked for.                           *)
(*                                                                         *)
(* At the end, what edit_file makes of a text and what apply_edit says of  *)
(* an anchor that does not fit, for every text: it is EditMatching that    *)
(* the threads here run.                                                   *)
(***************************************************************************)
EXTENDS AgentWorkspace, EditMatching, SequenceTheorems, FiniteSetTheorems, WellFoundedInduction, TLAPS

DiskOK ==
  /\ disk \in [Files -> Contents] /\ writes \in 0..MaxWrites
  /\ \A f \in Files : disk[f] <= writes + 1

(* The cache c beside the files d after n writes.                          *)
EntryOK(e, d, n) ==
  /\ e \in Entry
  /\ e.mtime \in 1..(n + 1)
  /\ e.mtime = d[e.file] => e.text = d[e.file]

Distinct(c) == \A i, j \in DOMAIN c : c[j].file = c[i].file => j = i

CacheOK(c, d, n) ==
  /\ c \in Seq(Entry) /\ Len(c) <= CacheSize
  /\ Distinct(c)
  /\ \A i \in DOMAIN c : EntryOK(c[i], d, n)

SetsOK ==
  /\ seen \subseteq Files /\ written_since_read \subseteq Files /\ written \subseteq Files
  /\ asked \subseteq Files /\ seen \subseteq asked

(* A thread whose call has come past require_seen is at a file that was    *)
(* asked for, as is one that reads or writes; the mtime it took is that of *)
(* a file that was there.                                                  *)
WorkerOK(x, n, a) ==
  x # Idle =>
    /\ x \in Job
    /\ x.at = "open" => x.mtime \in 1..(n + 1)
    /\ x.at # "begin" \/ x.call.op # "edit_file" => x.call.file \in a

WorkersOK ==
  /\ worker \in [Workers -> Job \cup {Idle}]
  /\ \A w \in Workers : WorkerOK(worker[w], writes, asked)

TurnOK ==
  /\ loop \in {"idle", "asking", "running", "saving", "dead"}
  /\ call \in Call \cup {Idle}
  /\ call # Idle <=> loop = "asking"
  /\ awaited \in Workers \cup {Nobody}
  /\ awaited # Nobody <=> loop = "running"
  /\ awaited # Nobody => Alive(awaited)
  /\ loop = "asking" => AsksFor(call) \subseteq asked

SavingOK ==
  /\ saving \in Digests
  /\ loop # "saving" => saving = NotSaving
  /\ saving.todo \subseteq saving.all /\ saving.all \subseteq asked
  /\ \A x \in saving.done : x[1] \in asked

StoreOK ==
  /\ store \in [seen : SUBSET (Files \X Contents), asked : SUBSET Files]
  /\ \A x \in store.seen : x[1] \in store.asked

IInv ==
  /\ DiskOK /\ CacheOK(cache, disk, writes) /\ SetsOK
  /\ WorkersOK /\ TurnOK /\ SavingOK /\ StoreOK

-----------------------------------------------------------------------------
(* A thread at rest is on no job and no call.                              *)
LEMMA IdleIsNoJob == Idle \notin Job /\ Idle \notin Call
BY DEF Idle, Job, Call

(* The invariant holds at the start.                                       *)
LEMMA InitIInv == Init => IInv
<1> SUFFICES ASSUME Init PROVE IInv
  OBVIOUS
<1>1. DiskOK
  BY WorkspaceConstants DEF Init, DiskOK, Contents
<1>2. CacheOK(cache, disk, writes) /\ SetsOK
  BY WorkspaceConstants DEF Init, CacheOK, Distinct, SetsOK
<1>3. WorkersOK /\ TurnOK
  BY DEF Init, WorkersOK, WorkerOK, TurnOK, Nobody
<1>4. SavingOK /\ StoreOK
  BY DEF Init, SavingOK, StoreOK, NotSaving, Digests
<1> QED
  BY <1>1, <1>2, <1>3, <1>4 DEF IInv

-----------------------------------------------------------------------------
(* The cache.                                                              *)

(* Removing an entry leaves the others fresh and removes its file.         *)
LEMMA RemovedOK ==
  ASSUME CacheOK(cache, disk, writes), NEW i \in DOMAIN cache
  PROVE  /\ CacheOK(Removed(i), disk, writes) /\ Len(Removed(i)) = Len(cache) - 1
         /\ \A j \in DOMAIN Removed(i) : Removed(i)[j].file # cache[i].file
<1> DEFINE r == Removed(i)
           from(j) == IF j < i THEN j ELSE j + 1
<1>1. cache \in Seq(Entry) /\ Len(cache) \in Nat /\ DOMAIN cache = 1..Len(cache)
      /\ i \in 1..Len(cache)
  BY DEF CacheOK
<1>2. Len(cache) - 1 \in Nat
  BY <1>1
<1>3. \A j \in 1..(Len(cache) - 1) : from(j) \in 1..Len(cache) /\ from(j) # i /\ r[j] = cache[from(j)]
  BY <1>1 DEF Removed
<1>4. \A j, k \in 1..(Len(cache) - 1) : from(j) = from(k) => j = k
  BY <1>1
<1> HIDE DEF from
<1>5. r \in Seq(Entry) /\ Len(r) = Len(cache) - 1 /\ DOMAIN r = 1..(Len(cache) - 1)
  <2>1. \A j \in 1..(Len(cache) - 1) : cache[IF j < i THEN j ELSE j + 1] \in Entry
    BY <1>1
  <2>2. r = [j \in 1..(Len(cache) - 1) |-> cache[IF j < i THEN j ELSE j + 1]]
    BY DEF Removed
  <2> QED
    BY <1>2, <2>1, <2>2
<1> HIDE DEF r
<1>6. Len(r) <= CacheSize
  BY <1>1, <1>5, WorkspaceConstants DEF CacheOK
<1>7. Distinct(r)
  BY <1>1, <1>3, <1>4, <1>5 DEF CacheOK, Distinct
<1>8. \A j \in DOMAIN r : EntryOK(r[j], disk, writes) /\ r[j].file # cache[i].file
  BY <1>1, <1>3, <1>5 DEF CacheOK, Distinct
<1> QED
  BY <1>5, <1>6, <1>7, <1>8 DEF CacheOK, r

(* Popping a file, if it is there, leaves a cache without it.              *)
LEMMA WithoutOK ==
  ASSUME CacheOK(cache, disk, writes), NEW f
  PROVE  /\ CacheOK(Without(f), disk, writes)
         /\ \A j \in DOMAIN Without(f) : Without(f)[j].file # f
         /\ Len(Without(f)) = IF Has(f) THEN Len(cache) - 1 ELSE Len(cache)
<1>1. CASE Has(f)
  <2>1. Cached(f) \in DOMAIN cache /\ cache[Cached(f)].file = f
    BY <1>1 DEF Has, Cached
  <2> QED
    BY <1>1, <2>1, RemovedOK DEF Without
<1>2. CASE ~Has(f)
  BY <1>2 DEF Without, Has
<1> QED
  BY <1>1, <1>2

(* A fresh entry of a new file goes on the end while there is room.        *)
LEMMA AppendOK ==
  ASSUME NEW c, NEW d, NEW n, NEW e, CacheOK(c, d, n), EntryOK(e, d, n), Len(c) < CacheSize,
         \A j \in DOMAIN c : c[j].file # e.file
  PROVE  CacheOK(Append(c, e), d, n)
<1>1. c \in Seq(Entry) /\ e \in Entry
  BY DEF CacheOK, EntryOK
<1>2. /\ Append(c, e) \in Seq(Entry) /\ Len(Append(c, e)) = Len(c) + 1
      /\ \A i \in 1..(Len(c) + 1) : Append(c, e)[i] = IF i = Len(c) + 1 THEN e ELSE c[i]
      /\ DOMAIN Append(c, e) = 1..(Len(c) + 1) /\ DOMAIN c = 1..Len(c) /\ Len(c) \in Nat
  BY <1>1
<1>3. Len(c) + 1 <= CacheSize
  BY <1>2, WorkspaceConstants
<1>4. Distinct(Append(c, e))
  BY <1>2 DEF CacheOK, Distinct
<1>5. \A i \in DOMAIN Append(c, e) : EntryOK(Append(c, e)[i], d, n)
  BY <1>2 DEF CacheOK
<1> QED
  BY <1>2, <1>3, <1>4, <1>5 DEF CacheOK

(* get() moves a hit to the end, drops what is stale, and keeps the rest.  *)
LEMMA AfterGetOK ==
  ASSUME CacheOK(cache, disk, writes), NEW f, NEW mtime
  PROVE  CacheOK(AfterGet(f, mtime), disk, writes)
<1>1. CASE Hit(f, mtime)
  <2>1. Has(f) /\ Cached(f) \in DOMAIN cache /\ cache[Cached(f)].file = f
    BY <1>1 DEF Hit, Has, Cached
  <2>2. EntryOK(cache[Cached(f)], disk, writes)
    BY <2>1 DEF CacheOK
  <2>3. Len(Without(f)) < CacheSize
    BY <2>1, WithoutOK, WorkspaceConstants DEF CacheOK
  <2> QED
    BY <1>1, <2>1, <2>2, <2>3, WithoutOK, AppendOK DEF AfterGet
<1>2. CASE ~Hit(f, mtime)
  BY <1>2, WithoutOK DEF AfterGet
<1> QED
  BY <1>1, <1>2

(* put() makes room before it adds, and never passes the size.             *)
LEMMA AfterPutOK ==
  ASSUME CacheOK(cache, disk, writes), NEW e, EntryOK(e, disk, writes)
  PROVE  CacheOK(AfterPut(e), disk, writes)
<1> DEFINE full == ~Has(e.file) /\ Len(cache) >= CacheSize
           rest == IF full THEN Tail(cache) ELSE Without(e.file)
<1>1. cache \in Seq(Entry) /\ Len(cache) \in Nat /\ Len(cache) <= CacheSize
  BY DEF CacheOK
<1>2. CASE full
  <2>1. cache # <<>>
    BY <1>1, <1>2, WorkspaceConstants
  <2>2. /\ Tail(cache) \in Seq(Entry) /\ Len(Tail(cache)) = Len(cache) - 1
        /\ DOMAIN Tail(cache) = 1..(Len(cache) - 1)
        /\ \A j \in 1..(Len(cache) - 1) : Tail(cache)[j] = cache[j + 1] /\ j + 1 \in DOMAIN cache
    BY <1>1, <2>1
  <2>3. CacheOK(Tail(cache), disk, writes) /\ Len(Tail(cache)) < CacheSize
    BY <1>1, <2>2, WorkspaceConstants DEF CacheOK, Distinct
  <2>4. \A j \in DOMAIN Tail(cache) : Tail(cache)[j].file # e.file
    BY <1>2, <2>2 DEF Has
  <2> QED
    BY <1>2, <2>3, <2>4, AppendOK DEF AfterPut
<1>3. CASE ~full
  <2>1. Len(Without(e.file)) < CacheSize
    BY <1>1, <1>3, WithoutOK, WorkspaceConstants
  <2> QED
    BY <1>3, <2>1, WithoutOK, AppendOK DEF AfterPut
<1> QED
  BY <1>2, <1>3

-----------------------------------------------------------------------------
(* The parts of the invariant that a step carries over.                    *)

(* One thread is at x now; no permission is taken back.                    *)
LEMMA OneWorker ==
  ASSUME WorkersOK, DiskOK, NEW w \in Workers, NEW x \in Job \cup {Idle},
         worker' = [worker EXCEPT ![w] = x], WorkerOK(x, writes', asked'),
         writes' \in {writes, writes + 1}, asked \subseteq asked'
  PROVE  WorkersOK'
<1>1. \A v \in Workers : worker'[v] = IF v = w THEN x ELSE worker[v]
  BY DEF WorkersOK
<1>2. writes \in Nat
  BY DEF DiskOK
<1>3. ASSUME NEW v \in Workers, v # w
      PROVE  WorkerOK(worker'[v], writes', asked')
  BY <1>1, <1>2, <1>3 DEF WorkersOK, WorkerOK
<1>4. \A v \in Workers : WorkerOK(worker'[v], writes', asked')
  BY <1>1, <1>3
<1>5. worker' \in [Workers -> Job \cup {Idle}]
  BY DEF WorkersOK
<1> QED
  BY <1>4, <1>5 DEF WorkersOK

(* A thread that finishes is idle, and nobody awaits it any more.          *)
LEMMA FinishOK ==
  ASSUME IInv, NEW w \in Workers, Finish(w), writes' \in {writes, writes + 1},
         UNCHANGED <<asked, saving>>
  PROVE  WorkersOK' /\ TurnOK' /\ SavingOK'
<1>1. WorkerOK(Idle, writes', asked')
  BY DEF WorkerOK
<1>2. WorkersOK'
  BY <1>1, OneWorker DEF IInv, Finish
<1>3. awaited' # Nobody => awaited # w /\ awaited' = awaited /\ worker'[awaited] = worker[awaited]
  BY DEF IInv, TurnOK, WorkersOK, Finish
<1>4. TurnOK'
  BY <1>3, WorkspaceConstants DEF IInv, TurnOK, Finish, Nobody, Alive, AsksFor
<1>5. loop' = "saving" <=> loop = "saving"
  BY WorkspaceConstants DEF IInv, TurnOK, Finish, Nobody
<1>6. SavingOK'
  BY <1>5 DEF IInv, SavingOK
<1> QED
  BY <1>2, <1>4, <1>6

(* The thread goes on with its call at another label.                      *)
LEMMA GoesOn ==
  ASSUME IInv, NEW w \in Workers, NEW x \in Job, worker' = [worker EXCEPT ![w] = x],
         Alive(w), WorkerOK(x, writes', asked'),
         writes' \in {writes, writes + 1}, UNCHANGED <<turn, saving, asked>>
  PROVE  WorkersOK' /\ TurnOK' /\ SavingOK'
<1>1. UNCHANGED <<loop, call, awaited>>
  BY DEF turn
<1>2. WorkersOK'
  BY OneWorker DEF IInv
<1>3. \A v \in Workers : Alive(v) => Alive(v)'
  BY IdleIsNoJob DEF IInv, WorkersOK, Alive
<1>4. TurnOK' /\ SavingOK'
  BY <1>1, <1>3 DEF IInv, TurnOK, SavingOK, AsksFor
<1> QED
  BY <1>2, <1>4

(* A thread takes the call up.                                             *)
LEMMA StartWorkerOK ==
  ASSUME IInv, NEW w \in Workers, NEW c \in Call, StartWorker(w, c),
         loop \in {"idle", "asking"}, asked' = asked \cup AsksFor(c), asked' \subseteq Files,
         UNCHANGED <<writes, saving>>
  PROVE  WorkersOK' /\ TurnOK' /\ SavingOK'
<1> DEFINE x == [at |-> "begin", call |-> c, mtime |-> 0, text |-> 0]
<1>1. x \in Job
  BY WorkspaceConstants DEF Job, Labels, Contents
<1>2. WorkerOK(x, writes', asked')
  BY <1>1 DEF WorkerOK, AsksFor
<1>3. WorkersOK'
  BY <1>1, <1>2, OneWorker DEF IInv, StartWorker
<1>4. worker'[w] = x /\ x # Idle
  BY <1>1, IdleIsNoJob DEF IInv, WorkersOK, StartWorker
<1>5. TurnOK'
  BY <1>4, WorkspaceConstants DEF IInv, TurnOK, StartWorker, Nobody, Alive
<1>6. SavingOK'
  BY DEF IInv, SavingOK, StartWorker
<1> QED
  BY <1>3, <1>5, <1>6

-----------------------------------------------------------------------------
(* The event loop takes up a call, asks and answers.                       *)
LEMMA LoopStep ==
  ASSUME IInv,
         \/ \E c \in Proposals : AskUser(c) \/ \E w \in Workers : RunAtOnce(w, c)
         \/ \E w \in Workers : Approve(w)
         \/ Decline \/ Cancel
  PROVE  IInv'
<1>1. Proposals \subseteq Call
  <2>1. Absent \in Contents /\ \A f \in Files : disk[f] \in Contents
    BY WorkspaceConstants DEF Absent, Contents, IInv, DiskOK
  <2>2. \A op \in Ops, f \in Files, p, b \in BOOLEAN :
          [op |-> op, file |-> f, partial |-> p, fits |-> b, approved |-> FALSE,
           previewed |-> IF op = "edit_file" THEN disk[f] ELSE Absent] \in Call
    BY <2>1 DEF Call
  <2> QED
    BY <2>2 DEF Proposals, Proposed
<1>2. \A c \in Call : AsksFor(c) \subseteq Files
  BY DEF AsksFor, Call
<1>3. ASSUME NEW c \in Proposals, AskUser(c)
      PROVE  IInv'
  <2>1. /\ loop = "idle" /\ loop' = "asking" /\ call' = c /\ asked' = asked \cup AsksFor(c)
        /\ UNCHANGED <<disk, writes, cache, seen, written_since_read, written, awaited, worker,
                       saving, store>>
    BY <1>3 DEF AskUser, tracked
  <2>2. c \in Call /\ c # Idle /\ asked' \subseteq Files
    BY <1>1, <1>2, <2>1, IdleIsNoJob DEF IInv, SetsOK
  <2>3. DiskOK' /\ CacheOK(cache, disk, writes)' /\ SetsOK' /\ StoreOK'
    BY <2>1, <2>2 DEF IInv, DiskOK, SetsOK, StoreOK
  <2>4. WorkersOK'
    BY <2>1 DEF IInv, WorkersOK, WorkerOK
  <2>5. TurnOK'
    BY <2>1, <2>2 DEF IInv, TurnOK, Alive, AsksFor
  <2>6. SavingOK'
    BY <2>1 DEF IInv, SavingOK
  <2> QED
    BY <2>3, <2>4, <2>5, <2>6 DEF IInv
<1>4. ASSUME NEW c \in Proposals, NEW w \in Workers, RunAtOnce(w, c)
      PROVE  IInv'
  <2>1. /\ loop = "idle" /\ StartWorker(w, c) /\ asked' = asked \cup AsksFor(c)
        /\ UNCHANGED <<disk, writes, cache, seen, written_since_read, written, saving, store>>
    BY <1>4 DEF RunAtOnce, tracked
  <2>2. c \in Call /\ asked' \subseteq Files
    BY <1>1, <1>2, <2>1 DEF IInv, SetsOK
  <2>3. DiskOK' /\ CacheOK(cache, disk, writes)' /\ SetsOK' /\ StoreOK'
    BY <2>1, <2>2 DEF IInv, DiskOK, SetsOK, StoreOK
  <2> QED
    BY <2>1, <2>2, <2>3, StartWorkerOK DEF IInv
<1>5. ASSUME NEW w \in Workers, Approve(w)
      PROVE  IInv'
  <2> DEFINE c == [call EXCEPT !.approved = TRUE]
  <2>1. /\ loop = "asking" /\ StartWorker(w, c)
        /\ UNCHANGED <<disk, writes, cache, seen, written_since_read, written, saving, store, asked>>
    BY <1>5 DEF Approve, tracked
  <2>2. call \in Call /\ AsksFor(call) \subseteq asked
    BY <2>1 DEF IInv, TurnOK
  <2>3. c \in Call /\ c.op = call.op /\ c.file = call.file
    BY <2>2 DEF Call
  <2> HIDE DEF c
  <2>4. asked' = asked \cup AsksFor(c) /\ asked' \subseteq Files
    BY <2>1, <2>2, <2>3 DEF AsksFor, IInv, SetsOK
  <2>5. DiskOK' /\ CacheOK(cache, disk, writes)' /\ SetsOK' /\ StoreOK'
    BY <2>1 DEF IInv, DiskOK, SetsOK, StoreOK
  <2> QED
    BY <2>1, <2>3, <2>4, <2>5, StartWorkerOK DEF IInv
<1>6. CASE Decline \/ Cancel
  <2>1. UNCHANGED <<disk, writes, cache, seen, written_since_read, written, worker, saving, store,
                    asked>>
    BY <1>6 DEF Decline, Cancel, tracked
  <2>2. DiskOK' /\ CacheOK(cache, disk, writes)' /\ SetsOK' /\ StoreOK' /\ WorkersOK'
    BY <2>1 DEF IInv, DiskOK, SetsOK, StoreOK, WorkersOK
  <2>3. TurnOK' /\ SavingOK'
    BY <1>6, <2>1 DEF IInv, TurnOK, SavingOK, Decline, Cancel, Alive
  <2> QED
    BY <2>2, <2>3 DEF IInv
<1> QED
  BY <1>3, <1>4, <1>5, <1>6

-----------------------------------------------------------------------------
(* A read has the text of a file that may be read.                         *)
LEMMA GotTextOK ==
  ASSUME IInv, NEW w \in Workers, Alive(w), NEW text \in Contents, GotText(w, text),
         File(w) \in asked, CacheOK(cache', disk, writes),
         UNCHANGED <<disk, writes, saving, store, asked>>
  PROVE  IInv'
<1>1. worker[w] \in Job /\ File(w) \in Files
  BY DEF IInv, WorkersOK, Alive, SetsOK
<1>2. DiskOK' /\ CacheOK(cache, disk, writes)' /\ StoreOK'
  BY DEF IInv, DiskOK, StoreOK
<1>3. SetsOK'
  BY <1>1 DEF IInv, SetsOK, GotText
<1>4. CASE Doing(w).op = "edit_file"
  <2> DEFINE x == [worker[w] EXCEPT !.at = "apply", !.mtime = 0, !.text = text]
  <2>1. worker' = [worker EXCEPT ![w] = x] /\ UNCHANGED turn
    BY <1>4 DEF GotText
  <2>2. 0 \in Contents
    BY WorkspaceConstants DEF Contents
  <2>3. x \in Job /\ x.at = "apply" /\ x.call = worker[w].call
    BY <1>1, <2>2 DEF Job, Labels
  <2> HIDE DEF x
  <2>4. WorkerOK(x, writes', asked')
    BY <2>3 DEF WorkerOK, File, Doing
  <2> QED
    BY <1>2, <1>3, <2>1, <2>3, <2>4, GoesOn DEF IInv
<1>5. CASE Doing(w).op # "edit_file"
  <2>1. Finish(w)
    BY <1>5 DEF GotText
  <2> QED
    BY <1>2, <1>3, <2>1, FinishOK DEF IInv
<1> QED
  BY <1>4, <1>5

(* Contents that there were never before, or no file: what the cache has   *)
(* is outdated then.                                                       *)
LEMMA Written ==
  ASSUME IInv, NEW f \in Files, NEW v, v \in {0, writes + 2},
         writes < MaxWrites, writes' = writes + 1, disk' = [disk EXCEPT ![f] = v], cache' = cache
  PROVE  DiskOK' /\ CacheOK(cache, disk, writes)'
<1>1. writes \in Nat /\ writes <= MaxWrites /\ MaxWrites \in Nat /\ disk \in [Files -> Contents]
  BY WorkspaceConstants DEF IInv, DiskOK
<1>2. v \in Contents /\ v <= writes' + 1 /\ writes' \in 0..MaxWrites
  BY <1>1 DEF Contents
<1>3. \A g \in Files : disk'[g] = IF g = f THEN v ELSE disk[g]
  BY <1>1
<1>4. \A g \in Files : disk[g] \in Nat /\ disk[g] <= writes + 1
  BY <1>1 DEF IInv, DiskOK, Contents
<1>5. DiskOK'
  BY <1>1, <1>2, <1>3, <1>4 DEF DiskOK
<1>6. ASSUME NEW i \in DOMAIN cache
      PROVE  EntryOK(cache[i], disk', writes')
  <2> DEFINE e == cache[i]
  <2>1. EntryOK(e, disk, writes) /\ e.file \in Files
    BY DEF IInv, CacheOK, EntryOK, Entry
  <2> HIDE DEF e
  <2>2. e.mtime \in 1..(writes' + 1) /\ e.mtime # v
    BY <1>1, <2>1 DEF EntryOK
  <2> QED
    BY <1>3, <2>1, <2>2 DEF EntryOK, e
<1>7. CacheOK(cache', disk', writes')
  BY <1>6 DEF IInv, CacheOK
<1> QED
  BY <1>5, <1>7

(* A thread takes a step.                                                  *)
LEMMA ThreadStep ==
  ASSUME IInv, NEW w \in Workers, WorkerStep(w)
  PROVE  IInv'
<1>1. /\ Alive(w) /\ worker[w] \in Job /\ WorkerOK(worker[w], writes, asked)
      /\ File(w) \in Files /\ Doing(w) \in Call /\ disk[File(w)] \in Contents
  BY DEF WorkerStep, Alive, IInv, WorkersOK, DiskOK, File, Doing, Job, Call
<1>2. ASSUME Fails(w)
      PROVE  IInv'
  <2>1. Finish(w) /\ UNCHANGED <<disk, writes, cache, seen, written_since_read, written, saving,
                                 store, asked>>
    BY <1>2 DEF Fails, tracked
  <2>2. DiskOK' /\ CacheOK(cache, disk, writes)' /\ SetsOK' /\ StoreOK'
    BY <2>1 DEF IInv, DiskOK, SetsOK, StoreOK
  <2> QED
    BY <2>1, <2>2, FinishOK DEF IInv
<1>3. MayRead(w) => File(w) \in asked
  BY <1>1 DEF MayRead, WorkerOK, Alive, File, Doing, IInv, SetsOK
<1>4. worker[w].at # "begin" => File(w) \in asked
  BY <1>1 DEF WorkerOK, Alive, File, Doing
<1>5. CASE NoMatch(w) \/ \E b \in BOOLEAN : CannotRead(w, b) \/ OpenFails(w, b)
  BY <1>2, <1>5 DEF CannotRead, OpenFails, NoMatch
<1>6. CASE ReadCached(w)
  <2>1. CacheOK(cache', disk, writes)
    BY <1>6, AfterGetOK DEF ReadCached, IInv
  <2>2. cache[Cached(File(w))].text \in Contents
    BY <1>6 DEF ReadCached, Hit, Has, Cached, IInv, CacheOK, EntryOK, Entry
  <2>3. GotText(w, cache[Cached(File(w))].text) /\ MayRead(w)
        /\ UNCHANGED <<disk, writes, saving, store, asked>>
    BY <1>6 DEF ReadCached
  <2> QED
    BY <1>1, <1>3, <2>1, <2>2, <2>3, GotTextOK
<1>7. CASE Stat(w)
  <2> DEFINE x == [worker[w] EXCEPT !.at = "open", !.mtime = disk[File(w)]]
  <2>1. /\ MayRead(w) /\ is_file(File(w)) /\ cache' = AfterGet(File(w), disk[File(w)])
        /\ worker' = [worker EXCEPT ![w] = x]
        /\ UNCHANGED <<disk, writes, seen, written_since_read, written, turn, saving, store, asked>>
    BY <1>7 DEF Stat, tracked
  <2>2. DiskOK' /\ CacheOK(cache, disk, writes)' /\ SetsOK' /\ StoreOK'
    BY <2>1, AfterGetOK DEF IInv, DiskOK, SetsOK, StoreOK
  <2>3. x \in Job /\ x.at = "open" /\ x.mtime = disk[File(w)] /\ x.call = worker[w].call
    BY <1>1 DEF Job, Labels
  <2> HIDE DEF x
  <2>4. disk[File(w)] \in 1..(writes + 1)
    BY <1>1, <2>1 DEF is_file, Absent, IInv, DiskOK, Contents
  <2>5. WorkerOK(x, writes', asked')
    BY <1>3, <2>1, <2>3, <2>4 DEF WorkerOK, File, Doing
  <2> QED
    BY <1>1, <2>1, <2>2, <2>3, <2>5, GoesOn DEF IInv
<1>8. CASE ReadText(w)
  <2> DEFINE e == [file |-> File(w), mtime |-> worker[w].mtime, text |-> disk[File(w)]]
  <2>1. worker[w].at = "open" /\ cache' = AfterPut(e) /\ GotText(w, disk[File(w)])
        /\ UNCHANGED <<disk, writes, saving, store, asked>>
    BY <1>8 DEF ReadText
  <2>2. worker[w].mtime \in 1..(writes + 1) /\ worker[w].mtime \in Contents
    BY <1>1, <2>1 DEF WorkerOK, Alive, Job
  <2>3. EntryOK(e, disk, writes)
    BY <1>1, <2>2 DEF EntryOK, Entry
  <2>4. CacheOK(cache', disk, writes)
    BY <2>1, <2>3, AfterPutOK DEF IInv
  <2> QED
    BY <1>1, <1>4, <2>1, <2>4, GotTextOK
<1>9. CASE Write(w)
  <2> DEFINE x == [worker[w] EXCEPT !.at = "book", !.text = 0]
  <2>1. /\ writes < MaxWrites /\ writes' = writes + 1 /\ disk' = [disk EXCEPT ![File(w)] = writes + 2]
        /\ worker' = [worker EXCEPT ![w] = x]
        /\ UNCHANGED <<cache, seen, written_since_read, written, turn, saving, store, asked>>
    BY <1>9 DEF Write, tracked
  <2>2. File(w) \in asked
    BY <1>1, <1>4, <1>9 DEF Write, Writes, WorkerOK, Alive, File, Doing
  <2>3. DiskOK' /\ CacheOK(cache, disk, writes)'
    BY <1>1, <2>1, Written
  <2>4. SetsOK' /\ StoreOK'
    BY <2>1 DEF IInv, SetsOK, StoreOK
  <2>5. 0 \in Contents
    BY WorkspaceConstants DEF Contents
  <2>6. x \in Job /\ x.at = "book" /\ x.call = worker[w].call
    BY <1>1, <2>5 DEF Job, Labels
  <2> HIDE DEF x
  <2>7. WorkerOK(x, writes', asked')
    BY <2>1, <2>2, <2>6 DEF WorkerOK, File, Doing
  <2> QED
    BY <1>1, <2>1, <2>3, <2>4, <2>6, <2>7, GoesOn DEF IInv
<1>10. CASE Book(w)
  <2>1. /\ cache' = Without(File(w)) /\ Finish(w) /\ seen' = seen \cup {File(w)}
        /\ written' = written \cup {File(w)} /\ worker[w].at = "book"
        /\ written_since_read' = written_since_read \cup {File(w)}
        /\ UNCHANGED <<disk, writes, saving, store, asked>>
    BY <1>10 DEF Book
  <2>2. DiskOK' /\ CacheOK(cache, disk, writes)' /\ StoreOK'
    BY <2>1, WithoutOK DEF IInv, DiskOK, StoreOK
  <2>3. SetsOK'
    BY <1>1, <1>4, <2>1 DEF IInv, SetsOK
  <2> QED
    BY <2>1, <2>2, <2>3, FinishOK DEF IInv
<1>11. ASSUME NEW torn \in BOOLEAN, WriteFails(w, torn)
       PROVE  IInv'
  <2>1. Finish(w) /\ UNCHANGED <<cache, seen, written_since_read, written, saving, store, asked>>
    BY <1>11 DEF WriteFails, tracked
  <2>2. CASE ~torn
    BY <1>2, <1>11, <2>1, <2>2 DEF WriteFails, Fails, tracked
  <2>3. CASE torn
    <3>1. writes < MaxWrites /\ writes' = writes + 1 /\ disk' = [disk EXCEPT ![File(w)] = writes + 2]
      BY <1>11, <2>3 DEF WriteFails
    <3>2. DiskOK' /\ CacheOK(cache, disk, writes)'
      BY <1>1, <2>1, <3>1, Written
    <3>3. SetsOK' /\ StoreOK'
      BY <2>1 DEF IInv, SetsOK, StoreOK
    <3> QED
      BY <2>1, <3>1, <3>2, <3>3, FinishOK DEF IInv
  <2> QED
    BY <2>2, <2>3
<1> QED
  BY <1>5, <1>6, <1>7, <1>8, <1>9, <1>10, <1>11 DEF WorkerStep

(* Another program writes.                                                 *)
LEMMA OutsideStep ==
  ASSUME IInv, NEW f \in Files, NEW removes \in BOOLEAN, Outside(f, removes)
  PROVE  IInv'
<1>1. /\ writes < MaxWrites /\ writes' = writes + 1
      /\ disk' = [disk EXCEPT ![f] = IF removes THEN Absent ELSE writes + 2]
      /\ UNCHANGED <<cache, seen, written_since_read, written, loop, call, awaited, worker,
                     saving, store, asked>>
  BY DEF Outside, tracked, turn
<1>2. DiskOK' /\ CacheOK(cache, disk, writes)'
  BY <1>1, Written DEF Absent
<1>3. SetsOK' /\ StoreOK' /\ TurnOK' /\ SavingOK'
  BY <1>1 DEF IInv, SetsOK, StoreOK, TurnOK, SavingOK, Alive
<1>4. writes \in Nat
  BY DEF IInv, DiskOK
<1>5. WorkersOK'
  BY <1>1, <1>4 DEF IInv, WorkersOK, WorkerOK
<1> QED
  BY <1>2, <1>3, <1>5 DEF IInv

(* The session is saved, or the process ends and another one resumes.      *)
LEMMA SaveStep ==
  ASSUME IInv,
         \/ BeginSave \/ (\E f \in Files : Digest(f)) \/ WalkRaises
         \/ (\E fails \in BOOLEAN : EndSave(fails)) \/ Resume
  PROVE  IInv'
<1>1. CASE BeginSave \/ WalkRaises
  <2>1. UNCHANGED <<disk, writes, cache, seen, written_since_read, written, call, awaited,
                    worker, store, asked>>
    BY <1>1 DEF BeginSave, WalkRaises, tracked
  <2>2. DiskOK' /\ CacheOK(cache, disk, writes)' /\ SetsOK' /\ StoreOK' /\ WorkersOK'
    BY <2>1 DEF IInv, DiskOK, SetsOK, StoreOK, WorkersOK
  <2>3. TurnOK'
    BY <1>1, <2>1 DEF IInv, TurnOK, BeginSave, WalkRaises, Alive
  <2>4. SavingOK'
    BY <1>1, <2>1 DEF IInv, SavingOK, SetsOK, BeginSave, WalkRaises, NotSaving, Digests
  <2> QED
    BY <2>2, <2>3, <2>4 DEF IInv
<1>2. ASSUME NEW f \in Files, Digest(f)
      PROVE  IInv'
  <2>1. UNCHANGED <<disk, writes, cache, seen, written_since_read, written, loop, call, awaited,
                    worker, store, asked>>
    BY <1>2 DEF Digest, tracked, turn
  <2>2. DiskOK' /\ CacheOK(cache, disk, writes)' /\ SetsOK' /\ StoreOK' /\ WorkersOK' /\ TurnOK'
    BY <2>1 DEF IInv, DiskOK, SetsOK, StoreOK, WorkersOK, TurnOK, Alive
  <2>3. saving \in Digests /\ f \in saving.todo /\ f \in asked /\ <<f, disk[f]>> \in Files \X Contents
    BY <1>2 DEF IInv, SavingOK, Digest, DiskOK
  <2>4. /\ saving'.all = saving.all /\ saving'.todo = saving.todo \ {f} /\ saving' \in Digests
        /\ saving'.done = IF is_file(f) THEN saving.done \cup {<<f, disk[f]>>} ELSE saving.done
    BY <1>2, <2>3 DEF Digest, Digests
  <2>5. saving'.done \subseteq saving.done \cup {<<f, disk[f]>>}
    BY <2>4
  <2>6. \A x \in saving'.done : x[1] \in asked'
    BY <2>1, <2>3, <2>5 DEF IInv, SavingOK
  <2>7. loop' = "saving"
    BY <1>2, <2>1 DEF Digest
  <2>8. SavingOK'
    BY <2>1, <2>4, <2>6, <2>7 DEF IInv, SavingOK
  <2> QED
    BY <2>2, <2>8 DEF IInv
<1>3. ASSUME NEW fails \in BOOLEAN, EndSave(fails)
      PROVE  IInv'
  <2>1. /\ UNCHANGED <<disk, writes, cache, seen, written_since_read, written, call, awaited,
                       worker, asked>>
        /\ loop = "saving" /\ loop' = "idle" /\ saving' = NotSaving
        /\ store' = IF fails THEN store ELSE [seen |-> saving.done, asked |-> asked]
    BY <1>3 DEF EndSave, tracked
  <2>2. DiskOK' /\ CacheOK(cache, disk, writes)' /\ SetsOK' /\ WorkersOK'
    BY <2>1 DEF IInv, DiskOK, SetsOK, WorkersOK
  <2>3. TurnOK'
    BY <2>1 DEF IInv, TurnOK, Alive
  <2>4. SavingOK'
    BY <2>1 DEF IInv, SavingOK, NotSaving, Digests
  <2>5. saving.done \in SUBSET (Files \X Contents) /\ asked \in SUBSET Files
        /\ \A x \in saving.done : x[1] \in asked
    BY DEF IInv, SavingOK, Digests, SetsOK
  <2>6. StoreOK'
    BY <2>1, <2>5 DEF IInv, StoreOK
  <2> QED
    BY <2>2, <2>3, <2>4, <2>6 DEF IInv
<1>4. CASE Resume
  <2>1. /\ UNCHANGED <<disk, writes, call, awaited, worker, saving, store>>
        /\ loop \in {"idle", "dead"} /\ loop' = "idle" /\ cache' = <<>> /\ seen' = restore_seen
        /\ written_since_read' = {} /\ written' = {} /\ asked' = store.asked
        /\ \A w \in Workers : worker[w] = Idle
    BY <1>4 DEF Resume, Alive
  <2>2. DiskOK' /\ StoreOK'
    BY <2>1 DEF IInv, DiskOK, StoreOK
  <2>3. CacheOK(cache, disk, writes)'
    BY <2>1, WorkspaceConstants DEF CacheOK, Distinct
  <2>4. SetsOK'
    BY <2>1 DEF IInv, StoreOK, SetsOK, restore_seen
  <2>5. WorkersOK'
    BY <2>1 DEF IInv, WorkersOK, WorkerOK
  <2>6. TurnOK' /\ SavingOK'
    BY <2>1 DEF IInv, TurnOK, SavingOK, NotSaving, Digests, Alive
  <2> QED
    BY <2>2, <2>3, <2>4, <2>5, <2>6 DEF IInv
<1> QED
  BY <1>1, <1>2, <1>3, <1>4

-----------------------------------------------------------------------------
(* Every step keeps the invariant.                                         *)
LEMMA NextIInv == IInv /\ [Next]_vars => IInv'
<1> SUFFICES ASSUME IInv, [Next]_vars PROVE IInv'
  OBVIOUS
<1>1. CASE UNCHANGED vars
  <2>1. UNCHANGED <<disk, writes, cache, seen, written_since_read, written, loop, call, awaited,
                    worker, saving, store, asked>>
    BY <1>1 DEF vars, tracked, turn
  <2> QED
    BY <2>1 DEF IInv, DiskOK, SetsOK, WorkersOK, TurnOK, SavingOK, StoreOK, Alive
<1>2. CASE Next
  BY <1>2, LoopStep, ThreadStep, OutsideStep, SaveStep DEF Next
<1> QED
  BY <1>1, <1>2

(* The invariant holds in every reachable state.                           *)
LEMMA InductiveInvariant == Spec => []IInv
BY InitIInv, NextIInv, PTL DEF Spec

(* TypeOK: every variable keeps its type, the cache its size, and the turn *)
(* waits for a living thread exactly while it runs a call.                 *)
THEOREM TypeCorrect == Spec => []TypeOK
<1>1. IInv => TypeOK
  BY DEF IInv, DiskOK, CacheOK, SetsOK, WorkersOK, TurnOK, SavingOK, StoreOK, TypeOK
<1> QED
  BY InductiveInvariant, <1>1, PTL

(* CacheNeverStale: an entry that carries the present mtime of its file    *)
(* holds its present text, whoever wrote meanwhile.                        *)
THEOREM CacheIsFresh == Spec => []CacheNeverStale
<1>1. IInv => CacheNeverStale
  BY DEF IInv, CacheOK, Distinct, EntryOK, CacheNeverStale
<1> QED
  BY InductiveInvariant, <1>1, PTL

(* EditsFollowReads: an edit lands only on a file that the conversation    *)
(* asked to read or to write.                                              *)
THEOREM ReadBeforeEdit == Spec => EditsFollowReads
<1>1. ASSUME IInv, NEW w \in Workers, Alive(w), worker[w].at = "apply"
      PROVE  File(w) \in asked
  BY <1>1 DEF IInv, WorkersOK, WorkerOK, Alive, File, Doing
<1>2. IInv /\ [Next]_vars =>
        [\A w \in Workers :
           /\ Alive(w) /\ worker[w].at = "apply"
           /\ worker'[w] # worker[w] /\ disk' # disk
           => File(w) \in asked]_vars
  BY <1>1
<1> QED
  BY InductiveInvariant, <1>2, PTL DEF Spec, EditsFollowReads

-----------------------------------------------------------------------------
(***************************************************************************)
(* What a write of edit_file is: EditMatching, for every file, anchor and  *)
(* new text.                                                               *)
(***************************************************************************)
-----------------------------------------------------------------------------
(* What can be computed step by step.                                      *)

(* Every nonempty set of natural numbers has a least element.              *)
LEMMA LeastNumber ==
  ASSUME NEW S \in SUBSET Nat, S # {}
  PROVE  \E n \in S : \A m \in S : n <= m
<1>1. IsWellFoundedOn(OpToRel(<, Nat), Nat)
  BY NatLessThanWellFounded, Zenon
<1>2. PICK n \in S : \A m \in S : ~(<<m, n>> \in OpToRel(<, Nat))
  BY <1>1, WFMin, Zenon
<1>3. \A m \in S : ~(m < n)
  BY <1>2 DEF OpToRel
<1> QED
  BY <1>3

(* What is computed at each number from what there is at a smaller one can *)
(* be computed up to any.                                                  *)
Upward(f, n, b, G, p) == f[0] = b /\ \A i \in 1..n : f[i] = G[i][f[p[i]]]

(* By the least number up to which it cannot.                              *)
LEMMA UpwardExists ==
  ASSUME NEW n \in Nat, NEW S, NEW b \in S, NEW G \in [1..n -> [S -> S]],
         NEW p \in [1..n -> Nat], \A i \in 1..n : p[i] < i
  PROVE  \E f \in [0..n -> S] : Upward(f, n, b, G, p)
<1> DEFINE Can(m) == \E f \in [0..m -> S] : Upward(f, m, b, G, p)
           bad == {m \in 0..n : ~Can(m)}
<1> SUFFICES ASSUME bad # {} PROVE FALSE
  OBVIOUS
<1>1. PICK m \in bad : \A j \in bad : m <= j
  <2>1. bad \in SUBSET Nat
    OBVIOUS
  <2> QED
    BY <2>1, LeastNumber
<1>2. m \in 0..n /\ m \in Nat /\ ~Can(m)
  BY <1>1
<1>3. m # 0
  <2> SUFFICES ASSUME m = 0 PROVE FALSE
    OBVIOUS
  <2>1. [i \in 0..0 |-> b] \in [0..0 -> S] /\ Upward([i \in 0..0 |-> b], 0, b, G, p)
    BY DEF Upward
  <2> QED
    BY <1>2, <2>1
<1>4. m \in 1..n /\ m - 1 \in 0..n /\ ~(m <= m - 1)
  BY <1>2, <1>3
<1>5. m - 1 \notin bad
  <2> HIDE DEF bad
  <2> QED
    BY <1>1, <1>4
<1>6. PICK f \in [0..(m - 1) -> S] : Upward(f, m - 1, b, G, p)
  BY <1>4, <1>5
<1> DEFINE g == [i \in 0..m |-> IF i = m THEN G[m][f[p[m]]] ELSE f[i]]
<1>7. \A i \in 0..m : i # m => i \in 0..(m - 1)
  BY <1>2
<1>8. p[m] \in 0..(m - 1)
  BY <1>2, <1>4
<1>9. g \in [0..m -> S]
  <2>1. G[m][f[p[m]]] \in S
    BY <1>4, <1>6, <1>8
  <2> QED
    BY <1>6, <1>7, <2>1
<1>10. g[0] = b
  BY <1>2, <1>3, <1>6 DEF Upward
<1>11. ASSUME NEW i \in 1..m
       PROVE  g[i] = G[i][g[p[i]]]
  <2>1. p[i] \in 0..m /\ p[i] # m /\ i \in 0..m
    BY <1>2, <1>4, <1>11
  <2>2. g[p[i]] = f[p[i]]
    BY <2>1
  <2>3. CASE i = m
    BY <2>1, <2>2, <2>3
  <2>4. CASE i # m
    <3>1. i \in 1..(m - 1)
      BY <1>2, <2>4
    <3> QED
      BY <1>6, <2>1, <2>2, <2>4, <3>1 DEF Upward
  <2> QED
    BY <2>3, <2>4
<1>12. Can(m)
  <2> HIDE DEF g
  <2> QED
    BY <1>9, <1>10, <1>11 DEF Upward
<1> QED
  BY <1>2, <1>12

(* And down from any, likewise.                                            *)
Downward(f, n, b, G, q) == f[n + 1] = b /\ \A i \in 1..n : f[i] = G[i][f[q[i]]]

(* By counting from the other end.                                         *)
LEMMA DownwardExists ==
  ASSUME NEW n \in Nat, NEW S, NEW b \in S, NEW G \in [1..n -> [S -> S]],
         NEW q \in [1..n -> Nat], \A i \in 1..n : i < q[i] /\ q[i] <= n + 1
  PROVE  \E f \in [1..(n + 1) -> S] : Downward(f, n, b, G, q)
<1> DEFINE H == [i \in 1..n |-> G[n + 1 - i]]
           p == [i \in 1..n |-> n + 1 - q[n + 1 - i]]
<1>1. \A i \in 1..n : n + 1 - i \in 1..n /\ n + 1 - (n + 1 - i) = i
  OBVIOUS
<1>2. H \in [1..n -> [S -> S]]
  BY <1>1
<1>3. ASSUME NEW i \in 1..n
      PROVE  n + 1 - q[n + 1 - i] \in Nat /\ n + 1 - q[n + 1 - i] < i
  <2> DEFINE j == n + 1 - i
  <2>1. j \in 1..n /\ i = n + 1 - j
    BY <1>1
  <2>2. q[j] \in Nat /\ j < q[j] /\ q[j] <= n + 1
    BY <2>1
  <2> HIDE DEF j
  <2>3. n + 1 - q[j] \in Nat /\ n + 1 - q[j] < i
    BY <2>1, <2>2
  <2> QED
    BY <2>3 DEF j
<1>4. p \in [1..n -> Nat] /\ \A i \in 1..n : p[i] < i
  BY <1>3
<1> HIDE DEF H, p
<1>5. PICK f \in [0..n -> S] : Upward(f, n, b, H, p)
  BY <1>2, <1>4, UpwardExists
<1> DEFINE g == [i \in 1..(n + 1) |-> f[n + 1 - i]]
<1>6. \A i \in 1..(n + 1) : n + 1 - i \in 0..n
  OBVIOUS
<1>7. g \in [1..(n + 1) -> S]
  BY <1>5, <1>6
<1>8. g[n + 1] = b
  <2>1. n + 1 \in 1..(n + 1) /\ n + 1 - (n + 1) = 0
    OBVIOUS
  <2> QED
    BY <1>5, <2>1 DEF Upward
<1>9. ASSUME NEW i \in 1..n
      PROVE  g[i] = G[i][g[q[i]]]
  <2> DEFINE j == n + 1 - i
  <2>1. j \in 1..n /\ n + 1 - j = i /\ i \in 1..(n + 1)
    BY <1>1
  <2>2. q[i] \in 1..(n + 1)
    OBVIOUS
  <2> HIDE DEF j
  <2>3. H[j] = G[i] /\ p[j] = n + 1 - q[i]
    BY <2>1 DEF H, p
  <2>4. f[j] = H[j][f[p[j]]]
    BY <1>5, <2>1 DEF Upward
  <2>5. g[i] = f[j] /\ g[q[i]] = f[n + 1 - q[i]]
    BY <2>1, <2>2 DEF j
  <2> QED
    BY <2>3, <2>4, <2>5
<1> HIDE DEF g
<1> QED
  BY <1>7, <1>8, <1>9 DEF Downward

-----------------------------------------------------------------------------
(* Where an anchor occurs.                                                 *)

Ahead(T, o, i) == {j \in Occurrences(T, o) : j >= i}

(* The first one from i on.                                                *)
LEMMA AheadFacts ==
  ASSUME NEW T \in Seq(Symbols), NEW o \in Seq(Symbols), o # <<>>
  PROVE  /\ Len(T) \in Nat /\ DOMAIN T = 1..Len(T) /\ Len(o) \in Nat \ {0}
         /\ \A i \in Occurrences(T, o) :
              i \in 1..Len(T) /\ i + Len(o) <= Len(T) + 1 /\ i < i + Len(o)
         /\ \A i \in Nat : Ahead(T, o, i) # {} =>
              /\ Min(Ahead(T, o, i)) \in Ahead(T, o, i)
              /\ \A j \in Ahead(T, o, i) : Min(Ahead(T, o, i)) <= j
<1>1. Len(T) \in Nat /\ DOMAIN T = 1..Len(T) /\ Len(o) \in Nat
  OBVIOUS
<1>2. Len(o) # 0
  BY EmptySeq
<1>3. \A i \in Occurrences(T, o) :
        i \in 1..Len(T) /\ i + Len(o) <= Len(T) + 1 /\ i < i + Len(o)
  BY <1>1, <1>2 DEF Occurrences, MatchAt
<1>4. ASSUME NEW i \in Nat, Ahead(T, o, i) # {}
      PROVE  /\ Min(Ahead(T, o, i)) \in Ahead(T, o, i)
             /\ \A j \in Ahead(T, o, i) : Min(Ahead(T, o, i)) <= j
  <2> DEFINE A == Ahead(T, o, i)
  <2>1. A \in SUBSET Nat
    BY <1>3 DEF Ahead
  <2> HIDE DEF A
  <2>2. \E m \in A : \A j \in A : m <= j
    BY <1>4, <2>1, LeastNumber DEF A
  <2>3. Min(A) \in A /\ \A j \in A : Min(A) <= j
    BY <2>2 DEF Min
  <2> QED
    BY <2>3 DEF A
<1> QED
  BY <1>1, <1>2, <1>3, <1>4

(* The recursion of Scan.                                                  *)
Scanning(f, T, o) ==
  [i \in 1..(Len(T) + 1) |->
     IF Ahead(T, o, i) = {} THEN {}
     ELSE {Min(Ahead(T, o, i))} \cup f[Min(Ahead(T, o, i)) + Len(o)]]

(* The scan of str.count is defined, ...                                   *)
LEMMA ScanExists ==
  ASSUME NEW T \in Seq(Symbols), NEW o \in Seq(Symbols), o # <<>>
  PROVE  \E f : f = Scanning(f, T, o) /\ f[1] = Scan(T, o)
<1> DEFINE n == Len(T)
           k == Len(o)
           S == SUBSET Nat
           first(i) == Min(Ahead(T, o, i))
           G == [i \in 1..n |-> [s \in S |-> IF Ahead(T, o, i) = {} THEN {} ELSE {first(i)} \cup s]]
           q == [i \in 1..n |-> IF Ahead(T, o, i) = {} THEN n + 1 ELSE first(i) + k]
<1>1. /\ n \in Nat /\ k \in Nat \ {0}
      /\ \A i \in Occurrences(T, o) : i \in 1..n /\ i + k <= n + 1
  BY AheadFacts
<1>2. ASSUME NEW i \in Nat, Ahead(T, o, i) # {}
      PROVE  first(i) \in Nat /\ i < first(i) + k /\ first(i) + k <= n + 1
  <2>1. first(i) \in Ahead(T, o, i)
    BY <1>2, AheadFacts, Zenon
  <2> HIDE DEF first
  <2>2. first(i) \in Occurrences(T, o) /\ first(i) >= i
    BY <2>1 DEF Ahead
  <2> QED
    BY <1>1, <2>2
<1> HIDE DEF n, k, first
<1>3. G \in [1..n -> [S -> S]]
  <2>1. ASSUME NEW i \in 1..n, NEW s \in S
        PROVE  (IF Ahead(T, o, i) = {} THEN {} ELSE {first(i)} \cup s) \in S
    <3>1. i \in Nat
      BY <1>1
    <3>2. Ahead(T, o, i) # {} => {first(i)} \cup s \subseteq Nat
      BY <1>2, <3>1
    <3> QED
      BY <3>2
  <2> QED
    BY <2>1
<1>4. q \in [1..n -> Nat] /\ \A i \in 1..n : i < q[i] /\ q[i] <= n + 1
  BY <1>1, <1>2
<1>5. {} \in S
  OBVIOUS
<1> HIDE DEF G, q, S
<1>6. PICK f \in [1..(n + 1) -> S] : Downward(f, n, {}, G, q)
  BY <1>1, <1>3, <1>4, <1>5, DownwardExists
<1>7. Ahead(T, o, n + 1) = {}
  BY <1>1 DEF Ahead
<1>8. ASSUME NEW i \in 1..(n + 1)
      PROVE  f[i] = IF Ahead(T, o, i) = {} THEN {} ELSE {first(i)} \cup f[first(i) + k]
  <2>1. CASE i = n + 1
    BY <1>6, <1>7, <2>1 DEF Downward
  <2>2. CASE i # n + 1
    <3>1. i \in 1..n
      BY <1>1, <2>2
    <3>2. f[i] = G[i][f[q[i]]] /\ q[i] \in 1..(n + 1)
      BY <1>1, <1>4, <1>6, <3>1 DEF Downward
    <3>3. f[q[i]] \in S
      BY <1>6, <3>2
    <3>4. G[i][f[q[i]]] = IF Ahead(T, o, i) = {} THEN {} ELSE {first(i)} \cup f[q[i]]
      BY <3>1, <3>3 DEF G
    <3>5. Ahead(T, o, i) # {} => q[i] = first(i) + k
      BY <3>1 DEF q
    <3> QED
      BY <3>2, <3>4, <3>5
  <2> QED
    BY <2>1, <2>2
<1>9. f = Scanning(f, T, o)
  <2>1. f = [i \in 1..(n + 1) |-> f[i]]
    BY <1>6
  <2>2. [i \in 1..(n + 1) |-> f[i]]
          = [i \in 1..(n + 1) |-> IF Ahead(T, o, i) = {} THEN {} ELSE {first(i)} \cup f[first(i) + k]]
    BY <1>8, Zenon
  <2> QED
    BY <2>1, <2>2, Zenon DEF Scanning, first, n, k
<1> DEFINE c == CHOOSE g : g = Scanning(g, T, o)
<1>10. Scan(T, o) = c[1]
  BY Zenon DEF Scan, Scanning, Ahead
<1>11. c = Scanning(c, T, o)
  BY <1>9, Zenon
<1> QED
  BY <1>10, <1>11, Zenon

(* P are occurrences from i on that do not overlap, the first among them,  *)
(* and every other overlaps one of them.                                   *)
ScanOf(P, T, o, i) ==
  /\ P \subseteq Ahead(T, o, i)
  /\ \A p, q \in P : p < q => p + Len(o) <= q
  /\ \A j \in Ahead(T, o, i) : \E p \in P : p <= j /\ j < p + Len(o)
  /\ Ahead(T, o, i) # {} => Min(Ahead(T, o, i)) \in P

(* ... and it finds such occurrences: from the end of the text on.         *)
LEMMA ScanFacts ==
  ASSUME NEW T \in Seq(Symbols), NEW o \in Seq(Symbols), o # <<>>
  PROVE  ScanOf(Scan(T, o), T, o, 1)
<1> DEFINE n == Len(T)
           k == Len(o)
<1>1. PICK f : f = Scanning(f, T, o) /\ f[1] = Scan(T, o)
  BY ScanExists
<1>2. /\ n \in Nat /\ k \in Nat \ {0}
      /\ \A i \in Occurrences(T, o) : i \in 1..n /\ i + k <= n + 1
  BY AheadFacts
<1>3. \A i \in 1..(n + 1) :
        f[i] = IF Ahead(T, o, i) = {} THEN {}
               ELSE {Min(Ahead(T, o, i))} \cup f[Min(Ahead(T, o, i)) + k]
  BY <1>1 DEF Scanning
<1> HIDE DEF n, k
<1> DEFINE bad == {d \in 0..n : ~ScanOf(f[n + 1 - d], T, o, n + 1 - d)}
<1>4. bad = {}
  <2> SUFFICES ASSUME bad # {} PROVE FALSE
    OBVIOUS
  <2>1. PICK d \in bad : \A e \in bad : d <= e
    <3>1. bad \in SUBSET Nat
      BY <1>2
    <3> QED
      BY <3>1, LeastNumber
  <2> DEFINE i == n + 1 - d
             A == Ahead(T, o, i)
             m == Min(A)
  <2>2. d \in 0..n /\ i \in 1..(n + 1) /\ i \in Nat /\ d = n + 1 - i
    BY <1>2, <2>1
  <2>3. ~ScanOf(f[i], T, o, i)
    BY <2>1
  <2>4. \A j \in 1..(n + 1) : i < j => ScanOf(f[j], T, o, j)
    <3> SUFFICES ASSUME NEW j \in 1..(n + 1), i < j PROVE ScanOf(f[j], T, o, j)
      OBVIOUS
    <3>1. n + 1 - j \in 0..n /\ n + 1 - j < d /\ n + 1 - (n + 1 - j) = j
      BY <1>2, <2>2
    <3>2. n + 1 - j \notin bad
      <4> HIDE DEF bad
      <4> QED
        BY <1>2, <2>1, <2>2, <3>1
    <3> QED
      BY <3>1, <3>2
  <2> HIDE DEF bad, i
  <2>5. CASE A = {}
    <3>1. f[i] = {}
      BY <1>3, <2>2, <2>5
    <3> QED
      BY <2>3, <2>5, <3>1 DEF ScanOf
  <2>6. CASE A # {}
    <3>1. m \in A /\ \A j \in A : m <= j
      BY <2>2, <2>6, AheadFacts, Zenon
    <3>2. f[i] = {m} \cup f[m + k]
      BY <1>3, <2>2, <2>6
    <3> HIDE DEF m
    <3>3. m \in 1..n /\ i <= m /\ m + k \in 1..(n + 1) /\ i < m + k
      BY <1>2, <2>2, <3>1 DEF Ahead
    <3>4. ScanOf(f[m + k], T, o, m + k)
      BY <2>4, <3>3
    <3> DEFINE Q == f[m + k]
               B == Ahead(T, o, m + k)
    <3>5. \A j : j \in B <=> j \in A /\ m + k <= j
      BY <1>2, <2>2, <3>3 DEF Ahead
    <3>6. \A j \in A : j \in Nat
      BY <1>2 DEF Ahead
    <3>7. /\ Q \subseteq B
          /\ \A p, q \in Q : p < q => p + k <= q
          /\ \A j \in B : \E p \in Q : p <= j /\ j < p + k
      BY <3>4 DEF ScanOf, k
    <3> HIDE DEF A, B, Q
    <3>8. {m} \cup Q \subseteq A
      BY <3>1, <3>5, <3>7
    <3>9. \A p, q \in {m} \cup Q : p < q => p + k <= q
      <4>1. \A q \in Q : q \in Nat /\ m + k <= q
        BY <3>5, <3>6, <3>7
      <4>2. ASSUME NEW p \in {m} \cup Q, NEW q \in {m} \cup Q, p < q PROVE p + k <= q
        <5>1. q # m
          BY <1>2, <3>3, <4>1, <4>2
        <5> QED
          BY <3>7, <4>1, <4>2, <5>1
      <4> QED
        BY <4>2
    <3>10. \A j \in A : \E p \in {m} \cup Q : p <= j /\ j < p + k
      <4> SUFFICES ASSUME NEW j \in A PROVE \E p \in {m} \cup Q : p <= j /\ j < p + k
        OBVIOUS
      <4>1. CASE j < m + k
        BY <3>1, <4>1
      <4>2. CASE ~(j < m + k)
        BY <1>2, <3>3, <3>5, <3>6, <3>7, <4>2
      <4> QED
        BY <4>1, <4>2
    <3>11. ScanOf({m} \cup Q, T, o, i)
      BY <3>8, <3>9, <3>10 DEF ScanOf, A, m, k
    <3> QED
      BY <2>3, <3>2, <3>11 DEF Q
  <2> QED
    BY <2>5, <2>6
<1>5. n \in 0..n /\ n + 1 - n = 1
  BY <1>2
<1>6. ScanOf(f[1], T, o, 1)
  BY <1>4, <1>5
<1> QED
  BY <1>1, <1>6

-----------------------------------------------------------------------------
(* What str.replace makes of the text.                                     *)

(* The recursion of Replace.                                               *)
Replacing(f, T, o, w, P) ==
  [i \in 1..(Len(T) + 1) |->
     CASE i > Len(T) -> <<>>
       [] i \in P -> w \o f[i + Len(o)]
       [] OTHER -> <<T[i]>> \o f[i + 1]]

(* The rest of the result, from each place on.                             *)
IsRest(f, T, o, w, P) ==
  /\ f[Len(T) + 1] = <<>>
  /\ \A i \in 1..Len(T) : f[i] = IF i \in P THEN w \o f[i + Len(o)] ELSE <<T[i]>> \o f[i + 1]

(* It is defined, and a text.                                              *)
LEMMA RestExists ==
  ASSUME NEW T \in Seq(Symbols), NEW o \in Seq(Symbols), o # <<>>, NEW w \in Seq(Symbols),
         NEW P \in SUBSET Occurrences(T, o)
  PROVE  \E f \in [1..(Len(T) + 1) -> Seq(Symbols)] :
           IsRest(f, T, o, w, P) /\ f[1] = Replace(T, o, w, P)
<1> DEFINE n == Len(T)
           k == Len(o)
           S == Seq(Symbols)
           a == [i \in 1..n |-> IF i \in P THEN w ELSE <<T[i]>>]
           G == [i \in 1..n |-> [s \in S |-> a[i] \o s]]
           q == [i \in 1..n |-> IF i \in P THEN i + k ELSE i + 1]
<1>1. /\ n \in Nat /\ k \in Nat \ {0}
      /\ \A i \in P : i \in 1..n /\ i + k <= n + 1
  BY AheadFacts
<1>2. \A i \in 1..n : T[i] \in Symbols /\ <<T[i]>> \in S
  OBVIOUS
<1> HIDE DEF n, k
<1>3. a \in [1..n -> S]
  BY <1>2
<1> HIDE DEF a
<1>4. G \in [1..n -> [S -> S]]
  <2>1. \A i \in 1..n : \A s \in S : a[i] \o s \in S
    BY <1>3, ConcatProperties
  <2> QED
    BY <2>1
<1>5. /\ q \in [1..n -> Nat] /\ \A i \in 1..n : i < q[i] /\ q[i] <= n + 1
      /\ \A i \in 1..n : q[i] \in 1..(n + 1)
  BY <1>1
<1>6. <<>> \in S
  OBVIOUS
<1> HIDE DEF G, q, S
<1>7. PICK f \in [1..(n + 1) -> S] : Downward(f, n, <<>>, G, q)
  BY <1>1, <1>4, <1>5, <1>6, DownwardExists
<1>8. ASSUME NEW g, g = Replacing(g, T, o, w, P)
      PROVE  /\ g \in [1..(n + 1) -> S] => IsRest(g, T, o, w, P)
             /\ g[n + 1] = <<>> /\ DOMAIN g = 1..(n + 1)
             /\ \A i \in 1..n : g[i] = a[i] \o g[q[i]]
  <2>1. DOMAIN g = 1..(n + 1)
    BY <1>8 DEF Replacing, n
  <2>2. g[n + 1] = <<>>
    <3>1. n + 1 \in 1..(n + 1) /\ n + 1 > n /\ n + 1 \notin P
      BY <1>1
    <3> QED
      BY <1>8, <3>1 DEF Replacing, n
  <2>3. ASSUME NEW i \in 1..n
        PROVE  g[i] = IF i \in P THEN w \o g[i + k] ELSE <<T[i]>> \o g[i + 1]
    <3>1. i \in 1..(n + 1) /\ ~(i > n)
      BY <1>1
    <3>2. g[i] = Replacing(g, T, o, w, P)[i]
      BY <1>8, Zenon
    <3>3. Replacing(g, T, o, w, P)[i] = IF i \in P THEN w \o g[i + k] ELSE <<T[i]>> \o g[i + 1]
      BY <3>1 DEF Replacing, n, k
    <3> QED
      BY <3>2, <3>3, Zenon
  <2>4. \A i \in 1..n : g[i] = a[i] \o g[q[i]]
    BY <2>3 DEF a, q
  <2> QED
    BY <2>1, <2>2, <2>3, <2>4 DEF IsRest, n, k
<1>9. f = Replacing(f, T, o, w, P)
  <2>1. \A i \in 1..n : f[i] = a[i] \o f[q[i]]
    BY <1>5, <1>7 DEF Downward, G
  <2>2. ASSUME NEW i \in 1..(n + 1)
        PROVE  f[i] = CASE i > n -> <<>>
                        [] i \in P -> w \o f[i + k]
                        [] OTHER -> <<T[i]>> \o f[i + 1]
    <3>1. CASE i \in 1..n
      <4>1. ~(i > n)
        BY <1>1, <3>1
      <4> QED
        BY <2>1, <3>1, <4>1 DEF a, q
    <3>2. CASE i \notin 1..n
      <4>1. i = n + 1 /\ i > n /\ i \notin P
        BY <1>1, <3>2
      <4> QED
        BY <1>7, <4>1 DEF Downward
    <3> QED
      BY <3>1, <3>2
  <2>3. f = [i \in 1..(n + 1) |-> f[i]]
    BY <1>7
  <2>4. [i \in 1..(n + 1) |-> f[i]]
          = [i \in 1..(n + 1) |-> CASE i > n -> <<>>
                                    [] i \in P -> w \o f[i + k]
                                    [] OTHER -> <<T[i]>> \o f[i + 1]]
    BY <2>2, Zenon
  <2> QED
    BY <2>3, <2>4, Zenon DEF Replacing, n, k
<1> DEFINE c == CHOOSE g : g = Replacing(g, T, o, w, P)
<1>10. Replace(T, o, w, P) = c[1]
  BY Zenon DEF Replace, Replacing
<1>11. c = Replacing(c, T, o, w, P)
  BY <1>9, Zenon
<1> HIDE DEF c
<1>12. /\ c[n + 1] = <<>> /\ DOMAIN c = 1..(n + 1)
       /\ \A i \in 1..n : c[i] = a[i] \o c[q[i]]
  BY <1>8, <1>11
<1>13. \A i \in 1..(n + 1) : c[i] = f[i]
  <2> DEFINE bad == {d \in 0..n : c[n + 1 - d] # f[n + 1 - d]}
  <2>1. bad = {}
    <3> SUFFICES ASSUME bad # {} PROVE FALSE
      OBVIOUS
    <3>1. PICK d \in bad : \A e \in bad : d <= e
      <4>1. bad \in SUBSET Nat
        BY <1>1
      <4> QED
        BY <4>1, LeastNumber
    <3> DEFINE i == n + 1 - d
    <3>2. d \in 0..n /\ c[i] # f[i] /\ i \in 1..(n + 1) /\ d = n + 1 - i
      BY <1>1, <3>1
    <3> HIDE DEF i
    <3>3. i # n + 1
      BY <1>7, <1>12, <3>2 DEF Downward
    <3>4. i \in 1..n
      BY <1>1, <3>2, <3>3
    <3>5. n + 1 - q[i] \in 0..n /\ ~(d <= n + 1 - q[i]) /\ n + 1 - (n + 1 - q[i]) = q[i]
      BY <1>1, <1>5, <3>2, <3>4
    <3>6. n + 1 - q[i] \notin bad
      <4> HIDE DEF bad
      <4> QED
        BY <3>1, <3>5
    <3>7. c[q[i]] = f[q[i]]
      BY <3>5, <3>6
    <3>8. f[i] = a[i] \o f[q[i]]
      BY <1>5, <1>7, <3>4 DEF Downward, G
    <3> QED
      BY <1>12, <3>2, <3>4, <3>7, <3>8
  <2>2. \A i \in 1..(n + 1) : n + 1 - i \in 0..n /\ n + 1 - (n + 1 - i) = i
    BY <1>1
  <2> QED
    BY <2>1, <2>2
<1>14. f[1] = Replace(T, o, w, P)
  <2>1. 1 \in 1..(n + 1)
    BY <1>1
  <2> QED
    BY <1>10, <1>13, <2>1
<1>15. IsRest(f, T, o, w, P)
  BY <1>7, <1>8, <1>9
<1> QED
  BY <1>7, <1>14, <1>15 DEF n, S

(* The recursion of FlattenSeq, and what it joins up to each place.        *)
Flattening(f, s) ==
  [i \in 1..Len(s) |-> IF i = 1 THEN s[i] ELSE f[i - 1] \o s[i]]

IsJoint(f, s, n) == f[0] = <<>> /\ \A i \in 1..n : f[i] = f[i - 1] \o s[i]

(* It is defined, and a text.                                              *)
LEMMA FlattenExists ==
  ASSUME NEW n \in Nat \ {0}, NEW s \in [1..n -> Seq(Symbols)]
  PROVE  \E f \in [0..n -> Seq(Symbols)] : IsJoint(f, s, n) /\ f[n] = FlattenSeq(s)
<1> DEFINE S == Seq(Symbols)
           G == [i \in 1..n |-> [t \in S |-> t \o s[i]]]
           p == [i \in 1..n |-> i - 1]
<1>1. n \in Nat /\ n > 0 /\ \A i \in 1..n : i - 1 \in 0..n /\ i - 1 \in Nat /\ i - 1 < i
  OBVIOUS
<1>2. <<>> \in S /\ \A t \in S : <<>> \o t = t
  BY ConcatEmptySeq
<1>3. G \in [1..n -> [S -> S]]
  <2>1. \A i \in 1..n : \A t \in S : t \o s[i] \in S
    BY ConcatProperties
  <2> QED
    BY <2>1
<1>4. p \in [1..n -> Nat] /\ \A i \in 1..n : p[i] < i /\ p[i] = i - 1
  BY <1>1
<1>5. Len(s) = n
  BY <1>1
<1> HIDE DEF G, p, S
<1>6. PICK f \in [0..n -> S] : Upward(f, n, <<>>, G, p)
  BY <1>1, <1>2, <1>3, <1>4, UpwardExists
<1>7. f[0] = <<>> /\ \A i \in 1..n : f[i] = f[i - 1] \o s[i]
  BY <1>1, <1>4, <1>6 DEF Upward, G
<1>8. s[1] \in S
  BY <1>1 DEF S
<1> DEFINE h == [i \in 1..n |-> f[i]]
<1>9. h = Flattening(h, s)
  <2>1. ASSUME NEW i \in 1..n
        PROVE  h[i] = IF i = 1 THEN s[i] ELSE h[i - 1] \o s[i]
    <3>1. CASE i = 1
      <4>1. f[1] = f[0] \o s[1]
        <5>1. 1 - 1 = 0 /\ 1 \in 1..n
          BY <1>1
        <5>2. f[1] = f[1 - 1] \o s[1]
          BY <1>7, <5>1, Zenon
        <5> QED
          BY <5>1, <5>2
      <4> QED
        BY <1>2, <1>7, <1>8, <3>1, <4>1
    <3>2. CASE i # 1
      <4>1. i - 1 \in 1..n
        BY <1>1, <3>2
      <4> QED
        BY <1>7, <3>2, <4>1
    <3> QED
      BY <3>1, <3>2
  <2>2. h = [i \in 1..n |-> h[i]]
    BY Zenon
  <2> HIDE DEF h
  <2>3. [i \in 1..n |-> h[i]] = [i \in 1..n |-> IF i = 1 THEN s[i] ELSE h[i - 1] \o s[i]]
    BY <2>1, Zenon
  <2> QED
    BY <1>5, <2>2, <2>3, Zenon DEF Flattening
<1> DEFINE c == CHOOSE g : g = Flattening(g, s)
<1>10. FlattenSeq(s) = c[n]
  <2>1. Len(s) # 0
    BY <1>1, <1>5
  <2>2. FlattenSeq(s) = c[Len(s)]
    BY <2>1, Zenon DEF FlattenSeq, Flattening
  <2> QED
    BY <1>5, <2>2
<1>11. c = Flattening(c, s)
  BY <1>9, Zenon
<1> HIDE DEF c
<1>12. \A i \in 1..n : c[i] = IF i = 1 THEN s[i] ELSE c[i - 1] \o s[i]
  BY <1>5, <1>11 DEF Flattening
<1>13. h[n] = c[n]
  <2> HIDE DEF h
  <2>1. \A i \in 1..n : h[i] = IF i = 1 THEN s[i] ELSE h[i - 1] \o s[i]
    BY <1>5, <1>9 DEF Flattening
  <2> DEFINE bad == {i \in 1..n : h[i] # c[i]}
  <2>2. bad = {}
    <3> SUFFICES ASSUME bad # {} PROVE FALSE
      OBVIOUS
    <3>1. PICK i \in bad : \A j \in bad : i <= j
      <4>1. bad \in SUBSET Nat
        BY <1>1
      <4> QED
        BY <4>1, LeastNumber
    <3>2. i \in 1..n /\ h[i] # c[i]
      BY <3>1
    <3>3. i # 1
      BY <1>12, <2>1, <3>2
    <3>4. i - 1 \in 1..n /\ ~(i <= i - 1)
      BY <1>1, <3>2, <3>3
    <3>5. i - 1 \notin bad
      <4> HIDE DEF bad
      <4> QED
        BY <3>1, <3>4
    <3> QED
      BY <1>12, <2>1, <3>2, <3>3, <3>4, <3>5
  <2>3. n \in 1..n
    BY <1>1
  <2> QED
    BY <2>2, <2>3
<1>14. f[n] = FlattenSeq(s)
  <2>1. n \in 1..n
    BY <1>1
  <2> QED
    BY <1>10, <1>13, <2>1
<1> QED
  BY <1>6, <1>7, <1>14 DEF IsJoint, S

(* Texts may be joined in any grouping.                                    *)
LEMMA Regrouped == \A t, u, v \in Seq(Symbols) : (t \o u) \o v = t \o (u \o v)
BY ConcatAssociative, SMT

(* The pieces of the text: the new text at each place, nothing for the     *)
(* rest of the anchor there, and the symbols of the text between.          *)
Pieces(T, k, w, P) ==
  [i \in DOMAIN T |-> CASE i \in P -> w
                       [] i \notin P /\ (\E p \in P : p < i /\ i < p + k) -> <<>>
                       [] OTHER -> <<T[i]>>]

(* Replace goes on from e after the symbol i.                              *)
ContinuesAt(i, e, k, P) ==
  \/ \E p \in P : p <= i /\ i < p + k /\ e = p + k
  \/ e = i + 1 /\ \A p \in P : ~(p <= i /\ i < p + k)

(* So what is joined up to i and the rest from e on are the result.        *)
LEMMA ReplaceJoins ==
  ASSUME NEW T \in Seq(Symbols), T # <<>>, NEW o \in Seq(Symbols), o # <<>>,
         NEW w \in Seq(Symbols), NEW P \in SUBSET Occurrences(T, o),
         \A p, q \in P : p < q => p + Len(o) <= q
  PROVE  Replace(T, o, w, P) = FlattenSeq(Pieces(T, Len(o), w, P))
<1> DEFINE n == Len(T)
           k == Len(o)
           S == Seq(Symbols)
           s == Pieces(T, k, w, P)
<1>1. /\ n \in Nat /\ n # 0 /\ k \in Nat \ {0} /\ DOMAIN T = 1..n
      /\ \A i \in P : i \in 1..n /\ i + k <= n + 1
  BY AheadFacts, EmptySeq
<1>2. \A i \in 1..n : <<T[i]>> \in S
  OBVIOUS
<1>3. \A p, q \in P : p < q => p + k <= q
  OBVIOUS
<1> HIDE DEF n, k
<1>4. s \in [1..n -> S]
  BY <1>1, <1>2 DEF Pieces
<1>5. PICK f \in [1..(n + 1) -> S] : IsRest(f, T, o, w, P) /\ f[1] = Replace(T, o, w, P)
  BY RestExists DEF n
<1>6. PICK g \in [0..n -> S] : IsJoint(g, s, n) /\ g[n] = FlattenSeq(s)
  <2> HIDE DEF s
  <2> QED
    BY <1>1, <1>4, FlattenExists
<1>7. /\ f[n + 1] = <<>>
      /\ \A i \in 1..n : f[i] = IF i \in P THEN w \o f[i + k] ELSE <<T[i]>> \o f[i + 1]
  BY <1>5 DEF IsRest, n, k
<1>8. g[0] = <<>> /\ \A i \in 1..n : g[i] = g[i - 1] \o s[i]
  BY <1>6 DEF IsJoint
<1>9. \A t, u, v \in S : (t \o u) \o v = t \o (u \o v)
  BY Regrouped, Zenon
<1>10. \A t \in S : t \o <<>> = t /\ <<>> \o t = t
  BY ConcatEmptySeq
<1> HIDE DEF S
<1> DEFINE bad == {i \in 0..n : \E e \in 1..(n + 1) : ContinuesAt(i, e, k, P) /\ g[i] \o f[e] # f[1]}
<1>11. bad = {}
  <2> SUFFICES ASSUME bad # {} PROVE FALSE
    OBVIOUS
  <2>1. PICK i \in bad : \A j \in bad : i <= j
    <3>1. bad \in SUBSET Nat
      BY <1>1
    <3> QED
      BY <3>1, LeastNumber
  <2>2. PICK e \in 1..(n + 1) : ContinuesAt(i, e, k, P) /\ g[i] \o f[e] # f[1]
    BY <2>1
  <2>3. i \in 0..n /\ i \in Nat
    BY <1>1, <2>1
  <2>4. i # 0
    <3> SUFFICES ASSUME i = 0 PROVE FALSE
      OBVIOUS
    <3>1. e = 1
      BY <1>1, <2>2 DEF ContinuesAt
    <3>2. f[1] \in S
      BY <1>1, <1>5
    <3> QED
      BY <1>8, <1>10, <2>2, <3>1, <3>2
  <2> DEFINE j == i - 1
  <2>5. i \in 1..n /\ j \in 0..n /\ j \in Nat /\ ~(i <= j) /\ i = j + 1
    BY <1>1, <2>3, <2>4
  <2>6. \A d \in 1..(n + 1) : ContinuesAt(j, d, k, P) => g[j] \o f[d] = f[1]
    <3>1. j \notin bad
      <4> HIDE DEF bad
      <4> QED
        BY <2>1, <2>5
    <3> QED
      BY <2>5, <3>1
  <2>7. g[i] = g[j] \o s[i] /\ g[j] \in S /\ s[i] \in S
    BY <1>4, <1>6, <1>8, <2>5
  <2>8. f[e] \in S
    BY <1>5
  <2> HIDE DEF bad, j
  <2>9. /\ i \in P => s[i] = w
        /\ i \notin P /\ (\E p \in P : p < i /\ i < p + k) => s[i] = <<>>
        /\ i \notin P /\ ~(\E p \in P : p < i /\ i < p + k) => s[i] = <<T[i]>>
    BY <1>1, <2>5 DEF Pieces
  <2>10. f[i] = IF i \in P THEN w \o f[i + k] ELSE <<T[i]>> \o f[i + 1]
    BY <1>7, <2>5
  <2>11. i \in 1..(n + 1)
    BY <1>1, <2>5
  <2> HIDE DEF s
  <2>12. CASE i \in P
    <3>1. ContinuesAt(j, i, k, P)
      BY <1>1, <1>3, <2>5, <2>12 DEF ContinuesAt
    <3>2. e = i + k
      BY <1>1, <1>3, <2>2, <2>5, <2>12 DEF ContinuesAt
    <3>3. f[i] = w \o f[e] /\ s[i] = w
      BY <2>12, <2>9, <2>10, <3>2, Zenon
    <3>4. g[i] \o f[e] = g[j] \o f[i]
      <4>1. f[i] = s[i] \o f[e]
        BY <3>3, Zenon
      <4>2. (g[j] \o s[i]) \o f[e] = g[j] \o (s[i] \o f[e])
        BY <1>9, <2>7, <2>8, Zenon
      <4> QED
        BY <2>7, <4>1, <4>2, Zenon
    <3> QED
      BY <2>2, <2>6, <2>11, <3>1, <3>4, Zenon
  <2>13. CASE i \notin P /\ \E p \in P : p < i /\ i < p + k
    <3>1. PICK p \in P : p < i /\ i < p + k
      BY <2>13
    <3>2. p \in Nat /\ p <= j /\ j < p + k /\ p <= i
      BY <1>1, <2>5, <3>1
    <3>3. e = p + k
      <4>1. PICK q \in P : q <= i /\ i < q + k /\ e = q + k
        BY <2>2, <3>1, <3>2 DEF ContinuesAt
      <4>2. q \in Nat /\ ~(p < q) /\ ~(q < p)
        BY <1>1, <1>3, <2>5, <3>1, <3>2, <4>1
      <4> QED
        BY <3>2, <4>1, <4>2
    <3>4. ContinuesAt(j, e, k, P)
      BY <3>2, <3>3 DEF ContinuesAt
    <3>5. s[i] = <<>>
      BY <2>13, <2>9
    <3> QED
      BY <1>10, <2>2, <2>6, <2>7, <3>4, <3>5
  <2>14. CASE i \notin P /\ ~\E p \in P : p < i /\ i < p + k
    <3>1. ContinuesAt(j, i, k, P)
      <4>1. CASE \E p \in P : p <= j /\ j < p + k
        <5>1. PICK p \in P : p <= j /\ j < p + k
          BY <4>1
        <5>2. p \in Nat /\ p < i /\ ~(i < p + k)
          BY <1>1, <2>5, <2>14, <5>1
        <5>3. i = p + k
          BY <1>1, <2>5, <5>1, <5>2
        <5> QED
          BY <5>1, <5>3, Zenon DEF ContinuesAt
      <4>2. CASE ~\E p \in P : p <= j /\ j < p + k
        BY <2>5, <4>2 DEF ContinuesAt
      <4> QED
        BY <4>1, <4>2
    <3>2. e = i + 1
      <4>1. \A p \in P : p \in Nat /\ p # i /\ ~(p < i /\ i < p + k)
        BY <1>1, <2>14
      <4>2. \A p \in P : ~(p <= i /\ i < p + k)
        BY <2>5, <4>1
      <4> QED
        BY <2>2, <4>2 DEF ContinuesAt
    <3>3. f[i] = <<T[i]>> \o f[e] /\ s[i] = <<T[i]>>
      BY <2>14, <2>9, <2>10, <3>2, Zenon
    <3>4. g[i] \o f[e] = g[j] \o f[i]
      <4>1. f[i] = s[i] \o f[e]
        BY <3>3, Zenon
      <4>2. (g[j] \o s[i]) \o f[e] = g[j] \o (s[i] \o f[e])
        BY <1>9, <2>7, <2>8, Zenon
      <4> QED
        BY <2>7, <4>1, <4>2, Zenon
    <3> QED
      BY <2>2, <2>6, <2>11, <3>1, <3>4, Zenon
  <2> QED
    BY <2>12, <2>13, <2>14
<1>12. ContinuesAt(n, n + 1, k, P)
  <2>1. ASSUME NEW p \in P, p <= n, n < p + k PROVE p + k = n + 1
    <3>1. p \in Nat /\ p + k <= n + 1
      BY <1>1
    <3> QED
      BY <1>1, <2>1, <3>1
  <2> QED
    BY <2>1 DEF ContinuesAt
<1>13. n \in 0..n /\ n + 1 \in 1..(n + 1)
  BY <1>1
<1>14. g[n] \o f[n + 1] = f[1]
  BY <1>11, <1>12, <1>13
<1>15. g[n] \in S
  BY <1>6, <1>13
<1> QED
  BY <1>5, <1>6, <1>7, <1>10, <1>14, <1>15 DEF s, k

-----------------------------------------------------------------------------
(* What edit_file does to the file.                                        *)

(* P are the places at which the edit replaces the anchor, ...             *)
PlacesOf(P, T, o, all) ==
  /\ P # {} /\ \A p, q \in P : p < q => p + Len(o) <= q
  /\ all \/ P = {Min(Occurrences(T, o))}
  /\ \A i \in Occurrences(T, o) : \E p \in P : p <= i /\ i < p + Len(o)

(* ... and this is what becomes of the text.                               *)
Replaced(r, T, o, w, all) ==
  /\ o # <<>> /\ Occurrences(T, o) # {}
  /\ r.text \in Seq(Symbols)
  /\ \E P \in SUBSET Occurrences(T, o) :
       PlacesOf(P, T, o, all) /\ r.text = FlattenSeq(Pieces(T, Len(o), w, P))

(* An edit that apply_edit accepts is one.                                 *)
LEMMA AppliedFacts ==
  ASSUME NEW T \in Seq(Symbols), NEW o \in Seq(Symbols), NEW w \in Seq(Symbols),
         NEW all \in BOOLEAN, apply_edit(T, o, w, all).kind = "applied"
  PROVE  Replaced(apply_edit(T, o, w, all), T, o, w, all)
<1> DEFINE r == apply_edit(T, o, w, all)
           places == Scan(T, o)
           O == Occurrences(T, o)
           P == IF all THEN places ELSE {Min(places)}
<1>1. /\ o # <<>> /\ places # {}
      /\ r = Applied(Replace(T, o, w, P))
      /\ all \/ ~(Cardinality(places) > 1)
  BY DEF apply_edit, Raised, Ambiguous
<1>2. r.text = Replace(T, o, w, P)
  BY <1>1 DEF Applied
<1> HIDE DEF r, places
<1>3. Ahead(T, o, 1) = O /\ \A i \in O : i \in Nat
  <2>1. \A i \in O : i \in 1..Len(T) /\ Len(T) \in Nat
    BY <1>1, AheadFacts
  <2> QED
    BY <2>1 DEF Ahead
<1>4. ScanOf(places, T, o, 1)
  BY <1>1, ScanFacts DEF places
<1> HIDE DEF O
<1>5. /\ places \subseteq O
      /\ \A p, q \in places : p < q => p + Len(o) <= q
      /\ \A j \in O : \E p \in places : p <= j /\ j < p + Len(o)
      /\ O # {} => Min(O) \in places
  BY <1>3, <1>4 DEF ScanOf
<1>6. O # {} /\ Min(O) \in O /\ \A j \in O : Min(O) <= j
  <2>1. O # {}
    BY <1>1, <1>5
  <2>2. 1 \in Nat
    OBVIOUS
  <2> QED
    BY <1>1, <1>3, <2>1, <2>2, AheadFacts, Zenon
<1>7. Min(places) = Min(O)
  <2> DEFINE m == Min(O)
  <2>1. m \in places /\ \A j \in places : m <= j
    BY <1>5, <1>6
  <2>2. \A x \in places : (\A y \in places : x <= y) => x = m
    <3> SUFFICES ASSUME NEW x \in places, \A y \in places : x <= y PROVE x = m
      OBVIOUS
    <3>1. x <= m /\ m <= x /\ x \in Nat /\ m \in Nat
      BY <1>3, <1>5, <2>1
    <3> QED
      BY <3>1
  <2> HIDE DEF m
  <2>3. Min(places) \in places /\ \A y \in places : Min(places) <= y
    BY <2>1 DEF Min
  <2> QED
    BY <2>2, <2>3 DEF m
<1>71. ~all => places = {Min(O)}
  <2> DEFINE m == Min(O)
  <2> SUFFICES ASSUME ~all PROVE places = {m}
    OBVIOUS
  <2>1. m \in places
    BY <1>5, <1>6
  <2>2. IsFiniteSet(places)
    <3>1. O \subseteq 1..Len(T) /\ Len(T) \in Nat
      <4>1. \A i \in O : i \in 1..Len(T)
        BY <1>1, AheadFacts DEF O
      <4> QED
        BY <4>1
    <3>2. IsFiniteSet(1..Len(T))
      BY <3>1, FS_Interval
    <3> QED
      BY <1>5, <3>1, <3>2, FS_Subset
  <2> HIDE DEF m
  <2>3. Cardinality(places) \in Nat /\ Cardinality(places) <= 1
    BY <1>1, <2>2, FS_CardinalityType
  <2>4. /\ IsFiniteSet(places \ {m})
        /\ Cardinality(places \ {m}) = Cardinality(places) - 1
    BY <2>1, <2>2, FS_RemoveElement
  <2>5. Cardinality(places \ {m}) \in Nat
    BY <2>4, FS_CardinalityType
  <2>6. Cardinality(places \ {m}) = 0
    BY <2>3, <2>4, <2>5
  <2>7. places \ {m} = {}
    BY <2>4, <2>6, FS_EmptySet
  <2> QED
    BY <2>1, <2>7
<1>8. P \in SUBSET O /\ PlacesOf(P, T, o, all)
  <2>1. CASE all
    BY <1>1, <1>5, <2>1 DEF PlacesOf, O
  <2>2. CASE ~all
    <3> DEFINE m == Min(O)
    <3>1. P = {m} /\ m \in O /\ m \in Nat
      BY <1>3, <1>6, <1>7, <2>2
    <3>2. \A j \in O : \E p \in P : p <= j /\ j < p + Len(o)
      BY <1>5, <1>71, <2>2, <3>1
    <3> HIDE DEF m, P
    <3>3. \A p, q \in P : p < q => p + Len(o) <= q
      BY <3>1
    <3> QED
      BY <3>1, <3>2, <3>3 DEF PlacesOf, O, m
  <2> QED
    BY <2>1, <2>2
<1> HIDE DEF P
<1>9. T # <<>>
  <2> SUFFICES ASSUME T = <<>> PROVE FALSE
    OBVIOUS
  <2>1. DOMAIN T = {}
    OBVIOUS
  <2> QED
    BY <1>6, <2>1 DEF O, Occurrences
<1>10. \A p, q \in P : p < q => p + Len(o) <= q
  BY <1>8 DEF PlacesOf
<1>11. r.text = FlattenSeq(Pieces(T, Len(o), w, P))
  BY <1>1, <1>2, <1>8, <1>9, <1>10, ReplaceJoins, Zenon DEF O
<1>12. r.text \in Seq(Symbols)
  <2>1. PICK f \in [1..(Len(T) + 1) -> Seq(Symbols)] : f[1] = Replace(T, o, w, P)
    BY <1>1, <1>8, RestExists DEF O
  <2>2. 1 \in 1..(Len(T) + 1)
    OBVIOUS
  <2> QED
    BY <1>2, <2>1, <2>2
<1> QED
  BY <1>1, <1>6, <1>8, <1>11, <1>12 DEF Replaced, O, r

(* The preview and the call come to the same, if either lands.             *)
LEMMA ToldFacts ==
  ASSUME NEW T \in Seq(Symbols), NEW o \in Seq(Symbols), NEW w \in Seq(Symbols), NEW all \in BOOLEAN,
         "applied" \in {apply_edit(T, o, w, all).kind, _edit_file(T, o, w, all).kind}
  PROVE  /\ _edit_file(T, o, w, all) = apply_edit(T, o, w, all)
         /\ Replaced(apply_edit(T, o, w, all), T, o, w, all)
<1> DEFINE r == apply_edit(T, o, w, all)
           t == _edit_file(T, o, w, all)
<1>1. CASE r.kind = "applied"
  <2>1. Replaced(r, T, o, w, all)
    BY <1>1, AppliedFacts
  <2>2. o # <<>> /\ Occurrences(T, o) # {}
    BY <2>1 DEF Replaced
  <2>3. t = r
    BY <2>2 DEF _edit_file
  <2> QED
    BY <2>1, <2>3
<1>2. CASE t.kind = "applied"
  <2>1. t = r
    BY <1>2 DEF _edit_file, Raised
  <2> QED
    BY <1>1, <1>2, <2>1
<1> QED
  BY <1>1, <1>2

(* The invariant: before the first edit nothing has happened, and after    *)
(* one, what it came to.                                                   *)
Edited ==
  /\ edit.old \in Seq(Symbols) /\ edit.new \in Seq(Symbols) /\ edit.replace_all \in BOOLEAN
  /\ outcome = apply_edit(before, edit.old, edit.new, edit.replace_all)
  /\ told = _edit_file(before, edit.old, edit.new, edit.replace_all)
  /\ content = IF told.kind = "applied" THEN told.text ELSE before

EditInv ==
  /\ content \in Seq(Symbols) /\ before \in Seq(Symbols)
  /\ \/ Edited
     \/ content = before /\ told = outcome /\ outcome = Raised("none", <<>>, {})

(* No edit yet.                                                            *)
LEMMA EditStarts == TextShape /\ EditInit => EditInv
  BY DEF TextShape, EditInit, EditInv, Raised

(* An edit leaves a text, whatever text it was applied to: the bound of    *)
(* one edit is not used.                                                   *)
LEMMA EditSteps == TextShape /\ EditInv /\ [EditNext]_editVars => EditInv'
<1> SUFFICES ASSUME TextShape, EditInv, [EditNext]_editVars PROVE EditInv'
  OBVIOUS
<1>1. CASE UNCHANGED editVars
  BY <1>1 DEF editVars, EditInv, Edited
<1>2. ASSUME NEW old \in Anchors, NEW all \in BOOLEAN, NEW new \in News \cup {old},
             Edit(old, new, all)
      PROVE  EditInv'
  <2>1. old \in Seq(Symbols) /\ new \in Seq(Symbols) /\ content \in Seq(Symbols)
    BY DEF TextShape, EditInv
  <2>2. /\ edit'.old = old /\ edit'.new = new /\ edit'.replace_all = all /\ before' = content
        /\ outcome' = apply_edit(content, old, new, all)
        /\ told' = _edit_file(content, old, new, all)
        /\ content' = IF told'.kind = "applied" THEN told'.text ELSE content
    BY <1>2 DEF Edit
  <2>3. content' \in Seq(Symbols)
    <3>1. CASE told'.kind = "applied"
      <4>1. /\ told' = apply_edit(content, old, new, all)
            /\ Replaced(apply_edit(content, old, new, all), content, old, new, all)
        BY <2>1, <2>2, <3>1, ToldFacts
      <4> QED
        BY <2>2, <3>1, <4>1 DEF Replaced
    <3>2. CASE told'.kind # "applied"
      BY <2>1, <2>2, <3>2
    <3> QED
      BY <3>1, <3>2
  <2>4. Edited'
    BY <2>1, <2>2 DEF Edited
  <2>5. before' \in Seq(Symbols)
    BY <2>1, <2>2
  <2> QED
    BY <2>3, <2>4, <2>5, Zenon DEF EditInv
<1> QED
  BY <1>1, <1>2 DEF EditNext

(* So EditInv holds throughout, ...                                        *)
LEMMA EditInvariant == EditSpec => []EditInv
<1>1. EditInit => EditInv
  BY EditStarts, Texts
<1>2. EditInv /\ [EditNext]_editVars => EditInv'
  BY EditSteps, Texts
<1> QED
  BY <1>1, <1>2, PTL DEF EditSpec

(* ... and what it says of an edit is what was promised.                   *)
LEMMA InvReplaces ==
  ASSUME EditInv
  PROVE  ReplacesTheAnchor
<1>1. CASE "applied" \notin {told.kind, outcome.kind}
  <2>1. content = before
    BY <1>1 DEF EditInv, Edited
  <2> QED
    BY <1>1, <2>1 DEF ReplacesTheAnchor
<1>2. CASE "applied" \in {told.kind, outcome.kind}
  <2> DEFINE k == Len(edit.old)
  <2>1. Edited
    BY <1>2 DEF EditInv, Raised
  <2>2. told = outcome /\ Replaced(outcome, before, edit.old, edit.new, edit.replace_all)
    <3> DEFINE o == edit.old
               w == edit.new
               all == edit.replace_all
    <3>1. /\ before \in Seq(Symbols) /\ o \in Seq(Symbols) /\ w \in Seq(Symbols) /\ all \in BOOLEAN
          /\ outcome = apply_edit(before, o, w, all)
          /\ told = _edit_file(before, o, w, all)
      BY <2>1 DEF EditInv, Edited
    <3> HIDE DEF o, w, all
    <3>2. "applied" \in {apply_edit(before, o, w, all).kind,
                         _edit_file(before, o, w, all).kind}
      BY <1>2, <3>1
    <3>3. /\ _edit_file(before, o, w, all) = apply_edit(before, o, w, all)
          /\ Replaced(apply_edit(before, o, w, all), before, o, w, all)
      BY <3>1, <3>2, ToldFacts, Zenon
    <3> QED
      BY <3>1, <3>3, Zenon DEF o, w, all
  <2>3. content = outcome.text
    BY <1>2, <2>1, <2>2 DEF Edited
  <2>4. PICK P \in SUBSET Occurrences(before, edit.old) :
          /\ PlacesOf(P, before, edit.old, edit.replace_all)
          /\ content = FlattenSeq(Pieces(before, k, edit.new, P))
    BY <2>2, <2>3 DEF Replaced
  <2> QED
    BY <1>2, <2>2, <2>4, Zenon DEF ReplacesTheAnchor, Places, PlacesOf, Pieces
<1> QED
  BY <1>1, <1>2

(* For every file, anchor and new text: what apply_edit and edit_file      *)
(* leave behind is the file with the anchor replaced at occurrences that   *)
(* do not overlap, the first one or all that replace_all promises, and     *)
(* nothing else touched; the preview is what is written; and an edit that  *)
(* does not land leaves the file alone.                                    *)
THEOREM EditsReplaceTheAnchor == EditSpec => []ReplacesTheAnchor
BY EditInvariant, InvReplaces, PTL

-----------------------------------------------------------------------------
(* Numbers in ascending order.                                             *)

Rises(s, c) == \A i, j \in 1..c : i < j => s[i] < s[j]

(* How many members of S are smaller.                                      *)
Rank(S, x) == Cardinality({y \in S : y < x})

(* The numbers up to n, and any that correspond to them.                   *)
LEMMA CountOf ==
  ASSUME NEW n \in Nat, NEW s \in [1..n -> Nat], Rises(s, n)
  PROVE  /\ IsFiniteSet({s[k] : k \in 1..n})
         /\ Cardinality({s[k] : k \in 1..n}) = n
<1> DEFINE S == {s[k] : k \in 1..n}
<1>1. IsFiniteSet(1..n) /\ Cardinality(1..n) = n
  <2>1. IsFiniteSet(1..n) /\ Cardinality(1..n) = IF 1 > n THEN 0 ELSE n - 1 + 1
    BY FS_Interval
  <2> QED
    BY <2>1
<1>2. \A i, j \in 1..n : s[i] = s[j] => i = j
  <2> SUFFICES ASSUME NEW i \in 1..n, NEW j \in 1..n, s[i] = s[j], i # j PROVE FALSE
    OBVIOUS
  <2>1. i < j \/ j < i
    OBVIOUS
  <2>2. s[i] \in Nat /\ s[j] \in Nat
    OBVIOUS
  <2> QED
    BY <2>1, <2>2 DEF Rises
<1>3. s \in Bijection(1..n, S)
  BY <1>2 DEF Bijection, Injection, Surjection, IsInjective
<1>4. ExistsBijection(1..n, S)
  BY <1>3 DEF ExistsBijection
<1> HIDE DEF S
<1>5. IsFiniteSet(S) /\ Cardinality(S) = Cardinality(1..n)
  BY <1>1, <1>4, FS_Bijection, FS_CardinalityType, Zenon
<1> QED
  BY <1>1, <1>5 DEF S

(* A set that is listed in ascending order has that listing.               *)
LEMMA AscendingIs ==
  ASSUME NEW c \in Nat, NEW s \in [1..c -> Nat], Rises(s, c)
  PROVE  Ascending({s[k] : k \in 1..c}) = s
<1> DEFINE S == {s[k] : k \in 1..c}
<1>1. Cardinality(S) = c
  BY CountOf
<1>2. \A k \in 1..c : s[k] \in S /\ s[k] \in Nat
  OBVIOUS
<1>3. ASSUME NEW k \in 1..c
      PROVE  Rank(S, s[k]) = k - 1
  <2> DEFINE t == [i \in 1..(k - 1) |-> s[i]]
  <2>1. k - 1 \in Nat /\ \A i \in 1..(k - 1) : i \in 1..c /\ i < k
    OBVIOUS
  <2>2. t \in [1..(k - 1) -> Nat] /\ Rises(t, k - 1)
    BY <2>1 DEF Rises
  <2>3. {y \in S : y < s[k]} = {t[i] : i \in 1..(k - 1)}
    <3>1. ASSUME NEW y \in S, y < s[k] PROVE y \in {t[i] : i \in 1..(k - 1)}
      <4>1. PICK j \in 1..c : y = s[j]
        OBVIOUS
      <4>2. s[j] \in Nat /\ s[k] \in Nat /\ s[j] < s[k] /\ (k < j => s[k] < s[j])
        BY <1>2, <3>1, <4>1 DEF Rises
      <4>3. ~(k < j) /\ k # j
        BY <4>2
      <4>4. j \in 1..(k - 1)
        BY <4>3
      <4> QED
        BY <4>1, <4>4
    <3>2. ASSUME NEW i \in 1..(k - 1) PROVE t[i] \in S /\ t[i] < s[k]
      BY <2>1 DEF Rises
    <3> HIDE DEF t, S
    <3> QED
      BY <3>1, <3>2
  <2> HIDE DEF t
  <2>4. Cardinality({t[i] : i \in 1..(k - 1)}) = k - 1
    BY <2>1, <2>2, CountOf
  <2> QED
    BY <2>3, <2>4 DEF Rank
<1>4. ASSUME NEW x \in S, NEW k \in 1..c, Rank(S, x) = k - 1
      PROVE  x = s[k]
  <2>1. PICK j \in 1..c : x = s[j]
    OBVIOUS
  <2>2. Rank(S, s[j]) = j - 1
    BY <1>3
  <2>3. j - 1 = k - 1
    BY <1>4, <2>1, <2>2
  <2>4. j = k
    BY <2>3
  <2> QED
    BY <2>1, <2>4
<1> HIDE DEF S
<1>5. ASSUME NEW k \in 1..c
      PROVE  (CHOOSE x \in S : Rank(S, x) = k - 1) = s[k]
  BY <1>2, <1>3, <1>4
<1>6. Ascending(S) = [k \in 1..c |-> CHOOSE x \in S : Rank(S, x) = k - 1]
  <2>1. Ascending(S)
          = [k \in 1..Cardinality(S) |-> CHOOSE x \in S : Rank(S, x) = k - 1]
    BY DEF Ascending, Rank
  <2> QED
    BY <1>1, <2>1, Zenon
<1>7. [k \in 1..c |-> CHOOSE x \in S : Rank(S, x) = k - 1] = [k \in 1..c |-> s[k]]
  BY <1>5, Zenon
<1>8. s = [k \in 1..c |-> s[k]]
  BY Zenon
<1> QED
  BY <1>6, <1>7, <1>8, Zenon DEF S

(* And every set of numbers up to n has one.                               *)
Ascends(a, S) ==
  /\ IsFiniteSet(S) /\ Cardinality(S) \in Nat
  /\ a \in [1..Cardinality(S) -> S]
  /\ Rises(a, Cardinality(S))
  /\ \A x \in S : \E k \in 1..Cardinality(S) : a[k] = x

(* Ascending finds it, also where only the set is known.                   *)
LEMMA AscendingFacts ==
  ASSUME NEW n \in Nat, NEW S \in SUBSET (0..n)
  PROVE  Ascends(Ascending(S), S)
<1> DEFINE c == Cardinality(S)
           below(x) == {y \in S : y < x}
           r == [x \in S |-> Rank(S, x) + 1]
           a == [k \in 1..c |-> CHOOSE x \in S : Rank(S, x) = k - 1]
<1>1. IsFiniteSet(S) /\ c \in Nat /\ \A x \in S : x \in Nat
  <2>1. IsFiniteSet(0..n)
    BY FS_Interval
  <2> QED
    <3>1. IsFiniteSet(S)
      BY <2>1, FS_Subset, Zenon
    <3> QED
      BY <3>1, FS_CardinalityType
<1> HIDE DEF c
<1>2. \A x \in S : IsFiniteSet(below(x)) /\ Rank(S, x) = Cardinality(below(x)) /\ Rank(S, x) \in Nat
  <2> SUFFICES ASSUME NEW x \in S
               PROVE  /\ IsFiniteSet(below(x))
                      /\ Rank(S, x) = Cardinality(below(x)) /\ Rank(S, x) \in Nat
    OBVIOUS
  <2>1. below(x) \subseteq S /\ Rank(S, x) = Cardinality(below(x))
    BY DEF Rank
  <2> HIDE DEF below
  <2>2. IsFiniteSet(below(x)) /\ Cardinality(below(x)) \in Nat
    BY <1>1, <2>1, FS_Subset, FS_CardinalityType
  <2> QED
    BY <2>1, <2>2
<1>2a. \A x, y \in S : x < y => below(x) \cup {x} \subseteq below(y)
  <2> SUFFICES ASSUME NEW x \in S, NEW y \in S, x < y, NEW z \in below(x) \cup {x}
               PROVE  z \in below(y)
    OBVIOUS
  <2>1. x \in Nat /\ y \in Nat /\ z \in S /\ z \in Nat /\ (z = x \/ z < x)
    BY <1>1
  <2>2. z < y
    BY <2>1
  <2> QED
    BY <2>1, <2>2
<1>2b. \A x \in S : x \notin below(x) /\ below(x) \subseteq S \ {x}
  BY <1>1
<1> HIDE DEF below
<1>3. \A x \in S : Rank(S, x) \in Nat /\ Rank(S, x) < c
  <2> SUFFICES ASSUME NEW x \in S PROVE Rank(S, x) \in Nat /\ Rank(S, x) < c
    OBVIOUS
  <2> DEFINE R == S \ {x}
  <2>1. IsFiniteSet(R) /\ Cardinality(R) = c - 1
    BY <1>1, FS_RemoveElement, Zenon DEF c
  <2>2. below(x) \subseteq R
    BY <1>2b
  <2> HIDE DEF R
  <2>3. Cardinality(below(x)) <= Cardinality(R)
    BY <2>1, <2>2, FS_Subset
  <2> QED
    BY <1>1, <1>2, <2>1, <2>3
<1>4. \A x, y \in S : x < y => Rank(S, x) < Rank(S, y)
  <2> SUFFICES ASSUME NEW x \in S, NEW y \in S, x < y PROVE Rank(S, x) < Rank(S, y)
    OBVIOUS
  <2> DEFINE B == below(x) \cup {x}
  <2>1. Cardinality(B) = Cardinality(below(x)) + 1
    BY <1>2, <1>2b, FS_AddElement, Zenon
  <2>2. B \subseteq below(y)
    BY <1>2a
  <2> HIDE DEF B
  <2>3. Cardinality(B) <= Cardinality(below(y))
    BY <1>2, <2>2, FS_Subset
  <2> QED
    BY <1>2, <2>1, <2>3
<1>5. r \in Injection(S, 1..c)
  <2>1. \A x \in S : Rank(S, x) + 1 \in 1..c
    BY <1>1, <1>3
  <2>2. ASSUME NEW x \in S, NEW y \in S, Rank(S, x) + 1 = Rank(S, y) + 1 PROVE x = y
    <3>1. x < y \/ y < x \/ x = y
      BY <1>1
    <3> QED
      BY <1>2, <1>4, <2>2, <3>1
  <2>3. r \in [S -> 1..c]
    BY <2>1
  <2>4. \A x, y \in S : r[x] = r[y] => x = y
    BY <2>2
  <2> HIDE DEF r
  <2> QED
    BY <2>3, <2>4 DEF Injection, IsInjective
<1>6. r \in Surjection(S, 1..c)
  <2>1. IsFiniteSet(1..c) /\ Cardinality(1..c) = IF 1 > c THEN 0 ELSE c - 1 + 1
    BY <1>1, FS_Interval
  <2>2. Cardinality(1..c) = c
    BY <1>1, <2>1
  <2> HIDE DEF r
  <2> QED
    BY <1>1, <1>5, <2>1, <2>2, FS_Injection, Zenon DEF c
<1>7. ASSUME NEW k \in 1..c PROVE \E x \in S : Rank(S, x) = k - 1
  <2>1. PICK x \in S : r[x] = k
    <3> HIDE DEF r
    <3> QED
      BY <1>6 DEF Surjection
  <2>2. Rank(S, x) + 1 = k
    BY <2>1
  <2> QED
    BY <1>2, <2>2
<1>8. ASSUME NEW k \in 1..c PROVE a[k] \in S /\ Rank(S, a[k]) = k - 1
  BY <1>7
<1>9. a = Ascending(S)
  BY DEF Ascending, Rank, c
<1> HIDE DEF r
<1>10. a \in [1..c -> S]
  BY <1>8
<1> HIDE DEF a
<1>11. Rises(a, c)
  <2> SUFFICES ASSUME NEW i \in 1..c, NEW j \in 1..c, i < j PROVE a[i] < a[j]
    BY DEF Rises
  <2>1. a[i] \in Nat /\ a[j] \in Nat /\ a[i] \in S /\ a[j] \in S
    BY <1>1, <1>8
  <2>2. Rank(S, a[i]) = i - 1 /\ Rank(S, a[j]) = j - 1
    BY <1>8
  <2>3. a[i] # a[j] /\ ~(a[j] < a[i])
    <3>1. i - 1 # j - 1 /\ ~(j - 1 < i - 1)
      BY <1>1
    <3> QED
      BY <1>4, <2>1, <2>2, <3>1
  <2> QED
    BY <2>1, <2>3
<1>12. ASSUME NEW x \in S PROVE \E k \in 1..c : a[k] = x
  <2> DEFINE k == Rank(S, x) + 1
  <2>1. k \in 1..c /\ k - 1 = Rank(S, x)
    BY <1>1, <1>3
  <2> HIDE DEF k
  <2>2. a[k] \in S /\ Rank(S, a[k]) = Rank(S, x)
    BY <1>8, <2>1
  <2>3. ~(a[k] < x) /\ ~(x < a[k])
    <3>1. /\ a[k] < x => Rank(S, a[k]) < Rank(S, x)
          /\ x < a[k] => Rank(S, x) < Rank(S, a[k])
      BY <1>4, <2>2, Zenon
    <3>2. Rank(S, x) \in Nat
      BY <1>3
    <3> QED
      BY <2>2, <3>1, <3>2
  <2>4. a[k] = x
    <3>1. a[k] \in Nat /\ x \in Nat
      BY <1>1, <2>2
    <3> QED
      BY <2>3, <3>1
  <2> QED
    BY <2>1, <2>4
<1> QED
  BY <1>1, <1>9, <1>10, <1>11, <1>12 DEF Ascends, c

-----------------------------------------------------------------------------
(* The lines of a text.                                                    *)

Breaks(t) == {i \in DOMAIN t : t[i] = "nl"}

Ends(t) == {0, Len(t) + 1} \cup Breaks(t)

(* l is without line breaks, and made of what t is made of.                *)
IsLine(l, t) == \A i \in 1..Len(l) : l[i] # "nl" /\ \E p \in DOMAIN t : t[p] = l[i]

IsLines(L, t) ==
  /\ Len(L) \in Nat \ {0} /\ L \in [1..Len(L) -> Seq(Symbols)]
  /\ Len(L) = Cardinality(Breaks(t)) + 1
  /\ \A k \in 1..Len(L) : IsLine(L[k], t)

(* A part of a text.                                                       *)
LEMMA PartFacts ==
  ASSUME NEW t \in Seq(Symbols), NEW x \in Nat, NEW y \in Nat,
         1 <= x, x <= y + 1, y <= Len(t)
  PROVE  /\ SubSeq(t, x, y) \in Seq(Symbols)
         /\ Len(SubSeq(t, x, y)) = y - x + 1
         /\ \A i \in 1..(y - x + 1) : SubSeq(t, x, y)[i] = t[x + i - 1] /\ x + i - 1 \in 1..Len(t)
<1> DEFINE u == SubSeq(t, x, y)
           d == y - x + 1
<1>1. d \in Nat /\ Len(t) \in Nat /\ DOMAIN t = 1..Len(t)
  OBVIOUS
<1>2. \A i \in 1..d : x + i - 1 \in 1..Len(t)
  BY <1>1
<1>3. u = [i \in 1..d |-> t[x + i - 1]]
  OBVIOUS
<1>4. \A i \in 1..d : t[x + i - 1] \in Symbols
  BY <1>2
<1> HIDE DEF u, d
<1>5. u \in Seq(Symbols) /\ Len(u) = d
  BY <1>1, <1>3, <1>4
<1> QED
  BY <1>2, <1>3, <1>5 DEF u, d

(* The ends of the lines, with the beginning.                              *)
LEMMA EndsFacts ==
  ASSUME NEW t \in Seq(Symbols)
  PROVE  /\ Len(t) \in Nat /\ DOMAIN t = 1..Len(t)
         /\ Ascends(Ascending(Ends(t)), Ends(t))
         /\ \A x \in Ends(t) : x \in Nat /\ x <= Len(t) + 1
         /\ Cardinality(Ends(t)) = Cardinality(Breaks(t)) + 2
         /\ IsFiniteSet(Breaks(t)) /\ Cardinality(Breaks(t)) \in Nat
<1> DEFINE n == Len(t)
           B == Breaks(t)
           C == B \cup {0}
<1>1. n \in Nat /\ DOMAIN t = 1..n
  OBVIOUS
<1> HIDE DEF n
<1>2. B \subseteq 1..n
  BY <1>1 DEF Breaks
<1>3. Ends(t) = C \cup {n + 1}
  BY DEF Ends, n
<1> HIDE DEF B
<1>4. Ends(t) \in SUBSET (0..(n + 1)) /\ n + 1 \in Nat
  BY <1>1, <1>2, <1>3
<1>5. IsFiniteSet(B) /\ Cardinality(B) \in Nat
  <2>1. IsFiniteSet(1..n)
    BY <1>1, FS_Interval
  <2>2. IsFiniteSet(B)
    BY <1>2, <2>1, FS_Subset, Zenon
  <2> QED
    BY <2>2, FS_CardinalityType
<1>6. 0 \notin B /\ n + 1 \notin C
  BY <1>1, <1>2
<1>7. IsFiniteSet(C) /\ Cardinality(C) = Cardinality(B) + 1
  BY <1>5, <1>6, FS_AddElement, Zenon
<1> HIDE DEF C
<1>8. Cardinality(C \cup {n + 1}) = Cardinality(C) + 1
  BY <1>6, <1>7, FS_AddElement, Zenon
<1>9. Cardinality(Ends(t)) = Cardinality(B) + 2
  BY <1>3, <1>5, <1>7, <1>8
<1>10. Ascends(Ascending(Ends(t)), Ends(t))
  BY <1>4, AscendingFacts, Zenon
<1>11. \A x \in Ends(t) : x \in Nat /\ x <= n + 1
  BY <1>1, <1>4
<1> QED
  BY <1>1, <1>5, <1>9, <1>10, <1>11 DEF n, B

(* What split makes of a text.                                             *)
LEMMA LinesFacts ==
  ASSUME NEW t \in Seq(Symbols)
  PROVE  IsLines(Lines(t), t)
<1> DEFINE n == Len(t)
           E == Ends(t)
           e == Ascending(E)
           c == Cardinality(E)
           b == Cardinality(Breaks(t))
           L == Lines(t)
<1>1. /\ n \in Nat /\ DOMAIN t = 1..n
      /\ Ascends(e, E)
      /\ \A x \in E : x \in Nat /\ x <= n + 1
      /\ c = b + 2 /\ b \in Nat
  BY EndsFacts
<1>2. L = [k \in 1..(Len(e) - 1) |-> SubSeq(t, e[k] + 1, e[k + 1] - 1)]
  BY DEF Lines, Ends, Breaks
<1> HIDE DEF n, E, e, b, L
<1>3. /\ c \in Nat /\ e \in [1..c -> E] /\ Rises(e, c)
      /\ \A x \in E : \E k \in 1..c : e[k] = x
  BY <1>1 DEF Ascends
<1> HIDE DEF c
<1>4. Len(e) = c /\ c - 1 = b + 1 /\ b + 1 \in Nat
  BY <1>1, <1>3
<1>5. L = [k \in 1..(b + 1) |-> SubSeq(t, e[k] + 1, e[k + 1] - 1)]
  BY <1>2, <1>4
<1>6. ASSUME NEW k \in 1..(b + 1)
      PROVE  L[k] \in Seq(Symbols) /\ IsLine(L[k], t)
  <2> DEFINE x == e[k] + 1
             y == e[k + 1] - 1
  <2>1. k \in 1..c /\ k + 1 \in 1..c /\ k < k + 1
    BY <1>1, <1>4
  <2>2. /\ e[k] \in Nat /\ e[k + 1] \in Nat /\ e[k] < e[k + 1] /\ e[k + 1] <= n + 1
    BY <1>1, <1>3, <2>1 DEF Rises
  <2>3. x \in Nat /\ y \in Nat /\ 1 <= x /\ x <= y + 1 /\ y <= n
    BY <1>1, <2>2
  <2>4. L[k] = SubSeq(t, x, y)
    BY <1>5
  <2>5. ASSUME NEW p \in 1..n, x <= p, p <= y PROVE t[p] # "nl"
    <3> SUFFICES ASSUME t[p] = "nl" PROVE FALSE
      OBVIOUS
    <3>1. p \in E
      BY <1>1 DEF E, Ends, Breaks
    <3>2. PICK j \in 1..c : e[j] = p
      BY <1>3, <3>1
    <3>3. k < j /\ j < k + 1
      <4>1. e[k] < e[j] /\ e[j] < e[k + 1] /\ p \in Nat
        BY <1>1, <2>2, <2>5, <3>2
      <4>2. ~(j < k) /\ j # k /\ ~(k + 1 < j) /\ j # k + 1
        BY <1>3, <2>1, <2>2, <3>2, <4>1 DEF Rises
      <4> QED
        BY <1>3, <2>1, <4>2
    <3> QED
      BY <1>3, <2>1, <3>3
  <2> HIDE DEF x, y
  <2>6. /\ L[k] \in Seq(Symbols) /\ Len(L[k]) = y - x + 1
        /\ \A i \in 1..(y - x + 1) : L[k][i] = t[x + i - 1] /\ x + i - 1 \in 1..n
    BY <2>3, <2>4, PartFacts DEF n
  <2>7. ASSUME NEW i \in 1..Len(L[k])
        PROVE  L[k][i] # "nl" /\ \E p \in DOMAIN t : t[p] = L[k][i]
    <3>1. i \in 1..(y - x + 1) /\ L[k][i] = t[x + i - 1] /\ x + i - 1 \in 1..n
      BY <2>6
    <3>2. x <= x + i - 1 /\ x + i - 1 <= y
      BY <2>3, <3>1
    <3>3. t[x + i - 1] # "nl"
      BY <2>5, <3>1, <3>2
    <3> QED
      BY <1>1, <3>1, <3>3
  <2> QED
    BY <2>6, <2>7 DEF IsLine
<1>7. L \in [1..(b + 1) -> Seq(Symbols)]
  BY <1>5, <1>6
<1>8. Len(L) = b + 1 /\ b + 1 # 0
  BY <1>1, <1>4, <1>7
<1> QED
  BY <1>4, <1>6, <1>7, <1>8 DEF IsLines, b, L

-----------------------------------------------------------------------------
(* What is left of a text without its whitespace.                          *)

(* The places of its other symbols.                                        *)
SolidAt(t) == {i \in DOMAIN t : t[i] \notin {"sp", "nl"}}

(* What Solid makes of it.                                                 *)
LEMMA SolidFacts ==
  ASSUME NEW t \in Seq(Symbols)
  PROVE  /\ Len(t) \in Nat /\ DOMAIN t = 1..Len(t)
         /\ \A i \in SolidAt(t) : i \in 1..Len(t) /\ i \in Nat
         /\ Ascends(Ascending(SolidAt(t)), SolidAt(t))
         /\ Solid(t) = [k \in 1..Cardinality(SolidAt(t)) |-> t[Ascending(SolidAt(t))[k]]]
         /\ Solid(t) \in Seq(Symbols)
         /\ Len(Solid(t)) = Cardinality(SolidAt(t))
<1> DEFINE n == Len(t)
           K == SolidAt(t)
           a == Ascending(K)
           c == Cardinality(K)
           s == Solid(t)
<1>1. n \in Nat /\ DOMAIN t = 1..n
  OBVIOUS
<1>2. K \in SUBSET (0..n) /\ \A i \in K : i \in 1..n /\ i \in Nat
  BY <1>1 DEF SolidAt
<1>3. s = [k \in DOMAIN a |-> t[a[k]]]
  BY DEF Solid, SolidAt
<1>4. \A i \in K : t[i] \in Symbols
  BY <1>1, <1>2
<1> HIDE DEF n, K, s
<1>5. Ascends(a, K)
  BY <1>1, <1>2, AscendingFacts, Zenon
<1>6. c \in Nat /\ a \in [1..c -> K]
  BY <1>5 DEF Ascends
<1> HIDE DEF a, c
<1>7. s = [k \in 1..c |-> t[a[k]]]
  BY <1>3, <1>6
<1>8. \A k \in 1..c : t[a[k]] \in Symbols
  BY <1>4, <1>6
<1>9. s \in Seq(Symbols) /\ Len(s) = c
  BY <1>6, <1>7, <1>8
<1> QED
  BY <1>1, <1>2, <1>5, <1>7, <1>9 DEF n, K, a, c, s

(* m takes the symbols of u to such of v, in order and without leaving     *)
(* any out between them.                                                   *)
Follows(m, u, v) ==
  /\ \A i \in SolidAt(u) : m[i] \in SolidAt(v) /\ v[m[i]] = u[i]
  /\ \A i, j \in SolidAt(u) : i < j => m[i] < m[j]
  /\ \A i, j \in SolidAt(u) : \A x \in SolidAt(v) :
       m[i] < x /\ x < m[j] => \E k \in SolidAt(u) : m[k] = x

(* If it reaches all of v, then without whitespace they are the same.      *)
LEMMA SameSolid ==
  ASSUME NEW u \in Seq(Symbols), NEW v \in Seq(Symbols), NEW m,
         Follows(m, u, v), \A x \in SolidAt(v) : \E i \in SolidAt(u) : m[i] = x
  PROVE  Solid(u) = Solid(v)
<1> DEFINE K == SolidAt(u)
           a == Ascending(K)
           c == Cardinality(K)
           b == [k \in 1..c |-> m[a[k]]]
<1>1. /\ Ascends(a, K) /\ \A i \in K : i \in Nat
      /\ Solid(u) = [k \in 1..c |-> u[a[k]]]
  BY SolidFacts
<1>2. /\ c \in Nat /\ a \in [1..c -> K] /\ Rises(a, c)
      /\ \A x \in K : \E k \in 1..c : a[k] = x
  BY <1>1 DEF Ascends
<1>3. \A x \in SolidAt(v) : x \in Nat
  BY SolidFacts
<1>4. /\ \A i \in K : m[i] \in SolidAt(v) /\ v[m[i]] = u[i]
      /\ \A i, j \in K : i < j => m[i] < m[j]
      /\ \A x \in SolidAt(v) : \E i \in K : m[i] = x
  BY DEF Follows
<1> HIDE DEF K, a, c
<1>5. b \in [1..c -> Nat] /\ Rises(b, c)
  BY <1>2, <1>3, <1>4 DEF Rises
<1>6. SolidAt(v) = {b[k] : k \in 1..c}
  <2>1. \A k \in 1..c : b[k] \in SolidAt(v)
    BY <1>2, <1>4
  <2>2. \A x \in SolidAt(v) : \E k \in 1..c : b[k] = x
    BY <1>2, <1>4
  <2> HIDE DEF b
  <2> QED
    BY <2>1, <2>2
<1>7. Ascending(SolidAt(v)) = b /\ Cardinality(SolidAt(v)) = c
  <2> HIDE DEF b
  <2> QED
    BY <1>2, <1>5, <1>6, AscendingIs, CountOf
<1>8. Solid(v) = [k \in 1..c |-> v[b[k]]]
  <2> HIDE DEF b
  <2>1. Solid(v)
          = [k \in 1..Cardinality(SolidAt(v)) |-> v[Ascending(SolidAt(v))[k]]]
    BY SolidFacts
  <2> QED
    BY <1>7, <2>1, Zenon
<1>9. \A k \in 1..c : v[b[k]] = u[a[k]]
  BY <1>2, <1>4
<1> HIDE DEF b
<1> QED
  BY <1>1, <1>8, <1>9, Zenon

(* And if it reaches a part, u is there.                                   *)
LEMMA SolidPart ==
  ASSUME NEW u \in Seq(Symbols), NEW v \in Seq(Symbols), NEW m,
         Follows(m, u, v), SolidAt(u) # {}
  PROVE  Occurrences(Solid(v), Solid(u)) # {}
<1> DEFINE K == SolidAt(u)
           M == SolidAt(v)
           a == Ascending(K)
           b == Ascending(M)
           c == Cardinality(K)
           d == Cardinality(M)
<1>1. /\ Ascends(a, K) /\ Ascends(b, M)
      /\ \A i \in K : i \in Nat
      /\ \A i \in M : i \in Nat
      /\ Solid(u) = [k \in 1..c |-> u[a[k]]]
      /\ Solid(v) = [k \in 1..d |-> v[b[k]]]
      /\ Solid(u) \in Seq(Symbols) /\ Len(Solid(u)) = c
      /\ Solid(v) \in Seq(Symbols) /\ Len(Solid(v)) = d
  BY SolidFacts
<1>2. /\ c \in Nat /\ a \in [1..c -> K] /\ Rises(a, c)
      /\ \A x \in K : \E k \in 1..c : a[k] = x
      /\ d \in Nat /\ b \in [1..d -> M] /\ Rises(b, d)
      /\ \A x \in M : \E k \in 1..d : b[k] = x
  BY <1>1 DEF Ascends
<1>3. /\ \A i \in K : m[i] \in M /\ v[m[i]] = u[i]
      /\ \A i, j \in K : i < j => m[i] < m[j]
      /\ \A i, j \in K : \A x \in M : m[i] < x /\ x < m[j] => \E k \in K : m[k] = x
  BY DEF Follows
<1>4. K # {}
  OBVIOUS
<1> HIDE DEF K, M, a, b, c, d
<1>5. 1 \in 1..c /\ c # 0
  BY <1>2, <1>4
<1>6. PICK p \in 1..d : b[p] = m[a[1]]
  BY <1>2, <1>3, <1>5
<1> DEFINE At(k) == p + k - 1 \in 1..d /\ b[p + k - 1] = m[a[k]]
           bad == {k \in 1..c : ~At(k)}
<1>7. bad = {}
  <2> SUFFICES ASSUME bad # {} PROVE FALSE
    OBVIOUS
  <2>1. PICK k \in bad : \A j \in bad : k <= j
    <3>1. bad \in SUBSET Nat
      BY <1>2
    <3> QED
      BY <3>1, LeastNumber
  <2>2. k \in 1..c /\ ~At(k)
    BY <2>1
  <2>3. k # 1
    <3>1. p + 1 - 1 = p
      BY <1>2
    <3> QED
      BY <1>6, <2>2, <3>1
  <2> DEFINE j == k - 1
             q == p + j - 1
  <2>4. j \in 1..c /\ ~(k <= j) /\ k = j + 1 /\ p + k - 1 = q + 1 /\ q \in Int /\ j < k
    BY <1>2, <2>2, <2>3
  <2>5. At(j)
    <3>1. j \notin bad
      <4> HIDE DEF bad
      <4> QED
        BY <2>1, <2>4
    <3> QED
      BY <2>4, <3>1
  <2>6. q \in 1..d /\ b[q] = m[a[j]]
    BY <2>5
  <2> HIDE DEF bad, j, q
  <2>7. a[j] \in K /\ a[k] \in K /\ a[j] < a[k] /\ m[a[j]] \in M /\ m[a[k]] \in M
    BY <1>2, <1>3, <2>2, <2>4 DEF Rises
  <2>8. PICK r \in 1..d : b[r] = m[a[k]]
    BY <1>2, <2>7
  <2>9. b[q] < b[r] /\ b[q] \in Nat /\ b[r] \in Nat
    BY <1>1, <1>3, <2>6, <2>7, <2>8
  <2>10. q < r
    <3>1. r < q => b[r] < b[q]
      BY <1>2, <2>6, <2>8 DEF Rises
    <3>2. ~(r < q) /\ r # q
      BY <2>9, <3>1
    <3>3. q \in Int /\ r \in Int
      BY <2>6, <2>8
    <3> QED
      BY <3>2, <3>3
  <2>11. r = q + 1
    <3> SUFFICES ASSUME r # q + 1 PROVE FALSE
      OBVIOUS
    <3>1. q + 1 \in 1..d /\ q < q + 1 /\ q + 1 < r
      BY <1>2, <2>6, <2>8, <2>10
    <3>2. b[q] < b[q + 1] /\ b[q + 1] < b[r] /\ b[q + 1] \in M
      BY <1>2, <2>6, <2>8, <3>1 DEF Rises
    <3>3. PICK i \in K : m[i] = b[q + 1]
      BY <1>3, <2>6, <2>7, <2>8, <3>2
    <3>4. PICK l \in 1..c : a[l] = i
      BY <1>2, <3>3
    <3>5. m[a[j]] < m[a[l]] /\ m[a[l]] < m[a[k]]
      BY <2>6, <2>8, <3>2, <3>3, <3>4
    <3>6. m[a[j]] \in Nat /\ m[a[l]] \in Nat /\ m[a[k]] \in Nat
      BY <1>1, <2>7, <3>2, <3>3, <3>4
    <3>7. a[l] \in K
      BY <3>4
    <3>8. ~(l < j) /\ ~(k < l)
      <4>1. l < j => m[a[l]] < m[a[j]]
        BY <1>2, <1>3, <2>4, <2>7, <3>7 DEF Rises
      <4>2. k < l => m[a[k]] < m[a[l]]
        BY <1>2, <1>3, <2>2, <2>7, <3>7 DEF Rises
      <4> QED
        BY <3>5, <3>6, <4>1, <4>2
    <3>9. l = j \/ l = k
      BY <1>2, <2>4, <3>8
    <3> QED
      BY <3>5, <3>6, <3>9
  <2>12. p + k - 1 \in 1..d /\ b[p + k - 1] = m[a[k]]
    BY <2>4, <2>8, <2>11
  <2> QED
    BY <2>2, <2>12
<1>8. \A k \in 1..c : p + k - 1 \in 1..d /\ b[p + k - 1] = m[a[k]]
  BY <1>7
<1>9. \A k \in 1..c : v[b[p + k - 1]] = u[a[k]]
  BY <1>2, <1>3, <1>8
<1> DEFINE U == Solid(u)
           V == Solid(v)
<1>10. \A k \in 1..c : V[p + k - 1] = U[k]
  BY <1>1, <1>8, <1>9
<1>11. p \in 1..d /\ p + c - 1 <= d /\ p + c - 1 - p + 1 = c /\ p <= p + c - 1 + 1 /\ p + c - 1 \in Nat
  BY <1>2, <1>5, <1>8
<1> HIDE DEF U, V, bad
<1>12. U \in Seq(Symbols) /\ Len(U) = c /\ V \in Seq(Symbols) /\ Len(V) = d
  BY <1>1 DEF U, V
<1>13. SubSeq(V, p, p + c - 1) = U
  <2> DEFINE W == SubSeq(V, p, p + c - 1)
             y == p + c - 1
  <2>1. W \in Seq(Symbols) /\ Len(W) = c /\ \A k \in 1..c : W[k] = V[p + k - 1]
    <3>1. p \in Nat /\ y \in Nat /\ 1 <= p /\ p <= y + 1 /\ y <= Len(V) /\ y - p + 1 = c
      BY <1>11, <1>12
    <3> HIDE DEF y
    <3> QED
      BY <1>12, <3>1, PartFacts DEF y
  <2> HIDE DEF W
  <2>2. W = U
    BY <1>10, <1>12, <2>1, SeqEqual
  <2> QED
    BY <2>2 DEF W
<1>14. p \in Occurrences(V, U)
  BY <1>11, <1>12, <1>13 DEF Occurrences, MatchAt
<1> QED
  BY <1>14 DEF U, V

(* The least and the greatest of a set of numbers up to n.                 *)
LEMMA Extremes ==
  ASSUME NEW n \in Nat, NEW S \in SUBSET (0..n), S # {}
  PROVE  /\ Min(S) \in S /\ \A x \in S : Min(S) <= x
         /\ Max(S) \in S /\ \A x \in S : x <= Max(S)
<1>1. \E m \in S : \A x \in S : m <= x
  <2>1. S \in SUBSET Nat
    OBVIOUS
  <2> QED
    BY <2>1, LeastNumber
<1>2. \E m \in S : \A x \in S : m >= x
  <2> DEFINE R == {n - x : x \in S}
  <2>1. R \in SUBSET Nat /\ R # {}
    <3>1. \A x \in S : n - x \in Nat
      OBVIOUS
    <3> QED
      BY <3>1
  <2>2. PICK r \in R : \A y \in R : r <= y
    <3> HIDE DEF R
    <3> QED
      BY <2>1, LeastNumber
  <2>3. PICK m \in S : r = n - m
    BY <2>2
  <2>4. \A x \in S : n - m <= n - x
    BY <2>2, <2>3
  <2>5. \A x \in S : x \in Int
    OBVIOUS
  <2>6. \A x \in S : m >= x
    <3> SUFFICES ASSUME NEW x \in S PROVE m >= x
      OBVIOUS
    <3>1. x \in Int /\ m \in Int /\ n - m <= n - x
      BY <2>4, <2>5
    <3> QED
      BY <3>1
  <2> QED
    BY <2>6
<1>3. Min(S) \in S /\ \A x \in S : Min(S) <= x
  BY <1>1 DEF Min
<1>4. Max(S) \in S /\ \A x \in S : Max(S) >= x
  BY <1>2 DEF Max
<1>5. \A x \in S : x \in Int
  OBVIOUS
<1> QED
  BY <1>3, <1>4, <1>5

(* c is t without the whitespace around it.                                *)
IsCore(c, t) ==
  /\ c \in Seq(Symbols) /\ (c = <<>> <=> SolidAt(t) = {})
  /\ c # <<>> => 1 \in SolidAt(c)
  /\ Solid(c) = Solid(t)

(* This is what strip leaves.                                              *)
LEMMA StripFacts ==
  ASSUME NEW t \in Seq(Symbols)
  PROVE  IsCore(Strip(t), t)
<1> DEFINE n == Len(t)
           K == SolidAt(t)
           x == Min(K)
           y == Max(K)
           c == Strip(t)
<1>1. c = IF K = {} THEN <<>> ELSE SubSeq(t, x, y)
  BY DEF Strip, SolidAt
<1>2. n \in Nat /\ DOMAIN t = 1..n /\ \A i \in K : i \in 1..n /\ i \in Nat
  BY SolidFacts
<1>3. ASSUME K = {} PROVE IsCore(c, t)
  <2> DEFINE shift == [i \in {} |-> 0]
  <2>1. c = <<>> /\ c \in Seq(Symbols)
    BY <1>1, <1>3
  <2>2. SolidAt(c) = {}
    BY <2>1 DEF SolidAt
  <2>3. Follows(shift, c, t)
    BY <2>2 DEF Follows
  <2> HIDE DEF shift, c
  <2>4. \A z \in SolidAt(t) : \E i \in SolidAt(c) : shift[i] = z
    BY <1>3
  <2>5. Solid(c) = Solid(t)
    <3>1. c \in Seq(Symbols)
      BY <2>1
    <3> QED
      BY <3>1, <2>3, <2>4, SameSolid
  <2> QED
    BY <1>3, <2>1, <2>5 DEF IsCore
<1>4. ASSUME K # {} PROVE IsCore(c, t)
  <2>1. x \in K /\ y \in K /\ \A i \in K : x <= i /\ i <= y
    <3>1. K \in SUBSET (0..n)
      BY <1>2
    <3> HIDE DEF K
    <3> QED
      BY <1>2, <1>4, <3>1, Extremes, Zenon
  <2> HIDE DEF x, y
  <2>2. x \in Nat /\ y \in Nat /\ 1 <= x /\ x <= y + 1 /\ x <= y /\ y <= n
    BY <1>2, <2>1
  <2> DEFINE d == y - x + 1
  <2>3. c = SubSeq(t, x, y)
    BY <1>1, <1>4
  <2> HIDE DEF c
  <2>4. /\ c \in Seq(Symbols) /\ Len(c) = d
        /\ \A i \in 1..d : c[i] = t[x + i - 1] /\ x + i - 1 \in 1..n
    BY <1>2, <2>2, <2>3, PartFacts, SMT DEF n
  <2>5. d \in Nat /\ d # 0 /\ DOMAIN c = 1..d /\ c # <<>>
    <3>1. d \in Nat /\ d # 0
      BY <2>2
    <3> HIDE DEF d
    <3> QED
      BY <2>4, <3>1
  <2> DEFINE shift == [i \in SolidAt(c) |-> x + i - 1]
  <2>6. \A i \in SolidAt(c) : i \in 1..d /\ x + i - 1 \in K /\ t[x + i - 1] = c[i]
    <3> HIDE DEF d
    <3> QED
      BY <1>2, <2>4, <2>5 DEF SolidAt
  <2>7. \A z \in K : z - x + 1 \in SolidAt(c) /\ x + (z - x + 1) - 1 = z
    <3> SUFFICES ASSUME NEW z \in K PROVE z - x + 1 \in SolidAt(c) /\ x + (z - x + 1) - 1 = z
      OBVIOUS
    <3>1. z - x + 1 \in 1..d /\ x + (z - x + 1) - 1 = z
      BY <1>2, <2>1, <2>2
    <3>2. c[z - x + 1] = t[z]
      BY <2>4, <3>1
    <3> QED
      BY <2>5, <3>1, <3>2 DEF SolidAt
  <2>8. \A i, j \in SolidAt(c) : i < j => x + i - 1 < x + j - 1
    BY <2>2, <2>6
  <2>9. \A z \in K : \E i \in SolidAt(c) : shift[i] = z
    BY <2>7
  <2>10. Follows(shift, c, t)
    <3>1. \A i \in SolidAt(c) : shift[i] \in K /\ t[shift[i]] = c[i]
      BY <2>6
    <3>2. \A i, j \in SolidAt(c) : i < j => shift[i] < shift[j]
      BY <2>8
    <3> HIDE DEF shift
    <3> QED
      BY <2>9, <3>1, <3>2 DEF Follows
  <2> HIDE DEF shift
  <2>11. Solid(c) = Solid(t)
    BY <2>4, <2>9, <2>10, SameSolid
  <2>12. 1 \in SolidAt(c)
    <3>1. x - x + 1 = 1
      BY <2>2
    <3> QED
      BY <2>1, <2>7, <3>1
  <2> QED
    BY <1>4, <2>4, <2>5, <2>11, <2>12 DEF IsCore
<1> QED
  BY <1>3, <1>4 DEF c

(* Lines that differ in nothing else are equal without whitespace.         *)
LEMMA StripSolid ==
  ASSUME NEW u \in Seq(Symbols), NEW v \in Seq(Symbols), Strip(u) = Strip(v)
  PROVE  Solid(u) = Solid(v)
<1>1. IsCore(Strip(u), u) /\ IsCore(Strip(v), v)
  BY StripFacts
<1> QED
  BY <1>1 DEF IsCore

(* A squashed text, likewise.                                              *)
IsSquashed(u, t) ==
  /\ u \in Seq(Symbols) /\ (u = <<>> <=> SolidAt(t) = {})
  /\ u # <<>> => SolidAt(u) # {}
  /\ Solid(u) = Solid(t)

(* This is what squash leaves: it keeps every symbol that is no whitespace.*)
LEMMA SquashFacts ==
  ASSUME NEW t \in Seq(Symbols), "sp" \in Symbols
  PROVE  IsSquashed(squash(t), t)
<1> DEFINE core == Strip(t)
           n == Len(core)
           space(i) == core[i] \in {"sp", "nl"}
           S == {i \in DOMAIN core : ~space(i) \/ ~space(i - 1)}
           kept == Ascending(S)
           c == Cardinality(S)
           u == squash(t)
<1>1. u = [k \in DOMAIN kept |-> IF space(kept[k]) THEN "sp" ELSE core[kept[k]]]
  BY DEF squash
<1>2. IsCore(core, t)
  BY StripFacts
<1>3. core \in Seq(Symbols)
  BY <1>2 DEF IsCore
<1> HIDE DEF core, u
<1>4. n \in Nat /\ DOMAIN core = 1..n
  BY <1>3
<1>5. S \in SUBSET (0..n) /\ \A i \in S : i \in 1..n /\ i \in Nat
  BY <1>4
<1>6. \A i \in SolidAt(core) : i \in S
  BY DEF SolidAt
<1>7. \A i \in S : core[i] \in Symbols /\ (~space(i) <=> i \in SolidAt(core))
  BY <1>3, <1>4, <1>5 DEF SolidAt
<1> HIDE DEF S, n
<1>8. Ascends(kept, S)
  BY <1>4, <1>5, AscendingFacts, Zenon
<1>9. /\ c \in Nat /\ kept \in [1..c -> S] /\ Rises(kept, c)
      /\ \A z \in S : \E k \in 1..c : kept[k] = z
  BY <1>8 DEF Ascends
<1> HIDE DEF kept, c
<1>10. u = [k \in 1..c |-> IF space(kept[k]) THEN "sp" ELSE core[kept[k]]]
  BY <1>1, <1>9
<1>11. \A k \in 1..c : u[k] = IF space(kept[k]) THEN "sp" ELSE core[kept[k]]
  BY <1>10
<1>12. u \in Seq(Symbols) /\ Len(u) = c /\ DOMAIN u = 1..c
  <2>1. \A k \in 1..c : (IF space(kept[k]) THEN "sp" ELSE core[kept[k]]) \in Symbols
    BY <1>7, <1>9
  <2> QED
    BY <1>9, <1>10, <2>1
<1>13. \A k \in 1..c : /\ kept[k] \in S
                       /\ k \in SolidAt(u) <=> kept[k] \in SolidAt(core)
                       /\ k \in SolidAt(u) => u[k] = core[kept[k]]
  <2> SUFFICES ASSUME NEW k \in 1..c
               PROVE  /\ kept[k] \in S
                      /\ k \in SolidAt(u) <=> kept[k] \in SolidAt(core)
                      /\ k \in SolidAt(u) => u[k] = core[kept[k]]
    OBVIOUS
  <2>1. kept[k] \in S
    BY <1>9
  <2>2. k \in SolidAt(u) <=> u[k] \notin {"sp", "nl"}
    BY <1>12 DEF SolidAt
  <2>3. CASE space(kept[k])
    <3>1. u[k] = "sp"
      BY <1>11, <2>3
    <3> QED
      BY <1>7, <2>1, <2>2, <2>3, <3>1
  <2>4. CASE ~space(kept[k])
    <3>1. u[k] = core[kept[k]]
      BY <1>11, <2>4
    <3> QED
      BY <1>7, <2>1, <2>2, <2>4, <3>1
  <2> QED
    BY <2>3, <2>4
<1> HIDE DEF space
<1>14. Follows(kept, u, core) /\ \A z \in SolidAt(core) : \E k \in SolidAt(u) : kept[k] = z
  <2>1. \A k \in SolidAt(u) : k \in 1..c
    BY <1>12 DEF SolidAt
  <2>2. \A z \in SolidAt(core) : \E k \in SolidAt(u) : kept[k] = z
    BY <1>6, <1>9, <1>13
  <2>3. \A k \in SolidAt(u) : kept[k] \in SolidAt(core) /\ core[kept[k]] = u[k]
    BY <1>13, <2>1
  <2>4. \A i, j \in SolidAt(u) : i < j => kept[i] < kept[j]
    BY <1>9, <2>1 DEF Rises
  <2> QED
    BY <2>2, <2>3, <2>4 DEF Follows
<1>15. Solid(u) = Solid(core)
  BY <1>3, <1>12, <1>14, SameSolid, Zenon
<1>16. core # <<>> => u # <<>> /\ SolidAt(u) # {}
  <2> SUFFICES ASSUME core # <<>> PROVE u # <<>> /\ SolidAt(u) # {}
    OBVIOUS
  <2>1. 1 \in SolidAt(core)
    BY <1>2 DEF IsCore
  <2>2. SolidAt(u) # {}
    BY <1>14, <2>1
  <2>3. DOMAIN u # {}
    BY <2>2 DEF SolidAt
  <2> QED
    BY <2>2, <2>3
<1>17. core = <<>> => u = <<>>
  <2> SUFFICES ASSUME core = <<>> PROVE u = <<>>
    OBVIOUS
  <2>1. n = 0
    BY DEF n
  <2>2. S = {}
    BY <1>5, <2>1
  <2>3. c = 0
    <3> SUFFICES ASSUME c # 0 PROVE FALSE
      OBVIOUS
    <3>1. 1 \in 1..c
      BY <1>9
    <3> QED
      BY <1>9, <2>2, <3>1
  <2> QED
    BY <1>12, <2>3, EmptySeq
<1> QED
  BY <1>2, <1>12, <1>15, <1>16, <1>17 DEF IsCore, IsSquashed, u

(* Whitespace is blamed only where it is to blame.                         *)
LEMMA SquashedPart ==
  ASSUME NEW t \in Seq(Symbols), NEW o \in Seq(Symbols), "sp" \in Symbols,
         squash(o) # <<>>,
         Occurrences(squash(t), squash(o)) # {}
  PROVE  Occurrences(Solid(t), Solid(o)) # {}
<1> DEFINE u == squash(o)
           v == squash(t)
           n == Len(u)
<1>1. IsSquashed(u, o) /\ IsSquashed(v, t)
  BY SquashFacts
<1>2. u # <<>> /\ Occurrences(v, u) # {}
  OBVIOUS
<1> HIDE DEF u, v
<1>3. /\ u \in Seq(Symbols) /\ v \in Seq(Symbols) /\ SolidAt(u) # {}
      /\ Solid(u) = Solid(o) /\ Solid(v) = Solid(t)
  BY <1>1, <1>2 DEF IsSquashed
<1>4. PICK p \in DOMAIN v : MatchAt(v, u, p)
  BY <1>2 DEF Occurrences
<1>5. /\ n \in Nat /\ DOMAIN u = 1..n /\ Len(v) \in Nat /\ DOMAIN v = 1..Len(v)
      /\ p \in Nat /\ 1 <= p /\ p <= Len(v) /\ n # 0
  BY <1>2, <1>3, EmptySeq
<1> DEFINE y == p + n - 1
<1>6. y \in Nat /\ y <= Len(v) /\ p <= y + 1 /\ y - p + 1 = n /\ SubSeq(v, p, y) = u
  <2>1. p + n - 1 <= Len(v) /\ SubSeq(v, p, p + n - 1) = u
    BY <1>4 DEF MatchAt
  <2> QED
    BY <1>5, <2>1
<1> HIDE DEF y, n
<1>7. \A i \in 1..n : u[i] = v[p + i - 1] /\ p + i - 1 \in 1..Len(v)
  <2>1. \A i \in 1..(y - p + 1) : SubSeq(v, p, y)[i] = v[p + i - 1] /\ p + i - 1 \in 1..Len(v)
    BY <1>3, <1>5, <1>6, PartFacts, Zenon
  <2> QED
    BY <1>6, <2>1, Zenon
<1> DEFINE to == [i \in SolidAt(u) |-> p + i - 1]
<1>8. \A i \in SolidAt(u) : i \in 1..n /\ i \in Nat /\ to[i] = p + i - 1
  BY <1>5 DEF SolidAt
<1>9. \A i \in SolidAt(u) : to[i] \in SolidAt(v) /\ v[to[i]] = u[i]
  <2> SUFFICES ASSUME NEW i \in SolidAt(u) PROVE to[i] \in SolidAt(v) /\ v[to[i]] = u[i]
    OBVIOUS
  <2>1. u[i] = v[to[i]] /\ to[i] \in 1..Len(v)
    BY <1>7, <1>8
  <2>2. u[i] \notin {"sp", "nl"}
    BY DEF SolidAt
  <2> HIDE DEF to
  <2> QED
    BY <1>5, <2>1, <2>2 DEF SolidAt
<1> HIDE DEF to
<1>10. \A i, j \in SolidAt(u) : i < j => to[i] < to[j]
  BY <1>5, <1>8
<1>11. \A i, j \in SolidAt(u) : \A x \in SolidAt(v) :
         to[i] < x /\ x < to[j] => \E k \in SolidAt(u) : to[k] = x
  <2> SUFFICES ASSUME NEW i \in SolidAt(u), NEW j \in SolidAt(u), NEW x \in SolidAt(v),
                      to[i] < x, x < to[j]
               PROVE  \E k \in SolidAt(u) : to[k] = x
    OBVIOUS
  <2> DEFINE k == x - p + 1
  <2>1. x \in 1..Len(v) /\ v[x] \notin {"sp", "nl"}
    BY <1>5 DEF SolidAt
  <2>2. k \in 1..n /\ p + k - 1 = x
    BY <1>5, <1>8, <2>1
  <2>3. u[k] = v[x]
    BY <1>7, <2>2
  <2> HIDE DEF k
  <2>4. k \in SolidAt(u)
    BY <1>5, <2>1, <2>2, <2>3 DEF SolidAt
  <2> QED
    BY <1>8, <2>2, <2>4
<1>12. Follows(to, u, v)
  BY <1>9, <1>10, <1>11 DEF Follows
<1>13. Occurrences(Solid(v), Solid(u)) # {}
  BY <1>3, <1>12, SolidPart
<1> QED
  BY <1>3, <1>13

-----------------------------------------------------------------------------
(* Where an anchor and the file diverge.                                   *)

(* A list of lines.                                                        *)
Listing(L) == Len(L) \in Nat \ {0} /\ L \in [1..Len(L) -> Seq(Symbols)]

(* k is the first line that is not blank.                                  *)
FirstSolid(W, k) ==
  /\ k \in 1..Len(W) /\ Strip(W[k]) # <<>>
  /\ \A j \in 1..(k - 1) : Strip(W[j]) = <<>>

(* Offset finds it.                                                        *)
LEMMA OffsetFacts ==
  ASSUME NEW W, Listing(W)
  PROVE  /\ Offset(W) = 0 \/ FirstSolid(W, Offset(W))
         /\ \A k : FirstSolid(W, k) => Offset(W) = k
<1> DEFINE n == Len(W)
           F == {k \in DOMAIN W : /\ Strip(W[k]) # <<>>
                                  /\ \A j \in 1..(k - 1) : Strip(W[j]) = <<>>}
           S == {0} \cup F
           o == Max(S)
<1>1. n \in Nat /\ DOMAIN W = 1..n
  BY DEF Listing
<1>2. \A k : k \in F <=> FirstSolid(W, k)
  BY <1>1 DEF FirstSolid
<1>3. \A k \in F : k \in 1..n
  BY <1>1
<1>4. Offset(W) = o
  BY DEF Offset
<1> HIDE DEF F, n
<1>5. S \in SUBSET (0..n) /\ S # {}
  BY <1>1, <1>3
<1> HIDE DEF S, o
<1>6. o \in S /\ \A x \in S : x <= o
  BY <1>1, <1>5, Extremes DEF o
<1>7. o = 0 \/ o \in F
  BY <1>6 DEF S
<1>8. ASSUME NEW k \in F PROVE o = k
  <2>1. k <= o /\ k \in 1..n
    BY <1>3, <1>6, <1>8 DEF S
  <2>2. o \in F /\ o \in 1..n
    <3>1. o # 0
      BY <1>1, <2>1
    <3> QED
      BY <1>3, <1>7, <3>1
  <2>3. ~(k < o)
    <3> SUFFICES ASSUME k < o PROVE FALSE
      OBVIOUS
    <3>1. k \in 1..(o - 1)
      BY <1>1, <2>1, <2>2
    <3>2. FirstSolid(W, k) /\ FirstSolid(W, o)
      BY <1>2, <1>8, <2>2
    <3> QED
      BY <3>1, <3>2 DEF FirstSolid
  <2> QED
    BY <1>1, <2>1, <2>2, <2>3
<1> QED
  BY <1>2, <1>4, <1>7, <1>8

(* m lines from start on are those of the anchor.                          *)
Agree(L, W, offset, start, m) ==
  /\ m \in 0..Len(W) /\ offset + m - 1 <= Len(W) /\ start + m - 1 <= Len(L)
  /\ \A j \in 0..(m - 1) : L[start + j] = W[offset + j]

(* MatchedFrom is the greatest such m.                                     *)
LEMMA MatchedFacts ==
  ASSUME NEW L, NEW W, Listing(L), Listing(W), NEW offset \in 1..Len(W), NEW start \in 1..Len(L)
  PROVE  /\ Agree(L, W, offset, start, MatchedFrom(L, W, offset, start))
         /\ \A m : Agree(L, W, offset, start, m) => m <= MatchedFrom(L, W, offset, start)
<1> DEFINE S == {m \in 0..Len(W) :
                   /\ offset + m - 1 <= Len(W) /\ start + m - 1 <= Len(L)
                   /\ \A j \in 0..(m - 1) : L[start + j] = W[offset + j]}
<1>1. Len(W) \in Nat /\ Len(L) \in Nat
  BY DEF Listing
<1>2. MatchedFrom(L, W, offset, start) = Max(S)
  BY DEF MatchedFrom
<1>3. \A m : m \in S <=> Agree(L, W, offset, start, m)
  BY DEF Agree
<1>4. 0 \in S
  BY <1>1
<1>5. S \in SUBSET (0..Len(W))
  OBVIOUS
<1> HIDE DEF S
<1>6. Max(S) \in S /\ \A x \in S : x <= Max(S)
  BY <1>1, <1>4, <1>5, Extremes
<1> QED
  BY <1>2, <1>3, <1>6

(* The best of some alignments.                                            *)
LEMMA BestFacts ==
  ASSUME NEW L, NEW W, Listing(L), Listing(W), NEW offset \in 1..Len(W),
         NEW S \in SUBSET (1..Len(L)), S # {}
  PROVE  /\ BestStart(L, W, offset, S) \in S
         /\ \A t \in S : MatchedFrom(L, W, offset, t)
                           <= MatchedFrom(L, W, offset, BestStart(L, W, offset, S))
<1> DEFINE F(s) == MatchedFrom(L, W, offset, s)
           M == {F(s) : s \in S}
           B == {s \in S : \A t \in S : F(t) <= F(s)}
<1>1. Len(W) \in Nat /\ Len(L) \in Nat
  BY DEF Listing
<1>2. \A s \in S : F(s) \in 0..Len(W)
  <2> SUFFICES ASSUME NEW s \in S PROVE F(s) \in 0..Len(W)
    OBVIOUS
  <2>1. s \in 1..Len(L)
    OBVIOUS
  <2>2. Agree(L, W, offset, s, F(s))
    BY <2>1, MatchedFacts
  <2> QED
    BY <2>2 DEF Agree
<1>3. BestStart(L, W, offset, S) = Min(B)
  BY DEF BestStart
<1> HIDE DEF F
<1>4. M \in SUBSET (0..Len(W)) /\ M # {}
  BY <1>2
<1>5. PICK s \in S : \A t \in S : F(t) <= F(s)
  <2> DEFINE m == Max(M)
  <2>1. m \in M /\ \A x \in M : x <= m
    <3> HIDE DEF M
    <3> QED
      BY <1>1, <1>4, Extremes
  <2> HIDE DEF m
  <2>2. PICK s \in S : m = F(s)
    BY <2>1
  <2> QED
    BY <2>1, <2>2
<1>6. B # {} /\ B \in SUBSET (0..Len(L))
  <2>1. s \in B
    BY <1>5
  <2>2. \A t \in S : t \in 0..Len(L)
    BY <1>1
  <2>3. B \in SUBSET (0..Len(L))
    BY <2>2
  <2> QED
    BY <2>1, <2>3
<1> DEFINE b == Min(B)
<1>7. b \in B
  <2> HIDE DEF B
  <2> QED
    BY <1>1, <1>6, Extremes
<1> HIDE DEF b
<1>8. b \in S /\ \A t \in S : F(t) <= F(b)
  BY <1>7
<1> QED
  BY <1>3, <1>8 DEF b, F

(* What a divergence hint says.                                            *)
Divergence(h, L, W, offset) ==
  /\ FirstSolid(W, offset)
  /\ h.name = "divergence"
  /\ h.start \in Starts(L, W[offset]) /\ h.start \in 1..Len(L)
  /\ h.matched = MatchedFrom(L, W, offset, h.start)
  /\ \A t \in Starts(L, W[offset]) : MatchedFrom(L, W, offset, t) <= h.matched
  /\ h.sent = offset + h.matched /\ h.sent <= Len(W) /\ h.line = h.start + h.matched
  /\ h.at_end = (h.line > Len(L))
  /\ h.indentation = (h.line <= Len(L) /\ Strip(W[h.sent]) = Strip(L[h.line]))

(* A hint that is given is one, of the best alignment.                     *)
LEMMA DivergenceFacts ==
  ASSUME NEW L, NEW W, Listing(L), Listing(W),
         _divergence_hint(L, W, Offset(W)) # {}
  PROVE  \E h : /\ _divergence_hint(L, W, Offset(W)) = {h}
                /\ Divergence(h, L, W, Offset(W))
<1> DEFINE o == Offset(W)
           S == Starts(L, W[o])
           b == BestStart(L, W, o, S)
           m == MatchedFrom(L, W, o, b)
           h == [name |-> "divergence", start |-> b, matched |-> m, sent |-> o + m, line |-> b + m,
                 at_end |-> b + m > Len(L),
                 indentation |-> /\ b + m <= Len(L)
                                 /\ Strip(W[o + m]) = Strip(L[b + m])]
<1>1. o # 0 /\ S # {} /\ ~(o + m > Len(W)) /\ _divergence_hint(L, W, o) = {h}
  BY DEF _divergence_hint, DivergenceAmong, DivergenceFrom, DivergenceAt
<1>2. FirstSolid(W, o)
  BY <1>1, OffsetFacts
<1> HIDE DEF o
<1>3. S \in SUBSET (1..Len(L))
  <2>1. DOMAIN L = 1..Len(L)
    BY DEF Listing
  <2> QED
    BY <2>1 DEF Starts
<1>4. o \in 1..Len(W) /\ Len(W) \in Nat /\ Len(L) \in Nat
  BY <1>2 DEF FirstSolid, Listing
<1> HIDE DEF S
<1>5. b \in S /\ \A t \in S : MatchedFrom(L, W, o, t) <= m
  BY <1>1, <1>3, <1>4, BestFacts
<1> HIDE DEF b
<1>6. Agree(L, W, o, b, m)
  BY <1>3, <1>4, <1>5, MatchedFacts
<1>7. m \in 0..Len(W)
  BY <1>6 DEF Agree
<1>8. m = MatchedFrom(L, W, o, b)
  OBVIOUS
<1> HIDE DEF m
<1>9. o + m <= Len(W)
  BY <1>1, <1>4, <1>7
<1>10. Divergence(h, L, W, o)
  BY <1>2, <1>3, <1>5, <1>8, <1>9 DEF Divergence, S
<1> HIDE DEF h
<1> QED
  BY <1>1, <1>10 DEF o

(* It is the first line at which the alignment differs, and the rest of    *)
(* what is said of it is so.                                               *)
HonestDivergence(h, L, W) ==
  /\ \A j \in 0..(h.matched - 1) : L[h.start + j] = W[h.sent - h.matched + j]
  /\ h.at_end \/ L[h.line] # W[h.sent]
  /\ h.indentation => Solid(L[h.line]) = Solid(W[h.sent])
  /\ h.matched = 0 => h.indentation

(* Where one line more agreed, more lines would have matched.              *)
LEMMA DivergenceIsHonest ==
  ASSUME NEW L, NEW W, Listing(L), Listing(W), NEW offset, NEW h, Divergence(h, L, W, offset)
  PROVE  HonestDivergence(h, L, W) /\ Agree(L, W, offset, h.start, h.matched)
<1> DEFINE s == h.start
           m == h.matched
           F == MatchedFrom(L, W, offset, s)
<1>1. /\ FirstSolid(W, offset)
      /\ s \in Starts(L, W[offset]) /\ s \in 1..Len(L) /\ m = F
      /\ h.sent = offset + m /\ h.sent <= Len(W) /\ h.line = s + m
      /\ h.at_end = (h.line > Len(L))
      /\ h.indentation = (h.line <= Len(L) /\ Strip(W[h.sent]) = Strip(L[h.line]))
  BY DEF Divergence
<1>2. offset \in 1..Len(W)
  BY <1>1 DEF FirstSolid
<1>3. Agree(L, W, offset, s, m) /\ \A x : Agree(L, W, offset, s, x) => x <= m
  <2>1. Agree(L, W, offset, s, F) /\ \A x : Agree(L, W, offset, s, x) => x <= F
    BY <1>1, <1>2, MatchedFacts
  <2> HIDE DEF F, m
  <2> QED
    BY <1>1, <2>1
<1>4. /\ Len(W) \in Nat /\ Len(L) \in Nat /\ L \in [1..Len(L) -> Seq(Symbols)]
      /\ W \in [1..Len(W) -> Seq(Symbols)] /\ DOMAIN L = 1..Len(L)
  BY DEF Listing
<1> HIDE DEF s, m, F
<1>5. /\ m \in 0..Len(W) /\ offset + m - 1 <= Len(W) /\ s + m - 1 <= Len(L)
      /\ \A j \in 0..(m - 1) : L[s + j] = W[offset + j]
  BY <1>3 DEF Agree
<1>6. m \in Nat /\ s \in Nat /\ offset \in Nat /\ offset + m - m = offset
  BY <1>1, <1>2, <1>4, <1>5
<1>7. \A j \in 0..(m - 1) : L[s + j] = W[h.sent - m + j]
  BY <1>1, <1>5, <1>6
<1>8. ASSUME ~(s + m > Len(L)) PROVE L[s + m] # W[offset + m]
  <2> SUFFICES ASSUME L[s + m] = W[offset + m] PROVE FALSE
    OBVIOUS
  <2>1. /\ m + 1 \in 0..Len(W) /\ offset + (m + 1) - 1 <= Len(W) /\ s + (m + 1) - 1 <= Len(L)
        /\ ~(m + 1 <= m)
    BY <1>1, <1>2, <1>4, <1>6, <1>8
  <2>2. \A j \in 0..((m + 1) - 1) : L[s + j] = W[offset + j]
    <3> SUFFICES ASSUME NEW j \in 0..((m + 1) - 1) PROVE L[s + j] = W[offset + j]
      OBVIOUS
    <3>1. j = m \/ j \in 0..(m - 1)
      BY <1>6
    <3> QED
      BY <1>5, <3>1
  <2>3. Agree(L, W, offset, s, m + 1)
    BY <2>1, <2>2 DEF Agree
  <2> QED
    BY <1>3, <2>1, <2>3
<1>9. h.at_end \/ L[h.line] # W[h.sent]
  BY <1>1, <1>8
<1>10. h.indentation => Solid(L[h.line]) = Solid(W[h.sent])
  <2> SUFFICES ASSUME h.indentation PROVE Solid(L[h.line]) = Solid(W[h.sent])
    OBVIOUS
  <2>1. h.line \in 1..Len(L) /\ h.sent \in 1..Len(W)
    <3>1. h.line <= Len(L)
      BY <1>1
    <3> QED
      BY <1>1, <1>2, <1>4, <1>6, <3>1
  <2>2. L[h.line] \in Seq(Symbols) /\ W[h.sent] \in Seq(Symbols)
    BY <1>4, <2>1
  <2>3. Strip(W[h.sent]) = Strip(L[h.line])
    BY <1>1
  <2> QED
    BY <2>2, <2>3, StripSolid
<1>11. m = 0 => h.indentation
  <2> SUFFICES ASSUME m = 0 PROVE h.indentation
    OBVIOUS
  <2>1. h.line = s /\ h.sent = offset /\ s <= Len(L) /\ ~(s + m > Len(L)) /\ s + m = s /\ offset + m = offset
    BY <1>1, <1>4, <1>6
  <2>2. L[s] # W[offset]
    BY <1>8, <2>1
  <2>3. Strip(L[s]) = Strip(W[offset])
    BY <1>1, <2>2 DEF Starts
  <2> QED
    BY <1>1, <2>1, <2>3
<1> QED
  BY <1>3, <1>7, <1>9, <1>10, <1>11 DEF HonestDivergence, s, m

-----------------------------------------------------------------------------
(* What is said of an edit.                                                *)

(* Python's or, of four hints of which the last is always given.           *)
LEMMA FirstOfFacts ==
  ASSUME NEW a, NEW b, NEW c, NEW d, d # {}
  PROVE  /\ a # {} => FirstOf(<<a, b, c, d>>) = a
         /\ a = {} /\ b # {} => FirstOf(<<a, b, c, d>>) = b
         /\ a = {} /\ b = {} /\ c # {} => FirstOf(<<a, b, c, d>>) = c
         /\ a = {} /\ b = {} /\ c = {} => FirstOf(<<a, b, c, d>>) = d
<1> DEFINE s == <<a, b, c, d>>
           S == {k \in DOMAIN s : s[k] # {}}
           m == Min(S)
<1>1. DOMAIN s = 1..4 /\ s[1] = a /\ s[2] = b /\ s[3] = c /\ s[4] = d
  OBVIOUS
<1>2. FirstOf(s) = s[m]
  BY DEF FirstOf
<1> HIDE DEF s
<1>3. S \in SUBSET (0..4) /\ S # {}
  BY <1>1
<1>4. \A k \in 1..4 : k \in S <=> s[k] # {}
  BY <1>1
<1>5. \A k \in S : k \in 1..4
  BY <1>1
<1> HIDE DEF S
<1>6. m \in S /\ \A k \in S : m <= k
  BY <1>3, Extremes
<1> HIDE DEF m
<1>7. m \in {1, 2, 3, 4}
  BY <1>5, <1>6
<1>8. s[m] # {} /\ \A k \in 1..4 : k < m => s[k] = {}
  BY <1>4, <1>5, <1>6, <1>7
<1>9. CASE a # {}
  <2>1. m = 1
    BY <1>1, <1>7, <1>8, <1>9
  <2> QED
    BY <1>1, <1>2, <1>9, <2>1 DEF s
<1>10. CASE a = {} /\ b # {}
  <2>1. m = 2
    BY <1>1, <1>7, <1>8, <1>10
  <2> QED
    BY <1>1, <1>2, <1>10, <2>1 DEF s
<1>11. CASE a = {} /\ b = {} /\ c # {}
  <2>1. m = 3
    BY <1>1, <1>7, <1>8, <1>11
  <2> QED
    BY <1>1, <1>2, <1>11, <2>1 DEF s
<1>12. CASE a = {} /\ b = {} /\ c = {}
  <2>1. m = 4
    BY <1>1, <1>7, <1>8, <1>12
  <2> QED
    BY <1>1, <1>2, <1>12, <2>1 DEF s
<1> QED
  BY <1>9, <1>10, <1>11, <1>12

(* What a hint to the anchor o, which is not in the file T, may say.       *)
Honest(h, T, o) ==
  CASE h.name = "divergence" -> HonestDivergence(h, Lines(T), Lines(o))
    [] h.name = "whitespace" -> Occurrences(Solid(T), Solid(o)) # {}
    [] h.name = "absent" -> Occurrences(squash(T), squash(o)) = {}
    [] OTHER -> TRUE

(* There is always one hint, and it is such.                               *)
LEMMA HintFacts ==
  ASSUME NEW T \in Seq(Symbols), NEW o \in Seq(Symbols), "sp" \in Symbols
  PROVE  \E h : /\ Hint(T, o) = {h} /\ Honest(h, T, o)
                /\ h.name = "divergence"
                     => Divergence(h, Lines(T), Lines(o), Offset(Lines(o)))
<1> DEFINE L == Lines(T)
           W == Lines(o)
           k == Offset(W)
           a == _divergence_hint(L, W, k)
           b == _whitespace_insensitive_hint(T, o)
           c == _absent_anchor_hint(L, W, k)
           d == {[name |-> "reread"]}
           H == Hint(T, o)
<1>1. H = FirstOf(<<a, b, c, d>>)
  BY DEF Hint, Hints
<1>2. IsLines(L, T) /\ IsLines(W, o)
  BY LinesFacts
<1>3. Listing(L) /\ Listing(W)
  BY <1>2 DEF IsLines, Listing
<1>4. d # {}
  OBVIOUS
<1> HIDE DEF L, W, a, b, c, d, H
<1>5. CASE a # {}
  <2>1. H = a
    BY <1>1, <1>4, <1>5, FirstOfFacts
  <2>2. PICK h : a = {h} /\ Divergence(h, L, W, k)
    BY <1>3, <1>5, DivergenceFacts DEF a
  <2>3. HonestDivergence(h, L, W)
    BY <1>3, <2>2, DivergenceIsHonest
  <2>4. h.name = "divergence"
    BY <2>2 DEF Divergence
  <2>5. Honest(h, T, o)
    BY <2>3, <2>4 DEF Honest, L, W
  <2> QED
    BY <2>1, <2>2, <2>5 DEF H, L, W
<1>6. CASE a = {} /\ b # {}
  <2> DEFINE h == [name |-> "whitespace"]
  <2>1. H = b
    BY <1>1, <1>4, <1>6, FirstOfFacts
  <2>2. /\ b = {h} /\ squash(o) # <<>>
        /\ Occurrences(squash(T), squash(o)) # {}
    BY <1>6 DEF b, _whitespace_insensitive_hint
  <2>3. Occurrences(Solid(T), Solid(o)) # {}
    BY <2>2, SquashedPart
  <2>4. h.name = "whitespace"
    OBVIOUS
  <2> HIDE DEF h
  <2>5. Honest(h, T, o)
    BY <2>3, <2>4 DEF Honest
  <2> QED
    BY <2>1, <2>2, <2>4, <2>5 DEF H
<1>7. CASE a = {} /\ b = {} /\ c # {}
  <2> DEFINE h == [name |-> "absent"]
  <2>1. H = c
    BY <1>1, <1>4, <1>7, FirstOfFacts
  <2>2. c = {h} /\ k # 0
    BY <1>7 DEF c, _absent_anchor_hint
  <2>3. FirstSolid(W, k)
    BY <1>3, <2>2, OffsetFacts
  <2>4. SolidAt(o) # {}
    <3> DEFINE w == W[k]
    <3>1. k \in 1..Len(W) /\ Strip(w) # <<>>
      BY <2>3 DEF FirstSolid
    <3>2. w \in Seq(Symbols) /\ IsLine(w, o)
      BY <1>2, <3>1 DEF IsLines
    <3> HIDE DEF w
    <3>3. SolidAt(w) # {}
      <4>1. IsCore(Strip(w), w)
        BY <3>2, StripFacts
      <4> QED
        BY <3>1, <4>1 DEF IsCore
    <3>4. PICK i \in DOMAIN w : w[i] \notin {"sp", "nl"}
      BY <3>3 DEF SolidAt
    <3>5. i \in 1..Len(w)
      BY <3>2
    <3>6. PICK p \in DOMAIN o : o[p] = w[i]
      BY <3>2, <3>5 DEF IsLine
    <3> QED
      BY <3>4, <3>6 DEF SolidAt
  <2>5. squash(o) # <<>>
    <3>1. IsSquashed(squash(o), o)
      BY SquashFacts
    <3> QED
      BY <2>4, <3>1 DEF IsSquashed
  <2>6. Occurrences(squash(T), squash(o)) = {}
    BY <1>7, <2>5 DEF b, _whitespace_insensitive_hint
  <2>7. h.name = "absent"
    OBVIOUS
  <2> HIDE DEF h
  <2>8. Honest(h, T, o)
    BY <2>6, <2>7 DEF Honest
  <2> QED
    BY <2>1, <2>2, <2>7, <2>8 DEF H
<1>8. CASE a = {} /\ b = {} /\ c = {}
  <2> DEFINE h == [name |-> "reread"]
  <2>1. H = d
    BY <1>1, <1>4, <1>8, FirstOfFacts
  <2>2. h.name = "reread" /\ d = {h}
    BY DEF d
  <2> HIDE DEF h
  <2>3. Honest(h, T, o)
    BY <2>2 DEF Honest
  <2> QED
    BY <2>1, <2>2, <2>3 DEF H
<1> QED
  BY <1>5, <1>6, <1>7, <1>8

(* The number of the line on which the text has position i.                *)
LineOf(T, i) == Len(Lines(SubSeq(T, 1, i - 1)))

(* That is one more than the line breaks before it.                        *)
LEMMA LineOfIs ==
  ASSUME NEW T \in Seq(Symbols), NEW i \in 1..Len(T)
  PROVE  LineOf(T, i) = Cardinality({j \in 1..(i - 1) : T[j] = "nl"}) + 1
<1> DEFINE U == SubSeq(T, 1, i - 1)
<1>1. Len(T) \in Nat /\ i - 1 \in 0..Len(T)
  OBVIOUS
<1>2. U \in Seq(Symbols) /\ Len(U) = i - 1 /\ \A j \in 1..(i - 1) : U[j] = T[j]
  BY <1>1
<1> HIDE DEF U
<1>3. DOMAIN U = 1..(i - 1)
  BY <1>1, <1>2
<1>4. Breaks(U) = {j \in 1..(i - 1) : T[j] = "nl"}
  BY <1>2, <1>3 DEF Breaks
<1>5. IsFiniteSet(Breaks(U)) /\ Cardinality(Breaks(U)) \in Nat
  BY <1>2, EndsFacts
<1>6. Len(Lines(U)) = Cardinality(Breaks(U)) + 1
  <2>1. IsLines(Lines(U), U)
    BY <1>2, LinesFacts
  <2> QED
    BY <1>5, <2>1 DEF IsLines
<1> QED
  BY <1>4, <1>6 DEF LineOf, U

(* Of an ambiguous anchor: how often it was counted, and the lines that    *)
(* are shown.                                                              *)
Ambiguity(r, T, o) ==
  LET c == Cardinality(Occurrences(T, o))
  IN  /\ r.count > 1 /\ r.count <= c
      /\ r.more <=> c > MaxReported
      /\ Len(r.lines) = (IF r.more THEN MaxReported ELSE c)
      /\ \A line \in ToSet(r.lines) : \E i \in Occurrences(T, o) : line = LineOf(T, i)

(* The scan meets some of the occurrences, and a line number counts line   *)
(* breaks of the text.                                                     *)
LEMMA AmbiguityFacts ==
  ASSUME NEW T \in Seq(Symbols), NEW o \in Seq(Symbols), o # <<>>,
         Cardinality(Scan(T, o)) > 1, MaxReported \in Nat
  PROVE  Ambiguity(Ambiguous(T, o), T, o)
<1> DEFINE n == Len(T)
           O == Occurrences(T, o)
           at == Ascending(O)
           c == Cardinality(O)
           above(x) == {i \in 1..(x - 1) : T[i] = "nl"}
           r == _line_numbers_of(T, o)
<1>1. n \in Nat /\ DOMAIN T = 1..n /\ \A i \in O : i \in 1..n
  BY AheadFacts
<1>2. O \in SUBSET (0..n)
  BY <1>1
<1>3. r = [k \in DOMAIN at |-> Cardinality(above(at[k])) + 1]
  BY DEF _line_numbers_of
<1>4. Scan(T, o) \subseteq O
  <2>1. ScanOf(Scan(T, o), T, o, 1)
    BY ScanFacts
  <2> QED
    BY <2>1 DEF ScanOf, Ahead
<1> HIDE DEF n, O, r
<1>5. Ascends(at, O)
  BY <1>1, <1>2, AscendingFacts, Zenon
<1>6. IsFiniteSet(O) /\ c \in Nat /\ at \in [1..c -> O]
  BY <1>5 DEF Ascends
<1>7. Cardinality(Scan(T, o)) <= c
  BY <1>4, <1>6, FS_Subset
<1> HIDE DEF at, c
<1>8. \A k \in 1..c : at[k] \in O /\ Cardinality(above(at[k])) + 1 = LineOf(T, at[k])
  <2> SUFFICES ASSUME NEW k \in 1..c
               PROVE  at[k] \in O /\ Cardinality(above(at[k])) + 1 = LineOf(T, at[k])
    OBVIOUS
  <2>1. at[k] \in O /\ at[k] \in 1..Len(T)
    BY <1>1, <1>6 DEF n
  <2> QED
    BY <2>1, LineOfIs
<1> HIDE DEF above
<1>9. r = [k \in 1..c |-> Cardinality(above(at[k])) + 1]
  BY <1>3, <1>6
<1>10. r \in Seq(Nat) /\ Len(r) = c /\ DOMAIN r = 1..c /\ \A k \in 1..c : r[k] = LineOf(T, at[k])
  <2>1. \A k \in 1..c : Cardinality(above(at[k])) \in Nat
    <3> SUFFICES ASSUME NEW k \in 1..c PROVE Cardinality(above(at[k])) \in Nat
      OBVIOUS
    <3>1. at[k] \in Int
      BY <1>1, <1>6, <1>8
    <3>2. IsFiniteSet(1..(at[k] - 1)) /\ above(at[k]) \subseteq 1..(at[k] - 1)
      BY <3>1, FS_Interval DEF above
    <3> QED
      BY <3>2, FS_Subset, FS_CardinalityType
  <2> QED
    BY <1>6, <1>8, <1>9, <2>1
<1> DEFINE shown == IF Len(r) <= MaxReported THEN r ELSE SubSeq(r, 1, MaxReported)
           A == Ambiguous(T, o)
<1>11. /\ Len(shown) = (IF c > MaxReported THEN MaxReported ELSE c)
       /\ DOMAIN shown \subseteq 1..c
       /\ \A k \in DOMAIN shown : shown[k] = r[k]
  <2>1. CASE c <= MaxReported
    BY <1>6, <1>10, <2>1
  <2>2. CASE ~(c <= MaxReported)
    <3>1. shown = SubSeq(r, 1, MaxReported) /\ MaxReported \in 0..Len(r) /\ c > MaxReported
      BY <1>6, <1>10, <2>2
    <3>2. /\ Len(shown) = MaxReported /\ DOMAIN shown = 1..MaxReported
          /\ \A k \in 1..MaxReported : shown[k] = r[k]
      BY <1>10, <3>1
    <3>3. 1..MaxReported \subseteq 1..c
      BY <1>6, <3>1
    <3> QED
      BY <3>1, <3>2, <3>3
  <2> QED
    BY <2>1, <2>2
<1>12. /\ A.count = Cardinality(Scan(T, o)) /\ A.lines = shown
       /\ A.more <=> c > MaxReported
  BY <1>10 DEF Ambiguous, r
<1> HIDE DEF shown, A, at
<1>13. \A line \in ToSet(A.lines) : \E i \in O : line = LineOf(T, i)
  <2> SUFFICES ASSUME NEW k \in DOMAIN shown
               PROVE  \E i \in O : shown[k] = LineOf(T, i)
    BY <1>12 DEF ToSet
  <2>1. k \in 1..c /\ shown[k] = r[k]
    BY <1>11
  <2> QED
    BY <1>8, <1>10, <2>1
<1>14. Len(A.lines) = (IF A.more THEN MaxReported ELSE c)
  BY <1>11, <1>12
<1> QED
  BY <1>7, <1>12, <1>13, <1>14 DEF Ambiguity, c, O, A

(* What apply_edit says when it refuses.                                   *)
LEMMA RefusalFacts ==
  ASSUME NEW T \in Seq(Symbols), NEW o \in Seq(Symbols), NEW w, NEW all, MaxReported \in Nat
  PROVE  LET r == apply_edit(T, o, w, all)
         IN  /\ r.kind = "missing" =>
                  /\ r.hint = Hint(T, o) /\ o # <<>>
                  /\ Occurrences(T, o) = {}
             /\ r.kind # "missing" => r.hint = {}
             /\ r.kind = "ambiguous" => Ambiguity(r, T, o)
             /\ r.kind # "not_found"
<1> DEFINE r == apply_edit(T, o, w, all)
           P == Scan(T, o)
<1>1. \/ r = Raised("empty", <<>>, {})
      \/ r = Raised("already_there", <<>>, {})
      \/ r = Raised("identical", <<>>, {})
      \/ r = Raised("missing", <<>>, Hint(T, o)) /\ o # <<>> /\ P = {}
      \/ r = Ambiguous(T, o) /\ o # <<>> /\ Cardinality(P) > 1
      \/ \E t : r = Applied(t)
  BY DEF apply_edit
<1> HIDE DEF r, P
<1>2. CASE r = Raised("missing", <<>>, Hint(T, o)) /\ o # <<>> /\ P = {}
  <2>1. ScanOf(P, T, o, 1)
    BY <1>2, ScanFacts DEF P
  <2>2. \A i \in Occurrences(T, o) : i \in Ahead(T, o, 1)
    BY <1>2, AheadFacts DEF Ahead
  <2>3. Occurrences(T, o) = {}
    BY <1>2, <2>1, <2>2 DEF ScanOf
  <2>4. r.kind = "missing" /\ r.hint = Hint(T, o)
    BY <1>2 DEF Raised
  <2> QED
    BY <1>2, <2>3, <2>4 DEF r
<1>3. CASE r = Ambiguous(T, o) /\ o # <<>> /\ Cardinality(P) > 1
  <2>1. Ambiguity(r, T, o)
    BY <1>3, AmbiguityFacts DEF P
  <2>2. r.kind = "ambiguous" /\ r.hint = {}
    BY <1>3 DEF Ambiguous
  <2> QED
    BY <2>1, <2>2 DEF r
<1>4. CASE \/ r = Raised("empty", <<>>, {})
           \/ r = Raised("already_there", <<>>, {})
           \/ r = Raised("identical", <<>>, {})
           \/ \E t : r = Applied(t)
  <2>1. r.kind \in {"empty", "already_there", "identical", "applied"} /\ r.hint = {}
    BY <1>4 DEF Raised, Applied
  <2> QED
    BY <2>1 DEF r
<1> QED
  BY <1>1, <1>2, <1>3, <1>4

(* So whatever is said of an edit is so.                                   *)
LEMMA InvHonest ==
  ASSUME EditInv, "sp" \in Symbols, MaxReported \in Nat
  PROVE  HintsAreHonest
<1> DEFINE T == before
           o == edit.old
           L == Lines(T)
           W == Lines(o)
<1>1. CASE outcome = Raised("none", <<>>, {}) /\ told = outcome
  <2>1. outcome.kind = "none" /\ told.kind = "none" /\ outcome.hint = {}
    BY <1>1 DEF Raised
  <2>2. Cardinality({}) = 0
    BY FS_EmptySet
  <2> QED
    BY <2>1, <2>2 DEF HintsAreHonest
<1>2. CASE Edited
  <2>1. /\ T \in Seq(Symbols) /\ o \in Seq(Symbols)
        /\ outcome = apply_edit(T, o, edit.new, edit.replace_all)
        /\ told = _edit_file(T, o, edit.new, edit.replace_all)
    BY <1>2 DEF EditInv, Edited
  <2> HIDE DEF o
  <2>2. /\ outcome.kind = "missing" =>
             outcome.hint = Hint(T, o) /\ Occurrences(T, o) = {}
        /\ outcome.kind # "missing" => outcome.hint = {}
        /\ outcome.kind = "ambiguous" => Ambiguity(outcome, T, o)
        /\ outcome.kind # "not_found"
    BY <2>1, RefusalFacts
  <2>3. told.kind = "not_found" => Occurrences(T, o) = {}
    BY <2>1, <2>2 DEF _edit_file, Raised
  <2>4. Places = Occurrences(T, o)
    BY DEF Places, o
  <2>5. /\ Cardinality(outcome.hint) = (IF outcome.kind = "missing" THEN 1 ELSE 0)
        /\ \A h \in outcome.hint : Honest(h, T, o)
    <3>1. CASE outcome.kind = "missing"
      <4>1. PICK h : Hint(T, o) = {h} /\ Honest(h, T, o)
        BY <2>1, HintFacts
      <4>2. outcome.hint = {h}
        BY <2>2, <3>1, <4>1
      <4>3. Cardinality({h}) = 1
        BY FS_Singleton
      <4> QED
        BY <3>1, <4>1, <4>2, <4>3
    <3>2. CASE outcome.kind # "missing"
      <4>1. Cardinality({}) = 0
        BY FS_EmptySet
      <4> QED
        BY <2>2, <3>2, <4>1
    <3> QED
      BY <3>1, <3>2
  <2>6. "missing" = outcome.kind \/ "not_found" = told.kind => Places = {}
    BY <2>2, <2>3, <2>4
  <2>7. outcome.kind = "ambiguous" =>
          /\ outcome.count > 1 /\ outcome.count <= Cardinality(Places)
          /\ outcome.more <=> Cardinality(Places) > MaxReported
          /\ Len(outcome.lines) = (IF outcome.more THEN MaxReported ELSE Cardinality(Places))
          /\ \A line \in ToSet(outcome.lines) :
               \E i \in Places : line = Len(Lines(SubSeq(before, 1, i - 1)))
    BY <2>2, <2>4 DEF Ambiguity, LineOf
  <2> QED
    BY <2>5, <2>6, <2>7, Zenon DEF HintsAreHonest, Honest, HonestDivergence, o
<1> QED
  BY <1>1, <1>2 DEF EditInv

(* For every file and anchor: what apply_edit and edit_file say of an edit *)
(* is so.  No anchor that is in the file is called missing; an ambiguous   *)
(* one occurs at least as often as is said, and on the lines that are      *)
(* shown, as many as the limit allows; and of a miss there is one hint,    *)
(* which is true: the line at which the best alignment diverges,           *)
(* whitespace as the only difference, or a block that is not there.        *)
THEOREM WhatIsSaidIsSo == EditSpec => []HintsAreHonest
<1>1. "sp" \in Symbols /\ MaxReported \in Nat
  BY Texts DEF TextShape
<1>2. EditInv => HintsAreHonest
  BY <1>1, InvHonest
<1> QED
  BY <1>2, EditInvariant, PTL
=============================================================================

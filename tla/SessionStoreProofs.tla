-------------------------- MODULE SessionStoreProofs --------------------------
(***************************************************************************)
(* The store keeps its promise, for every number of processes, sessions,   *)
(* workspaces, crashes and failed calls, as long as a session is open in   *)
(* one process at a time (Shared = FALSE).                                 *)
(*                                                                         *)
(* The step that matters is Replace: what it moves into place has to be    *)
(* the whole transcript of the process that moves it.  That takes an       *)
(* invariant about the temporary files, which no reader ever sees.         *)
(*                                                                         *)
(* The directory is bounded, and the latest ranked is kept: the first by   *)
(* counting the files that were moved into place while others pruned,      *)
(* shared or not, the second by the order in which one process makes them. *)
(***************************************************************************)
EXTENDS SessionStore, FiniteSetTheorems, TLAPS

Labels == {"idle", "prompt", "open", "fill", "replace", "glob", "rank", "unlink",
           "confirm", "delete"}

States ==
  [at : Labels, session : Sessions \cup {None}, ws : Workspaces \cup {None}, turns : Nat,
   updated : Nat, fd : {None, "tmp"}, names : SUBSET Sessions]

(* A process and the temporary files t: a session is open between the      *)
(* start and the end, the file that is open for writing is torn and still  *)
(* has its name, and what is moved next is the transcript, if anything is. *)
Consistent(x, t) ==
  /\ x \in States
  /\ x.at \in {"idle", "confirm", "delete"} <=> x.session = None
  /\ x.session # None => x.ws \in Workspaces
  /\ x.fd = "tmp" <=> x.at = "fill"
  /\ x.at = "rank" => IsFiniteSet(x.names)
  /\ x.at = "fill" => t[x.session] # None /\ t[x.session].text = Torn
  /\ x.at = "replace" /\ t[x.session] # None =>
       t[x.session].text = [ws |-> x.ws, turns |-> x.turns]

Types ==
  /\ json \in [Sessions -> Contents \cup {None}]
  /\ tmp \in [Sessions -> Contents \cup {None}]
  /\ proc \in [Procs -> States]
  /\ exports \in SUBSET [session : Sessions, turns : Nat]
  /\ clock \in Nat

(* What readers open is whole.                                             *)
Whole == \A s \in Sessions : json[s] # None => json[s].text # Torn

(* A session is open in one process at a time.                             *)
Alone == \A p, q \in Procs : p # q /\ proc[p].session # None => proc[q].session # proc[p].session

IInv ==
  /\ Types
  /\ IsFiniteSet(Files)
  /\ Whole
  /\ Alone
  /\ \A p \in Procs : Consistent(proc[p], tmp)

(* A step of the store is one of the promise, or changes nothing in it.    *)
Simulates == [Promise!Next]_(Promise!absVars)

-----------------------------------------------------------------------------
(* A process at rest agrees with any temporary files.                      *)
LEMMA IdleIsConsistent == \A t : Consistent(Idle, t)
BY StoreConstants DEF Consistent, Idle, States, Labels

(* The store starts as its promise does.                                   *)
LEMMA InitIInv == Init => IInv /\ Promise!Init
<1> SUFFICES ASSUME Init PROVE IInv /\ Promise!Init
  OBVIOUS
<1>1. \A p \in Procs : proc[p] = Idle /\ Idle \in States /\ Consistent(proc[p], tmp)
  BY IdleIsConsistent DEF Init, Consistent
<1>2. Types /\ Whole /\ Alone
  BY <1>1 DEF Init, Types, Whole, Alone, Idle
<1>3. IsFiniteSet(Files)
  <2>1. Files = {}
    BY DEF Init, Files
  <2> QED
    BY <2>1, FS_EmptySet
<1>4. Promise!Init
  <2>1. Saved = [s \in Sessions |-> None] /\ exports = {}
    BY DEF Init, Saved
  <2>2. /\ Held = [p \in Procs |-> None] /\ Doomed = [p \in Procs |-> {}]
        /\ Listed = [p \in Procs |-> {}]
    BY <1>1 DEF Held, Holds, Doomed, Dooms, Listed, Lists, Idle
  <2> QED
    BY <2>1, <2>2 DEF Promise!Init
<1> QED
  BY <1>1, <1>2, <1>3, <1>4 DEF IInv

(* One process moves and touches no file.                                  *)
LEMMA ProcStep ==
  ASSUME IInv, NEW p \in Procs, NEW x, Consistent(x, tmp),
         proc' = [proc EXCEPT ![p] = x],
         x.session # None => \A q \in Procs : q # p => proc[q].session # x.session,
         UNCHANGED <<json, tmp, exports>>, clock' \in Nat
  PROVE  /\ IInv' /\ Saved' = Saved
         /\ Held' = [Held EXCEPT ![p] = Holds(x)]
         /\ Listed' = [Listed EXCEPT ![p] = Lists(x)]
         /\ Doomed' = [Doomed EXCEPT ![p] = Dooms(x)]
<1>1. \A q \in Procs : proc'[q] = IF q = p THEN x ELSE proc[q]
  BY DEF IInv, Types
<1>2. Types' /\ Whole' /\ Files' = Files
  BY DEF IInv, Types, Consistent, Whole, Files
<1>3. Alone'
  BY <1>1 DEF IInv, Alone
<1>4. \A q \in Procs : Consistent(proc[q], tmp)'
  BY <1>1 DEF IInv
<1>5. Saved' = Saved
  BY DEF Saved
<1>6. Held' = [Held EXCEPT ![p] = Holds(x)]
  <2>1. Held = [q \in Procs |-> Holds(proc[q])] /\ Held' = [q \in Procs |-> Holds(proc'[q])]
    BY DEF Held
  <2>2. [q \in Procs |-> Holds(proc'[q])] = [Held EXCEPT ![p] = Holds(x)]
    BY <1>1, <2>1
  <2> QED
    BY <2>1, <2>2
<1>7. Doomed' = [Doomed EXCEPT ![p] = Dooms(x)]
  <2>1. Doomed = [q \in Procs |-> Dooms(proc[q])] /\ Doomed' = [q \in Procs |-> Dooms(proc'[q])]
    BY DEF Doomed
  <2>2. [q \in Procs |-> Dooms(proc'[q])] = [Doomed EXCEPT ![p] = Dooms(x)]
    BY <1>1, <2>1
  <2> QED
    BY <2>1, <2>2
<1>8. Listed' = [Listed EXCEPT ![p] = Lists(x)]
  <2>1. Listed = [q \in Procs |-> Lists(proc[q])] /\ Listed' = [q \in Procs |-> Lists(proc'[q])]
    BY DEF Listed
  <2>2. [q \in Procs |-> Lists(proc'[q])] = [Listed EXCEPT ![p] = Lists(x)]
    BY <1>1, <2>1
  <2> QED
    BY <2>1, <2>2
<1> QED
  BY <1>2, <1>3, <1>4, <1>5, <1>6, <1>7, <1>8 DEF IInv

(* One process moves and keeps its transcript: what it has listed and what *)
(* it has decided on may change.                                           *)
LEMMA PlanStep ==
  ASSUME IInv, NEW p \in Procs, NEW x, Consistent(x, tmp),
         proc' = [proc EXCEPT ![p] = x],
         x.session = proc[p].session /\ x.ws = proc[p].ws /\ x.turns = proc[p].turns,
         UNCHANGED <<json, tmp, exports>>, clock' \in Nat
  PROVE  /\ IInv' /\ UNCHANGED <<Saved, Held, exports>>
         /\ Listed' = [Listed EXCEPT ![p] = Lists(x)]
         /\ Doomed' = [Doomed EXCEPT ![p] = Dooms(x)]
         /\ Listed[p] = Lists(proc[p]) /\ Doomed[p] = Dooms(proc[p])
         /\ Held[p] = None <=> x.session = None
<1>1. x.session # None => \A q \in Procs : q # p => proc[q].session # x.session
  BY DEF IInv, Alone
<1>2. /\ IInv' /\ Saved' = Saved
      /\ Held' = [Held EXCEPT ![p] = Holds(x)]
      /\ Listed' = [Listed EXCEPT ![p] = Lists(x)]
      /\ Doomed' = [Doomed EXCEPT ![p] = Dooms(x)]
  BY <1>1, ProcStep
<1>3. Holds(x) = Held[p] /\ Lists(proc[p]) = Listed[p] /\ Dooms(proc[p]) = Doomed[p]
  BY DEF Holds, Held, Listed, Doomed
<1>4. Held' = Held
  BY <1>2, <1>3 DEF Held
<1>5. x.session # None => [session |-> x.session, text |-> [ws |-> x.ws, turns |-> x.turns]] # None
  BY StoreConstants DEF Consistent, States, Texts
<1>6. Held[p] = None <=> x.session = None
  BY <1>3, <1>5 DEF Holds
<1> QED
  BY <1>2, <1>3, <1>4, <1>6

(* ... or nothing of that changes.                                         *)
LEMMA StutterStep ==
  ASSUME IInv, NEW p \in Procs, NEW x, Consistent(x, tmp),
         proc' = [proc EXCEPT ![p] = x],
         x.session = proc[p].session /\ x.ws = proc[p].ws /\ x.turns = proc[p].turns,
         Dooms(x) = Dooms(proc[p]), Lists(x) = Lists(proc[p]),
         UNCHANGED <<json, tmp, exports>>, clock' \in Nat
  PROVE  IInv' /\ Simulates
<1>1. /\ IInv' /\ UNCHANGED <<Saved, Held, exports>>
      /\ Listed' = [Listed EXCEPT ![p] = Lists(x)]
      /\ Doomed' = [Doomed EXCEPT ![p] = Dooms(x)]
      /\ Listed[p] = Lists(proc[p]) /\ Doomed[p] = Dooms(proc[p])
  BY PlanStep
<1>2. Listed' = Listed /\ Doomed' = Doomed
  BY <1>1 DEF Listed, Doomed
<1> QED
  BY <1>1, <1>2 DEF Simulates, Promise!absVars

-----------------------------------------------------------------------------
(* A process starts: a new session, a saved one or an imported one.        *)
LEMMA BeginStep ==
  ASSUME IInv, Shared = FALSE, NEW p \in Procs, NEW ws \in Workspaces,
         \/ \E s \in Sessions : New(p, s, ws) \/ Resume(p, s, ws)
         \/ \E e \in exports : Import(p, e, ws)
  PROVE  IInv' /\ Simulates
<1>1. ASSUME NEW s \in Sessions, NEW turns \in Nat, Begin(p, s, ws, turns),
             \A q \in Procs : q # p => proc[q].session # s,
             \/ turns = 0
             \/ Saved[s] # None /\ Saved[s] = [ws |-> ws, turns |-> turns]
             \/ \E e \in exports : e.session = s /\ e.turns = turns
      PROVE  IInv' /\ Simulates
  <2> DEFINE x == [Idle EXCEPT !.at = "prompt", !.session = s, !.ws = ws, !.turns = turns]
             text == [ws |-> ws, turns |-> turns]
  <2>1. Consistent(x, tmp) /\ x.session = s /\ x.session # None
    BY StoreConstants DEF Consistent, States, Labels, Idle
  <2>2. Holds(x) = [session |-> s, text |-> text] /\ Dooms(x) = {} /\ Lists(x) = {}
    BY StoreConstants DEF Holds, Dooms, Lists, Idle
  <2>3. proc' = [proc EXCEPT ![p] = x] /\ UNCHANGED <<json, tmp, exports, clock>>
        /\ proc[p].at = "idle" /\ clock' \in Nat
    BY <1>1 DEF Begin, At, IInv, Types
  <2> HIDE DEF x
  <2>4. /\ IInv' /\ Saved' = Saved
        /\ Held' = [Held EXCEPT ![p] = Holds(x)]
        /\ Listed' = [Listed EXCEPT ![p] = Lists(x)]
        /\ Doomed' = [Doomed EXCEPT ![p] = Dooms(x)]
    <3>1. x.session # None => \A q \in Procs : q # p => proc[q].session # x.session
      BY <1>1, <2>1
    <3>2. /\ Consistent(x, tmp) /\ proc' = [proc EXCEPT ![p] = x]
          /\ UNCHANGED <<json, tmp, exports>> /\ clock' \in Nat
      BY <2>1, <2>3
    <3> QED
      BY <3>1, <3>2, ProcStep
  <2>5. Held[p] = None /\ Doomed[p] = {} /\ Listed[p] = {}
    BY <2>3 DEF IInv, Consistent, Held, Holds, Doomed, Dooms, Listed, Lists
  <2>6. Doomed' = Doomed /\ Listed' = Listed
    BY <2>2, <2>4, <2>5 DEF Doomed, Listed
  <2>7. Promise!Open(p, s, ws)
    <3>1. Held' = [Held EXCEPT ![p] = [session |-> s, text |-> text]]
      BY <2>2, <2>4
    <3>2. Saved[s] = text => Saved[s].ws = ws
      OBVIOUS
    <3> HIDE DEF text
    <3>3. CASE Saved[s] # None /\ Saved[s] = text
      BY <2>3, <2>4, <2>5, <2>6, <3>1, <3>2, <3>3 DEF Promise!Open
    <3>4. CASE turns = 0
      BY <2>3, <2>4, <2>5, <2>6, <3>1, <3>4 DEF Promise!Open, text
    <3>5. ASSUME NEW e \in exports, e.session = s, e.turns = turns
          PROVE  Promise!Open(p, s, ws)
      BY <2>3, <2>4, <2>5, <2>6, <3>1, <3>5 DEF Promise!Open, text
    <3> QED
      BY <1>1, <3>3, <3>4, <3>5 DEF text
  <2> QED
    BY <2>4, <2>7 DEF Simulates, Promise!Next
<1>2. ASSUME NEW s \in Sessions, New(p, s, ws)
      PROVE  IInv' /\ Simulates
  BY <1>1, <1>2 DEF New
<1>3. ASSUME NEW s \in Sessions, Resume(p, s, ws)
      PROVE  IInv' /\ Simulates
  <2>1. /\ json[s] # None /\ _read(s) = json[s].text /\ _read(s).ws = ws
        /\ _read(s) # None /\ json[s].text \in Texts
    BY <1>3 DEF Resume, listing, Readable, _read, IInv, Types, Contents
  <2>2. _read(s) = [ws |-> ws, turns |-> _read(s).turns] /\ _read(s).turns \in Nat
    BY <2>1 DEF Texts
  <2>3. Saved[s] = _read(s)
    BY <2>1 DEF Saved
  <2> QED
    BY <1>1, <1>3, <2>1, <2>2, <2>3 DEF Resume, Free
<1>4. ASSUME NEW e \in exports, Import(p, e, ws)
      PROVE  IInv' /\ Simulates
  <2>1. e.session \in Sessions /\ e.turns \in Nat
    BY DEF IInv, Types
  <2> QED
    BY <1>1, <1>4, <2>1 DEF Import, Free
<1> QED
  BY <1>2, <1>3, <1>4

(* The process ends, or an export is written.                              *)
LEMMA EndStep ==
  ASSUME IInv, NEW p \in Procs, Quit(p) \/ LeaveAlone(p) \/ Deleted(p) \/ Crash(p)
  PROVE  IInv' /\ Simulates
<1>1. proc' = [proc EXCEPT ![p] = Idle] /\ UNCHANGED <<json, tmp, exports, clock>>
      /\ clock' \in Nat
  BY DEF Quit, LeaveAlone, Deleted, Crash, IInv, Types
<1>2. /\ Consistent(Idle, tmp) /\ Idle.session = None
      /\ Holds(Idle) = None /\ Dooms(Idle) = {} /\ Lists(Idle) = {}
  BY IdleIsConsistent DEF Idle, Holds, Dooms, Lists
<1>3. /\ IInv' /\ Saved' = Saved
      /\ Held' = [Held EXCEPT ![p] = None]
      /\ Listed' = [Listed EXCEPT ![p] = {}]
      /\ Doomed' = [Doomed EXCEPT ![p] = {}]
  <2>1. Idle.session # None => \A q \in Procs : q # p => proc[q].session # Idle.session
    BY <1>2
  <2>2. /\ IInv' /\ Saved' = Saved
        /\ Held' = [Held EXCEPT ![p] = Holds(Idle)]
        /\ Listed' = [Listed EXCEPT ![p] = Lists(Idle)]
        /\ Doomed' = [Doomed EXCEPT ![p] = Dooms(Idle)]
    BY <1>1, <1>2, <2>1, ProcStep
  <2> QED
    BY <1>2, <2>2
<1>4. Promise!Close(p)
  BY <1>1, <1>3 DEF Promise!Close
<1> QED
  BY <1>3, <1>4 DEF Simulates, Promise!Next

(* An export of a saved session is one of what the promise holds.          *)
LEMMA ExportStep ==
  ASSUME IInv, NEW s \in Sessions, Export(s)
  PROVE  IInv' /\ Simulates
<1>1. json[s] # None /\ _read(s) = json[s].text /\ _read(s) \in Texts
  BY DEF Export, Readable, _read, IInv, Types, Contents
<1>2. Saved[s] = _read(s) /\ Saved[s] # None /\ _read(s).turns \in Nat
  BY <1>1, StoreConstants DEF Saved, Texts
<1>3. UNCHANGED <<json, tmp, proc, clock>>
      /\ exports' = exports \cup {[session |-> s, turns |-> _read(s).turns]}
  BY DEF Export
<1>4. IInv'
  BY <1>2, <1>3 DEF IInv, Types, Files, Whole, Alone
<1>5. UNCHANGED <<Saved, Held, Listed, Doomed>>
  BY <1>3 DEF Saved, Held, Listed, Doomed
<1>6. Promise!Export(s)
  BY <1>2, <1>3, <1>5 DEF Promise!Export
<1> QED
  BY <1>4, <1>6 DEF Simulates, Promise!Next

(* Who is there is who is saved.                                           *)
LEMMA PresentIsFiles ==
  ASSUME IInv
  PROVE  Promise!Present = Files /\ \A s \in Sessions : json[s] # None => Saved[s] # None
<1>1. \A s \in Sessions : Saved[s] # None <=> json[s] # None
  BY StoreConstants DEF IInv, Types, Contents, Saved
<1> QED
  BY <1>1 DEF Promise!Present, Files

(* The steps that readers do not see and that leave the files alone.       *)
LEMMA QuietStep ==
  ASSUME IInv, NEW p \in Procs,
         \/ ReplaceFails(p) \/ WriteFails(p) \/ Pruned(p) \/ \E s \in Sessions : Stat(p, s)
  PROVE  IInv' /\ Simulates
<1>1. clock \in Nat /\ proc[p] \in States /\ Consistent(proc[p], tmp)
  BY DEF IInv, Types
<1>2. ASSUME NEW x \in States, x.at = "prompt", x.fd = None,
             x.session = proc[p].session, x.ws = proc[p].ws, x.turns = proc[p].turns,
             proc[p].at \in {"open", "fill", "replace", "unlink"},
             proc[p].at = "unlink" => proc[p].names = {},
             proc' = [proc EXCEPT ![p] = x], UNCHANGED <<json, tmp, exports, clock>>
      PROVE  IInv' /\ Simulates
  <2>1. Consistent(x, tmp)
    BY <1>1, <1>2, StoreConstants DEF Consistent
  <2>2. Dooms(x) = Dooms(proc[p]) /\ Lists(x) = Lists(proc[p])
    BY <1>1, <1>2 DEF Dooms, Lists, Consistent
  <2> QED
    BY <1>1, <1>2, <2>1, <2>2, StutterStep
<1>3. proc[p].at # "fill" => proc[p].fd = None
  BY <1>1, StoreConstants DEF Consistent, States
<1>4. CASE ReplaceFails(p) \/ Pruned(p)
  <2> DEFINE x == [proc[p] EXCEPT !.at = "prompt"]
  <2>1. /\ x \in States /\ x.at = "prompt" /\ x.fd = None
        /\ x.session = proc[p].session /\ x.ws = proc[p].ws /\ x.turns = proc[p].turns
    BY <1>1, <1>3, <1>4 DEF States, Labels, ReplaceFails, Pruned, At
  <2>2. proc' = [proc EXCEPT ![p] = x]
    BY <1>4 DEF ReplaceFails, Pruned, Goto
  <2> HIDE DEF x
  <2> QED
    BY <1>2, <1>4, <2>1, <2>2 DEF ReplaceFails, Pruned, At
<1>5. CASE WriteFails(p)
  <2> DEFINE x == [proc[p] EXCEPT !.at = "prompt", !.fd = None, !.updated = 0]
  <2>1. /\ x \in States /\ x.at = "prompt" /\ x.fd = None
        /\ x.session = proc[p].session /\ x.ws = proc[p].ws /\ x.turns = proc[p].turns
    BY <1>1, <1>3, <1>5 DEF States, Labels, WriteFails
  <2>2. proc' = [proc EXCEPT ![p] = x]
    BY <1>5 DEF WriteFails
  <2> HIDE DEF x
  <2> QED
    BY <1>2, <1>5, <2>1, <2>2 DEF WriteFails
<1>6. ASSUME NEW s \in Sessions, Stat(p, s)
      PROVE  IInv' /\ Simulates
  <2>1. UNCHANGED <<json, tmp, proc, exports, clock>>
    BY <1>6 DEF Stat
  <2>2. IInv'
    BY <2>1 DEF IInv, Types, Files, Whole, Alone
  <2>3. UNCHANGED <<Saved, Held, Listed, Doomed, exports>>
    BY <2>1 DEF Saved, Held, Listed, Doomed
  <2> QED
    BY <2>2, <2>3 DEF Simulates, Promise!absVars
<1> QED
  BY <1>4, <1>5, <1>6

(* A process lists what there is, or what the user wants to delete.        *)
LEMMA ListStep ==
  ASSUME IInv, NEW p \in Procs, Glob(p) \/ \E shown \in SUBSET Readable : Show(p, shown)
  PROVE  IInv' /\ Simulates
<1>1. /\ clock \in Nat /\ proc[p] \in States /\ Consistent(proc[p], tmp) /\ IsFiniteSet(Files)
      /\ Files \in SUBSET Sessions /\ Readable \in SUBSET Files
  BY DEF IInv, Types, Files, Readable, _read
<1>2. ASSUME NEW x \in States, x.fd = None, x.names \in SUBSET Files,
             x.session = proc[p].session, x.ws = proc[p].ws, x.turns = proc[p].turns,
             \/ proc[p].at = "glob" /\ x.at = "rank" /\ x.names = Files
             \/ proc[p].at = "idle" /\ x.at = "confirm",
             proc' = [proc EXCEPT ![p] = x], UNCHANGED <<json, tmp, exports, clock>>
      PROVE  IInv' /\ Simulates
  <2>1. Consistent(x, tmp)
    BY <1>1, <1>2, StoreConstants DEF Consistent
  <2>2. Lists(x) = x.names /\ Dooms(x) = {} /\ Dooms(proc[p]) = {}
    BY <1>2 DEF Lists, Dooms
  <2>3. /\ IInv' /\ UNCHANGED <<Saved, Held, exports>>
        /\ Listed' = [Listed EXCEPT ![p] = Lists(x)]
        /\ Doomed' = [Doomed EXCEPT ![p] = Dooms(x)]
        /\ Doomed[p] = Dooms(proc[p])
        /\ Held[p] = None <=> x.session = None
    BY <1>1, <1>2, <2>1, PlanStep
  <2>4. Doomed' = Doomed
    BY <2>2, <2>3 DEF Doomed
  <2>5. IF Held[p] # None THEN x.names = Promise!Present ELSE x.names \subseteq Promise!Present
    BY <1>2, <2>1, <2>3, PresentIsFiles DEF Consistent
  <2>6. Promise!List(p, x.names)
    BY <2>2, <2>3, <2>4, <2>5 DEF Promise!List
  <2>7. x.names \in SUBSET Sessions
    BY <1>1, <1>2
  <2> QED
    BY <2>3, <2>6, <2>7 DEF Simulates, Promise!Next
<1>3. proc[p].at \in {"glob", "idle"} => proc[p].fd = None
  BY <1>1, StoreConstants DEF Consistent, States
<1>4. CASE Glob(p)
  <2> DEFINE x == [proc[p] EXCEPT !.at = "rank", !.names = Files]
  <2>1. /\ x \in States /\ x.at = "rank" /\ x.fd = None /\ x.names = Files
        /\ x.session = proc[p].session /\ x.ws = proc[p].ws /\ x.turns = proc[p].turns
    BY <1>1, <1>3, <1>4 DEF States, Labels, Glob, At
  <2>2. proc' = [proc EXCEPT ![p] = x]
    BY <1>4 DEF Glob, Files
  <2> HIDE DEF x
  <2> QED
    BY <1>2, <1>4, <2>1, <2>2 DEF Glob, At
<1>5. ASSUME NEW shown \in SUBSET Readable, Show(p, shown)
      PROVE  IInv' /\ Simulates
  <2> DEFINE x == [proc[p] EXCEPT !.at = "confirm", !.names = shown]
  <2>1. /\ x \in States /\ x.at = "confirm" /\ x.fd = None /\ x.names \in SUBSET Files
        /\ x.session = proc[p].session /\ x.ws = proc[p].ws /\ x.turns = proc[p].turns
    BY <1>1, <1>3, <1>5 DEF States, Labels, Show, At
  <2>2. proc' = [proc EXCEPT ![p] = x]
    BY <1>5 DEF Show
  <2> HIDE DEF x
  <2> QED
    BY <1>2, <1>5, <2>1, <2>2 DEF Show, At
<1> QED
  BY <1>4, <1>5

(* A call fails that would have told a time or removed a file.             *)
LEMMA SpareStep ==
  ASSUME IInv, NEW p \in Procs,
         UnlinkFails(p) \/ \E s \in Sessions : StatFails(p, s) \/ DeleteFails(p, s)
  PROVE  IInv' /\ Simulates
<1>1. clock \in Nat /\ proc[p] \in States /\ Consistent(proc[p], tmp)
  BY DEF IInv, Types
<1>2. ASSUME NEW x \in States, x.fd = proc[p].fd, x.names \subseteq proc[p].names,
             x.session = proc[p].session, x.ws = proc[p].ws, x.turns = proc[p].turns,
             \/ proc[p].at \in {"rank", "unlink"} /\ x.at = "prompt"
             \/ proc[p].at = "delete" /\ x.at = "delete",
             proc' = [proc EXCEPT ![p] = x], UNCHANGED <<json, tmp, exports, clock>>
      PROVE  IInv' /\ Simulates
  <2>1. Consistent(x, tmp)
    BY <1>1, <1>2, StoreConstants DEF Consistent
  <2>2. Lists(x) = {} /\ Dooms(x) \subseteq Dooms(proc[p]) /\ Dooms(x) \in SUBSET Sessions
    BY <1>1, <1>2 DEF Lists, Dooms, States
  <2>3. /\ IInv' /\ UNCHANGED <<Saved, Held, exports>>
        /\ Listed' = [Listed EXCEPT ![p] = Lists(x)]
        /\ Doomed' = [Doomed EXCEPT ![p] = Dooms(x)]
        /\ Doomed[p] = Dooms(proc[p])
    BY <1>1, <1>2, <2>1, PlanStep
  <2>4. Promise!Spare(p, Dooms(x))
    BY <2>2, <2>3 DEF Promise!Spare
  <2> QED
    BY <2>2, <2>3, <2>4 DEF Simulates, Promise!Next
<1>3. CASE UnlinkFails(p) \/ \E s \in Sessions : StatFails(p, s)
  <2> DEFINE x == [proc[p] EXCEPT !.at = "prompt", !.names = {}]
  <2>1. /\ x \in States /\ x.at = "prompt" /\ x.fd = proc[p].fd /\ x.names = {}
        /\ x.session = proc[p].session /\ x.ws = proc[p].ws /\ x.turns = proc[p].turns
    BY <1>1 DEF States, Labels
  <2>2. /\ proc' = [proc EXCEPT ![p] = x] /\ proc[p].at \in {"rank", "unlink"}
        /\ UNCHANGED <<json, tmp, exports, clock>>
    BY <1>3 DEF UnlinkFails, StatFails, At
  <2> HIDE DEF x
  <2> QED
    BY <1>2, <2>1, <2>2
<1>4. ASSUME NEW s \in Sessions, DeleteFails(p, s)
      PROVE  IInv' /\ Simulates
  <2> DEFINE x == [proc[p] EXCEPT !.names = proc[p].names \ {s}]
  <2>1. /\ x \in States /\ x.at = proc[p].at /\ x.fd = proc[p].fd /\ x.names \subseteq proc[p].names
        /\ x.session = proc[p].session /\ x.ws = proc[p].ws /\ x.turns = proc[p].turns
    BY <1>1 DEF States, Labels
  <2>2. /\ proc' = [proc EXCEPT ![p] = x] /\ proc[p].at = "delete"
        /\ UNCHANGED <<json, tmp, exports, clock>>
    BY <1>4 DEF DeleteFails, At
  <2> HIDE DEF x
  <2> QED
    BY <1>2, <2>1, <2>2
<1> QED
  BY <1>3, <1>4

(* A turn is taken.                                                        *)
LEMMA AskStep ==
  ASSUME IInv, NEW p \in Procs, Ask(p)
  PROVE  IInv' /\ Simulates
<1> DEFINE n == proc[p].turns + 1
           now == clock + 1
           x == [proc[p] EXCEPT !.at = "open", !.turns = n, !.updated = now]
<1>1. proc[p] \in States /\ Consistent(proc[p], tmp) /\ n \in Nat /\ now \in Nat
  BY DEF IInv, Types, States
<1>2. /\ proc' = [proc EXCEPT ![p] = x] /\ proc[p].at = "prompt"
      /\ UNCHANGED <<json, tmp, exports>> /\ clock' \in Nat
  BY <1>1 DEF Ask, At
<1> HIDE DEF n, now
<1>3. /\ x \in States /\ x.at = "open" /\ x.turns = n
      /\ x.session = proc[p].session /\ x.ws = proc[p].ws /\ x.fd = proc[p].fd
  BY <1>1 DEF States, Labels
<1> HIDE DEF x
<1>4. Consistent(x, tmp) /\ x.session # None
  BY <1>1, <1>2, <1>3 DEF Consistent
<1>5. \A q \in Procs : q # p => proc[q].session # x.session
  BY <1>3, <1>4 DEF IInv, Alone
<1>6. /\ IInv' /\ Saved' = Saved
      /\ Held' = [Held EXCEPT ![p] = Holds(x)]
      /\ Listed' = [Listed EXCEPT ![p] = Lists(x)]
      /\ Doomed' = [Doomed EXCEPT ![p] = Dooms(x)]
  BY <1>2, <1>4, <1>5, ProcStep
<1>7. Dooms(x) = {} /\ Doomed[p] = {} /\ Lists(x) = {} /\ Listed[p] = {}
  BY <1>2, <1>3 DEF Dooms, Doomed, Lists, Listed
<1>8. Doomed' = Doomed /\ Listed' = Listed
  BY <1>6, <1>7 DEF Doomed, Listed
<1>9. Held[p] = [session |-> x.session, text |-> [ws |-> x.ws, turns |-> proc[p].turns]]
      /\ Holds(x) = [session |-> x.session, text |-> [ws |-> x.ws, turns |-> n]]
  BY <1>3, <1>4 DEF Held, Holds
<1>10. Held[p] # None
  BY <1>1, <1>3, <1>4, <1>9, StoreConstants DEF Consistent, States, Texts
<1>11. Holds(x) = [Held[p] EXCEPT !.text = [Held[p].text EXCEPT !.turns = n]]
  BY <1>9
<1>12. [Held EXCEPT ![p] = Holds(x)] = [Held EXCEPT ![p].text.turns = n]
  BY <1>11
<1>13. n = Held[p].text.turns + 1
  BY <1>9 DEF n
<1>14. Promise!Turn(p)
  BY <1>2, <1>6, <1>8, <1>10, <1>12, <1>13 DEF Promise!Turn
<1> QED
  BY <1>6, <1>14 DEF Simulates, Promise!Next

(* The oldest are chosen to go, or a deletion is confirmed.                *)
LEMMA DoomStep ==
  ASSUME IInv, NEW p \in Procs,
         Confirm(p) \/ \E gone \in SUBSET Sessions : Rank(p, gone)
  PROVE  IInv' /\ Simulates
<1>1. proc[p] \in States /\ Consistent(proc[p], tmp) /\ clock \in Nat
  BY DEF IInv, Types
<1>2. ASSUME NEW x \in States, x.session = proc[p].session, x.ws = proc[p].ws,
             x.turns = proc[p].turns, x.fd = proc[p].fd,
             \/ proc[p].at = "confirm" /\ x.at = "delete"
             \/ proc[p].at = "rank" /\ x.at = "unlink",
             proc' = [proc EXCEPT ![p] = x], UNCHANGED <<json, tmp, exports, clock>>
      PROVE  /\ IInv' /\ UNCHANGED <<Saved, Held, exports>>
             /\ Listed' = [Listed EXCEPT ![p] = {}] /\ Listed[p] = proc[p].names
             /\ Doomed' = [Doomed EXCEPT ![p] = x.names] /\ Doomed[p] = {}
             /\ Held[p] = None <=> x.at = "delete"
  <2>1. Consistent(x, tmp)
    BY <1>1, <1>2 DEF Consistent
  <2>2. /\ IInv' /\ UNCHANGED <<Saved, Held, exports>>
        /\ Listed' = [Listed EXCEPT ![p] = Lists(x)]
        /\ Doomed' = [Doomed EXCEPT ![p] = Dooms(x)]
        /\ Listed[p] = Lists(proc[p]) /\ Doomed[p] = Dooms(proc[p])
        /\ Held[p] = None <=> x.session = None
    BY <1>1, <1>2, <2>1, PlanStep
  <2>3. /\ Dooms(x) = x.names /\ Dooms(proc[p]) = {}
        /\ Lists(x) = {} /\ Lists(proc[p]) = proc[p].names
    BY <1>2 DEF Dooms, Lists
  <2>4. x.session = None <=> x.at = "delete"
    BY <1>2, <2>1 DEF Consistent
  <2> QED
    BY <2>2, <2>3, <2>4
<1>3. CASE Confirm(p)
  <2> DEFINE x == [proc[p] EXCEPT !.at = "delete"]
  <2>1. /\ x \in States /\ x.at = "delete" /\ x.session = proc[p].session /\ x.ws = proc[p].ws
        /\ x.turns = proc[p].turns /\ x.fd = proc[p].fd /\ x.names = proc[p].names
    BY <1>1 DEF States, Labels
  <2>2. proc' = [proc EXCEPT ![p] = x] /\ UNCHANGED <<json, tmp, exports, clock>>
        /\ proc[p].at = "confirm"
    BY <1>3 DEF Confirm, Goto, At
  <2> HIDE DEF x
  <2>3. /\ IInv' /\ UNCHANGED <<Saved, Held, exports>>
        /\ Listed' = [Listed EXCEPT ![p] = {}] /\ Listed[p] = proc[p].names
        /\ Doomed' = [Doomed EXCEPT ![p] = x.names] /\ Held[p] = None
    BY <1>2, <2>1, <2>2
  <2>4. Promise!Confirm(p)
    BY <2>1, <2>3 DEF Promise!Confirm
  <2> QED
    BY <2>3, <2>4 DEF Simulates, Promise!Next
<1>4. ASSUME NEW gone \in SUBSET Sessions, Rank(p, gone)
      PROVE  IInv' /\ Simulates
  <2> DEFINE x == [proc[p] EXCEPT !.at = "unlink", !.names = gone]
             names == proc[p].names
  <2>1. /\ x \in States /\ x.at = "unlink" /\ x.session = proc[p].session /\ x.ws = proc[p].ws
        /\ x.turns = proc[p].turns /\ x.fd = proc[p].fd /\ x.names = gone
    BY <1>1 DEF States, Labels
  <2>2. proc' = [proc EXCEPT ![p] = x] /\ UNCHANGED <<json, tmp, exports, clock>>
        /\ proc[p].at = "rank"
    BY <1>4 DEF Rank, At
  <2> HIDE DEF x
  <2>3. /\ IInv' /\ UNCHANGED <<Saved, Held, exports>>
        /\ Listed' = [Listed EXCEPT ![p] = {}] /\ Listed[p] = names
        /\ Doomed' = [Doomed EXCEPT ![p] = gone] /\ Doomed[p] = {} /\ Held[p] # None
    BY <1>2, <2>1, <2>2
  <2>4. gone \subseteq names /\ IsFiniteSet(names)
    BY <1>1, <1>4, <2>2 DEF Rank, Stale, Consistent
  <2>5. CASE Cardinality(names) < Keep
    <3>1. Cardinality(names \ gone) = Cardinality(names)
      BY <1>4, <2>5 DEF Rank, Stale
    <3>2. names \ gone = names
      BY <2>4, <3>1, FS_Subset
    <3>3. gone = {}
      BY <2>4, <3>2
    <3>4. Promise!Spare(p, gone)
      BY <2>3, <3>3 DEF Promise!Spare
    <3> QED
      BY <2>3, <3>4 DEF Simulates, Promise!Next
  <2>6. CASE ~(Cardinality(names) < Keep)
    <3>1. Cardinality(Listed[p] \ gone) = Keep
      BY <1>4, <2>3, <2>6 DEF Rank, Stale
    <3>2. Cardinality(Listed[p] \ gone) >= Keep
      BY <3>1, StoreConstants
    <3>3. Promise!Prune(p, gone)
      BY <2>3, <2>4, <3>2 DEF Promise!Prune, Cardinality, Promise!Cardinality
    <3> QED
      BY <2>3, <3>3 DEF Simulates, Promise!Next
  <2> QED
    BY <2>5, <2>6
<1> QED
  BY <1>3, <1>4

(* A process works on the temporary file of its session, which is nobody   *)
(* else's, and perhaps on the session's file.                              *)
LEMMA OwnFileStep ==
  ASSUME IInv, NEW p \in Procs, NEW x, NEW s \in Sessions, NEW f \in Contents \cup {None},
         proc[p].session = s, x.session = s,
         proc' = [proc EXCEPT ![p] = x],
         tmp' = [tmp EXCEPT ![s] = f], Consistent(x, tmp'),
         \/ json' = json
         \/ \E g \in Contents : g.text # Torn /\ json' = [json EXCEPT ![s] = g],
         exports' = exports, clock' \in Nat
  PROVE  IInv'
<1>1. \A q \in Procs : proc'[q] = IF q = p THEN x ELSE proc[q]
  BY DEF IInv, Types
<1>2. s # None /\ proc \in [Procs -> States] /\ x \in States
  BY StoreConstants DEF IInv, Types, Consistent
<1>3. Alone'
  BY <1>1, <1>2 DEF IInv, Alone
<1>4. \A q \in Procs : Consistent(proc[q], tmp)'
  <2>1. Consistent(proc[p], tmp)'
    BY <1>1
  <2>2. ASSUME NEW q \in Procs, q # p
        PROVE  Consistent(proc[q], tmp)'
    <3>1. proc'[q] = proc[q] /\ Consistent(proc[q], tmp) /\ proc[q].session # s
      BY <1>1, <1>2, <2>2 DEF IInv, Alone
    <3>2. proc[q].session \in Sessions => tmp'[proc[q].session] = tmp[proc[q].session]
      BY <3>1 DEF IInv, Types
    <3>3. proc[q].at \in {"fill", "replace"} => proc[q].session \in Sessions
      BY <3>1 DEF Consistent, States
    <3> QED
      BY <3>1, <3>2, <3>3 DEF Consistent
  <2> QED
    BY <2>1, <2>2
<1>5. proc' \in [Procs -> States] /\ tmp' \in [Sessions -> Contents \cup {None}]
  BY <1>2 DEF IInv, Types
<1>6. /\ json' \in [Sessions -> Contents \cup {None}] /\ Whole' /\ Files' \subseteq Files \cup {s}
  BY DEF IInv, Types, Whole, Files
<1>7. IsFiniteSet(Files')
  <2>1. IsFiniteSet(Files \cup {s})
    BY FS_AddElement DEF IInv
  <2> QED
    BY <1>6, <2>1, FS_Subset
<1> QED
  BY <1>3, <1>4, <1>5, <1>6, <1>7 DEF IInv, Types

(* Nothing of the promise changes while the temporary file is written.     *)
LEMMA WriteStep ==
  ASSUME IInv, NEW p \in Procs, OpenTmp(p) \/ \E shorter \in BOOLEAN : Fill(p, shorter)
  PROVE  IInv' /\ Simulates
<1> DEFINE s == proc[p].session
<1>1. proc[p] \in States /\ Consistent(proc[p], tmp) /\ clock \in Nat /\ proc \in [Procs -> States]
      /\ tmp \in [Sessions -> Contents \cup {None}]
  BY DEF IInv, Types
<1>2. s \in Sessions /\ proc[p].ws \in Workspaces
  BY <1>1 DEF OpenTmp, Fill, At, Consistent, States
<1>3. ASSUME NEW x \in States, NEW f \in Contents,
             x.session = s, x.ws = proc[p].ws, x.turns = proc[p].turns,
             proc[p].at \in {"open", "fill"}, x.at \in {"fill", "replace"},
             x.fd = "tmp" <=> x.at = "fill",
             f.text = IF x.at = "fill" THEN Torn ELSE [ws |-> x.ws, turns |-> x.turns],
             proc' = [proc EXCEPT ![p] = x], tmp' = [tmp EXCEPT ![s] = f],
             UNCHANGED <<json, exports>>, clock' \in Nat
      PROVE  IInv' /\ Simulates
  <2>1. tmp'[s] = f /\ f # None
    BY <1>1, <1>2, <1>3, StoreConstants
  <2>2. Consistent(x, tmp')
    BY <1>2, <1>3, <2>1, StoreConstants DEF Consistent
  <2>3. IInv'
    BY <1>2, <1>3, <2>2, OwnFileStep
  <2>4. Saved' = Saved
    BY <1>3 DEF Saved
  <2>5. Holds(x) = Holds(proc[p]) /\ Dooms(x) = Dooms(proc[p]) /\ Lists(x) = Lists(proc[p])
    BY <1>3 DEF Holds, Dooms, Lists
  <2>6. \A q \in Procs : proc'[q] = IF q = p THEN x ELSE proc[q]
    BY <1>1, <1>3
  <2>7. [q \in Procs |-> Holds(proc'[q])] = [q \in Procs |-> Holds(proc[q])]
        /\ [q \in Procs |-> Dooms(proc'[q])] = [q \in Procs |-> Dooms(proc[q])]
        /\ [q \in Procs |-> Lists(proc'[q])] = [q \in Procs |-> Lists(proc[q])]
    BY <2>5, <2>6
  <2>8. Held' = Held /\ Doomed' = Doomed /\ Listed' = Listed
    BY <2>7 DEF Held, Doomed, Listed
  <2> QED
    BY <1>3, <2>3, <2>4, <2>8 DEF Simulates, Promise!absVars
<1>4. CASE OpenTmp(p)
  <2> DEFINE x == [proc[p] EXCEPT !.at = "fill", !.fd = "tmp"]
             f == [text |-> Torn, updated |-> 0, mtime |-> clock]
  <2>1. /\ x \in States /\ x.at = "fill" /\ x.fd = "tmp" /\ x.session = s
        /\ x.ws = proc[p].ws /\ x.turns = proc[p].turns
    BY <1>1 DEF States, Labels
  <2>2. f \in Contents /\ f.text = Torn
    BY <1>1 DEF Contents
  <2>3. /\ proc' = [proc EXCEPT ![p] = x] /\ tmp' = [tmp EXCEPT ![s] = f]
        /\ UNCHANGED <<json, exports, clock>> /\ proc[p].at = "open"
    BY <1>4 DEF OpenTmp, At
  <2> HIDE DEF x, f, s
  <2> QED
    BY <1>1, <1>3, <2>1, <2>2, <2>3
<1>5. ASSUME NEW shorter \in BOOLEAN, Fill(p, shorter)
      PROVE  IInv' /\ Simulates
  <2> DEFINE x == [proc[p] EXCEPT !.at = "replace", !.fd = None, !.updated = 0]
             f == Filled(p, tmp[s], shorter)
  <2>1. /\ x \in States /\ x.at = "replace" /\ x.fd = None /\ x.session = s
        /\ x.ws = proc[p].ws /\ x.turns = proc[p].turns
    BY <1>1 DEF States, Labels
  <2>2. proc[p].at = "fill" /\ proc[p].fd = "tmp" /\ tmp[s].text = Torn
    BY <1>1, <1>5 DEF Fill, At, Consistent
  <2>3. f = [text |-> Transcript(p), updated |-> proc[p].updated, mtime |-> clock + 1]
    BY <2>2 DEF Filled
  <2>4. f \in Contents /\ f.text = [ws |-> proc[p].ws, turns |-> proc[p].turns]
    <3>1. proc[p].updated \in Nat /\ clock + 1 \in Nat
      BY <1>1 DEF States
    <3>2. Transcript(p) = [ws |-> proc[p].ws, turns |-> proc[p].turns] /\ Transcript(p) \in Texts
      BY <1>1, <1>2 DEF Texts, Transcript, States
    <3> QED
      BY <2>3, <3>1, <3>2 DEF Contents
  <2>5. proc' = [proc EXCEPT ![p] = x] /\ exports' = exports /\ clock' \in Nat
    <3>1. clock' = clock + 1 /\ exports' = exports
      BY <1>5 DEF Fill
    <3>2. proc' = [proc EXCEPT ![p] = x]
      BY <1>5 DEF Fill
    <3> QED
      BY <1>1, <3>1, <3>2
  <2>6. tmp' = [tmp EXCEPT ![s] = f] /\ json' = json
    BY <1>5, <2>2, StoreConstants DEF Fill
  <2>7. None # "tmp"
    BY StoreConstants
  <2> HIDE DEF x, f, s
  <2> QED
    BY <1>3, <2>1, <2>2, <2>4, <2>5, <2>6, <2>7
<1> QED
  BY <1>4, <1>5

(* temporary.replace(path) puts the whole transcript in place.             *)
LEMMA ReplaceStep ==
  ASSUME IInv, NEW p \in Procs, Replace(p)
  PROVE  IInv' /\ Simulates
<1> DEFINE s == proc[p].session
           x == [proc[p] EXCEPT !.at = "glob"]
           text == [ws |-> proc[p].ws, turns |-> proc[p].turns]
<1>1. /\ proc[p] \in States /\ Consistent(proc[p], tmp) /\ clock \in Nat
      /\ proc \in [Procs -> States] /\ tmp \in [Sessions -> Contents \cup {None}]
      /\ json \in [Sessions -> Contents \cup {None}]
  BY DEF IInv, Types
<1>2. proc[p].at = "replace" /\ tmp[s] # None /\ s \in Sessions /\ s # None
  BY <1>1, StoreConstants DEF Replace, At, Consistent, States
<1>3. tmp[s] \in Contents /\ tmp[s].text = text
  BY <1>1, <1>2 DEF Consistent
<1>4. text \in Texts /\ text # Torn /\ text # None
  BY <1>1, <1>2, StoreConstants DEF Consistent, Texts, Torn, States
<1>5. /\ x \in States /\ x.at = "glob" /\ x.session = s /\ x.ws = proc[p].ws
      /\ x.turns = proc[p].turns /\ x.fd = proc[p].fd
  BY <1>1 DEF States, Labels
(* Nobody else has the file open.                                          *)
<1>6. proc' = [proc EXCEPT ![p] = x]
  <2>1. proc[p].fd \notin {"tmp", "json"}
    BY <1>1, <1>2, StoreConstants DEF Consistent, States
  <2>2. \A q \in Procs : q # p => proc[q].session # s
    BY <1>2 DEF IInv, Alone
  <2>3. proc' = [q \in Procs |-> [proc[q] EXCEPT
                    !.at = IF q = p THEN "glob" ELSE proc[q].at,
                    !.fd = IF proc[q].session # s THEN proc[q].fd
                           ELSE IF proc[q].fd = "json" THEN "gone"
                           ELSE IF proc[q].fd = "tmp" THEN "json" ELSE proc[q].fd]]
    BY <1>1 DEF Replace, States
  <2>4. ASSUME NEW q \in Procs, q # p
        PROVE  proc'[q] = proc[q]
    BY <1>1, <2>2, <2>3, <2>4 DEF States
  <2>5. proc'[p] = x
    BY <1>1, <2>1, <2>3 DEF States
  <2> HIDE DEF x
  <2>6. proc' = [q \in Procs |-> proc'[q]] /\ \A q \in Procs : proc'[q] = IF q = p THEN x ELSE proc[q]
    BY <2>3, <2>4, <2>5
  <2> QED
    BY <1>1, <2>6
<1>7. /\ json' = [json EXCEPT ![s] = tmp[s]] /\ tmp' = [tmp EXCEPT ![s] = None]
      /\ exports' = exports /\ clock' \in Nat
  BY <1>1 DEF Replace
<1> HIDE DEF x, s, text
<1>8. Consistent(x, tmp')
  BY <1>1, <1>2, <1>5, StoreConstants DEF Consistent, s
<1>9. IInv'
  BY <1>2, <1>3, <1>4, <1>5, <1>6, <1>7, <1>8, OwnFileStep DEF s
<1>10. Held[p] = [session |-> s, text |-> text] /\ Held[p] # None
  <2>1. Held[p] = [session |-> s, text |-> text]
    BY <1>2 DEF Held, Holds, s, text
  <2>2. [session |-> s, text |-> text] \in [session : Sessions, text : Texts]
    BY <1>2, <1>4
  <2> QED
    BY <2>1, <2>2, StoreConstants
<1>11. Saved' = [Saved EXCEPT ![s] = text]
  <2>1. \A r \in Sessions : json'[r] = IF r = s THEN tmp[s] ELSE json[r]
    BY <1>1, <1>7
  <2> QED
    BY <1>2, <1>3, <1>4, <2>1 DEF Saved
<1>12. Held' = Held /\ Doomed' = Doomed /\ Listed' = Listed
  <2>1. Holds(x) = Holds(proc[p]) /\ Dooms(x) = Dooms(proc[p]) /\ Lists(x) = Lists(proc[p])
    BY <1>2, <1>5 DEF Holds, Dooms, Lists, s
  <2>2. \A q \in Procs : proc'[q] = IF q = p THEN x ELSE proc[q]
    BY <1>1, <1>6
  <2>3. [q \in Procs |-> Holds(proc'[q])] = [q \in Procs |-> Holds(proc[q])]
        /\ [q \in Procs |-> Dooms(proc'[q])] = [q \in Procs |-> Dooms(proc[q])]
        /\ [q \in Procs |-> Lists(proc'[q])] = [q \in Procs |-> Lists(proc[q])]
    BY <2>1, <2>2
  <2> QED
    BY <2>3 DEF Held, Doomed, Listed
<1>13. Promise!Put(p)
  BY <1>7, <1>10, <1>11, <1>12 DEF Promise!Put
<1> QED
  BY <1>9, <1>13 DEF Simulates, Promise!Next

(* A file is unlinked that was chosen before.                              *)
LEMMA UnlinkStep ==
  ASSUME IInv, NEW p \in Procs, NEW s \in Sessions, Unlink(p, s) \/ delete(p, s)
  PROVE  IInv' /\ Simulates
<1> DEFINE x == [proc[p] EXCEPT !.names = proc[p].names \ {s}]
<1>1. /\ proc[p] \in States /\ Consistent(proc[p], tmp) /\ clock \in Nat
      /\ proc \in [Procs -> States] /\ json \in [Sessions -> Contents \cup {None}]
  BY DEF IInv, Types
<1>2. proc[p].at \in {"unlink", "delete"} /\ s \in proc[p].names
  BY DEF Unlink, delete, At
<1>3. /\ x \in States /\ x.at = proc[p].at /\ x.session = proc[p].session /\ x.ws = proc[p].ws
      /\ x.turns = proc[p].turns /\ x.fd = proc[p].fd /\ x.names = proc[p].names \ {s}
  BY <1>1 DEF States
<1>4. proc' = [proc EXCEPT ![p] = x]
  <2>1. \A q \in Procs : proc[q].fd # "json"
    BY <1>1, StoreConstants DEF States
  <2>2. proc' = [q \in Procs |-> [proc[q] EXCEPT
                   !.names = IF q = p THEN proc[q].names \ {s} ELSE proc[q].names,
                   !.fd = IF proc[q].session = s /\ proc[q].fd = "json" THEN "gone" ELSE proc[q].fd]]
    BY <1>1 DEF Unlink, delete, Unlinked, States
  <2>3. ASSUME NEW q \in Procs, q # p
        PROVE  proc'[q] = proc[q]
    BY <1>1, <2>1, <2>2, <2>3 DEF States
  <2>4. proc'[p] = x
    BY <1>1, <2>1, <2>2 DEF States
  <2> HIDE DEF x
  <2>5. proc' = [q \in Procs |-> proc'[q]] /\ \A q \in Procs : proc'[q] = IF q = p THEN x ELSE proc[q]
    BY <2>2, <2>3, <2>4
  <2> QED
    BY <1>1, <2>5
<1>5. json' = [json EXCEPT ![s] = None] /\ UNCHANGED <<tmp, exports, clock>>
  BY DEF Unlink, delete, Unlinked
<1> HIDE DEF x
<1>6. \A q \in Procs : proc'[q] = IF q = p THEN x ELSE proc[q]
  BY <1>1, <1>4
<1>7. Consistent(x, tmp)
  BY <1>1, <1>2, <1>3 DEF Consistent
<1>8. Alone' /\ \A q \in Procs : Consistent(proc[q], tmp)'
  BY <1>3, <1>5, <1>6, <1>7 DEF IInv, Alone
<1>9. Types' /\ Whole' /\ Files' \subseteq Files
  BY <1>3, <1>4, <1>5 DEF IInv, Types, Whole, Files
<1>10. IsFiniteSet(Files')
  BY <1>9, FS_Subset DEF IInv
<1>11. IInv'
  BY <1>8, <1>9, <1>10 DEF IInv
<1>12. Saved' = [Saved EXCEPT ![s] = None]
  BY <1>1, <1>5 DEF Saved
<1>13. Held' = Held /\ Listed' = Listed
  <2>1. Holds(x) = Holds(proc[p]) /\ Lists(x) = Lists(proc[p])
    BY <1>2, <1>3 DEF Holds, Lists
  <2>2. /\ [q \in Procs |-> Holds(proc'[q])] = [q \in Procs |-> Holds(proc[q])]
        /\ [q \in Procs |-> Lists(proc'[q])] = [q \in Procs |-> Lists(proc[q])]
    BY <1>6, <2>1
  <2> QED
    BY <2>2 DEF Held, Listed
<1>14. Doomed' = [Doomed EXCEPT ![p] = Doomed[p] \ {s}] /\ s \in Doomed[p]
  <2>1. Dooms(x) = Dooms(proc[p]) \ {s} /\ s \in Dooms(proc[p])
    BY <1>2, <1>3 DEF Dooms
  <2>2. Doomed = [q \in Procs |-> Dooms(proc[q])] /\ Doomed' = [q \in Procs |-> Dooms(proc'[q])]
    BY DEF Doomed
  <2>3. [q \in Procs |-> Dooms(proc'[q])] = [Doomed EXCEPT ![p] = Doomed[p] \ {s}]
    BY <1>6, <2>1, <2>2
  <2> QED
    BY <2>1, <2>2, <2>3
<1>15. Promise!Drop(p, s)
  BY <1>5, <1>12, <1>13, <1>14 DEF Promise!Drop
<1> QED
  BY <1>11, <1>15 DEF Simulates, Promise!Next

-----------------------------------------------------------------------------
(* Every step keeps the invariant and is one of the promise.               *)
LEMMA NextSimulates ==
  ASSUME Shared = FALSE, IInv, [Next]_vars
  PROVE  IInv' /\ Simulates
<1>1. CASE UNCHANGED vars
  <2>1. UNCHANGED <<json, tmp, proc, exports, clock>>
    BY <1>1 DEF vars
  <2>2. IInv'
    BY <2>1 DEF IInv, Types, Files, Whole, Alone
  <2>3. UNCHANGED <<Saved, Held, Listed, Doomed, exports>>
    BY <2>1 DEF Saved, Held, Listed, Doomed
  <2> QED
    BY <2>2, <2>3 DEF Simulates, Promise!absVars
<1>2. ASSUME NEW p \in Procs, NEW s \in Sessions, NEW ws \in Workspaces,
             New(p, s, ws) \/ Resume(p, s, ws)
      PROVE  IInv' /\ Simulates
  BY <1>2, BeginStep
<1>3. ASSUME NEW p \in Procs, NEW e \in exports, NEW ws \in Workspaces, Import(p, e, ws)
      PROVE  IInv' /\ Simulates
  BY <1>3, BeginStep
<1>4. ASSUME NEW p \in Procs, Save(p)
      PROVE  IInv' /\ Simulates
  BY <1>4, AskStep, WriteStep, ReplaceStep, QuietStep, ListStep, SpareStep, DoomStep,
     UnlinkStep DEF Save
<1>5. ASSUME NEW p \in Procs, Delete(p)
      PROVE  IInv' /\ Simulates
  <2>1. /\ \A ws \in Workspaces : listing(ws) \in SUBSET Readable
        /\ \A s \in Readable : {s} \in SUBSET Readable
    BY DEF listing
  <2> QED
    BY <1>5, <2>1, ListStep, SpareStep, DoomStep, UnlinkStep, EndStep
       DEF Delete, DeleteAll, DeleteNamed
<1>6. ASSUME NEW p \in Procs, Quit(p) \/ Crash(p)
      PROVE  IInv' /\ Simulates
  BY <1>6, EndStep
<1> QED
  BY <1>1, <1>2, <1>3, <1>4, <1>5, <1>6, ExportStep DEF Next

(* SessionStore keeps its promise: the store of files refines the store of *)
(* SavedSessions, if a session is open in one process at a time.           *)
THEOREM Refinement == Shared = FALSE => (Spec => KeepsItsPromise)
<1> SUFFICES ASSUME Shared = FALSE PROVE Spec => KeepsItsPromise
  OBVIOUS
<1>1. Init => IInv /\ Promise!Init
  BY InitIInv
<1>2. IInv /\ [Next]_vars => IInv' /\ [Promise!Next]_(Promise!absVars)
  BY NextSimulates DEF Simulates
<1> QED
  BY <1>1, <1>2, PTL DEF Spec, KeepsItsPromise, Promise!Spec

(* And no process leaves half a file to a reader, which the documentation  *)
(* promises and two processes that share a session can break.              *)
THEOREM NothingHalf == Shared = FALSE => (Spec => []NothingHalfIsLeft)
<1> SUFFICES ASSUME Shared = FALSE PROVE Spec => []NothingHalfIsLeft
  OBVIOUS
<1>1. Init => IInv
  BY InitIInv
<1>2. IInv /\ [Next]_vars => IInv'
  BY NextSimulates
<1>3. IInv => NothingHalfIsLeft
  BY DEF IInv, Whole, NothingHalfIsLeft
<1> QED
  BY <1>1, <1>2, <1>3, PTL DEF Spec

-----------------------------------------------------------------------------
(* How many files there are, whether sessions are shared or not.           *)

Stages == {"glob", "rank", "unlink"}

Stage(x) == IF x.at \in Stages THEN x.at ELSE "other"

Savers(pr) == {p \in Procs : Stage(pr[p]) # "other"}

(* F are the files, pr the processes, u the prunings that were cut short,  *)
(* and after[p] the processes that have moved a file into place since p    *)
(* listed the files, and are still pruning: they glob later than p, so     *)
(* that what they leave is an account of the files without p.              *)
Counted(F, pr, u, after) ==
  /\ u \in Nat /\ IsFiniteSet(F) /\ IsFiniteSet(Savers(pr))
  /\ after \in [Procs -> SUBSET Savers(pr)]
  /\ \A p \in Procs : p \notin after[p] /\ (Stage(pr[p]) \in {"glob", "other"} => after[p] = {})
  /\ \A p, q \in Procs : q \in after[p] => after[q] \subseteq after[p]
  /\ Cardinality(F) <= Keep + u + Cardinality(Savers(pr))
  /\ \A p \in Procs : Stage(pr[p]) = "rank" => IsFiniteSet(pr[p].names)
  /\ \A p \in Procs : Stage(pr[p]) = "rank" =>
       \/ Cardinality(F \ pr[p].names) <= u + Cardinality(after[p])
       \/ Cardinality(F) <= Keep + u + Cardinality(after[p])
  /\ \A p \in Procs : Stage(pr[p]) = "unlink" =>
       Cardinality(F \ pr[p].names) <= Keep + u + Cardinality(after[p])

CountInv == \E after \in [Procs -> SUBSET Procs] : Counted(Files, proc, unpruned, after)

(* Sizes are numbers.                                                      *)
LEMMA CountTypes ==
  ASSUME NEW F, NEW x, NEW u, NEW a, Counted(F, x, u, a)
  PROVE  /\ Keep \in Nat /\ u \in Nat /\ Cardinality(F) \in Nat /\ Cardinality(Savers(x)) \in Nat
         /\ \A p \in Procs : IsFiniteSet(a[p]) /\ Cardinality(a[p]) \in Nat
         /\ \A N : IsFiniteSet(F \ N) /\ Cardinality(F \ N) \in Nat
<1>1. IsFiniteSet(F) /\ IsFiniteSet(Savers(x)) /\ \A p \in Procs : a[p] \subseteq Savers(x)
  BY DEF Counted
<1>2. \A p \in Procs : IsFiniteSet(a[p])
  BY <1>1, FS_Subset
<1>3. \A N : IsFiniteSet(F \ N)
  BY <1>1, FS_Difference
<1> QED
  BY <1>1, <1>2, <1>3, FS_CardinalityType, StoreConstants DEF Counted

(* A set gets bigger by at most one.                                       *)
LEMMA AddOne ==
  ASSUME NEW S, IsFiniteSet(S), NEW x
  PROVE  /\ IsFiniteSet(S \cup {x}) /\ Cardinality(S) \in Nat
         /\ Cardinality(S \cup {x}) \in Nat /\ Cardinality(S \cup {x}) <= Cardinality(S) + 1
<1>1. IsFiniteSet(S \cup {x})
      /\ Cardinality(S \cup {x}) = IF x \in S THEN Cardinality(S) ELSE Cardinality(S) + 1
  BY FS_AddElement
<1>2. Cardinality(S) \in Nat
  BY FS_CardinalityType
<1> QED
  BY <1>1, <1>2

(* No process comes to another stage and no file is added.                 *)
LEMMA CountFewer ==
  ASSUME NEW F, NEW G \in SUBSET F, NEW x, NEW y, NEW u, NEW a, Counted(F, x, u, a),
         \A p \in Procs : Stage(y[p]) = Stage(x[p]),
         \A p \in Procs : Stage(x[p]) = "rank" => y[p].names = x[p].names,
         \A p \in Procs : Stage(x[p]) = "unlink" => G \ y[p].names \subseteq F \ x[p].names
  PROVE  Counted(G, y, u, a)
<1>1. Savers(y) = Savers(x)
  BY DEF Savers
<1>2. IsFiniteSet(F) /\ IsFiniteSet(G) /\ Cardinality(G) <= Cardinality(F)
      /\ Cardinality(G) \in Nat
  BY FS_Subset, FS_CardinalityType DEF Counted
<1>3. ASSUME NEW p \in Procs, Stage(x[p]) \in {"rank", "unlink"}
      PROVE  /\ Cardinality(G \ y[p].names) \in Nat
             /\ Cardinality(G \ y[p].names) <= Cardinality(F \ x[p].names)
  <2>1. G \ y[p].names \subseteq F \ x[p].names
    BY <1>3
  <2>2. IsFiniteSet(F \ x[p].names)
    BY CountTypes
  <2> QED
    BY <2>1, <2>2, FS_Subset, FS_CardinalityType
<1>4. Cardinality(G) <= Keep + u + Cardinality(Savers(y))
  BY <1>1, <1>2, CountTypes DEF Counted
<1>5. ASSUME NEW p \in Procs, Stage(y[p]) = "rank"
      PROVE  \/ Cardinality(G \ y[p].names) <= u + Cardinality(a[p])
             \/ Cardinality(G) <= Keep + u + Cardinality(a[p])
  <2>1. Cardinality(F \ x[p].names) \in Nat /\ Cardinality(a[p]) \in Nat /\ Keep \in Nat
        /\ u \in Nat /\ Cardinality(F) \in Nat
    BY CountTypes
  <2>2. \/ Cardinality(F \ x[p].names) <= u + Cardinality(a[p])
        \/ Cardinality(F) <= Keep + u + Cardinality(a[p])
    BY <1>5 DEF Counted
  <2>3. /\ Cardinality(G \ y[p].names) \in Nat
        /\ Cardinality(G \ y[p].names) <= Cardinality(F \ x[p].names)
    BY <1>3, <1>5
  <2> QED
    BY <1>2, <2>1, <2>2, <2>3
<1>6. ASSUME NEW p \in Procs, Stage(y[p]) = "unlink"
      PROVE  Cardinality(G \ y[p].names) <= Keep + u + Cardinality(a[p])
  <2>1. Cardinality(F \ x[p].names) \in Nat /\ Cardinality(a[p]) \in Nat /\ Keep \in Nat
        /\ u \in Nat
    BY CountTypes
  <2>2. Cardinality(F \ x[p].names) <= Keep + u + Cardinality(a[p])
    BY <1>6 DEF Counted
  <2>3. /\ Cardinality(G \ y[p].names) \in Nat
        /\ Cardinality(G \ y[p].names) <= Cardinality(F \ x[p].names)
    BY <1>3, <1>6
  <2> QED
    BY <2>1, <2>2, <2>3
<1> QED
  BY <1>1, <1>2, <1>4, <1>5, <1>6 DEF Counted

(* A process moves a file into place, and starts to prune.                 *)
LEMMA CountReplace ==
  ASSUME NEW F, NEW s, NEW G, G = F \cup {s}, NEW x, NEW y, NEW u, NEW a, Counted(F, x, u, a),
         NEW p \in Procs, Stage(x[p]) = "other", Stage(y[p]) = "glob",
         \A q \in Procs : q # p => Stage(y[q]) = Stage(x[q]) /\ y[q].names = x[q].names
  PROVE  \E b \in [Procs -> SUBSET Procs] : Counted(G, y, u, b)
<1> DEFINE b == [q \in Procs |-> IF Stage(x[q]) \in {"rank", "unlink"} THEN a[q] \cup {p} ELSE {}]
<1>1. Savers(y) = Savers(x) \cup {p} /\ p \notin Savers(x)
  BY DEF Savers
<1>2. /\ IsFiniteSet(Savers(x)) /\ IsFiniteSet(F) /\ a \in [Procs -> SUBSET Savers(x)]
      /\ \A q \in Procs : p \notin a[q]
  BY <1>1 DEF Counted
<1>3. IsFiniteSet(Savers(y)) /\ Cardinality(Savers(y)) = Cardinality(Savers(x)) + 1
  BY <1>1, <1>2, FS_AddElement
<1>4. IsFiniteSet(G) /\ Cardinality(G) <= Cardinality(F) + 1 /\ Cardinality(G) \in Nat
  BY <1>2, AddOne
<1>5. ASSUME NEW q \in Procs, Stage(y[q]) \in {"rank", "unlink"}
      PROVE  /\ Cardinality(b[q]) = Cardinality(a[q]) + 1
             /\ Cardinality(G \ y[q].names) <= Cardinality(F \ x[q].names) + 1
             /\ Cardinality(G \ y[q].names) \in Nat
  <2>1. q # p /\ Stage(y[q]) = Stage(x[q]) /\ y[q].names = x[q].names
    BY <1>5
  <2>2. b[q] = a[q] \cup {p}
    BY <1>5, <2>1
  <2>3. Cardinality(b[q]) = Cardinality(a[q]) + 1
    BY <1>2, <2>2, FS_AddElement, CountTypes
  <2>4. IsFiniteSet(F \ x[q].names) /\ G \ y[q].names \subseteq (F \ x[q].names) \cup {s}
    BY <2>1, CountTypes
  <2>5. IsFiniteSet((F \ x[q].names) \cup {s})
        /\ Cardinality((F \ x[q].names) \cup {s}) <= Cardinality(F \ x[q].names) + 1
    BY <2>4, AddOne
  <2>6. IsFiniteSet(G \ y[q].names)
        /\ Cardinality(G \ y[q].names) <= Cardinality((F \ x[q].names) \cup {s})
    BY <2>4, <2>5, FS_Subset
  <2>7. Cardinality(G \ y[q].names) \in Nat /\ Cardinality((F \ x[q].names) \cup {s}) \in Nat
    BY <2>5, <2>6, FS_CardinalityType
  <2>8. Cardinality(F \ x[q].names) \in Nat
    BY CountTypes
  <2> QED
    BY <2>3, <2>5, <2>6, <2>7, <2>8
<1>6. b \in [Procs -> SUBSET Savers(y)] /\ b \in [Procs -> SUBSET Procs]
  BY <1>1, <1>2 DEF Savers
<1>7. \A q \in Procs : q \notin b[q] /\ (Stage(y[q]) \in {"glob", "other"} => b[q] = {})
  BY <1>2 DEF Counted
<1>8. \A q, r \in Procs : r \in b[q] => b[r] \subseteq b[q]
  <2> SUFFICES ASSUME NEW q \in Procs, NEW r \in Procs, r \in b[q]
               PROVE  b[r] \subseteq b[q]
    OBVIOUS
  <2>1. b[q] = a[q] \cup {p}
    OBVIOUS
  <2>2. CASE r = p
    BY <2>2
  <2>3. CASE r # p
    BY <2>1, <2>3 DEF Counted
  <2> QED
    BY <2>2, <2>3
<1> HIDE DEF b
<1>9. Cardinality(G) <= Keep + u + Cardinality(Savers(y))
  BY <1>3, <1>4, CountTypes DEF Counted
<1>10. ASSUME NEW q \in Procs, Stage(y[q]) = "rank"
       PROVE  \/ Cardinality(G \ y[q].names) <= u + Cardinality(b[q])
              \/ Cardinality(G) <= Keep + u + Cardinality(b[q])
  <2>1. q # p /\ Stage(x[q]) = "rank"
    BY <1>10
  <2>2. \/ Cardinality(F \ x[q].names) <= u + Cardinality(a[q])
        \/ Cardinality(F) <= Keep + u + Cardinality(a[q])
    BY <2>1 DEF Counted
  <2>3. Cardinality(F \ x[q].names) \in Nat /\ Cardinality(a[q]) \in Nat /\ Keep \in Nat
        /\ u \in Nat /\ Cardinality(F) \in Nat
    BY CountTypes
  <2>4. /\ Cardinality(b[q]) = Cardinality(a[q]) + 1
        /\ Cardinality(G \ y[q].names) <= Cardinality(F \ x[q].names) + 1
        /\ Cardinality(G \ y[q].names) \in Nat
    BY <1>5, <1>10
  <2> QED
    BY <1>4, <2>2, <2>3, <2>4
<1>11. ASSUME NEW q \in Procs, Stage(y[q]) = "unlink"
       PROVE  Cardinality(G \ y[q].names) <= Keep + u + Cardinality(b[q])
  <2>1. q # p /\ Stage(x[q]) = "unlink"
    BY <1>11
  <2>2. Cardinality(F \ x[q].names) <= Keep + u + Cardinality(a[q])
    BY <2>1 DEF Counted
  <2>3. Cardinality(F \ x[q].names) \in Nat /\ Cardinality(a[q]) \in Nat /\ Keep \in Nat
        /\ u \in Nat
    BY CountTypes
  <2>4. /\ Cardinality(b[q]) = Cardinality(a[q]) + 1
        /\ Cardinality(G \ y[q].names) <= Cardinality(F \ x[q].names) + 1
        /\ Cardinality(G \ y[q].names) \in Nat
    BY <1>5, <1>11
  <2> QED
    BY <2>2, <2>3, <2>4
<1>12. Counted(G, y, u, b)
  BY <1>3, <1>4, <1>6, <1>7, <1>8, <1>9, <1>10, <1>11 DEF Counted
<1> QED
  BY <1>6, <1>12

(* A process lists the files.                                              *)
LEMMA CountGlob ==
  ASSUME NEW F, NEW x, NEW y, NEW u, NEW a, Counted(F, x, u, a),
         NEW p \in Procs, Stage(x[p]) = "glob", Stage(y[p]) = "rank", y[p].names = F,
         \A q \in Procs : q # p => Stage(y[q]) = Stage(x[q]) /\ y[q].names = x[q].names
  PROVE  Counted(F, y, u, a)
<1>1. Savers(y) = Savers(x)
  BY DEF Savers
<1>2. Cardinality(F \ y[p].names) = 0
  <2>1. F \ y[p].names = {}
    OBVIOUS
  <2> QED
    BY <2>1, FS_EmptySet
<1>3. Cardinality(F \ y[p].names) <= u + Cardinality(a[p])
  BY <1>2, CountTypes
<1>4. \A q \in Procs : Stage(y[q]) \in {"glob", "other"} => Stage(x[q]) \in {"glob", "other"}
  OBVIOUS
<1>5. ASSUME NEW q \in Procs, Stage(y[q]) = "rank"
      PROVE  \/ Cardinality(F \ y[q].names) <= u + Cardinality(a[q])
             \/ Cardinality(F) <= Keep + u + Cardinality(a[q])
  BY <1>3, <1>5 DEF Counted
<1>6. ASSUME NEW q \in Procs, Stage(y[q]) = "unlink"
      PROVE  Cardinality(F \ y[q].names) <= Keep + u + Cardinality(a[q])
  BY <1>6 DEF Counted
<1> QED
  BY <1>1, <1>4, <1>5, <1>6 DEF Counted

(* A process chooses all but Keep of those it has listed, to go; some may  *)
(* be gone by then.                                                        *)
LEMMA CountRank ==
  ASSUME NEW F, NEW x, NEW y, NEW u, NEW a, Counted(F, x, u, a),
         NEW p \in Procs, Stage(x[p]) = "rank", Stage(y[p]) = "unlink",
         y[p].names \subseteq x[p].names, Cardinality(x[p].names \ y[p].names) <= Keep,
         \A q \in Procs : q # p => Stage(y[q]) = Stage(x[q]) /\ y[q].names = x[q].names
  PROVE  Counted(F, y, u, a)
<1>1. Savers(y) = Savers(x)
  BY DEF Savers
<1> DEFINE A == F \ x[p].names
           B == x[p].names \ y[p].names
           C == F \ y[p].names
<1>2. IsFiniteSet(F) /\ IsFiniteSet(x[p].names) /\ C \subseteq A \cup B /\ A \cap B = {}
      /\ C \subseteq F
  BY DEF Counted
<1>3. IsFiniteSet(A) /\ IsFiniteSet(B) /\ IsFiniteSet(C)
  BY <1>2, FS_Difference
<1>4. Cardinality(A) \in Nat /\ Cardinality(B) \in Nat /\ Cardinality(C) \in Nat
  BY <1>3, FS_CardinalityType
<1>5. Cardinality(C) <= Cardinality(A) + Cardinality(B)
  <2>1. IsFiniteSet(A \cup B)
        /\ Cardinality(A \cup B) = Cardinality(A) + Cardinality(B) - Cardinality(A \cap B)
    BY <1>3, FS_Union
  <2>2. Cardinality(A \cap B) = 0
    BY <1>2, FS_EmptySet
  <2>3. Cardinality(C) <= Cardinality(A \cup B)
    BY <1>2, <2>1, FS_Subset
  <2> HIDE DEF A, B, C
  <2> QED
    BY <1>4, <2>1, <2>2, <2>3
<1>6. Cardinality(C) <= Cardinality(F)
  BY <1>2, FS_Subset
<1>7. \/ Cardinality(A) <= u + Cardinality(a[p])
      \/ Cardinality(F) <= Keep + u + Cardinality(a[p])
  BY DEF Counted
<1>8. Cardinality(C) <= Keep + u + Cardinality(a[p])
  <2>1. Cardinality(F) \in Nat /\ Keep \in Nat /\ u \in Nat /\ Cardinality(a[p]) \in Nat
    BY CountTypes
  <2>2. Cardinality(B) <= Keep
    OBVIOUS
  <2> HIDE DEF A, B, C
  <2> QED
    BY <1>4, <1>5, <1>6, <1>7, <2>1, <2>2
<1>9. ASSUME NEW q \in Procs, Stage(y[q]) = "rank"
      PROVE  \/ Cardinality(F \ y[q].names) <= u + Cardinality(a[q])
             \/ Cardinality(F) <= Keep + u + Cardinality(a[q])
  BY <1>9 DEF Counted
<1>10. ASSUME NEW q \in Procs, Stage(y[q]) = "unlink"
       PROVE  Cardinality(F \ y[q].names) <= Keep + u + Cardinality(a[q])
  BY <1>8, <1>10 DEF Counted
<1>11. \A q \in Procs : Stage(y[q]) \in {"glob", "other"} => Stage(x[q]) \in {"glob", "other"}
  OBVIOUS
<1> QED
  BY <1>1, <1>9, <1>10, <1>11 DEF Counted

(* A process ends its pruning, or its pruning is cut short: then it does   *)
(* not matter how far it had come.                                         *)
LEMMA CountLeave ==
  ASSUME NEW F, NEW x, NEW y, NEW u, NEW v \in Nat, NEW a, Counted(F, x, u, a),
         NEW p \in Procs, Stage(x[p]) # "other", Stage(y[p]) = "other",
         \/ v = u + 1
         \/ v = u /\ Stage(x[p]) = "unlink" /\ x[p].names = {},
         \A q \in Procs : q # p => Stage(y[q]) = Stage(x[q]) /\ y[q].names = x[q].names
  PROVE  \E b \in [Procs -> SUBSET Procs] : Counted(F, y, v, b)
<1> DEFINE b == [q \in Procs |-> IF q = p THEN {} ELSE a[q] \ {p}]
<1>1. Savers(y) = Savers(x) \ {p} /\ p \in Savers(x)
  BY DEF Savers
<1>2. /\ IsFiniteSet(Savers(x)) /\ IsFiniteSet(F) /\ a \in [Procs -> SUBSET Savers(x)]
      /\ p \notin a[p] /\ u \in Nat
      /\ \A q \in Procs : p \in a[q] => a[p] \subseteq a[q]
  BY DEF Counted
<1>3. IsFiniteSet(Savers(y)) /\ Cardinality(Savers(y)) = Cardinality(Savers(x)) - 1
      /\ Cardinality(Savers(y)) \in Nat
  BY <1>1, <1>2, FS_RemoveElement, FS_CardinalityType
<1>4. ASSUME v = u
      PROVE  Cardinality(F) <= Keep + u + Cardinality(a[p])
  <2>1. x[p].names = {} /\ Stage(x[p]) = "unlink"
    BY <1>2, <1>4
  <2>2. F \ x[p].names = F
    BY <2>1
  <2> QED
    BY <2>1, <2>2 DEF Counted
<1>5. b \in [Procs -> SUBSET Savers(y)] /\ b \in [Procs -> SUBSET Procs]
  BY <1>1, <1>2 DEF Savers
<1>6. \A q \in Procs : q \notin b[q] /\ (Stage(y[q]) \in {"glob", "other"} => b[q] = {})
  BY DEF Counted
<1>7. \A q, r \in Procs : r \in b[q] => b[r] \subseteq b[q]
  BY DEF Counted
(* What the others owe.                                                    *)
<1>8. ASSUME NEW q \in Procs, q # p
      PROVE  /\ Cardinality(b[q]) \in Nat /\ Cardinality(a[q]) \in Nat
             /\ \/ Cardinality(b[q]) = Cardinality(a[q])
                \/ v = u + 1 /\ Cardinality(b[q]) = Cardinality(a[q]) - 1
                \/ Cardinality(F) <= Keep + v + Cardinality(b[q])
  <2>1. IsFiniteSet(a[q]) /\ Cardinality(a[q]) \in Nat /\ b[q] = a[q] \ {p}
    BY <1>8, CountTypes
  <2> HIDE DEF b
  <2>2. IsFiniteSet(b[q]) /\ Cardinality(b[q]) \in Nat
        /\ Cardinality(b[q]) = IF p \in a[q] THEN Cardinality(a[q]) - 1 ELSE Cardinality(a[q])
    <3>1. /\ IsFiniteSet(a[q] \ {p})
          /\ Cardinality(a[q] \ {p}) =
               IF p \in a[q] THEN Cardinality(a[q]) - 1 ELSE Cardinality(a[q])
      BY <2>1, FS_RemoveElement
    <3>2. Cardinality(a[q] \ {p}) \in Nat
      BY <3>1, FS_CardinalityType
    <3> QED
      BY <2>1, <3>1, <3>2
  <2>3. CASE p \in a[q] /\ v = u
    <3>1. a[p] \subseteq b[q]
      BY <1>2, <2>1, <2>3
    <3>2. Cardinality(a[p]) <= Cardinality(b[q]) /\ Cardinality(a[p]) \in Nat
      BY <2>2, <3>1, FS_Subset, CountTypes
    <3>3. Cardinality(F) <= Keep + u + Cardinality(a[p])
      BY <1>4, <2>3
    <3>4. Cardinality(F) \in Nat /\ Keep \in Nat /\ u \in Nat
      BY CountTypes
    <3>5. Cardinality(F) <= Keep + v + Cardinality(b[q])
      BY <2>2, <2>3, <3>2, <3>3, <3>4
    <3> QED
      BY <2>1, <2>2, <3>5
  <2> QED
    BY <2>1, <2>2, <2>3
<1>9. Cardinality(F) <= Keep + v + Cardinality(Savers(y))
  <2>1. Cardinality(F) \in Nat /\ Keep \in Nat /\ u \in Nat /\ Cardinality(a[p]) \in Nat
        /\ Cardinality(Savers(x)) \in Nat
    BY CountTypes
  <2>2. CASE v = u
    <3>1. a[p] \subseteq Savers(y)
      BY <1>1, <1>2
    <3>2. Cardinality(a[p]) <= Cardinality(Savers(y))
      BY <1>3, <3>1, FS_Subset
    <3>3. Cardinality(F) <= Keep + u + Cardinality(a[p])
      BY <1>4, <2>2
    <3> QED
      BY <1>3, <2>1, <2>2, <3>2, <3>3
  <2>3. CASE v = u + 1
    <3>1. Cardinality(F) <= Keep + u + Cardinality(Savers(x))
      BY DEF Counted
    <3> QED
      BY <1>3, <2>1, <2>3, <3>1
  <2> QED
    BY <2>2, <2>3
<1> HIDE DEF b
<1>10. ASSUME NEW q \in Procs, Stage(y[q]) = "rank"
       PROVE  \/ Cardinality(F \ y[q].names) <= v + Cardinality(b[q])
              \/ Cardinality(F) <= Keep + v + Cardinality(b[q])
  <2>1. q # p /\ Stage(x[q]) = "rank" /\ y[q].names = x[q].names
    BY <1>10
  <2>2. \/ Cardinality(F \ y[q].names) <= u + Cardinality(a[q])
        \/ Cardinality(F) <= Keep + u + Cardinality(a[q])
    BY <2>1 DEF Counted
  <2>3. Cardinality(F \ y[q].names) \in Nat /\ Keep \in Nat /\ u \in Nat /\ Cardinality(F) \in Nat
    BY CountTypes
  <2>4. /\ Cardinality(b[q]) \in Nat /\ Cardinality(a[q]) \in Nat
        /\ \/ Cardinality(b[q]) = Cardinality(a[q])
           \/ v = u + 1 /\ Cardinality(b[q]) = Cardinality(a[q]) - 1
           \/ Cardinality(F) <= Keep + v + Cardinality(b[q])
    BY <1>8, <2>1
  <2>5. v = u \/ v = u + 1
    OBVIOUS
  <2> QED
    BY <2>2, <2>3, <2>4, <2>5
<1>11. ASSUME NEW q \in Procs, Stage(y[q]) = "unlink"
       PROVE  Cardinality(F \ y[q].names) <= Keep + v + Cardinality(b[q])
  <2>1. q # p /\ Stage(x[q]) = "unlink" /\ y[q].names = x[q].names
    BY <1>11
  <2>2. Cardinality(F \ y[q].names) <= Keep + u + Cardinality(a[q])
    BY <2>1 DEF Counted
  <2>3. Cardinality(F \ y[q].names) \in Nat /\ Keep \in Nat /\ u \in Nat /\ Cardinality(F) \in Nat
    BY CountTypes
  <2>4. /\ Cardinality(b[q]) \in Nat /\ Cardinality(a[q]) \in Nat
        /\ \/ Cardinality(b[q]) = Cardinality(a[q])
           \/ v = u + 1 /\ Cardinality(b[q]) = Cardinality(a[q]) - 1
           \/ Cardinality(F) <= Keep + v + Cardinality(b[q])
    BY <1>8, <2>1
  <2>5. v = u \/ v = u + 1
    OBVIOUS
  <2>6. Cardinality(F \ y[q].names) <= Cardinality(F)
    BY <1>2, FS_Subset
  <2> QED
    BY <2>2, <2>3, <2>4, <2>5, <2>6
<1>12. Counted(F, y, v, b)
  BY <1>2, <1>3, <1>5, <1>6, <1>7, <1>9, <1>10, <1>11 DEF Counted
<1> QED
  BY <1>5, <1>12

-----------------------------------------------------------------------------
(* What else has to be known of the files and the processes, if sessions   *)
(* may be shared: a descriptor that went into place with its file has that *)
(* file, so that filling it adds none.                                     *)
AnyState ==
  [at : Labels, session : Sessions \cup {None}, ws : Workspaces \cup {None}, turns : Nat,
   updated : Nat, fd : {None, "tmp", "json", "gone"}, names : SUBSET Sessions]

Open(x) == x.at \notin {"idle", "confirm", "delete"}

AnyTypes ==
  /\ json \in [Sessions -> Contents \cup {None}]
  /\ tmp \in [Sessions -> Contents \cup {None}]
  /\ proc \in [Procs -> AnyState]
  /\ exports \in SUBSET [session : Sessions, turns : Nat]
  /\ clock \in Nat
  /\ \A p \in Procs :
       /\ Open(proc[p]) => proc[p].session \in Sessions /\ proc[p].ws \in Workspaces
       /\ proc[p].fd # None => Open(proc[p])
       /\ proc[p].fd = "json" => json[proc[p].session] # None

(* A process comes into another state and touches no file.                 *)
LEMMA AnyMove ==
  ASSUME AnyTypes, NEW p \in Procs, NEW x \in AnyState, proc' = [proc EXCEPT ![p] = x],
         Open(x) => x.session \in Sessions /\ x.ws \in Workspaces,
         x.fd # None => Open(x), x.fd = "json" => json[x.session] # None,
         UNCHANGED <<json, tmp, exports>>, clock' \in Nat
  PROVE  AnyTypes'
<1>1. \A q \in Procs : proc'[q] = IF q = p THEN x ELSE proc[q]
  BY DEF AnyTypes
<1>2. proc' \in [Procs -> AnyState]
  BY DEF AnyTypes
<1>3. \A q \in Procs :
        /\ Open(proc'[q]) => proc'[q].session \in Sessions /\ proc'[q].ws \in Workspaces
        /\ proc'[q].fd # None => Open(proc'[q])
        /\ proc'[q].fd = "json" => json[proc'[q].session] # None
  BY <1>1 DEF AnyTypes
<1> QED
  BY <1>2, <1>3 DEF AnyTypes

(* The steps that touch no file keep the types, ...                        *)
LEMMA AnyQuiet ==
  ASSUME AnyTypes, NEW p \in Procs,
         \/ Ask(p) \/ ReplaceFails(p) \/ WriteFails(p) \/ Glob(p) \/ UnlinkFails(p) \/ Pruned(p)
         \/ \E s \in Sessions : StatFails(p, s) \/ DeleteFails(p, s)
         \/ \E gone \in SUBSET Sessions : Rank(p, gone) \/ Show(p, gone)
         \/ Confirm(p) \/ LeaveAlone(p) \/ Deleted(p) \/ Quit(p) \/ Crash(p)
  PROVE  AnyTypes'
<1>1. proc \in [Procs -> AnyState] /\ proc[p] \in AnyState /\ clock \in Nat
  BY DEF AnyTypes
<1>2. Idle \in AnyState /\ ~Open(Idle) /\ Idle.fd = None /\ None # "json"
  BY StoreConstants DEF Idle, AnyState, Labels, Open
<1>3. \/ proc' = [proc EXCEPT ![p] = Idle]
      \/ /\ Open(proc[p])
         /\ \/ proc' = [proc EXCEPT ![p].at = "open", ![p].turns = proc[p].turns + 1,
                                    ![p].updated = clock + 1]
            \/ proc' = [proc EXCEPT ![p].at = "prompt"]
            \/ proc' = [proc EXCEPT ![p].at = "prompt", ![p].fd = None, ![p].updated = 0]
            \/ proc' = [proc EXCEPT ![p].at = "rank", ![p].names = Files]
            \/ proc' = [proc EXCEPT ![p].at = "prompt", ![p].names = {}]
            \/ \E gone \in SUBSET Sessions :
                 proc' = [proc EXCEPT ![p].at = "unlink", ![p].names = gone]
      \/ /\ ~Open(proc[p])
         /\ \/ \E gone \in SUBSET Sessions :
                 \/ proc' = [proc EXCEPT ![p].at = "confirm", ![p].names = gone]
                 \/ proc' = [proc EXCEPT ![p].at = "delete", ![p].names = gone]
            \/ proc' = [proc EXCEPT ![p].at = "delete"]
  <2>1. ASSUME NEW s \in Sessions, DeleteFails(p, s)
        PROVE  /\ ~Open(proc[p])
               /\ \E gone \in SUBSET Sessions :
                    proc' = [proc EXCEPT ![p].at = "delete", ![p].names = gone]
    <3> DEFINE gone == proc[p].names \ {s}
    <3>1. proc[p].at = "delete" /\ proc' = [proc EXCEPT ![p] = [proc[p] EXCEPT !.names = gone]]
      BY <2>1 DEF DeleteFails, At
    <3>2. gone \in SUBSET Sessions
      BY <1>1 DEF AnyState
    <3>3. [proc[p] EXCEPT !.names = gone] = [proc[p] EXCEPT !.at = "delete", !.names = gone]
      BY <1>1, <3>1 DEF AnyState
    <3> HIDE DEF gone
    <3>4. proc' = [proc EXCEPT ![p].at = "delete", ![p].names = gone]
      BY <3>1, <3>3
    <3> QED
      BY <3>1, <3>2, <3>4 DEF Open
  <2> QED
    BY <2>1 DEF Open, At, Goto, Files, Ask, ReplaceFails, WriteFails, Glob, StatFails, UnlinkFails,
                Pruned, Rank, Show, Confirm, LeaveAlone, Deleted, Quit, Crash
<1> DEFINE w == proc[p]
           Moves == \E x \in AnyState :
                      /\ proc' = [proc EXCEPT ![p] = x]
                      /\ Open(x) => x.session \in Sessions /\ x.ws \in Workspaces
                      /\ x.fd # None => Open(x)
                      /\ x.fd = "json" => json[x.session] # None
<1>4. Moves
  <2>1. CASE proc' = [proc EXCEPT ![p] = Idle]
    BY <1>2, <2>1
  <2>2. ASSUME NEW at \in Labels, NEW turns \in Nat, NEW updated \in Nat,
               NEW fd \in {None, w.fd}, NEW names \in SUBSET Sessions,
               at \in {"idle", "confirm", "delete"} <=> ~Open(w),
               proc' = [proc EXCEPT ![p] = [w EXCEPT !.at = at, !.turns = turns,
                          !.updated = updated, !.fd = fd, !.names = names]]
        PROVE  Moves
    <3> DEFINE x == [w EXCEPT !.at = at, !.turns = turns, !.updated = updated,
                              !.fd = fd, !.names = names]
    <3>1. /\ x \in AnyState /\ x.at = at /\ x.session = w.session /\ x.ws = w.ws /\ x.fd = fd
      BY <1>1, <2>2 DEF AnyState
    <3>2. Open(x) <=> Open(w)
      BY <2>2, <3>1 DEF Open
    <3>3. proc' = [proc EXCEPT ![p] = x]
      BY <2>2
    <3> HIDE DEF x
    <3> QED
      BY <3>1, <3>2, <3>3, StoreConstants DEF AnyTypes
  <2> HIDE DEF Moves
  <2>3. w.turns \in Nat /\ w.updated \in Nat /\ w.names \in SUBSET Sessions
    BY <1>1 DEF AnyState
  <2>4. ASSUME NEW at \in Labels, NEW names \in SUBSET Sessions,
               at \in {"idle", "confirm", "delete"} <=> ~Open(w),
               \/ proc' = [proc EXCEPT ![p].at = at, ![p].names = names]
               \/ proc' = [proc EXCEPT ![p].at = at]
        PROVE  Moves
    <3>1. [w EXCEPT !.at = at, !.names = names]
          = [w EXCEPT !.at = at, !.turns = w.turns, !.updated = w.updated, !.fd = w.fd,
                      !.names = names]
      BY <1>1 DEF AnyState
    <3>2. [w EXCEPT !.at = at]
          = [w EXCEPT !.at = at, !.turns = w.turns, !.updated = w.updated, !.fd = w.fd,
                      !.names = w.names]
      BY <1>1 DEF AnyState
    <3>3. CASE proc' = [proc EXCEPT ![p].at = at, ![p].names = names]
      <4>1. proc' = [proc EXCEPT ![p] = [w EXCEPT !.at = at, !.turns = w.turns,
                       !.updated = w.updated, !.fd = w.fd, !.names = names]]
        BY <3>1, <3>3
      <4> QED
        BY <2>2, <2>3, <2>4, <4>1
    <3>4. CASE proc' = [proc EXCEPT ![p].at = at]
      <4>1. proc' = [proc EXCEPT ![p] = [w EXCEPT !.at = at, !.turns = w.turns,
                       !.updated = w.updated, !.fd = w.fd, !.names = w.names]]
        BY <3>2, <3>4
      <4> QED
        BY <2>2, <2>3, <2>4, <4>1
    <3> QED
      BY <2>4, <3>3, <3>4
  <2>5. CASE Open(w) /\ proc' = [proc EXCEPT ![p].at = "open", ![p].turns = w.turns + 1,
                                             ![p].updated = clock + 1]
    <3>1. [w EXCEPT !.at = "open", !.turns = w.turns + 1, !.updated = clock + 1]
          = [w EXCEPT !.at = "open", !.turns = w.turns + 1, !.updated = clock + 1, !.fd = w.fd,
                      !.names = w.names]
      BY <1>1 DEF AnyState
    <3>2. proc' = [proc EXCEPT ![p] = [w EXCEPT !.at = "open", !.turns = w.turns + 1,
                     !.updated = clock + 1, !.fd = w.fd, !.names = w.names]]
      BY <2>5, <3>1
    <3>3. w.turns + 1 \in Nat /\ clock + 1 \in Nat /\ "open" \in Labels
      BY <1>1, <2>3 DEF Labels
    <3>4. "open" \in {"idle", "confirm", "delete"} <=> ~Open(w)
      BY <2>5
    <3> QED
      BY <2>2, <2>3, <3>2, <3>3, <3>4
  <2>6. CASE Open(w) /\ proc' = [proc EXCEPT ![p].at = "prompt", ![p].fd = None, ![p].updated = 0]
    <3>1. [w EXCEPT !.at = "prompt", !.fd = None, !.updated = 0]
          = [w EXCEPT !.at = "prompt", !.turns = w.turns, !.updated = 0, !.fd = None,
                      !.names = w.names]
      BY <1>1 DEF AnyState
    <3>2. proc' = [proc EXCEPT ![p] = [w EXCEPT !.at = "prompt", !.turns = w.turns,
                     !.updated = 0, !.fd = None, !.names = w.names]]
      BY <2>6, <3>1
    <3>3. 0 \in Nat /\ "prompt" \in Labels
      BY DEF Labels
    <3>4. "prompt" \in {"idle", "confirm", "delete"} <=> ~Open(w)
      BY <2>6
    <3> QED
      BY <2>2, <2>3, <3>2, <3>3, <3>4
  <2>7. Files \in SUBSET Sessions /\ {} \in SUBSET Sessions
        /\ {"prompt", "rank", "unlink", "confirm", "delete"} \subseteq Labels
    BY DEF Files, Labels
  <2> HIDE DEF w
  <2> QED
    BY <1>3, <2>1, <2>4, <2>5, <2>6, <2>7 DEF w
<1>5. UNCHANGED <<json, tmp, exports>> /\ clock' \in Nat
  BY <1>1 DEF Ask, ReplaceFails, WriteFails, Glob, StatFails, UnlinkFails, DeleteFails, Pruned,
              Rank, Show, Confirm, LeaveAlone, Deleted, Quit, Crash
<1> QED
  BY <1>4, <1>5, AnyMove

(* ... as do those of a process that starts, ...                           *)
LEMMA AnyBegin ==
  ASSUME AnyTypes, NEW p \in Procs, NEW ws \in Workspaces,
         \/ \E s \in Sessions : New(p, s, ws) \/ Resume(p, s, ws)
         \/ \E e \in exports : Import(p, e, ws)
  PROVE  AnyTypes' /\ Files' = Files /\ unpruned' = unpruned /\ proc[p].at = "idle"
         /\ \E x : x.at = "prompt" /\ proc' = [proc EXCEPT ![p] = x]
<1>1. ASSUME NEW s \in Sessions, NEW turns \in Nat, Begin(p, s, ws, turns)
      PROVE  AnyTypes' /\ Files' = Files /\ unpruned' = unpruned /\ proc[p].at = "idle"
             /\ \E x : x.at = "prompt" /\ proc' = [proc EXCEPT ![p] = x]
  <2> DEFINE x == [Idle EXCEPT !.at = "prompt", !.session = s, !.ws = ws, !.turns = turns]
  <2>1. x \in AnyState /\ x.session = s /\ x.ws = ws /\ x.fd = None /\ x.fd # "json" /\ x.at = "prompt"
    BY StoreConstants DEF AnyState, Labels, Idle
  <2>2. /\ proc' = [proc EXCEPT ![p] = x] /\ UNCHANGED <<json, tmp, exports, clock, unpruned>>
        /\ clock' \in Nat /\ proc[p].at = "idle"
    BY <1>1 DEF Begin, At, AnyTypes
  <2> HIDE DEF x
  <2>3. AnyTypes'
    BY <2>1, <2>2, AnyMove
  <2> QED
    BY <2>1, <2>2, <2>3 DEF Files
<1>2. ASSUME NEW s \in Sessions, Resume(p, s, ws)
      PROVE  _read(s).turns \in Nat
  BY <1>2 DEF Resume, listing, Readable, _read, AnyTypes, Contents, Texts
<1>3. ASSUME NEW e \in exports
      PROVE  e.session \in Sessions /\ e.turns \in Nat
  BY DEF AnyTypes
<1> QED
  BY <1>1, <1>2, <1>3 DEF New, Resume, Import

(* ... an export, ...                                                      *)
LEMMA AnyExport ==
  ASSUME AnyTypes, NEW s \in Sessions, Export(s)
  PROVE  AnyTypes'
<1>1. _read(s).turns \in Nat
  BY DEF Export, Readable, _read, AnyTypes, Contents, Texts
<1> QED
  BY <1>1 DEF Export, AnyTypes

(* ... a write, which adds no file, ...                                    *)
LEMMA AnyWrite ==
  ASSUME AnyTypes, NEW p \in Procs, OpenTmp(p) \/ \E shorter \in BOOLEAN : Fill(p, shorter)
  PROVE  AnyTypes' /\ Files' = Files
<1> DEFINE s == proc[p].session
<1>1. /\ proc \in [Procs -> AnyState] /\ proc[p] \in AnyState /\ clock \in Nat
      /\ json \in [Sessions -> Contents \cup {None}] /\ tmp \in [Sessions -> Contents \cup {None}]
  BY DEF AnyTypes
<1>2. Open(proc[p]) /\ s \in Sessions /\ proc[p].ws \in Workspaces
  <2>1. Open(proc[p])
    BY DEF OpenTmp, Fill, At, Open
  <2> QED
    BY <2>1 DEF AnyTypes
<1>3. ASSUME NEW x \in AnyState, proc' = [proc EXCEPT ![p] = x], x.fd # "json", Open(x),
             x.session = s, x.ws = proc[p].ws, NEW f \in Contents,
             \/ tmp' = [tmp EXCEPT ![s] = f] /\ json' = json
             \/ tmp' = tmp /\ json' = [json EXCEPT ![s] = f] /\ json[s] # None
             \/ tmp' = tmp /\ json' = json,
             exports' = exports, clock' \in Nat
      PROVE  AnyTypes' /\ Files' = Files
  <2>1. \A q \in Procs : proc'[q] = IF q = p THEN x ELSE proc[q]
    BY <1>1, <1>3
  <2>2. \A r \in Sessions : json'[r] = None <=> json[r] = None
    BY <1>1, <1>3, StoreConstants
  <2>3. proc' \in [Procs -> AnyState] /\ json' \in [Sessions -> Contents \cup {None}]
        /\ tmp' \in [Sessions -> Contents \cup {None}]
    BY <1>1, <1>3
  <2>4. \A q \in Procs :
          /\ Open(proc'[q]) => proc'[q].session \in Sessions /\ proc'[q].ws \in Workspaces
          /\ proc'[q].fd # None => Open(proc'[q])
          /\ proc'[q].fd = "json" => json'[proc'[q].session] # None
    <3> SUFFICES ASSUME NEW q \in Procs
                 PROVE  /\ Open(proc'[q]) => proc'[q].session \in Sessions /\ proc'[q].ws \in Workspaces
                        /\ proc'[q].fd # None => Open(proc'[q])
                        /\ proc'[q].fd = "json" => json'[proc'[q].session] # None
      OBVIOUS
    <3>1. CASE q = p
      BY <1>2, <1>3, <2>1, <3>1
    <3>2. CASE q # p
      <4>1. /\ Open(proc[q]) => proc[q].session \in Sessions /\ proc[q].ws \in Workspaces
            /\ proc[q].fd # None => Open(proc[q])
            /\ proc[q].fd = "json" => json[proc[q].session] # None
        BY DEF AnyTypes
      <4>2. proc'[q] = proc[q] /\ "json" # None
        BY <2>1, <3>2, StoreConstants
      <4> QED
        BY <2>2, <4>1, <4>2
    <3> QED
      BY <3>1, <3>2
  <2>5. Files' = Files
    BY <2>2 DEF Files
  <2> QED
    BY <1>3, <2>3, <2>4, <2>5 DEF AnyTypes
<1>4. CASE OpenTmp(p)
  <2> DEFINE x == [proc[p] EXCEPT !.at = "fill", !.fd = "tmp"]
             f == [text |-> Torn, updated |-> 0, mtime |-> clock]
  <2>1. x \in AnyState /\ x.fd # "json" /\ x.session = s /\ x.ws = proc[p].ws /\ Open(x)
    BY <1>1 DEF AnyState, Labels, Open
  <2>2. f \in Contents
    BY <1>1 DEF Contents
  <2>3. /\ proc' = [proc EXCEPT ![p] = x] /\ tmp' = [tmp EXCEPT ![s] = f]
        /\ UNCHANGED <<json, exports>> /\ clock' \in Nat
    BY <1>1, <1>4 DEF OpenTmp
  <2> HIDE DEF x, f, s
  <2> QED
    BY <1>3, <2>1, <2>2, <2>3
<1>5. ASSUME NEW shorter \in BOOLEAN, Fill(p, shorter)
      PROVE  AnyTypes' /\ Files' = Files
  <2> DEFINE x == [proc[p] EXCEPT !.at = "replace", !.fd = None, !.updated = 0]
  <2>1. x \in AnyState /\ x.fd # "json" /\ x.session = s /\ x.ws = proc[p].ws /\ Open(x)
    BY <1>1, StoreConstants DEF AnyState, Labels, Open
  <2>2. ASSUME NEW old
        PROVE  Filled(p, old, shorter) \in Contents
    <3>1. proc[p].updated \in Nat /\ clock + 1 \in Nat /\ Transcript(p) \in Texts
      BY <1>1, <1>2 DEF AnyState, Texts, Transcript
    <3> QED
      BY <3>1 DEF Filled, Contents
  <2>3. /\ proc' = [proc EXCEPT ![p] = x] /\ exports' = exports /\ clock' \in Nat
    <3>1. clock' = clock + 1 /\ exports' = exports
      BY <1>5 DEF Fill
    <3>2. proc' = [proc EXCEPT ![p] = x]
      BY <1>5 DEF Fill
    <3> QED
      BY <1>1, <3>1, <3>2
  <2>4. proc[p].fd = "json" => json[s] # None
    BY DEF AnyTypes
  <2>5. \/ tmp' = [tmp EXCEPT ![s] = Filled(p, tmp[s], shorter)] /\ json' = json
        \/ tmp' = tmp /\ json' = [json EXCEPT ![s] = Filled(p, json[s], shorter)] /\ json[s] # None
        \/ tmp' = tmp /\ json' = json
    BY <1>5, <2>4 DEF Fill
  <2> HIDE DEF x, s
  <2> QED
    BY <1>3, <2>1, <2>2, <2>3, <2>5
<1> QED
  BY <1>4, <1>5

(* ... a file moved into place, ...                                        *)
LEMMA AnyReplace ==
  ASSUME AnyTypes, NEW p \in Procs, Replace(p)
  PROVE  /\ AnyTypes' /\ \E s \in Sessions : Files' = Files \cup {s}
         /\ \A q \in Procs : proc'[q].at = (IF q = p THEN "glob" ELSE proc[q].at)
                             /\ proc'[q].names = proc[q].names
<1> DEFINE s == proc[p].session
<1>1. /\ proc \in [Procs -> AnyState] /\ clock \in Nat
      /\ json \in [Sessions -> Contents \cup {None}] /\ tmp \in [Sessions -> Contents \cup {None}]
  BY DEF AnyTypes
<1>2. s \in Sessions /\ tmp[s] \in Contents /\ tmp[s] # None /\ Open(proc[p])
  <2>1. Open(proc[p])
    BY DEF Replace, At, Open
  <2> QED
    BY <1>1, <2>1 DEF AnyTypes, Replace
<1>3. /\ json' = [json EXCEPT ![s] = tmp[s]] /\ tmp' = [tmp EXCEPT ![s] = None]
      /\ exports' = exports /\ clock' = clock
  BY DEF Replace
<1>4. \A r \in Sessions : json'[r] = IF r = s THEN tmp[s] ELSE json[r]
  BY <1>1, <1>3
<1>5. Files' = Files \cup {s}
  BY <1>2, <1>4 DEF Files
<1>6. proc' = [q \in Procs |-> [proc[q] EXCEPT
                  !.at = IF q = p THEN "glob" ELSE proc[q].at,
                  !.fd = IF proc[q].session # s THEN proc[q].fd
                         ELSE IF proc[q].fd = "json" THEN "gone"
                         ELSE IF proc[q].fd = "tmp" THEN "json" ELSE proc[q].fd]]
  BY <1>1 DEF Replace, AnyState
<1>7. ASSUME NEW q \in Procs
      PROVE  /\ proc'[q] \in AnyState /\ proc'[q].names = proc[q].names
             /\ proc'[q].session = proc[q].session /\ proc'[q].ws = proc[q].ws
             /\ proc'[q].at = (IF q = p THEN "glob" ELSE proc[q].at)
             /\ proc'[q].fd # None => proc[q].fd # None
             /\ proc'[q].fd = "json" => proc[q].session = s \/ proc[q].fd = "json"
  <2> DEFINE at == IF q = p THEN "glob" ELSE proc[q].at
             fd == IF proc[q].session # s THEN proc[q].fd
                   ELSE IF proc[q].fd = "json" THEN "gone"
                   ELSE IF proc[q].fd = "tmp" THEN "json" ELSE proc[q].fd
  <2>1. proc[q] \in AnyState /\ proc'[q] = [proc[q] EXCEPT !.at = at, !.fd = fd]
    BY <1>1, <1>6
  <2>2. at \in Labels /\ fd \in {None, "tmp", "json", "gone"}
    BY <2>1 DEF AnyState, Labels
  <2>3. /\ fd # None => proc[q].fd # None
        /\ fd = "json" => proc[q].session = s \/ proc[q].fd = "json"
    BY <2>1, StoreConstants DEF AnyState
  <2>4. at = IF q = p THEN "glob" ELSE proc[q].at
    OBVIOUS
  <2> HIDE DEF at, fd, s
  <2> QED
    BY <2>1, <2>2, <2>3, <2>4 DEF AnyState
<1>8. ASSUME NEW q \in Procs
      PROVE  Open(proc'[q]) <=> Open(proc[q])
  BY <1>2, <1>7 DEF Open
<1>9. ASSUME NEW q \in Procs
      PROVE  /\ Open(proc'[q]) => proc'[q].session \in Sessions /\ proc'[q].ws \in Workspaces
             /\ proc'[q].fd # None => Open(proc'[q])
             /\ proc'[q].fd = "json" => json'[proc'[q].session] # None
  <2>1. /\ Open(proc[q]) => proc[q].session \in Sessions /\ proc[q].ws \in Workspaces
        /\ proc[q].fd # None => Open(proc[q])
        /\ proc[q].fd = "json" => json[proc[q].session] # None
    BY DEF AnyTypes
  <2>2. "json" # None
    BY StoreConstants
  <2> HIDE DEF s
  <2> QED
    BY <1>2, <1>4, <1>7, <1>8, <2>1, <2>2
<1>10. proc' \in [Procs -> AnyState] /\ json' \in [Sessions -> Contents \cup {None}]
       /\ tmp' \in [Sessions -> Contents \cup {None}]
  <2>1. proc' \in [Procs -> AnyState]
    BY <1>6, <1>7
  <2> QED
    BY <1>1, <1>2, <1>3, <2>1
<1>11. AnyTypes'
  BY <1>1, <1>3, <1>9, <1>10 DEF AnyTypes
<1> QED
  BY <1>2, <1>5, <1>7, <1>11

(* ... and a file removed.                                                 *)
LEMMA AnyUnlink ==
  ASSUME AnyTypes, NEW p \in Procs, NEW s \in Sessions, Unlinked(p, s)
  PROVE  /\ AnyTypes' /\ Files' = Files \ {s}
         /\ \A q \in Procs : proc'[q].at = proc[q].at
              /\ proc'[q].names = IF q = p THEN proc[q].names \ {s} ELSE proc[q].names
<1>1. /\ proc \in [Procs -> AnyState] /\ clock \in Nat
      /\ json \in [Sessions -> Contents \cup {None}]
  BY DEF AnyTypes
<1>2. json' = [json EXCEPT ![s] = None] /\ UNCHANGED <<tmp, exports, clock>>
  BY DEF Unlinked
<1>3. \A r \in Sessions : json'[r] = IF r = s THEN None ELSE json[r]
  BY <1>1, <1>2
<1>4. Files' = Files \ {s}
  BY <1>3 DEF Files
<1>5. proc' = [q \in Procs |-> [proc[q] EXCEPT
                 !.names = IF q = p THEN proc[q].names \ {s} ELSE proc[q].names,
                 !.fd = IF proc[q].session = s /\ proc[q].fd = "json" THEN "gone" ELSE proc[q].fd]]
  BY <1>1 DEF Unlinked, AnyState
<1>6. ASSUME NEW q \in Procs
      PROVE  /\ proc'[q] \in AnyState /\ proc'[q].at = proc[q].at
             /\ proc'[q].names = (IF q = p THEN proc[q].names \ {s} ELSE proc[q].names)
             /\ proc'[q].session = proc[q].session /\ proc'[q].ws = proc[q].ws
             /\ proc'[q].fd # None => proc[q].fd # None
             /\ proc'[q].fd = "json" => proc[q].session # s /\ proc[q].fd = "json"
  <2> DEFINE names == IF q = p THEN proc[q].names \ {s} ELSE proc[q].names
             fd == IF proc[q].session = s /\ proc[q].fd = "json" THEN "gone" ELSE proc[q].fd
  <2>1. proc[q] \in AnyState /\ proc'[q] = [proc[q] EXCEPT !.names = names, !.fd = fd]
    BY <1>1, <1>5
  <2>2. names \in SUBSET Sessions /\ fd \in {None, "tmp", "json", "gone"}
    BY <2>1 DEF AnyState
  <2>3. /\ fd # None => proc[q].fd # None
        /\ fd = "json" => proc[q].session # s /\ proc[q].fd = "json"
    BY <2>1, StoreConstants DEF AnyState
  <2>4. names = IF q = p THEN proc[q].names \ {s} ELSE proc[q].names
    OBVIOUS
  <2> HIDE DEF names, fd
  <2> QED
    BY <2>1, <2>2, <2>3, <2>4 DEF AnyState
<1>7. ASSUME NEW q \in Procs
      PROVE  /\ Open(proc'[q]) => proc'[q].session \in Sessions /\ proc'[q].ws \in Workspaces
             /\ proc'[q].fd # None => Open(proc'[q])
             /\ proc'[q].fd = "json" => json'[proc'[q].session] # None
  <2>1. /\ Open(proc[q]) => proc[q].session \in Sessions /\ proc[q].ws \in Workspaces
        /\ proc[q].fd # None => Open(proc[q])
        /\ proc[q].fd = "json" => json[proc[q].session] # None
    BY DEF AnyTypes
  <2>2. "json" # None /\ (Open(proc'[q]) <=> Open(proc[q]))
    BY <1>6, StoreConstants DEF Open
  <2> QED
    BY <1>3, <1>6, <2>1, <2>2
<1>8. proc' \in [Procs -> AnyState] /\ json' \in [Sessions -> Contents \cup {None}]
  BY <1>1, <1>2, <1>5, <1>6
<1>9. AnyTypes'
  BY <1>2, <1>7, <1>8 DEF AnyTypes
<1> QED
  BY <1>4, <1>6, <1>9

-----------------------------------------------------------------------------
(* The count is right when the store is empty.                             *)
LEMMA InitCount == Init => AnyTypes /\ CountInv
<1> SUFFICES ASSUME Init PROVE AnyTypes /\ CountInv
  OBVIOUS
<1>1. \A p \in Procs : proc[p] = Idle
  BY DEF Init
<1>2. Idle \in AnyState /\ ~Open(Idle) /\ Idle.fd = None /\ None # "json" /\ Stage(Idle) = "other"
  BY StoreConstants DEF Idle, AnyState, Labels, Open, Stage, Stages
<1>3. AnyTypes
  BY <1>1, <1>2 DEF Init, AnyTypes
<1> DEFINE none == [p \in Procs |-> {}]
<1>4. Files = {} /\ Savers(proc) = {} /\ unpruned = 0
  BY <1>1, <1>2 DEF Init, Files, Savers
<1>5. IsFiniteSet({}) /\ Cardinality({}) = 0 /\ Keep \in Nat
  BY FS_EmptySet, StoreConstants
<1>6. Counted(Files, proc, unpruned, none)
  BY <1>1, <1>2, <1>4, <1>5 DEF Counted
<1>7. none \in [Procs -> SUBSET Procs]
  OBVIOUS
<1> HIDE DEF none
<1> QED
  BY <1>3, <1>6, <1>7 DEF CountInv

(* One process changes its place, and the files stay.                      *)
LEMMA CountStep ==
  ASSUME AnyTypes, CountInv, NEW p \in Procs,
         \A q \in Procs : q # p => proc'[q] = proc[q],
         Files' = Files, unpruned' \in Nat,
         \/ unpruned' = unpruned /\ Stage(proc'[p]) = "other" /\ Stage(proc[p]) = "other"
         \/ /\ Stage(proc'[p]) = "other" /\ Stage(proc[p]) # "other"
            /\ \/ unpruned' = unpruned + 1
               \/ unpruned' = unpruned /\ Stage(proc[p]) = "unlink" /\ proc[p].names = {}
         \/ /\ Stage(proc[p]) = "glob" /\ Stage(proc'[p]) = "rank" /\ proc'[p].names = Files
            /\ unpruned' = unpruned
         \/ /\ Stage(proc[p]) = "rank" /\ Stage(proc'[p]) = "unlink" /\ unpruned' = unpruned
            /\ proc'[p].names \subseteq proc[p].names
            /\ Cardinality(proc[p].names \ proc'[p].names) <= Keep
  PROVE  CountInv'
<1>1. PICK a \in [Procs -> SUBSET Procs] : Counted(Files, proc, unpruned, a)
  BY DEF CountInv
<1>2. \A q \in Procs : q # p => Stage(proc'[q]) = Stage(proc[q]) /\ proc'[q].names = proc[q].names
  OBVIOUS
<1>3. \E b \in [Procs -> SUBSET Procs] : Counted(Files, proc', unpruned', b)
  <2>1. CASE unpruned' = unpruned /\ Stage(proc'[p]) = "other" /\ Stage(proc[p]) = "other"
    <3>1. /\ \A q \in Procs : Stage(proc'[q]) = Stage(proc[q])
          /\ \A q \in Procs : Stage(proc[q]) = "rank" => proc'[q].names = proc[q].names
          /\ \A q \in Procs : Stage(proc[q]) = "unlink" =>
               Files \ proc'[q].names \subseteq Files \ proc[q].names
      BY <1>2, <2>1
    <3>2. Counted(Files, proc', unpruned, a)
      BY <1>1, <3>1, CountFewer
    <3> QED
      BY <2>1, <3>2
  <2>2. CASE /\ Stage(proc'[p]) = "other" /\ Stage(proc[p]) # "other"
             /\ \/ unpruned' = unpruned + 1
                \/ unpruned' = unpruned /\ Stage(proc[p]) = "unlink" /\ proc[p].names = {}
    BY <1>1, <1>2, <2>2, CountLeave
  <2>3. CASE /\ Stage(proc[p]) = "glob" /\ Stage(proc'[p]) = "rank" /\ proc'[p].names = Files
             /\ unpruned' = unpruned
    <3>1. Counted(Files, proc', unpruned, a)
      BY <1>1, <1>2, <2>3, CountGlob
    <3> QED
      BY <2>3, <3>1
  <2>4. CASE /\ Stage(proc[p]) = "rank" /\ Stage(proc'[p]) = "unlink" /\ unpruned' = unpruned
             /\ proc'[p].names \subseteq proc[p].names
             /\ Cardinality(proc[p].names \ proc'[p].names) <= Keep
    <3>1. Counted(Files, proc', unpruned, a)
      BY <1>1, <1>2, <2>4, CountRank
    <3> QED
      BY <2>4, <3>1
  <2> QED
    BY <2>1, <2>2, <2>3, <2>4
<1> QED
  BY <1>3 DEF CountInv

(* The count stays right in every step of a process.                       *)
LEMMA QuietCount ==
  ASSUME AnyTypes, CountInv, NEW p \in Procs,
         \/ Ask(p) \/ ReplaceFails(p) \/ WriteFails(p) \/ Glob(p) \/ UnlinkFails(p) \/ Pruned(p)
         \/ \E s \in Sessions : StatFails(p, s) \/ DeleteFails(p, s)
         \/ \E gone \in SUBSET Sessions : Rank(p, gone) \/ Show(p, gone)
         \/ Confirm(p) \/ LeaveAlone(p) \/ Deleted(p) \/ Quit(p) \/ Crash(p)
  PROVE  AnyTypes' /\ CountInv'
<1>1. AnyTypes'
  BY AnyQuiet
<1>2. proc \in [Procs -> AnyState] /\ proc[p] \in AnyState /\ unpruned \in Nat
  BY DEF AnyTypes, CountInv, Counted
<1>3. json' = json /\ Files' = Files
  BY DEF Ask, ReplaceFails, WriteFails, Glob, StatFails, UnlinkFails, DeleteFails, Pruned, Rank,
         Show, Confirm, LeaveAlone, Deleted, Quit, Crash, Files
<1>4. \A q \in Procs : q # p => proc'[q] = proc[q]
  BY <1>2 DEF Goto, Ask, ReplaceFails, WriteFails, Glob, StatFails, UnlinkFails, DeleteFails, Pruned,
              Rank, Show, Confirm, LeaveAlone, Deleted, Quit, Crash
<1>5. CASE Ask(p) \/ ReplaceFails(p) \/ WriteFails(p) \/ Confirm(p) \/ LeaveAlone(p) \/ Deleted(p)
           \/ Quit(p) \/ (\E gone \in SUBSET Sessions : Show(p, gone))
           \/ \E s \in Sessions : DeleteFails(p, s)
  <2>1. proc[p].at \in {"idle", "prompt", "open", "fill", "replace", "confirm", "delete"}
    BY <1>5 DEF At, Ask, ReplaceFails, WriteFails, Confirm, LeaveAlone, Deleted, Quit, Show,
                DeleteFails
  <2>2. proc'[p].at \in {"open", "prompt", "delete", "idle", "confirm"} /\ unpruned' = unpruned
    BY <1>2, <1>5 DEF AnyState, At, Goto, Idle, Ask, ReplaceFails, WriteFails, Confirm, LeaveAlone,
                      Deleted, Quit, Show, DeleteFails
  <2>3. Stage(proc[p]) = "other" /\ Stage(proc'[p]) = "other"
    BY <2>1, <2>2 DEF Stage, Stages
  <2> QED
    BY <1>1, <1>2, <1>3, <1>4, <2>2, <2>3, CountStep
<1>6. CASE Crash(p)
  <2>1. proc'[p] = Idle /\ Stage(Idle) = "other"
    BY <1>2, <1>6 DEF Crash, Idle, Stage, Stages
  <2>2. unpruned' = IF Stage(proc[p]) # "other" THEN unpruned + 1 ELSE unpruned
    BY <1>6 DEF Crash, Stage, Stages
  <2>3. unpruned' \in Nat
    BY <1>2, <2>2
  <2> QED
    BY <1>1, <1>3, <1>4, <2>1, <2>2, <2>3, CountStep
<1>7. CASE Glob(p)
  <2>1. /\ proc[p].at = "glob" /\ proc'[p].at = "rank" /\ proc'[p].names = Files
        /\ unpruned' = unpruned
    BY <1>2, <1>7 DEF Glob, At, Files, AnyState
  <2>2. Stage(proc[p]) = "glob" /\ Stage(proc'[p]) = "rank"
    BY <2>1 DEF Stage, Stages
  <2> QED
    BY <1>1, <1>2, <1>3, <1>4, <2>1, <2>2, CountStep
<1>8. CASE UnlinkFails(p) \/ \E s \in Sessions : StatFails(p, s)
  <2>1. proc[p].at \in {"rank", "unlink"} /\ proc'[p].at = "prompt" /\ unpruned' = unpruned + 1
    BY <1>2, <1>8 DEF UnlinkFails, StatFails, At, AnyState
  <2>2. Stage(proc[p]) # "other" /\ Stage(proc'[p]) = "other" /\ unpruned' \in Nat
    BY <1>2, <2>1 DEF Stage, Stages
  <2> QED
    BY <1>1, <1>3, <1>4, <2>1, <2>2, CountStep
<1>9. CASE Pruned(p)
  <2>1. /\ proc[p].at = "unlink" /\ proc'[p].at = "prompt" /\ proc[p].names = {}
        /\ unpruned' = unpruned
    BY <1>2, <1>9 DEF Pruned, At, Goto, AnyState
  <2>2. Stage(proc[p]) = "unlink" /\ Stage(proc'[p]) = "other"
    BY <2>1 DEF Stage, Stages
  <2> QED
    BY <1>1, <1>2, <1>3, <1>4, <2>1, <2>2, CountStep
<1>10. ASSUME NEW gone \in SUBSET Sessions, Rank(p, gone)
       PROVE  AnyTypes' /\ CountInv'
  <2>1. /\ proc[p].at = "rank" /\ proc'[p].at = "unlink" /\ proc'[p].names = gone
        /\ unpruned' = unpruned
    BY <1>2, <1>10 DEF Rank, At, AnyState
  <2>2. Stage(proc[p]) = "rank" /\ Stage(proc'[p]) = "unlink"
    BY <2>1 DEF Stage, Stages
  <2>3. gone \subseteq proc[p].names
    BY <1>10 DEF Rank, Stale
  <2>4. Cardinality(proc[p].names \ gone) <= Keep
    <3>1. IsFiniteSet(proc[p].names)
      BY <2>2 DEF CountInv, Counted
    <3>2. Cardinality(proc[p].names) \in Nat /\ Keep \in Nat
      BY <3>1, FS_CardinalityType, StoreConstants
    <3> QED
      BY <1>10, <3>2 DEF Rank, Stale
  <2> QED
    BY <1>1, <1>2, <1>3, <1>4, <2>1, <2>2, <2>3, <2>4, CountStep
<1> QED
  BY <1>5, <1>6, <1>7, <1>8, <1>9, <1>10

(* The count stays right when files are written, moved or removed.         *)
LEMMA FileCount ==
  ASSUME AnyTypes, CountInv, NEW p \in Procs,
         \/ OpenTmp(p) \/ (\E shorter \in BOOLEAN : Fill(p, shorter)) \/ Replace(p)
         \/ \E s \in Sessions : Unlink(p, s) \/ delete(p, s)
  PROVE  AnyTypes' /\ CountInv'
<1>1. PICK a \in [Procs -> SUBSET Procs] : Counted(Files, proc, unpruned, a)
  BY DEF CountInv
<1>2. proc \in [Procs -> AnyState] /\ proc[p] \in AnyState /\ unpruned \in Nat
  BY <1>1 DEF AnyTypes, Counted
<1>3. CASE OpenTmp(p) \/ \E shorter \in BOOLEAN : Fill(p, shorter)
  <2>1. AnyTypes' /\ Files' = Files /\ unpruned' = unpruned
    BY <1>3, AnyWrite DEF OpenTmp, Fill
  <2>2. \A q \in Procs : q # p => proc'[q] = proc[q]
    BY <1>2, <1>3 DEF OpenTmp, Fill
  <2>3. proc[p].at \in {"open", "fill"} /\ proc'[p].at \in {"fill", "replace"}
    BY <1>2, <1>3 DEF OpenTmp, Fill, At, AnyState
  <2>4. Stage(proc[p]) = "other" /\ Stage(proc'[p]) = "other"
    BY <2>3 DEF Stage, Stages
  <2> QED
    BY <1>2, <2>1, <2>2, <2>4, CountStep
<1>4. CASE Replace(p)
  <2>1. /\ AnyTypes' /\ \E s \in Sessions : Files' = Files \cup {s}
        /\ \A q \in Procs : proc'[q].at = (IF q = p THEN "glob" ELSE proc[q].at)
                            /\ proc'[q].names = proc[q].names
    BY <1>4, AnyReplace
  <2>2. PICK s \in Sessions : Files' = Files \cup {s}
    BY <2>1
  <2>3. /\ Stage(proc[p]) = "other" /\ Stage(proc'[p]) = "glob" /\ unpruned' = unpruned
        /\ \A q \in Procs : q # p =>
             Stage(proc'[q]) = Stage(proc[q]) /\ proc'[q].names = proc[q].names
    <3>1. proc[p].at = "replace" /\ unpruned' = unpruned
      BY <1>4 DEF Replace, At
    <3>2. proc'[p].at = "glob" /\ \A q \in Procs : q # p => proc'[q].at = proc[q].at
      BY <2>1
    <3> QED
      BY <2>1, <3>1, <3>2 DEF Stage, Stages
  <2>4. \E b \in [Procs -> SUBSET Procs] : Counted(Files', proc', unpruned, b)
    BY <1>1, <2>2, <2>3, CountReplace, ZenonT(60)
  <2> QED
    BY <2>1, <2>3, <2>4 DEF CountInv
<1>5. ASSUME NEW s \in Sessions, Unlink(p, s) \/ delete(p, s)
      PROVE  AnyTypes' /\ CountInv'
  <2>1. Unlinked(p, s) /\ proc[p].at \in {"unlink", "delete"}
    BY <1>5 DEF Unlink, delete, At
  <2>2. /\ AnyTypes' /\ Files' = Files \ {s}
        /\ \A q \in Procs : proc'[q].at = proc[q].at
             /\ proc'[q].names = IF q = p THEN proc[q].names \ {s} ELSE proc[q].names
    BY <2>1, AnyUnlink
  <2>3. unpruned' = unpruned
    BY <2>1 DEF Unlinked
  <2>4. \A q \in Procs : Stage(proc'[q]) = Stage(proc[q])
    BY <2>2 DEF Stage, Stages
  <2>5. \A q \in Procs : Stage(proc[q]) = "rank" => proc'[q].names = proc[q].names
    BY <2>1, <2>2 DEF Stage, Stages
  <2>6. \A q \in Procs : Files' \ proc'[q].names \subseteq Files \ proc[q].names
    BY <2>2
  <2>7. Counted(Files', proc', unpruned, a)
    BY <1>1, <2>2, <2>4, <2>5, <2>6, CountFewer
  <2> QED
    BY <1>1, <2>2, <2>3, <2>7 DEF CountInv
<1> QED
  BY <1>3, <1>4, <1>5

(* The count stays right in every step.                                    *)
LEMMA NextCount ==
  ASSUME AnyTypes, CountInv, [Next]_vars
  PROVE  AnyTypes' /\ CountInv'
<1>1. CASE UNCHANGED vars \/ \E p \in Procs, s \in Sessions : Stat(p, s)
  <2>1. UNCHANGED <<json, tmp, proc, exports, clock, unpruned>> /\ Files' = Files
    BY <1>1 DEF vars, Stat, Files
  <2> QED
    BY <2>1 DEF AnyTypes, CountInv
<1>2. ASSUME NEW p \in Procs, NEW ws \in Workspaces,
             \/ \E s \in Sessions : New(p, s, ws) \/ Resume(p, s, ws)
             \/ \E e \in exports : Import(p, e, ws)
      PROVE  AnyTypes' /\ CountInv'
  <2>1. /\ AnyTypes' /\ Files' = Files /\ unpruned' = unpruned /\ proc[p].at = "idle"
        /\ \E x : x.at = "prompt" /\ proc' = [proc EXCEPT ![p] = x]
    BY <1>2, AnyBegin
  <2>2. proc \in [Procs -> AnyState] /\ unpruned \in Nat
    BY DEF AnyTypes, CountInv, Counted
  <2>3. proc'[p].at = "prompt" /\ \A q \in Procs : q # p => proc'[q] = proc[q]
    BY <2>1, <2>2
  <2>4. Stage(proc[p]) = "other" /\ Stage(proc'[p]) = "other"
    BY <2>1, <2>3 DEF Stage, Stages
  <2> QED
    BY <2>1, <2>2, <2>3, <2>4, CountStep
<1>3. ASSUME NEW s \in Sessions, Export(s)
      PROVE  AnyTypes' /\ CountInv'
  <2>1. AnyTypes' /\ UNCHANGED <<json, proc, unpruned>>
    BY <1>3, AnyExport DEF Export
  <2>2. Files' = Files
    BY <2>1 DEF Files
  <2> QED
    BY <2>1, <2>2 DEF CountInv
<1>4. ASSUME NEW p \in Procs, Save(p)
      PROVE  AnyTypes' /\ CountInv'
  BY <1>1, <1>4, QuietCount, FileCount DEF Save
<1>5. ASSUME NEW p \in Procs, Delete(p)
      PROVE  AnyTypes' /\ CountInv'
  <2>1. \A ws \in Workspaces : listing(ws) \in SUBSET Sessions
    BY DEF listing, Readable
  <2> QED
    BY <1>5, <2>1, QuietCount, FileCount DEF Delete, DeleteAll, DeleteNamed
<1>6. ASSUME NEW p \in Procs, Quit(p) \/ Crash(p)
      PROVE  AnyTypes' /\ CountInv'
  BY <1>6, QuietCount
<1> QED
  BY <1>1, <1>2, <1>3, <1>4, <1>5, <1>6 DEF Next

(* The directory stays within its limit, but for the saves under way and   *)
(* the prunings that were cut short, whether sessions are shared or not.   *)
THEOREM DirectoryIsBounded == Spec => []WithinLimit
<1>1. CountInv => WithinLimit
  <2>1. Savers(proc) = {p \in Procs : Saving(p)}
    BY DEF Savers, Stage, Stages, Saving
  <2> QED
    BY <2>1 DEF CountInv, Counted, WithinLimit
<1> QED
  BY <1>1, InitCount, NextCount, PTL DEF Spec
-----------------------------------------------------------------------------
(* Who goes when mtime and the recorded time disagree.  A file is made in  *)
(* the time from its updated to its mtime, and a process makes one after   *)
(* the other: author names the process that finished a file at each time.  *)
(* That is so of the files there are and of those that somebody has asked  *)
(* for their time, there still or not.  A kept file older than a doomed    *)
(* one was being made when the doomed one was begun, and so many processes *)
(* there are not.                                                          *)
Stamps == [updated : Nat, mtime : Nat]

(* s has the times v, or had them when some process asked.                 *)
Seen(j, ts, s, v) ==
  \/ j[s] # None /\ v.updated = j[s].updated /\ v.mtime = j[s].mtime
  \/ \E p \in Procs : ts[p][s] # None /\ v = ts[p][s]

Made(j, ts, author, now) ==
  /\ \A s \in Sessions, v \in Stamps : Seen(j, ts, s, v) =>
       author[v.mtime] \in Procs /\ v.updated < v.mtime /\ v.mtime <= now
  /\ \A s, t \in Sessions, v, w \in Stamps :
       s # t /\ Seen(j, ts, s, v) /\ Seen(j, ts, t, w) /\ author[v.mtime] = author[w.mtime] =>
         v.mtime < w.updated \/ w.mtime < v.updated

(* All that p has made was finished before time u.                         *)
DoneBefore(j, ts, author, p, u) ==
  \A s \in Sessions, v \in Stamps : Seen(j, ts, s, v) /\ author[v.mtime] = p => v.mtime < u

(* What p, in state x, is making was begun after all that.                 *)
Making(p, x, j, ts, t, author, now) ==
  /\ x.at \in {"open", "fill"} => x.updated <= now /\ DoneBefore(j, ts, author, p, x.updated)
  /\ x.at = "replace" /\ t[x.session] # None =>
       /\ DoneBefore(j, ts, author, p, t[x.session].updated)
       /\ t[x.session].updated < t[x.session].mtime
       /\ t[x.session].mtime <= now
       /\ author[t[x.session].mtime] = p

Asked == times \in [Procs -> [Sessions -> Stamps \cup {None}]]

Dated(author) ==
  /\ author \in [Nat -> Procs \cup {None}]
  /\ Made(json, times, author, clock)
  /\ \A p \in Procs : Making(p, proc[p], json, times, tmp, author, clock)

DateInv == Asked /\ \E author \in [Nat -> Procs \cup {None}] : Dated(author)

(* Nothing is made yet.                                                    *)
LEMMA InitDate == Init => DateInv
<1> SUFFICES ASSUME Init PROVE DateInv
  OBVIOUS
<1> DEFINE a == [m \in Nat |-> None]
<1>1. a \in [Nat -> Procs \cup {None}]
  OBVIOUS
<1>2. Asked /\ \A s \in Sessions, v \in Stamps : ~Seen(json, times, s, v)
  BY DEF Init, Asked, NoTimes, Seen
<1>3. Made(json, times, a, clock)
  BY <1>2 DEF Made
<1>4. \A p \in Procs : Making(p, proc[p], json, times, tmp, a, clock)
  BY DEF Init, Making, Idle
<1> HIDE DEF a
<1> QED
  BY <1>1, <1>2, <1>3, <1>4 DEF DateInv, Dated

(* The names of those who finish files later do not matter yet.            *)
LEMMA Redate ==
  ASSUME IInv, NEW a, Dated(a), NEW b \in [Nat -> Procs \cup {None}],
         \A m \in Nat : m <= clock => b[m] = a[m]
  PROVE  Dated(b)
<1>1. /\ tmp \in [Sessions -> Contents \cup {None}] /\ clock \in Nat
      /\ \A p \in Procs : Consistent(proc[p], tmp)
  BY DEF IInv, Types
<1>2. ASSUME NEW s \in Sessions, NEW v \in Stamps, Seen(json, times, s, v)
      PROVE  b[v.mtime] = a[v.mtime]
  BY <1>1, <1>2 DEF Dated, Made, Stamps
<1>3. Made(json, times, b, clock)
  BY <1>2 DEF Dated, Made
<1>4. ASSUME NEW p, NEW u, DoneBefore(json, times, a, p, u)
      PROVE  DoneBefore(json, times, b, p, u)
  BY <1>2, <1>4 DEF DoneBefore
<1>5. ASSUME NEW p \in Procs
      PROVE  Making(p, proc[p], json, times, tmp, b, clock)
  <2>1. Making(p, proc[p], json, times, tmp, a, clock)
    BY DEF Dated
  <2> DEFINE f == tmp[proc[p].session]
  <2>2. CASE proc[p].at = "replace" /\ f # None
    <3>1. f \in Contents /\ f.mtime \in Nat
      <4>1. proc[p].session \in Sessions
        BY <1>1, <2>2 DEF Consistent, States
      <4>2. f \in Contents
        BY <1>1, <2>2, <4>1
      <4> QED
        BY <4>2 DEF Contents
    <3>2. /\ DoneBefore(json, times, a, p, f.updated) /\ f.updated < f.mtime
          /\ f.mtime <= clock /\ a[f.mtime] = p
      BY <2>1, <2>2 DEF Making
    <3>3. b[f.mtime] = p /\ DoneBefore(json, times, b, p, f.updated)
      BY <1>4, <3>1, <3>2
    <3> QED
      BY <2>2, <3>2, <3>3 DEF Making
  <2>3. CASE ~(proc[p].at = "replace" /\ f # None)
    BY <1>4, <2>1, <2>3 DEF Making
  <2> QED
    BY <2>2, <2>3
<1> QED
  BY <1>3, <1>5 DEF Dated

(* A process moves, files may go, and the time may pass; what the process  *)
(* is making has to be begun after what it has made.                       *)
LEMMA DateStep ==
  ASSUME IInv, NEW author, Dated(author), NEW p \in Procs, clock' \in Nat, clock <= clock',
         \A q \in Procs : q # p => proc'[q] = proc[q],
         \A s \in Sessions, v \in Stamps : Seen(json', times', s, v) => Seen(json, times, s, v),
         \A s \in Sessions : tmp'[s] = tmp[s] \/ s = proc[p].session,
         Making(p, proc'[p], json, times, tmp', author, clock')
  PROVE  Dated(author)'
<1>1. /\ clock \in Nat
      /\ tmp \in [Sessions -> Contents \cup {None}] /\ proc \in [Procs -> States]
  BY DEF IInv, Types
<1>2. Made(json', times', author, clock')
  <2>1. ASSUME NEW s \in Sessions, NEW v \in Stamps, Seen(json', times', s, v)
        PROVE  author[v.mtime] \in Procs /\ v.updated < v.mtime /\ v.mtime <= clock'
    BY <1>1, <2>1 DEF Dated, Made, Stamps
  <2>2. ASSUME NEW s \in Sessions, NEW t \in Sessions, NEW v \in Stamps, NEW w \in Stamps,
               s # t, Seen(json', times', s, v), Seen(json', times', t, w),
               author[v.mtime] = author[w.mtime]
        PROVE  v.mtime < w.updated \/ w.mtime < v.updated
    BY <2>2 DEF Dated, Made
  <2> QED
    BY <2>1, <2>2 DEF Made
<1>3. ASSUME NEW q \in Procs, NEW u, DoneBefore(json, times, author, q, u)
      PROVE  DoneBefore(json', times', author, q, u)
  BY <1>3 DEF DoneBefore
<1>4. Making(p, proc'[p], json', times', tmp', author, clock')
  BY <1>3 DEF Making
<1>5. ASSUME NEW q \in Procs, q # p
      PROVE  Making(q, proc'[q], json', times', tmp', author, clock')
  <2>1. /\ proc'[q] = proc[q] /\ proc[q] \in States /\ Consistent(proc[q], tmp)
        /\ Making(q, proc[q], json, times, tmp, author, clock)
    BY <1>1, <1>5 DEF IInv, Dated
  <2>2. proc[q].at \in {"open", "fill"} =>
          proc[q].updated <= clock' /\ DoneBefore(json', times', author, q, proc[q].updated)
    BY <1>1, <1>3, <2>1 DEF Making, States
  <2>3. CASE proc[q].at = "replace"
    <3> DEFINE s == proc[q].session
    <3>1. s \in Sessions /\ s # None /\ s # proc[p].session
      BY <1>5, <2>1, <2>3, StoreConstants DEF IInv, Alone, Consistent, States
    <3>2. tmp'[s] = tmp[s] /\ (tmp[s] # None => tmp[s].mtime \in Nat)
      BY <1>1, <3>1 DEF Contents
    <3>3. tmp[s] # None => /\ DoneBefore(json', times', author, q, tmp[s].updated)
                           /\ tmp[s].updated < tmp[s].mtime /\ tmp[s].mtime <= clock'
                           /\ author[tmp[s].mtime] = q
      BY <1>1, <1>3, <2>1, <2>3, <3>2 DEF Making
    <3> QED
      BY <2>1, <2>3, <3>2, <3>3 DEF Making
  <2> QED
    BY <2>1, <2>2, <2>3 DEF Making
<1> QED
  BY <1>2, <1>4, <1>5 DEF Dated

(* Steps of a process that is then not writing.                            *)
LEMMA RestDate ==
  ASSUME IInv, DateInv, NEW p \in Procs, proc'[p].at \notin {"open", "fill", "replace"},
         \A q \in Procs : q # p => proc'[q] = proc[q],
         \A s \in Sessions : json'[s] = json[s] \/ json'[s] = None,
         times' = times \/ times' = [times EXCEPT ![p] = NoTimes],
         UNCHANGED <<tmp, clock>>
  PROVE  DateInv'
<1>1. PICK a \in [Nat -> Procs \cup {None}] : Dated(a)
  BY DEF DateInv
<1>2. Making(p, proc'[p], json, times, tmp', a, clock')
  BY DEF Making
<1>3. clock' \in Nat /\ clock <= clock'
  BY DEF IInv, Types
<1>4. Asked' /\ \A q \in Procs, s \in Sessions : times'[q][s] = times[q][s] \/ times'[q][s] = None
  BY DEF DateInv, Asked, NoTimes
<1>5. \A s \in Sessions, v \in Stamps : Seen(json', times', s, v) => Seen(json, times, s, v)
  BY <1>4 DEF Seen
<1>6. Dated(a)'
  BY <1>1, <1>2, <1>3, <1>5, DateStep
<1> QED
  BY <1>1, <1>4, <1>6 DEF DateInv

LEMMA QuietDate ==
  ASSUME IInv, DateInv, NEW p \in Procs,
         \/ ReplaceFails(p) \/ WriteFails(p) \/ Glob(p) \/ UnlinkFails(p) \/ Pruned(p)
         \/ \E s \in Sessions : StatFails(p, s) \/ DeleteFails(p, s)
         \/ \E gone \in SUBSET Sessions : Rank(p, gone) \/ Show(p, gone)
         \/ Confirm(p) \/ LeaveAlone(p) \/ Deleted(p) \/ Quit(p) \/ Crash(p)
         \/ \E s, ws, turns : Begin(p, s, ws, turns)
  PROVE  DateInv'
<1>1. proc \in [Procs -> States]
  BY DEF IInv, Types
<1>2. UNCHANGED <<json, tmp, clock>> /\ (times' = times \/ times' = [times EXCEPT ![p] = NoTimes])
  BY DEF ReplaceFails, WriteFails, Glob, StatFails, UnlinkFails, DeleteFails, Pruned, Rank, Show,
         Confirm, LeaveAlone, Deleted, Quit, Crash, Begin
<1>3. \A q \in Procs : q # p => proc'[q] = proc[q]
  BY <1>1 DEF ReplaceFails, WriteFails, Glob, StatFails, UnlinkFails, DeleteFails, Pruned, Rank,
              Show, Confirm, LeaveAlone, Deleted, Quit, Crash, Begin, Goto
<1>4. proc'[p].at \notin {"open", "fill", "replace"}
  <2>1. CASE LeaveAlone(p) \/ Deleted(p) \/ Quit(p) \/ Crash(p)
    BY <1>1, <2>1 DEF LeaveAlone, Deleted, Quit, Crash, Idle
  <2>2. CASE ReplaceFails(p) \/ WriteFails(p) \/ Glob(p) \/ UnlinkFails(p) \/ Pruned(p) \/ Confirm(p)
    BY <1>1, <2>2 DEF ReplaceFails, WriteFails, Glob, UnlinkFails, Pruned, Confirm, Goto, States
  <2>3. CASE \/ \E gone \in SUBSET Sessions : Rank(p, gone) \/ Show(p, gone)
             \/ \E s \in Sessions : StatFails(p, s) \/ DeleteFails(p, s)
    BY <1>1, <2>3 DEF Rank, Show, StatFails, DeleteFails, At, States
  <2>4. ASSUME NEW s, NEW ws, NEW turns, Begin(p, s, ws, turns)
        PROVE  proc'[p].at = "prompt"
    <3>1. proc'[p] = [Idle EXCEPT !.at = "prompt", !.session = s, !.ws = ws, !.turns = turns]
      BY <1>1, <2>4 DEF Begin
    <3> QED
      BY <3>1 DEF Idle
  <2> QED
    BY <2>1, <2>2, <2>3, <2>4
<1> QED
  BY <1>2, <1>3, <1>4, RestDate

(* A process asks for the time of a file: it is one that the file has.     *)
LEMMA StatDate ==
  ASSUME IInv, DateInv, NEW p \in Procs, NEW r \in Sessions, Stat(p, r)
  PROVE  DateInv'
<1> DEFINE x == [updated |-> json[r].updated, mtime |-> json[r].mtime]
<1>1. /\ json \in [Sessions -> Contents \cup {None}] /\ Asked
      /\ UNCHANGED <<json, tmp, proc, clock>> /\ json[r] # None
      /\ times' = [times EXCEPT ![p][r] = x]
  BY DEF IInv, Types, DateInv, Stat
<1>2. x \in Stamps /\ x.updated = json[r].updated /\ x.mtime = json[r].mtime
  BY <1>1 DEF Stamps, Contents
<1> HIDE DEF x
<1>3. Asked'
  BY <1>1, <1>2 DEF Asked
<1>4. \A q \in Procs, s \in Sessions :
        times'[q][s] = IF q = p /\ s = r THEN x ELSE times[q][s]
  BY <1>1 DEF Asked
<1>5. ASSUME NEW s \in Sessions, NEW v \in Stamps, Seen(json', times', s, v)
      PROVE  Seen(json, times, s, v)
  <2>1. CASE json'[s] # None /\ v.updated = json'[s].updated /\ v.mtime = json'[s].mtime
    BY <1>1, <2>1 DEF Seen
  <2>2. ASSUME NEW q \in Procs, times'[q][s] # None, v = times'[q][s]
        PROVE  Seen(json, times, s, v)
    <3>1. CASE q = p /\ s = r
      BY <1>1, <1>2, <1>4, <2>2, <3>1 DEF Seen
    <3>2. CASE ~(q = p /\ s = r)
      <4>1. times'[q][s] = times[q][s]
        BY <1>4, <3>2
      <4> QED
        BY <2>2, <4>1 DEF Seen
    <3> QED
      BY <3>1, <3>2
  <2> QED
    BY <1>5, <2>1, <2>2 DEF Seen
<1>6. PICK a \in [Nat -> Procs \cup {None}] : Dated(a)
  BY DEF DateInv
<1>7. Made(json', times', a, clock')
  BY <1>1, <1>5, <1>6 DEF Dated, Made
<1>8. ASSUME NEW q \in Procs, NEW u, DoneBefore(json, times, a, q, u)
      PROVE  DoneBefore(json', times', a, q, u)
  BY <1>5, <1>8 DEF DoneBefore
<1>9. ASSUME NEW q \in Procs
      PROVE  Making(q, proc'[q], json', times', tmp', a, clock')
  <2>1. Making(q, proc[q], json, times, tmp, a, clock)
    BY <1>6 DEF Dated
  <2>2. Making(q, proc[q], json', times', tmp, a, clock)
    BY <1>8, <2>1 DEF Making
  <2> QED
    BY <1>1, <2>2
<1> QED
  BY <1>3, <1>6, <1>7, <1>9 DEF DateInv, Dated

LEMMA UnlinkDate ==
  ASSUME IInv, DateInv, NEW p \in Procs, NEW s \in Sessions, Unlink(p, s) \/ delete(p, s)
  PROVE  DateInv'
<1>1. /\ proc \in [Procs -> States] /\ json \in [Sessions -> Contents \cup {None}]
      /\ proc[p].at \in {"unlink", "delete"} /\ Unlinked(p, s)
  BY DEF IInv, Types, Unlink, delete, At
<1>2. /\ json' = [json EXCEPT ![s] = None] /\ UNCHANGED <<tmp, times, clock>>
      /\ proc' = [q \in Procs |-> [proc[q] EXCEPT
                   !.names = IF q = p THEN proc[q].names \ {s} ELSE proc[q].names,
                   !.fd = IF proc[q].session = s /\ proc[q].fd = "json" THEN "gone" ELSE proc[q].fd]]
  BY <1>1 DEF Unlinked, States
<1>3. \A q \in Procs : proc[q].fd # "json"
  BY <1>1, StoreConstants DEF States
<1>4. proc'[p].at = proc[p].at
  BY <1>1, <1>2 DEF States
<1>5. ASSUME NEW q \in Procs, q # p
      PROVE  proc'[q] = proc[q]
  BY <1>1, <1>2, <1>3, <1>5 DEF States
<1>6. \A r \in Sessions : json'[r] = json[r] \/ json'[r] = None
  BY <1>1, <1>2
<1> QED
  BY <1>1, <1>2, <1>4, <1>5, <1>6, RestDate

(* A save begins after all that is there, and is filled later than that.   *)
LEMMA WriteDate ==
  ASSUME IInv, DateInv, NEW p \in Procs,
         Ask(p) \/ OpenTmp(p) \/ \E shorter \in BOOLEAN : Fill(p, shorter)
  PROVE  DateInv'
<1>1. /\ proc \in [Procs -> States] /\ json \in [Sessions -> Contents \cup {None}]
      /\ tmp \in [Sessions -> Contents \cup {None}] /\ clock \in Nat
      /\ proc[p] \in States /\ Consistent(proc[p], tmp)
  BY DEF IInv, Types
<1>2. PICK a \in [Nat -> Procs \cup {None}] : Dated(a)
  BY DEF DateInv
<1>3. \A q \in Procs : q # p => proc'[q] = proc[q]
  BY <1>1 DEF Ask, OpenTmp, Fill
<1>4. proc[p].at = "fill" => proc[p].fd = "tmp"
  BY <1>1 DEF Consistent
<1>5. json' = json /\ times' = times
  BY <1>1, <1>4 DEF Ask, OpenTmp, Fill, At
<1>6. \A s \in Sessions : tmp'[s] = tmp[s] \/ s = proc[p].session
  BY <1>1 DEF Ask, OpenTmp, Fill
<1>7. clock' \in Nat /\ clock <= clock'
  BY <1>1 DEF Ask, OpenTmp, Fill
<1>8. PICK b \in [Nat -> Procs \cup {None}] :
        /\ Dated(b)
        /\ b[clock + 1] = p
  <2> DEFINE c == [a EXCEPT ![clock + 1] = p]
  <2>1. /\ c \in [Nat -> Procs \cup {None}] /\ c[clock + 1] = p
        /\ \A m \in Nat : m <= clock => c[m] = a[m]
    BY <1>1, <1>2
  <2> HIDE DEF c
  <2>2. Dated(c)
    BY <1>2, <2>1, Redate
  <2> QED
    BY <2>1, <2>2
<1>9. Making(p, proc'[p], json, times, tmp', b, clock')
  <2>1. CASE Ask(p)
    <3>1. clock' = clock + 1 /\ proc'[p].at = "open" /\ proc'[p].updated = clock + 1
      BY <1>1, <2>1 DEF Ask, States
    <3>2. DoneBefore(json, times, b, p, clock + 1)
      BY <1>1, <1>8 DEF DoneBefore, Dated, Made, Stamps
    <3> QED
      BY <1>1, <3>1, <3>2 DEF Making
  <2>2. CASE OpenTmp(p)
    BY <1>1, <1>8, <2>2 DEF OpenTmp, At, Making, Dated, States
  <2>3. ASSUME NEW shorter \in BOOLEAN, Fill(p, shorter)
        PROVE  Making(p, proc'[p], json, times, tmp', b, clock')
    <3> DEFINE s == proc[p].session
    <3>1. /\ proc[p].at = "fill" /\ proc'[p].at = "replace" /\ proc'[p].session = s
          /\ clock' = clock + 1 /\ s \in Sessions
      BY <1>1, <2>3 DEF Fill, At, States, Consistent
    <3>2. tmp' = [tmp EXCEPT ![s] = Filled(p, tmp[s], shorter)]
      BY <1>4, <2>3, <3>1 DEF Fill
    <3>3. tmp'[s].updated = proc[p].updated /\ tmp'[s].mtime = clock + 1
      BY <1>1, <3>1, <3>2 DEF Filled
    <3>4. /\ proc[p].updated <= clock /\ DoneBefore(json, times, b, p, proc[p].updated)
          /\ proc[p].updated \in Nat
      BY <1>1, <1>8, <3>1 DEF Dated, Making, States
    <3> HIDE DEF s
    <3> QED
      BY <1>1, <1>8, <3>1, <3>3, <3>4 DEF Making
  <2> QED
    BY <2>1, <2>2, <2>3
<1>10. Dated(b)'
  BY <1>3, <1>5, <1>6, <1>7, <1>8, <1>9, DateStep
<1>11. Asked'
  BY <1>5 DEF DateInv, Asked
<1> QED
  BY <1>8, <1>10, <1>11 DEF DateInv

(* The file that is moved into place is the latest of who moves it.        *)
LEMMA ReplaceDate ==
  ASSUME IInv, DateInv, NEW p \in Procs, Replace(p)
  PROVE  DateInv'
<1> DEFINE s == proc[p].session
<1>1. /\ proc \in [Procs -> States] /\ json \in [Sessions -> Contents \cup {None}]
      /\ tmp \in [Sessions -> Contents \cup {None}] /\ clock \in Nat
      /\ proc[p] \in States /\ Consistent(proc[p], tmp)
  BY DEF IInv, Types
<1>2. PICK a \in [Nat -> Procs \cup {None}] : Dated(a)
  BY DEF DateInv
<1>3. proc[p].at = "replace" /\ tmp[s] # None /\ s \in Sessions /\ s # None /\ tmp[s] \in Contents
  BY <1>1, StoreConstants DEF Replace, At, Consistent, States
<1>4. /\ json' = [json EXCEPT ![s] = tmp[s]] /\ tmp' = [tmp EXCEPT ![s] = None]
      /\ clock' = clock /\ times' = times
      /\ proc' = [q \in Procs |-> [proc[q] EXCEPT
                    !.at = IF q = p THEN "glob" ELSE proc[q].at,
                    !.fd = IF proc[q].session # s THEN proc[q].fd
                           ELSE IF proc[q].fd = "json" THEN "gone"
                           ELSE IF proc[q].fd = "tmp" THEN "json" ELSE proc[q].fd]]
  BY <1>1 DEF Replace, States
<1>5. proc'[p].at = "glob" /\ \A q \in Procs : q # p => proc[q].session # s
  BY <1>1, <1>3, <1>4 DEF IInv, Alone, States
<1>6. ASSUME NEW q \in Procs, q # p
      PROVE  proc'[q] = proc[q]
  BY <1>1, <1>4, <1>5, <1>6 DEF States
<1> DEFINE u == tmp[s].updated
           m == tmp[s].mtime
<1>7. /\ u \in Nat /\ m \in Nat /\ a[m] = p
      /\ DoneBefore(json, times, a, p, u) /\ u < m /\ m <= clock
  BY <1>2, <1>3 DEF Dated, Making, Contents
<1>8. \A r \in Sessions : json'[r] = IF r = s THEN tmp[s] ELSE json[r]
  BY <1>1, <1>4
<1>9. ASSUME NEW r \in Sessions, NEW v \in Stamps, Seen(json', times', r, v)
      PROVE  Seen(json, times, r, v) \/ (r = s /\ v.updated = u /\ v.mtime = m)
  BY <1>4, <1>8, <1>9 DEF Seen
<1> HIDE DEF s, u, m
<1>10. Made(json', times', a, clock')
  <2>1. ASSUME NEW r \in Sessions, NEW v \in Stamps, Seen(json', times', r, v)
        PROVE  a[v.mtime] \in Procs /\ v.updated < v.mtime /\ v.mtime <= clock'
    BY <1>2, <1>4, <1>7, <1>9, <2>1 DEF Dated, Made
  <2>2. ASSUME NEW r \in Sessions, NEW t \in Sessions, NEW v \in Stamps, NEW w \in Stamps, r # t,
               Seen(json', times', r, v), Seen(json', times', t, w), a[v.mtime] = a[w.mtime]
        PROVE  v.mtime < w.updated \/ w.mtime < v.updated
    <3>1. CASE Seen(json, times, r, v) /\ Seen(json, times, t, w)
      BY <1>2, <2>2, <3>1 DEF Dated, Made
    <3>2. CASE r = s /\ v.updated = u /\ v.mtime = m
      <4>1. Seen(json, times, t, w)
        BY <1>9, <2>2, <3>2
      <4> QED
        BY <1>7, <2>2, <3>2, <4>1 DEF DoneBefore
    <3>3. CASE t = s /\ w.updated = u /\ w.mtime = m
      <4>1. Seen(json, times, r, v)
        BY <1>9, <2>2, <3>3
      <4> QED
        BY <1>7, <2>2, <3>3, <4>1 DEF DoneBefore
    <3> QED
      BY <1>9, <2>2, <3>1, <3>2, <3>3
  <2> QED
    BY <2>1, <2>2 DEF Made
<1>11. ASSUME NEW q \in Procs
       PROVE  Making(q, proc'[q], json', times', tmp', a, clock')
  <2>1. CASE q = p
    BY <1>5, <2>1 DEF Making
  <2>2. CASE q # p
    <3>1. /\ proc'[q] = proc[q] /\ Making(q, proc[q], json, times, tmp, a, clock)
          /\ Consistent(proc[q], tmp)
      BY <1>2, <1>6, <2>2 DEF Dated, IInv
    <3>2. ASSUME NEW n, DoneBefore(json, times, a, q, n)
          PROVE  DoneBefore(json', times', a, q, n)
      BY <1>7, <1>9, <2>2, <3>2 DEF DoneBefore
    <3>3. proc[q].at = "replace" => tmp'[proc[q].session] = tmp[proc[q].session]
      BY <1>1, <1>4, <1>5, <2>2, <3>1 DEF Consistent, States
    <3> QED
      BY <1>4, <3>1, <3>2, <3>3 DEF Making
  <2> QED
    BY <2>1, <2>2
<1>12. Dated(a)'
  BY <1>2, <1>10, <1>11 DEF Dated
<1>13. Asked'
  BY <1>4 DEF DateInv, Asked
<1> QED
  BY <1>2, <1>12, <1>13 DEF DateInv

LEMMA NextDate ==
  ASSUME IInv, DateInv, [Next]_vars
  PROVE  DateInv'
<1>1. CASE UNCHANGED vars
  BY <1>1 DEF vars, DateInv, Dated, Asked
<1>2. ASSUME NEW p \in Procs, NEW ws \in Workspaces,
             \/ \E s \in Sessions : New(p, s, ws) \/ Resume(p, s, ws)
             \/ \E e \in exports : Import(p, e, ws)
      PROVE  DateInv'
  <2>1. \E s, turns : Begin(p, s, ws, turns)
    BY <1>2 DEF New, Resume, Import
  <2> QED
    BY <2>1, QuietDate
<1>3. ASSUME NEW s \in Sessions, Export(s)
      PROVE  DateInv'
  BY <1>3 DEF Export, DateInv, Dated, Asked
<1>4. ASSUME NEW p \in Procs, Save(p)
      PROVE  DateInv'
  BY <1>4, QuietDate, StatDate, WriteDate, ReplaceDate, UnlinkDate DEF Save
<1>5. ASSUME NEW p \in Procs, Delete(p)
      PROVE  DateInv'
  <2>1. \A ws \in Workspaces : listing(ws) \in SUBSET Sessions
    BY DEF listing, Readable
  <2> QED
    BY <1>5, <2>1, QuietDate, UnlinkDate DEF Delete, DeleteAll, DeleteNamed
<1>6. ASSUME NEW p \in Procs, Quit(p) \/ Crash(p)
      PROVE  DateInv'
  BY <1>6, QuietDate
<1> QED
  BY <1>1, <1>2, <1>3, <1>4, <1>5, <1>6 DEF Next

(* If no file that is kept were later than s, every one of them would have *)
(* been in the making when s was begun, s too: by Keep + 1 processes.      *)
LEMMA LaterIsKept ==
  ASSUME IInv, DateInv, IsFiniteSet(Procs), Cardinality(Procs) <= Keep, NEW p \in Procs,
         NEW names \in SUBSET Sessions, NEW doomed \in SUBSET Sessions, IsFiniteSet(names),
         \A t \in names : times[p][t] # None, Stale(names, times[p], doomed), NEW s \in doomed
  PROVE  \E t \in names \ doomed : times[p][t].updated > times[p][s].updated
<1> DEFINE time == times[p]
           kept == names \ doomed
           U == kept \cup {s}
<1> SUFFICES ASSUME \A t \in kept : ~(time[t].updated > time[s].updated)
             PROVE  FALSE
  OBVIOUS
<1>1. s \in names /\ s \notin kept /\ U \subseteq names
  BY DEF Stale
<1>2. PICK a \in [Nat -> Procs \cup {None}] : Dated(a)
  BY DEF DateInv
<1>3. IsFiniteSet(kept) /\ Cardinality(names) # Cardinality(kept)
  <2>1. kept \in SUBSET names /\ kept # names
    BY <1>1
  <2> QED
    BY <2>1, FS_Subset
<1>4. Cardinality(kept) = Keep
  BY <1>3 DEF Stale
<1>5. IsFiniteSet(U) /\ Cardinality(U) = Keep + 1
  BY <1>1, <1>3, <1>4, FS_AddElement
<1>6. \A t \in names : /\ t \in Sessions /\ time[t] \in Stamps /\ Seen(json, times, t, time[t])
                       /\ a[time[t].mtime] \in Procs /\ time[t].updated < time[t].mtime
  <2>1. \A t \in names : t \in Sessions /\ time[t] \in Stamps
    BY DEF DateInv, Asked
  <2>2. \A t \in names : Seen(json, times, t, time[t])
    BY DEF Seen
  <2> HIDE DEF time
  <2> QED
    BY <1>2, <2>1, <2>2 DEF Dated, Made
<1>7. \A t \in U : /\ time[t].updated \in Nat /\ time[t].mtime \in Nat
                   /\ time[t].updated <= time[s].updated /\ time[s].updated < time[t].mtime
  <2>1. \A t \in U : time[t].updated \in Nat /\ time[t].mtime \in Nat
    BY <1>1, <1>6 DEF Stamps
  <2>2. time[s].updated < time[s].mtime
    BY <1>1, <1>6
  <2>3. \A t \in U : time[s].mtime <= time[t].mtime
    <3>1. \A t \in kept : time[s].mtime <= time[t].mtime
      BY DEF Stale
    <3> QED
      BY <2>1, <3>1
  <2>4. s \in U /\ \A t \in U : ~(time[t].updated > time[s].updated)
    BY <2>1
  <2> HIDE DEF U, time
  <2> QED
    BY <2>1, <2>2, <2>3, <2>4
<1> HIDE DEF time
<1>8. PICK x \in U, y \in U : x # y /\ a[time[x].mtime] = a[time[y].mtime]
  <2> DEFINE f == [t \in U |-> a[time[t].mtime]]
  <2>1. f \in [U -> Procs]
    BY <1>1, <1>6
  <2>2. Cardinality(Procs) < Cardinality(U)
    BY <1>5, FS_CardinalityType, StoreConstants
  <2>3. \A t \in U : f[t] = a[time[t].mtime]
    OBVIOUS
  <2> HIDE DEF f, U
  <2>4. \E x, y \in U : x # y /\ f[x] = f[y]
    BY <1>5, <2>1, <2>2, FS_PigeonHole
  <2> QED
    BY <2>3, <2>4
<1>9. time[x].mtime < time[y].updated \/ time[y].mtime < time[x].updated
  <2>1. x \in names /\ y \in names
    BY <1>1, <1>8
  <2> HIDE DEF U
  <2> QED
    BY <1>2, <1>6, <1>8, <2>1 DEF Dated, Made
<1> HIDE DEF U
<1> QED
  BY <1>1, <1>7, <1>8, <1>9 DEF U

(* Only the ranking ends in a choice.                                      *)
LEMMA ChosenByRank ==
  ASSUME IInv, Next, NEW p \in Procs, proc[p].at = "rank", proc'[p].at = "unlink"
  PROVE  \E doomed \in SUBSET Sessions : Rank(p, doomed)
<1>1. proc \in [Procs -> States]
  BY DEF IInv, Types
<1>2. ASSUME NEW q \in Procs, NEW x, proc' = [proc EXCEPT ![q] = x], x.at # "unlink"
      PROVE  FALSE
  BY <1>1, <1>2
<1>3. ASSUME NEW q \in Procs, NEW s, NEW ws, NEW turns, Begin(q, s, ws, turns)
      PROVE  FALSE
  BY <1>2, <1>3 DEF Begin, Idle
<1>4. ASSUME NEW q \in Procs, Quit(q) \/ LeaveAlone(q) \/ Deleted(q) \/ Crash(q)
      PROVE  FALSE
  BY <1>2, <1>4 DEF Quit, LeaveAlone, Deleted, Crash, Idle
<1>5. ASSUME NEW q \in Procs,
             \/ Ask(q) \/ OpenTmp(q) \/ ReplaceFails(q) \/ WriteFails(q) \/ Glob(q) \/ UnlinkFails(q)
             \/ Pruned(q) \/ Confirm(q)
             \/ \E s \in Sessions : Stat(q, s) \/ StatFails(q, s) \/ DeleteFails(q, s)
             \/ \E shorter \in BOOLEAN : Fill(q, shorter)
             \/ \E shown \in SUBSET Sessions : Show(q, shown)
      PROVE  FALSE
  BY <1>1, <1>5 DEF Ask, OpenTmp, ReplaceFails, WriteFails, Glob, Stat, StatFails, UnlinkFails,
                    Pruned, Confirm, DeleteFails, Fill, Show, At, Goto, States
<1>6. ASSUME NEW q \in Procs, Replace(q)
      PROVE  FALSE
  <2>1. proc'[p].at = IF p = q THEN "glob" ELSE proc[p].at
    BY <1>1, <1>6 DEF Replace, States
  <2> QED
    BY <2>1
<1>7. ASSUME NEW q \in Procs, NEW s \in Sessions, Unlink(q, s) \/ delete(q, s)
      PROVE  FALSE
  <2>1. Unlinked(q, s)
    BY <1>7 DEF Unlink, delete
  <2>2. proc'[p].at = proc[p].at
    BY <1>1, <2>1 DEF Unlinked, States
  <2> QED
    BY <2>2
<1>8. ASSUME NEW q \in Procs, NEW doomed \in SUBSET Sessions, Rank(q, doomed)
      PROVE  q = p
  BY <1>1, <1>8 DEF Rank, States
<1>9. ASSUME NEW s \in Sessions, Export(s)
      PROVE  FALSE
  BY <1>9 DEF Export
<1>10. ASSUME NEW q \in Procs, Save(q)
       PROVE  \E doomed \in SUBSET Sessions : Rank(p, doomed)
  BY <1>5, <1>6, <1>7, <1>8, <1>10 DEF Save
<1>11. ASSUME NEW q \in Procs, Delete(q)
       PROVE  FALSE
  <2>1. \A ws \in Workspaces : listing(ws) \in SUBSET Sessions
    BY DEF listing, Readable
  <2> QED
    BY <1>4, <1>5, <1>7, <1>11, <2>1 DEF Delete, DeleteAll, DeleteNamed
<1>12. ASSUME NEW q \in Procs, NEW ws \in Workspaces,
              \/ \E s \in Sessions : New(q, s, ws) \/ Resume(q, s, ws)
              \/ \E e \in exports : Import(q, e, ws)
       PROVE  FALSE
  BY <1>3, <1>12 DEF New, Resume, Import
<1> QED
  BY <1>4, <1>9, <1>10, <1>11, <1>12 DEF Next

(* With at most as many processes as files are kept, each with a session   *)
(* of its own, _prune never chooses the one of the files it has ranked     *)
(* that was recorded last, although it goes by another time than --resume. *)
THEOREM LatestSurvives ==
  Shared = FALSE /\ IsFiniteSet(Procs) /\ Cardinality(Procs) <= Keep => (Spec => LatestIsKept)
<1> SUFFICES ASSUME Shared = FALSE, IsFiniteSet(Procs), Cardinality(Procs) <= Keep
             PROVE  Spec => LatestIsKept
  OBVIOUS
<1> DEFINE Chosen == \A p \in Procs : proc[p].at = "rank" /\ proc'[p].at = "unlink" =>
             \A s \in proc'[p].names : \E t \in proc[p].names \ proc'[p].names :
               times[p][t].updated > times[p][s].updated
<1>1. Init => IInv /\ DateInv
  BY InitIInv, InitDate
<1>2. IInv /\ DateInv /\ [Next]_vars => IInv' /\ DateInv'
  BY NextSimulates, NextDate
<1>3. IInv /\ DateInv /\ [Next]_vars => [Chosen]_vars
  <2> SUFFICES ASSUME IInv, DateInv, Next, NEW p \in Procs,
                      proc[p].at = "rank", proc'[p].at = "unlink", NEW s \in proc'[p].names
               PROVE  \E t \in proc[p].names \ proc'[p].names :
                        times[p][t].updated > times[p][s].updated
    OBVIOUS
  <2>1. PICK doomed \in SUBSET Sessions : Rank(p, doomed)
    BY ChosenByRank
  <2>2. /\ proc'[p].names = doomed /\ proc[p].names \in SUBSET Sessions
        /\ IsFiniteSet(proc[p].names)
    BY <2>1 DEF Rank, IInv, Types, States, Consistent
  <2>3. /\ \A t \in proc[p].names : times[p][t] # None
        /\ Stale(proc[p].names, times[p], doomed) /\ s \in doomed
    BY <2>1, <2>2 DEF Rank
  <2> QED
    BY <2>2, <2>3, LaterIsKept
<1> QED
  BY <1>1, <1>2, <1>3, PTL DEF Spec, LatestIsKept
=============================================================================

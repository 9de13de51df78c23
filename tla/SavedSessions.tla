---------------------------- MODULE SavedSessions ----------------------------
(***************************************************************************)
(* What the agent's session store promises, without files: a saved session *)
(* is a whole transcript of a process that had it open, put there in one   *)
(* step; it disappears only when a process that had listed it decided that *)
(* it should, and a decision to prune spares Keep of those it had listed   *)
(* (by then somebody else may have removed some of them).                  *)
(***************************************************************************)
EXTENDS Integers, FiniteSets

CONSTANTS Procs, Sessions, Workspaces, Keep, None

VARIABLES
  saved,   \* the transcript of each session, or None
  held,    \* the session that each process has open, and its transcript
  listed,  \* the sessions that each process has listed to decide about
  doomed,  \* the sessions that each process is about to remove
  exports  \* the sessions exported so far

absVars == <<saved, held, listed, doomed, exports>>

Present == {s \in Sessions : saved[s] # None}

Init ==
  /\ saved = [s \in Sessions |-> None]
  /\ held = [p \in Procs |-> None]
  /\ listed = [p \in Procs |-> {}]
  /\ doomed = [p \in Procs |-> {}]
  /\ exports = {}

(* A process starts with a new session, a saved one, or an imported one.   *)
Open(p, s, w) ==
  /\ held[p] = None
  /\ \/ held' = [held EXCEPT ![p] = [session |-> s, text |-> [ws |-> w, turns |-> 0]]]
     \/ /\ saved[s] # None /\ saved[s].ws = w
        /\ held' = [held EXCEPT ![p] = [session |-> s, text |-> saved[s]]]
     \/ \E e \in exports :
          /\ e.session = s
          /\ held' = [held EXCEPT ![p] = [session |-> s, text |-> [ws |-> w, turns |-> e.turns]]]
  /\ UNCHANGED <<saved, listed, doomed, exports>>

Turn(p) ==
  /\ held[p] # None
  /\ held' = [held EXCEPT ![p].text.turns = @ + 1]
  /\ UNCHANGED <<saved, listed, doomed, exports>>

Put(p) ==
  /\ held[p] # None
  /\ saved' = [saved EXCEPT ![held[p].session] = held[p].text]
  /\ UNCHANGED <<held, listed, doomed, exports>>

(* A process that has saved lists all there is, one that is to delete what *)
(* the user means.                                                         *)
List(p, S) ==
  /\ IF held[p] # None THEN S = Present ELSE S \subseteq Present
  /\ listed' = [listed EXCEPT ![p] = S]
  /\ UNCHANGED <<saved, held, doomed, exports>>

Prune(p, S) ==
  /\ held[p] # None
  /\ S \subseteq listed[p] /\ Cardinality(listed[p] \ S) >= Keep
  /\ listed' = [listed EXCEPT ![p] = {}]
  /\ doomed' = [doomed EXCEPT ![p] = S]
  /\ UNCHANGED <<saved, held, exports>>

Confirm(p) ==
  /\ held[p] = None
  /\ listed' = [listed EXCEPT ![p] = {}]
  /\ doomed' = [doomed EXCEPT ![p] = listed[p]]
  /\ UNCHANGED <<saved, held, exports>>

(* There is nothing to prune, or the process gives up what it was about.   *)
Spare(p, S) ==
  /\ S \subseteq doomed[p]
  /\ listed' = [listed EXCEPT ![p] = {}]
  /\ doomed' = [doomed EXCEPT ![p] = S]
  /\ UNCHANGED <<saved, held, exports>>

Drop(p, s) ==
  /\ s \in doomed[p]
  /\ saved' = [saved EXCEPT ![s] = None]
  /\ doomed' = [doomed EXCEPT ![p] = @ \ {s}]
  /\ UNCHANGED <<held, listed, exports>>

Export(s) ==
  /\ saved[s] # None
  /\ exports' = exports \cup {[session |-> s, turns |-> saved[s].turns]}
  /\ UNCHANGED <<saved, held, listed, doomed>>

(* The process ends, as it should or not.                                  *)
Close(p) ==
  /\ held' = [held EXCEPT ![p] = None]
  /\ listed' = [listed EXCEPT ![p] = {}]
  /\ doomed' = [doomed EXCEPT ![p] = {}]
  /\ UNCHANGED <<saved, exports>>

Next ==
  \/ \E p \in Procs :
       \/ \E s \in Sessions, w \in Workspaces : Open(p, s, w)
       \/ Turn(p) \/ Put(p) \/ Confirm(p) \/ Close(p)
       \/ \E S \in SUBSET Sessions : List(p, S) \/ Prune(p, S) \/ Spare(p, S)
       \/ \E s \in Sessions : Drop(p, s)
  \/ \E s \in Sessions : Export(s)

Spec == Init /\ [][Next]_absVars
=============================================================================

------------------------ MODULE GatewayLifecycleProofs ------------------------
(***************************************************************************)
(* The safety of GatewayLifecycle for every set of requests, whatever ids  *)
(* they come with, every length of the history and every timeout.          *)
(*                                                                         *)
(* The books balance because an entry belongs to a request under way under *)
(* its own id, and what was taken off the books is never put on them again;*)
(* the drain is complete because nobody enters once the flag is set.       *)
(***************************************************************************)
EXTENDS GatewayLifecycle, FiniteSetTheorems, TLAPS

Labels == Running \cup {"new", "refused", "abandoned", "done"}

Entered == {r \in Requests : pc[r] \notin {"new", "refused"}}

Types ==
  /\ idOf \in [Requests -> Ids]
  /\ clock \in Nat /\ drain_start \in Nat
  /\ pc \in [Requests -> Labels]
  /\ start \in [Requests -> Nat \cup {None}]
  /\ took \in [Requests -> Nat \cup {None}]
  /\ active \in [Ids -> Requests \cup {None}]
  /\ completed \in Seq(Requests) /\ Len(completed) <= History
  /\ total \in Nat /\ counted \in Nat
  /\ IsFiniteSet(Entered) /\ IsFiniteSet(ActiveIds)

(* A request that entered has the time at which it did.                    *)
Started == \A r \in Entered : start[r] \in 0..clock

(* What was taken off the books once, with its duration, is off them.      *)
OffTheBooks ==
  /\ \A j, k \in DOMAIN completed : completed[j] = completed[k] => j = k
  /\ \A k \in DOMAIN completed :
       /\ completed[k] \in Entered
       /\ took[completed[k]] # None
       /\ active[idOf[completed[k]]] # completed[k]

Balance ==
  /\ counted + Cardinality(ActiveIds) <= total
  /\ total = Cardinality(Entered)
  /\ (\A r \in Entered : OwnId(r)) => counted + Cardinality(ActiveIds) = total

Books == Types /\ Started /\ ActiveIsOwed /\ OffTheBooks /\ Balance

(* The middleware lets nobody in once the drain has begun.                 *)
Flagged == phase # "serving" => shutting_down

(* Redis is asked only where it is configured.                             *)
Asked ==
  /\ good \in [Requests -> BOOLEAN] /\ verdict \in [Requests -> {None, "ready", "degraded"}]
  /\ \A r \in Requests : pc[r] = "pinging" => settings.redis

IInv == Books /\ Flagged /\ Asked /\ ClosedIsDrained

-----------------------------------------------------------------------------
(* The invariant holds when the gateway starts.                            *)
LEMMA InitIInv == Init => IInv
<1> SUFFICES ASSUME Init PROVE IInv
  OBVIOUS
<1>1. Entered = {} /\ ActiveIds = {}
  BY DEF Init, Entered, ActiveIds
<1>2. IsFiniteSet({}) /\ Cardinality({}) = 0
  BY FS_EmptySet
<1>3. Types
  BY <1>1, <1>2, GatewayAssumption DEF Init, Types, Labels
<1>4. Started /\ OffTheBooks /\ Balance
  BY <1>1, <1>2 DEF Init, Started, OffTheBooks, Balance
<1>5. ActiveIsOwed
  BY <1>1 DEF Init, ActiveIsOwed, Running
<1>6. Flagged /\ Asked /\ ClosedIsDrained
  BY GatewayAssumption DEF Init, Flagged, Asked, ClosedIsDrained
<1> QED
  BY <1>3, <1>4, <1>5, <1>6 DEF IInv, Books

(* A request goes on, is given up or is refused: the books stay as they    *)
(* are.                                                                    *)
LEMMA MoveStep ==
  ASSUME Books, NEW r \in Requests, NEW l \in Labels,
         \/ pc[r] \in Running /\ l \in Running \cup {"abandoned"}
         \/ pc[r] = "new" /\ l = "refused",
         pc' = [pc EXCEPT ![r] = l],
         UNCHANGED <<idOf, clock, metrics, drain_start>>
  PROVE  Books'
<1>1. UNCHANGED <<start, took, active, completed, total, counted>>
  BY DEF metrics
<1>2. \A q \in Requests : pc'[q] = IF q = r THEN l ELSE pc[q]
  BY DEF Books, Types
<1>3. Entered' = Entered /\ ActiveIds' = ActiveIds
  BY <1>1, <1>2 DEF Entered, ActiveIds, Running
<1>4. Types' /\ Started' /\ OffTheBooks'
  BY <1>1, <1>3 DEF Books, Types, Started, OffTheBooks
<1>5. Balance'
  BY <1>1, <1>3 DEF Books, Balance, OwnId
<1>6. ActiveIsOwed'
  BY <1>1, <1>2, <1>3 DEF Books, Types, ActiveIsOwed, ActiveIds, OwnId, Running
<1> QED
  BY <1>4, <1>5, <1>6 DEF Books

(* Nothing of the books changes but the time.                              *)
LEMMA TimeStep ==
  ASSUME Books, UNCHANGED <<idOf, pc, metrics>>, clock' \in Nat, clock' >= clock, drain_start' \in Nat
  PROVE  Books'
<1>1. UNCHANGED <<start, took, active, completed, total, counted, idOf, pc>>
  BY DEF metrics
<1>2. Entered' = Entered /\ ActiveIds' = ActiveIds
  BY <1>1 DEF Entered, ActiveIds
<1>3. Types' /\ OffTheBooks'
  BY <1>1, <1>2 DEF Books, Types, OffTheBooks
<1>4. Started'
  BY <1>1, <1>2 DEF Books, Types, Started
<1>5. Balance'
  BY <1>1, <1>2 DEF Books, Balance, OwnId
<1>6. ActiveIsOwed'
  BY <1>1, <1>2 DEF Books, ActiveIsOwed, OwnId
<1> QED
  BY <1>3, <1>4, <1>5, <1>6 DEF Books

(* An entry is made, over another one with the same id or not.             *)
LEMMA EnterStep ==
  ASSUME Books, NEW r \in Requests, Enter(r)
  PROVE  Books'
<1> DEFINE i == idOf[r]
<1>1. /\ active' = [active EXCEPT ![i] = r] /\ start' = [start EXCEPT ![r] = clock]
      /\ total' = total + 1 /\ pc' = [pc EXCEPT ![r] = "handling"] /\ pc[r] = "new"
      /\ UNCHANGED <<idOf, clock, took, completed, counted, drain_start>>
  BY DEF Enter, start_request, Goto, server
<1>2. i \in Ids /\ r # None
  BY GatewayAssumption DEF Books, Types
<1>3. Entered' = Entered \cup {r} /\ r \notin Entered
  BY <1>1 DEF Books, Types, Entered
<1>4. ActiveIds' = ActiveIds \cup {i}
  BY <1>1, <1>2 DEF Books, Types, ActiveIds
<1>5. /\ IsFiniteSet(Entered') /\ Cardinality(Entered') = Cardinality(Entered) + 1
      /\ IsFiniteSet(ActiveIds')
      /\ Cardinality(ActiveIds') = IF i \in ActiveIds THEN Cardinality(ActiveIds)
                                   ELSE Cardinality(ActiveIds) + 1
  BY <1>3, <1>4, FS_AddElement DEF Books, Types
<1>6. Types'
  BY <1>1, <1>2, <1>5 DEF Books, Types, Labels, Running
<1>7. Started'
  BY <1>1, <1>3 DEF Books, Types, Started, Entered
<1>8. OffTheBooks'
  BY <1>1, <1>2, <1>3 DEF Books, Types, OffTheBooks
<1>9. ActiveIsOwed'
  <2>1. \A j \in Ids : active'[j] = IF j = i THEN r ELSE active[j]
    BY <1>1 DEF Books, Types
  <2>2. \A q \in Requests : pc'[q] = IF q = r THEN "handling" ELSE pc[q]
    BY <1>1 DEF Books, Types
  <2>3. ASSUME NEW j \in Ids, active'[j] # None
        PROVE  idOf'[active'[j]] = j /\ pc'[active'[j]] \in Running \cup {"abandoned"}
    BY <1>1, <1>2, <2>1, <2>2, <2>3 DEF Books, Types, ActiveIsOwed, ActiveIds, Running
  <2>4. ASSUME NEW q \in Requests, OwnId(q)', pc'[q] \in Running
        PROVE  active'[idOf'[q]] = q
    <3>1. OwnId(q)
      BY <1>1, <2>4 DEF OwnId
    <3>2. CASE q = r
      BY <1>1, <1>2, <2>1, <3>2
    <3>3. CASE q # r
      <4>1. idOf[q] # i /\ idOf[q] \in Ids
        BY <3>1, <3>3 DEF OwnId, Books, Types
      <4> QED
        BY <1>1, <2>1, <2>2, <2>4, <3>1, <3>3, <4>1 DEF Books, ActiveIsOwed
    <3> QED
      BY <3>2, <3>3
  <2> QED
    BY <2>3, <2>4 DEF ActiveIsOwed, ActiveIds
<1>10. Balance'
  <2>1. Cardinality(Entered) \in Nat /\ Cardinality(ActiveIds) \in Nat
    BY FS_CardinalityType DEF Books, Types
  <2>2. total' = Cardinality(Entered')
    BY <1>1, <1>5 DEF Books, Balance
  <2>3. counted' + Cardinality(ActiveIds') <= total'
    BY <1>1, <1>5, <2>1 DEF Books, Types, Balance
  <2>4. ASSUME \A q \in Entered' : OwnId(q)'
        PROVE  counted' + Cardinality(ActiveIds') = total'
    <3>1. \A q \in Entered \cup {r} : OwnId(q)
      BY <1>1, <1>3, <2>4 DEF OwnId
    <3>2. i \notin ActiveIds
      BY <1>1, <1>2, <3>1 DEF Books, Types, ActiveIsOwed, ActiveIds, OwnId, Running
    <3> QED
      BY <1>1, <1>5, <2>1, <3>1, <3>2 DEF Books, Types, Balance
  <2> QED
    BY <2>2, <2>3, <2>4 DEF Balance
<1> QED
  BY <1>6, <1>7, <1>8, <1>9, <1>10 DEF Books

(* The deque keeps what it had but for its first, and the new one behind.  *)
LEMMA RetainIsSuffix ==
  ASSUME completed \in Seq(Requests), Len(completed) <= History, NEW m \in Requests
  PROVE  /\ Retain(m) \in Seq(Requests) /\ Len(Retain(m)) <= History
         /\ \E d \in {0, 1} :
              /\ Len(Retain(m)) = Len(completed) + 1 - d
              /\ \A k \in DOMAIN Retain(m) :
                   Retain(m)[k] = IF k + d = Len(completed) + 1 THEN m ELSE completed[k + d]
<1> DEFINE all == Append(completed, m)
<1>1. all \in Seq(Requests) /\ Len(all) = Len(completed) + 1
      /\ \A k \in 1..Len(all) : all[k] = IF k = Len(completed) + 1 THEN m ELSE completed[k]
  OBVIOUS
<1> HIDE DEF all
<1>2. History \in Nat \ {0} /\ Len(completed) \in Nat
  BY GatewayAssumption
<1>3. CASE Len(all) > History
  <2>1. Retain(m) = Tail(all)
    BY <1>3 DEF Retain, all
  <2>2. Tail(all) \in Seq(Requests) /\ Len(Tail(all)) = Len(all) - 1
        /\ \A k \in 1..Len(all) - 1 : Tail(all)[k] = all[k + 1]
    BY <1>1, <1>2
  <2> QED
    BY <1>1, <1>2, <2>1, <2>2
<1>4. CASE ~(Len(all) > History)
  <2>1. Retain(m) = all
    BY <1>4 DEF Retain, all
  <2> QED
    BY <1>1, <1>2, <1>4, <2>1
<1> QED
  BY <1>3, <1>4

(* The request ends, and the entry under its id with it.                   *)
LEMMA CompleteStep ==
  ASSUME Books, NEW r \in Requests, pc[r] \in Running, complete(r),
         pc' = [pc EXCEPT ![r] = "done"], UNCHANGED <<idOf, clock, drain_start>>
  PROVE  Books'
<1> DEFINE i == idOf[r]
           m == active[i]
<1>1. i \in Ids /\ m \in Requests \cup {None} /\ None \notin Requests /\ None \notin Nat
  BY GatewayAssumption DEF Books, Types
<1>2. \A q \in Requests : pc'[q] = IF q = r THEN "done" ELSE pc[q]
  BY DEF Books, Types
<1>3. Entered' = Entered /\ r \in Entered
  BY <1>2 DEF Entered, Running
<1>4. \A q \in Entered : clock - start[q] \in Nat
  BY DEF Books, Types, Started
<1>5. CASE m = None
  <2>1. /\ took' = [took EXCEPT ![r] = clock - start[r]]
        /\ UNCHANGED <<start, active, completed, total, counted>>
    BY <1>5 DEF complete
  <2>2. ActiveIds' = ActiveIds
    BY <2>1 DEF ActiveIds
  <2>3. Types'
    BY <1>2, <1>3, <1>4, <2>1, <2>2 DEF Books, Types, Labels
  <2>4. Started' /\ Balance'
    BY <1>3, <2>1, <2>2 DEF Books, Started, Balance, OwnId
  <2>5. OffTheBooks'
    BY <1>1, <1>3, <1>4, <2>1 DEF Books, Types, OffTheBooks
  <2>6. ActiveIsOwed'
    BY <1>1, <1>2, <1>5, <2>1, <2>2 DEF Books, Types, ActiveIsOwed, ActiveIds, OwnId, Running
  <2> QED
    BY <2>3, <2>4, <2>5, <2>6 DEF Books
<1>6. CASE m # None
  <2> DEFINE mine == [took EXCEPT ![r] = clock - start[r]]
  <2>1. /\ active' = [active EXCEPT ![i] = None]
        /\ took' = IF mine[m] = None THEN [mine EXCEPT ![m] = clock - start[m]] ELSE mine
        /\ counted' = counted + 1 /\ completed' = Retain(m) /\ UNCHANGED <<start, total>>
    BY <1>6 DEF complete
  <2>2. m \in Entered /\ idOf[m] = i /\ i \in ActiveIds
    BY <1>1, <1>6 DEF Books, ActiveIsOwed, ActiveIds, Entered, Running
  <2>3. /\ took' \in [Requests -> Nat \cup {None}]
        /\ took'[m] # None /\ \A q \in Requests : took[q] # None => took'[q] # None
    BY <1>1, <1>3, <1>4, <2>1, <2>2 DEF Books, Types, Entered
  <2>4. ActiveIds' = ActiveIds \ {i}
    BY <1>1, <2>1 DEF Books, Types, ActiveIds
  <2>5. IsFiniteSet(ActiveIds') /\ Cardinality(ActiveIds') = Cardinality(ActiveIds) - 1
        /\ Cardinality(ActiveIds) \in Nat
    BY <2>2, <2>4, FS_RemoveElement, FS_CardinalityType DEF Books, Types
  <2>6. PICK d \in {0, 1} :
          /\ Len(completed') = Len(completed) + 1 - d
          /\ \A k \in DOMAIN completed' :
               completed'[k] = IF k + d = Len(completed) + 1 THEN m ELSE completed[k + d]
    <3>1. completed \in Seq(Requests) /\ Len(completed) <= History /\ m \in Requests
          /\ completed' = Retain(m)
      BY <1>1, <1>6, <2>1 DEF Books, Types
    <3> HIDE DEF m
    <3> QED
      BY <3>1, RetainIsSuffix
  <2>7. completed' \in Seq(Requests) /\ Len(completed') <= History
    <3>1. completed \in Seq(Requests) /\ Len(completed) <= History /\ m \in Requests
          /\ completed' = Retain(m)
      BY <1>1, <1>6, <2>1 DEF Books, Types
    <3> HIDE DEF m
    <3> QED
      BY <3>1, RetainIsSuffix
  <2>8. Types'
    <3>1. IsFiniteSet(Entered')
      BY <1>3 DEF Books, Types
    <3>2. active' \in [Ids -> Requests \cup {None}] /\ pc' \in [Requests -> Labels]
      BY <1>1, <2>1 DEF Books, Types, Labels
    <3>3. counted' \in Nat /\ total' \in Nat /\ start' \in [Requests -> Nat \cup {None}]
      BY <2>1 DEF Books, Types
    <3> QED
      BY <2>3, <2>5, <2>7, <3>1, <3>2, <3>3 DEF Books, Types
  <2>9. Started'
    BY <1>3, <2>1 DEF Books, Started
  <2>10. Balance'
    BY <1>3, <2>1, <2>5 DEF Books, Types, Balance, OwnId
  <2>11. ActiveIsOwed'
    <3>1. \A j \in Ids : active'[j] = IF j = i THEN None ELSE active[j]
      BY <2>1 DEF Books, Types
    <3>2. ASSUME NEW j \in Ids, active'[j] # None
          PROVE  idOf'[active'[j]] = j /\ pc'[active'[j]] \in Running \cup {"abandoned"}
      BY <1>1, <1>2, <3>1, <3>2 DEF Books, Types, ActiveIsOwed, ActiveIds
    <3>3. ASSUME NEW q \in Requests, OwnId(q)', pc'[q] \in Running
          PROVE  active'[idOf'[q]] = q
      <4>1. q # r /\ OwnId(q) /\ pc[q] \in Running /\ idOf[q] # i /\ idOf[q] \in Ids
        BY <1>2, <3>3 DEF Running, OwnId, Books, Types
      <4> QED
        BY <3>1, <4>1 DEF Books, ActiveIsOwed
    <3> QED
      BY <3>2, <3>3 DEF ActiveIsOwed, ActiveIds
  <2>12. OffTheBooks'
    <3>1. \A k \in DOMAIN completed : completed[k] \in Entered /\ completed[k] # m
      BY <2>2 DEF Books, OffTheBooks
    <3>2. completed \in Seq(Requests) /\ completed' \in Seq(Requests)
      BY <2>7 DEF Books, Types
    <3>3. ASSUME NEW k \in DOMAIN completed', k + d # Len(completed) + 1
          PROVE  k + d \in DOMAIN completed /\ completed'[k] = completed[k + d]
      BY <2>6, <3>2, <3>3
    <3>4. ASSUME NEW k \in DOMAIN completed'
          PROVE  \/ completed'[k] = m /\ k + d = Len(completed) + 1
                 \/ k + d \in DOMAIN completed /\ completed'[k] = completed[k + d]
      BY <2>6, <3>3
    <3>5. \A k \in DOMAIN completed' : k \in Nat
      BY <3>2
    <3>6. \A j, k \in DOMAIN completed' : completed'[j] = completed'[k] => j = k
      <4> SUFFICES ASSUME NEW j \in DOMAIN completed', NEW k \in DOMAIN completed',
                          completed'[j] = completed'[k]
                   PROVE  j + d = k + d
        BY <3>5
      <4> QED
        BY <3>1, <3>4 DEF Books, OffTheBooks
    <3>7. active'[idOf[m]] # m
      BY <1>1, <1>6, <2>1, <2>2 DEF Books, Types
    <3>8. ASSUME NEW q \in Requests, active[idOf[q]] # q
          PROVE  active'[idOf[q]] # q
      BY <1>1, <2>1, <3>8 DEF Books, Types
    <3>9. ASSUME NEW k \in DOMAIN completed'
          PROVE  /\ completed'[k] \in Entered /\ took'[completed'[k]] # None
                 /\ active'[idOf[completed'[k]]] # completed'[k]
      BY <2>2, <2>3, <3>4, <3>7, <3>8 DEF Books, OffTheBooks, Entered
    <3> QED
      BY <1>3, <3>6, <3>9 DEF OffTheBooks
  <2> QED
    BY <2>8, <2>9, <2>10, <2>11, <2>12 DEF Books
<1> QED
  BY <1>5, <1>6

-----------------------------------------------------------------------------
(* Every step keeps the books.                                             *)
LEMMA NextBooks == ASSUME IInv, [Next]_vars PROVE Books'
<1>1. Books /\ clock \in Nat /\ drain_start \in Nat /\ pc \in [Requests -> Labels]
  BY DEF IInv, Books, Types
<1>2. ASSUME NEW r \in Requests, Step(r)
      PROVE  Books'
  <2>1. CASE Enter(r)
    BY <1>1, <2>1, EnterStep
  <2>2. CASE Refuse(r) \/ Respond(r) \/ Abandon(r) \/ FirstChunk(r)
    BY <1>1, <2>2, MoveStep DEF Refuse, Respond, Abandon, FirstChunk, Goto, server, Running, Labels
  <2>3. CASE HandlerRaises(r) \/ EndBody(r)
    BY <1>1, <2>3, CompleteStep DEF HandlerRaises, EndBody, Goto, server, Running
  <2>4. ASSUME NEW ok \in BOOLEAN, Probe(r, ok)
        PROVE  Books'
    <3>1. /\ pc[r] = "handling" /\ UNCHANGED <<idOf, clock, metrics, drain_start>>
          /\ \/ pc' = pc \/ pc' = [pc EXCEPT ![r] = "pinging"] \/ pc' = [pc EXCEPT ![r] = "responded"]
      BY <2>4 DEF Probe, Goto, Answer, server
    <3>2. CASE pc' = pc
      BY <1>1, <3>1, <3>2, TimeStep
    <3> QED
      BY <1>1, <3>1, <3>2, MoveStep DEF Running, Labels
  <2>5. ASSUME NEW ok \in BOOLEAN, Ping(r, ok)
        PROVE  Books'
    BY <1>1, <2>5, MoveStep DEF Ping, Goto, Answer, server, Running, Labels
  <2> QED
    BY <1>2, <2>1, <2>2, <2>3, <2>4, <2>5 DEF Step
<1>3. CASE BreakerMoves \/ EndDrain \/ CloseClient \/ Shutdown \/ Tick \/ UNCHANGED vars
  <2>1. UNCHANGED <<idOf, pc, metrics>>
    BY <1>3 DEF BreakerMoves, EndDrain, CloseClient, Shutdown, Tick, vars
  <2>2. clock' \in {clock, clock + 1} /\ drain_start' \in {drain_start, clock}
    BY <1>3 DEF BreakerMoves, EndDrain, CloseClient, Shutdown, Tick, vars, server
  <2> QED
    BY <1>1, <2>1, <2>2, TimeStep
<1> QED
  BY <1>2, <1>3 DEF Next

(* Every step keeps the invariant.                                         *)
LEMMA NextIInv == IInv /\ [Next]_vars => IInv'
<1> SUFFICES ASSUME IInv, [Next]_vars PROVE IInv'
  OBVIOUS
<1>1. Books /\ clock \in Nat /\ drain_start \in Nat /\ pc \in [Requests -> Labels]
      /\ ShutdownTimeout \in Nat
  BY GatewayAssumption DEF IInv, Books, Types
<1>2. Books'
  BY NextBooks
<1>3. Flagged'
  BY DEF IInv, Flagged, Next, Step, vars, server, Refuse, Enter, Respond, HandlerRaises, Abandon,
         FirstChunk, EndBody, Probe, Ping, BreakerMoves, Shutdown, EndDrain, CloseClient, Tick
(* How a request may move: none begins to run once the flag is set.        *)
<1>4. /\ settings' = settings /\ idOf' = idOf
      /\ \A r \in Requests : pc'[r] \in Running => pc[r] \in Running \/ ~shutting_down
  BY <1>1 DEF Next, Step, vars, server, Refuse, Enter, MayEnter, Respond, HandlerRaises, Abandon,
         FirstChunk, EndBody, Probe, Ping, BreakerMoves, Shutdown, EndDrain, CloseClient, Tick,
         Goto, Answer, Running
<1>5. Asked'
  <2>1. \A r \in Requests : pc'[r] = "pinging" => settings.redis
    BY <1>1 DEF IInv, Asked, Next, Step, vars, server, Refuse, Enter, Respond, HandlerRaises,
         Abandon, FirstChunk, EndBody, Probe, Ping, BreakerMoves, Shutdown, EndDrain, CloseClient,
         Tick, Goto, Answer
  <2>2. ASSUME NEW r \in Requests, NEW ok \in BOOLEAN, Probe(r, ok) \/ Ping(r, ok)
        PROVE  /\ good' \in [Requests -> BOOLEAN]
               /\ verdict' \in [Requests -> {None, "ready", "degraded"}]
    <3>1. verdict' \in [Requests -> {None, "ready", "degraded"}]
      BY <2>2 DEF IInv, Asked, Probe, Ping, Answer
    <3>2. \/ good' = good
          \/ good' = [good EXCEPT ![r] = good[r] /\ ok]
          \/ good' = [good EXCEPT ![r] = good[r] /\ ok /\ all_circuits_healthy]
      BY <2>2 DEF Probe, Ping
    <3>3. \A b \in BOOLEAN : [good EXCEPT ![r] = b] \in [Requests -> BOOLEAN]
      BY DEF IInv, Asked
    <3>4. good' \in [Requests -> BOOLEAN]
      <4>1. (good[r] /\ ok) \in BOOLEAN /\ (good[r] /\ ok /\ all_circuits_healthy) \in BOOLEAN
        OBVIOUS
      <4>2. good \in [Requests -> BOOLEAN]
        BY DEF IInv, Asked
      <4> QED
        BY <3>2, <3>3, <4>1, <4>2, Zenon
    <3> QED
      BY <3>1, <3>4
  <2>3. ASSUME UNCHANGED check
        PROVE  /\ good' \in [Requests -> BOOLEAN]
               /\ verdict' \in [Requests -> {None, "ready", "degraded"}]
    BY <2>3 DEF IInv, Asked, check
  <2>4. UNCHANGED check \/ \E r \in Requests, ok \in BOOLEAN : Probe(r, ok) \/ Ping(r, ok)
    BY DEF Next, Step, vars, check, Refuse, Enter, Respond, HandlerRaises, Abandon,
         FirstChunk, EndBody, BreakerMoves, Shutdown, EndDrain, CloseClient, Tick
  <2>5. good' \in [Requests -> BOOLEAN] /\ verdict' \in [Requests -> {None, "ready", "degraded"}]
    BY <2>2, <2>3, <2>4 DEF Asked
  <2> QED
    BY <1>4, <2>1, <2>5 DEF Asked
<1>6. ClosedIsDrained'
  <2> SUFFICES ASSUME phase' \in {"closing", "closed"}, clock' - drain_start' < ShutdownTimeout,
                      NEW r \in Requests, pc'[r] \in Running
               PROVE  ~OwnId(r)
    BY <1>4 DEF ClosedIsDrained, OwnId
  <2>1. CASE EndDrain
    <3>1. ActiveIds = {} /\ pc' = pc
      BY <1>1, <2>1 DEF EndDrain, Drained
    <3> QED
      BY <1>1, <3>1, GatewayAssumption DEF Books, Types, ActiveIsOwed, ActiveIds
  <2>2. CASE ~EndDrain
    <3>1. phase \in {"closing", "closed"} /\ drain_start' = drain_start /\ clock' \in {clock, clock + 1}
      BY <2>2 DEF Next, Step, vars, server, Refuse, Enter, Respond, HandlerRaises, Abandon,
         FirstChunk, EndBody, Probe, Ping, BreakerMoves, Shutdown, CloseClient, Tick
    <3>2. shutting_down /\ pc[r] \in Running
      BY <1>4, <3>1 DEF IInv, Flagged
    <3>3. clock - drain_start < ShutdownTimeout
      <4>1. clock \in Nat /\ drain_start \in Nat /\ ShutdownTimeout \in Nat
        BY <1>1
      <4>2. clock' \in Nat /\ clock' >= clock
        BY <3>1, <4>1
      <4>3. \A a, b, c, T \in Nat : b >= a /\ b - c < T => a - c < T
        OBVIOUS
      <4>4. clock' - drain_start < ShutdownTimeout
        BY <3>1
      <4> QED
        BY <4>1, <4>2, <4>3, <4>4
    <3> QED
      BY <3>1, <3>2, <3>3 DEF IInv, ClosedIsDrained
  <2> QED
    BY <2>1, <2>2
<1> QED
  BY <1>2, <1>3, <1>5, <1>6 DEF IInv

(* The invariant holds in every reachable state.                           *)
LEMMA InductiveInvariant == Spec => []IInv
BY InitIInv, NextIInv, PTL DEF Spec

(* Accounting: the books balance, whatever ids the requests share and in   *)
(* whatever order they start, raise, end and are given up.                 *)
THEOREM BooksBalance == Spec => []Accounting
<1>1. IInv => Accounting
  BY DEF IInv, Books, Types, Balance, OffTheBooks, Accounting, Entered
<1> QED
  BY InductiveInvariant, <1>1, PTL

(* ActiveIsOwed: the drain waits for requests that run or were abandoned,  *)
(* and for every one that runs under an id of its own.                     *)
THEOREM DrainWaitsForTheRunning == Spec => []ActiveIsOwed
<1>1. IInv => ActiveIsOwed
  BY DEF IInv, Books
<1> QED
  BY InductiveInvariant, <1>1, PTL

(* ClosedIsDrained: the client is not closed under a running request that  *)
(* has an id of its own before the shutdown timeout.                       *)
THEOREM ClosedUnderNobody == Spec => []ClosedIsDrained
<1>1. IInv => ClosedIsDrained
  BY DEF IInv
<1> QED
  BY InductiveInvariant, <1>1, PTL
=============================================================================

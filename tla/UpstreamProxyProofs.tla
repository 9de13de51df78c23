------------------------- MODULE UpstreamProxyProofs -------------------------
(***************************************************************************)
(* The safety of UpstreamProxy for every set of requests and upstreams,    *)
(* every window, threshold, timeout, pool size and bound on attempts.      *)
(*                                                                         *)
(* None of the four invariants is inductive.  IInv adds what the argument  *)
(* needs: the lists of failures are finite, a suspended coroutine has a    *)
(* legal attempt number and a known time of admission, only a stream gets  *)
(* past its exchange with a connection in hand, and a JSON request holds   *)
(* no slot but that of the exchange it is in.                              *)
(***************************************************************************)
EXTENDS UpstreamProxy, FiniteSetTheorems, TLAPS

Finite == \A u \in Upstreams : IsFiniteSet(circuit[u].failures)

Suspended ==
  \A r \in Requests :
    /\ pc[r] = "backoff" => attempt[r] < MaxAttempts
    /\ pc[r] \in Waiting \cup Holding =>
         attempt[r] >= 1 /\ admitted[r] # None /\ admitted[r] <= clock
    /\ pc[r] \in {"reading", "responding", "relaying"} => r \in Streaming

JsonSlots ==
  \A s \in slots : s[1] \notin Streaming =>
    pc[s[1]] = "sent" /\ s[2] = attempt[s[1]]

IInv ==
  /\ TypeOK
  /\ Finite
  /\ Suspended
  /\ JsonSlots
  /\ BreakerConsistent
  /\ FailuresAreOwn
  /\ NothingAdmittedWhileOpen

(* What BreakerConsistent says of one breaker.                             *)
Consistent(b) ==
  /\ b.opened_at = None <=> b.state = "closed"
  /\ b.state = "closed" => Cardinality(b.failures) < FailureThreshold

-----------------------------------------------------------------------------
(* A fresh breaker is well formed: what record_success() and reset() leave.*)
LEMMA FreshBreakerOK ==
  /\ FreshBreaker \in Breaker
  /\ IsFiniteSet(FreshBreaker.failures)
  /\ Consistent(FreshBreaker)
<1>1. IsFiniteSet({}) /\ Cardinality({}) = 0
  BY FS_EmptySet
<1> QED
  BY <1>1, ConstantsOK DEF FreshBreaker, Breaker, BreakerStates, Consistent, None

(* record_failure() keeps a breaker well formed; it adds one entry, and    *)
(* the only state change it makes is from closed to open, at this instant. *)
LEMMA RecordFailureOK ==
  ASSUME NEW b \in Breaker, IsFiniteSet(b.failures), Consistent(b),
         NEW r \in Requests, NEW now \in Nat
  PROVE  LET c == record_failure(b, r, now)
         IN  /\ c \in Breaker
             /\ IsFiniteSet(c.failures)
             /\ Consistent(c)
             /\ c.failures \subseteq b.failures \cup {[by |-> r, at |-> now]}
             /\ \/ c.state = b.state /\ c.opened_at = b.opened_at
                \/ c.state = "open" /\ c.opened_at = now
<1> DEFINE f == [by |-> r, at |-> now]
           F == Recent(b, now) \cup {f}
<1>1. Recent(b, now) \subseteq b.failures
  BY DEF Recent
<1>2. IsFiniteSet(Recent(b, now))
  BY <1>1, FS_Subset
<1>3. IsFiniteSet(F)
  BY <1>2, FS_AddElement
<1>4. Cardinality(F) \in Nat
  BY <1>3, FS_CardinalityType
<1>5. F \in SUBSET [by : Requests, at : Nat]
  BY <1>1 DEF Breaker
<1> HIDE DEF F
<1>6. CASE Cardinality(F) >= FailureThreshold /\ b.state = "closed"
  <2>1. record_failure(b, r, now) = [state |-> "open", failures |-> F, opened_at |-> now]
    BY <1>6 DEF record_failure, F
  <2> QED
    BY <2>1, <1>1, <1>3, <1>5 DEF Breaker, BreakerStates, Consistent, None, F
<1>7. CASE ~(Cardinality(F) >= FailureThreshold /\ b.state = "closed")
  <2>1. record_failure(b, r, now) =
          [state |-> b.state, failures |-> F, opened_at |-> b.opened_at]
    BY <1>7 DEF record_failure, F
  <2>2. b.state = "closed" => Cardinality(F) < FailureThreshold
    BY <1>7, <1>4, ConstantsOK
  <2> QED
    BY <2>1, <2>2, <1>1, <1>3, <1>5 DEF Breaker, BreakerStates, Consistent, F
<1> QED
  BY <1>6, <1>7

(* can_proceed() changes nothing but open to half-open, and whoever it     *)
(* lets through leaves the breaker not open.                               *)
LEMMA AfterCheckOK ==
  ASSUME NEW b \in Breaker, Consistent(b), NEW now \in Nat, can_proceed(b, now)
  PROVE  LET c == AfterCheck(b, now)
         IN  /\ c \in Breaker
             /\ c.failures = b.failures
             /\ Consistent(c)
             /\ c.state # "open"
<1>1. CASE TimeoutElapsed(b, now)
  BY <1>1 DEF AfterCheck, TimeoutElapsed, Breaker, BreakerStates, Consistent
<1>2. CASE ~TimeoutElapsed(b, now)
  BY <1>2 DEF AfterCheck, can_proceed
<1> QED
  BY <1>1, <1>2

-----------------------------------------------------------------------------
(* The invariant holds when the gateway starts.                            *)
LEMMA InitIInv == Init => IInv
<1> SUFFICES ASSUME Init PROVE IInv
  OBVIOUS
<1>1. \A u \in Upstreams : circuit[u] = FreshBreaker
  BY DEF Init
<1>2. TypeOK
  BY ConstantsOK, FreshBreakerOK DEF Init, TypeOK, PCs, None
<1>3. Finite /\ BreakerConsistent
  BY <1>1, FreshBreakerOK DEF Finite, BreakerConsistent, Consistent
<1>4. FailuresAreOwn
  BY <1>1 DEF FailuresAreOwn, FreshBreaker
<1>5. Suspended /\ JsonSlots /\ NothingAdmittedWhileOpen
  BY DEF Init, Suspended, JsonSlots, NothingAdmittedWhileOpen, Waiting, Holding
<1> QED
  BY <1>2, <1>3, <1>4, <1>5 DEF IInv
-----------------------------------------------------------------------------
(* What the breakers promise, in one formula: the part of IInv that speaks *)
(* of circuit.                                                             *)
Breakers ==
  /\ circuit \in [Upstreams -> Breaker]
  /\ Finite
  /\ BreakerConsistent
  /\ FailuresAreOwn
  /\ NothingAdmittedWhileOpen

(* A request that leaves its retries by recording a failure.               *)
LEMMA FailureStep ==
  ASSUME IInv, NEW r \in Requests, pc[r] \in {"pool", "sent"},
         NEW x \in {"done", "reading"},
         circuit' = [circuit EXCEPT ![TargetOf[r]] = record_failure(@, r, clock)],
         pc' = [pc EXCEPT ![r] = x],
         result' = [result EXCEPT ![r] = "failure"],
         UNCHANGED <<clock, admitted>>
  PROVE  Breakers'
<1> DEFINE t == TargetOf[r]
           c == record_failure(circuit[t], r, clock)
           f == [by |-> r, at |-> clock]
<1>1. TypeOK /\ t \in Upstreams /\ clock \in Nat
  BY ConstantsOK DEF IInv, TypeOK
<1>2. circuit[t] \in Breaker /\ IsFiniteSet(circuit[t].failures) /\ Consistent(circuit[t])
  BY <1>1 DEF IInv, TypeOK, Finite, BreakerConsistent, Consistent
<1>3. /\ c \in Breaker
      /\ IsFiniteSet(c.failures)
      /\ Consistent(c)
      /\ c.failures \subseteq circuit[t].failures \cup {f}
      /\ \/ c.state = circuit[t].state /\ c.opened_at = circuit[t].opened_at
         \/ c.state = "open" /\ c.opened_at = clock
  BY <1>1, <1>2, RecordFailureOK
<1>4. /\ circuit' \in [Upstreams -> Breaker]
      /\ circuit'[t] = c
      /\ \A u \in Upstreams : u # t => circuit'[u] = circuit[u]
  BY <1>1, <1>3 DEF TypeOK
<1> HIDE DEF c
<1>5. Finite' /\ BreakerConsistent'
  BY <1>3, <1>4 DEF IInv, Finite, BreakerConsistent, Consistent
<1>6. /\ pc'[r] = x /\ result'[r] = "failure"
      /\ \A q \in Requests : q # r => pc'[q] = pc[q] /\ result'[q] = result[q]
  BY <1>1 DEF TypeOK
<1>7. \A u \in Upstreams : \A g \in circuit[u].failures : g.by \in Requests /\ g.by # r
  BY <1>1 DEF IInv, TypeOK, Breaker, FailuresAreOwn
<1>8. FailuresAreOwn'
  <2> SUFFICES ASSUME NEW u \in Upstreams, NEW g \in circuit'[u].failures
               PROVE  /\ TargetOf[g.by] = u
                      /\ admitted[g.by] # None
                      /\ admitted[g.by] <= g.at
                      /\ g.at <= clock
                      /\ pc'[g.by] \in {"reading", "done"}
                      /\ result'[g.by] \in {"failure", "cancelled"}
                      /\ \A h \in circuit'[u].failures : h.by = g.by => h = g
    BY DEF FailuresAreOwn
  <2>1. g \in circuit[u].failures \/ (g = f /\ u = t)
    BY <1>3, <1>4
  <2>2. \A h \in circuit'[u].failures : h \in circuit[u].failures \/ h = f
    BY <1>3, <1>4
  <2>3. CASE g \in circuit[u].failures
    BY <2>2, <2>3, <1>6, <1>7 DEF IInv, FailuresAreOwn
  <2>4. CASE g = f /\ u = t
    <3>1. admitted[r] # None /\ admitted[r] <= clock
      BY DEF IInv, Suspended, Waiting
    <3> QED
      BY <2>2, <2>4, <3>1, <1>1, <1>6, <1>7
  <2> QED
    BY <2>1, <2>3, <2>4
<1>9. NothingAdmittedWhileOpen'
  <2> SUFFICES ASSUME NEW q \in Requests,
                      circuit'[TargetOf[q]].state = "open", pc'[q] \in Waiting
               PROVE  admitted[q] <= circuit'[TargetOf[q]].opened_at
    BY DEF NothingAdmittedWhileOpen
  <2>1. q # r /\ pc[q] \in Waiting
    BY <1>6 DEF Waiting
  <2>2. TargetOf[q] \in Upstreams /\ admitted[q] <= clock
    BY <2>1, ConstantsOK DEF IInv, Suspended
  <2> QED
    BY <2>1, <2>2, <1>3, <1>4 DEF IInv, NothingAdmittedWhileOpen
<1> QED
  BY <1>4, <1>5, <1>8, <1>9 DEF Breakers

(* Breakers that are replaced by fresh ones while a request, if any, moves *)
(* on from its exchange: record_success() and reset().                     *)
LEMMA FreshStep ==
  ASSUME IInv, NEW U \in SUBSET Upstreams,
         circuit' = [u \in Upstreams |-> IF u \in U THEN FreshBreaker ELSE circuit[u]],
         \A q \in Requests :
           \/ pc'[q] = pc[q] /\ result'[q] = result[q]
           \/ pc[q] = "sent" /\ pc'[q] \notin Waiting,
         UNCHANGED <<clock, admitted>>
  PROVE  Breakers'
<1>1. circuit' \in [Upstreams -> Breaker]
  BY FreshBreakerOK DEF IInv, TypeOK
<1>2. Finite' /\ BreakerConsistent'
  BY FreshBreakerOK DEF IInv, Finite, BreakerConsistent, Consistent
<1>3. \A u \in Upstreams : \A f \in circuit'[u].failures :
        u \notin U /\ f \in circuit[u].failures
  BY DEF FreshBreaker
<1>4. \A u \in Upstreams : \A f \in circuit[u].failures : f.by \in Requests
  BY DEF IInv, TypeOK, Breaker
<1>5. FailuresAreOwn'
  BY <1>3, <1>4 DEF IInv, FailuresAreOwn
<1>6. \A q \in Requests : TargetOf[q] \in Upstreams
  BY ConstantsOK
<1>7. NothingAdmittedWhileOpen'
  BY <1>6 DEF IInv, NothingAdmittedWhileOpen, FreshBreaker
<1> QED
  BY <1>1, <1>2, <1>5, <1>7 DEF Breakers

(* A step of one request that leaves the breakers alone.                   *)
LEMMA QuietStep ==
  ASSUME IInv, NEW r \in Requests, pc[r] \notin {"new", "done"},
         NEW x \in PCs, pc' = [pc EXCEPT ![r] = x],
         x \in Waiting => pc[r] \in Waiting,
         pc[r] = "reading" => x = "done" /\ result'[r] \in {result[r], "cancelled"},
         \A q \in Requests : q # r => result'[q] = result[q],
         UNCHANGED <<clock, circuit, admitted>>
  PROVE  Breakers'
<1>1. /\ pc'[r] = x
      /\ \A q \in Requests : q # r => pc'[q] = pc[q]
  BY DEF IInv, TypeOK
<1>2. circuit' \in [Upstreams -> Breaker] /\ Finite' /\ BreakerConsistent'
  BY DEF IInv, TypeOK, Finite, BreakerConsistent
<1>3. \A u \in Upstreams : \A f \in circuit[u].failures : f.by \in Requests
  BY DEF IInv, TypeOK, Breaker
<1>4. FailuresAreOwn'
  BY <1>1, <1>3 DEF IInv, FailuresAreOwn
<1>5. NothingAdmittedWhileOpen'
  BY <1>1 DEF IInv, NothingAdmittedWhileOpen
<1> QED
  BY <1>2, <1>4, <1>5 DEF Breakers

-----------------------------------------------------------------------------
(* The rest of IInv: what it says of the coroutines and their slots.       *)
Coroutines ==
  /\ clock \in Nat
  /\ pc \in [Requests -> PCs]
  /\ attempt \in [Requests -> 0..MaxAttempts]
  /\ admitted \in [Requests -> Nat \cup {None}]
  /\ result \in [Requests -> {"none", "rejected", "cancelled", "success", "failure"}]
  /\ slots \subseteq Requests \X (1..MaxAttempts)
  /\ Suspended
  /\ JsonSlots

(* The two parts make up IInv, before a step and after it.                 *)
LEMMA IInvParts ==
  /\ IInv <=> Breakers /\ Coroutines
  /\ IInv' <=> Breakers' /\ Coroutines'
  BY DEF IInv, Breakers, Coroutines, TypeOK

(* The admission check keeps the invariant, whichever way it answers.      *)
LEMMA AdmissionIInv ==
  ASSUME IInv, NEW r \in Requests, Reject(r) \/ Admit(r)
  PROVE  IInv'
<1>1. Coroutines
  BY IInvParts
<1>2. CASE Reject(r)
  <2>1. Coroutines'
    BY <1>1, <1>2 DEF Reject, Goto, Settle, Coroutines, Suspended, JsonSlots,
                      PCs, Waiting, Holding
  <2>2. pc' = [pc EXCEPT ![r] = "done"] /\ result' = [result EXCEPT ![r] = "rejected"]
    BY <1>2 DEF Reject, Goto, Settle
  <2>3. \A u \in Upstreams : \A f \in circuit[u].failures : f.by \in Requests /\ f.by # r
    BY <1>2 DEF IInv, TypeOK, Breaker, FailuresAreOwn, Reject
  <2>4. circuit' \in [Upstreams -> Breaker] /\ Finite' /\ BreakerConsistent'
    BY <1>2 DEF IInv, TypeOK, Finite, BreakerConsistent, Reject
  <2>5. \A q \in Requests : q # r => pc'[q] = pc[q] /\ result'[q] = result[q]
    BY <1>1, <2>2 DEF Coroutines
  <2>6. FailuresAreOwn'
    BY <1>2, <2>3, <2>5 DEF IInv, FailuresAreOwn, Reject
  <2>7. pc'[r] = "done"
    BY <1>1, <2>2 DEF Coroutines
  <2>8. NothingAdmittedWhileOpen'
    BY <1>2, <2>5, <2>7 DEF IInv, NothingAdmittedWhileOpen, Reject, Waiting
  <2> QED
    BY <2>1, <2>4, <2>6, <2>8, IInvParts DEF Breakers
<1>3. CASE Admit(r)
  <2> DEFINE t == TargetOf[r]
             c == AfterCheck(circuit[t], clock)
  <2>1. Coroutines'
    BY <1>1, <1>3, ConstantsOK
       DEF Admit, Goto, Coroutines, Suspended, JsonSlots, PCs, Waiting, Holding, None
  <2>2. t \in Upstreams /\ circuit[t] \in Breaker /\ Consistent(circuit[t])
    BY ConstantsOK DEF IInv, TypeOK, BreakerConsistent, Consistent
  <2>3. /\ c \in Breaker
        /\ c.failures = circuit[t].failures
        /\ Consistent(c)
        /\ c.state # "open"
    BY <1>1, <1>3, <2>2, AfterCheckOK DEF Admit, Coroutines
  <2>4. circuit' = [circuit EXCEPT ![t] = c]
    BY <1>3 DEF Admit
  <2> HIDE DEF c
  <2>5. /\ circuit' \in [Upstreams -> Breaker]
        /\ circuit'[t] = c
        /\ \A u \in Upstreams : u # t => circuit'[u] = circuit[u]
        /\ \A u \in Upstreams : circuit'[u].failures = circuit[u].failures
    BY <2>2, <2>3, <2>4 DEF IInv, TypeOK
  <2>6. Finite' /\ BreakerConsistent'
    BY <2>3, <2>5 DEF IInv, Finite, BreakerConsistent, Consistent
  <2>7. /\ clock' = clock /\ result' = result /\ pc'[r] = "pool"
        /\ \A q \in Requests : q # r => pc'[q] = pc[q] /\ admitted'[q] = admitted[q]
    BY <1>1, <1>3 DEF Admit, Goto, Coroutines
  <2>8. \A u \in Upstreams : \A f \in circuit[u].failures : f.by \in Requests /\ f.by # r
    BY <1>3 DEF IInv, TypeOK, Breaker, FailuresAreOwn, Admit
  <2>9. FailuresAreOwn'
    BY <2>5, <2>7, <2>8 DEF IInv, FailuresAreOwn
  <2>10. \A q \in Requests : TargetOf[q] \in Upstreams
    BY ConstantsOK
  <2>11. NothingAdmittedWhileOpen'
    BY <2>3, <2>5, <2>7, <2>10 DEF IInv, NothingAdmittedWhileOpen
  <2> QED
    BY <2>1, <2>5, <2>6, <2>9, <2>11, IInvParts DEF Breakers
<1> QED
  BY <1>2, <1>3

(* An attempt that raises, from the pool or from the exchange, keeps the   *)
(* invariant, retried or not.                                              *)
LEMMA RaisedIInv ==
  ASSUME IInv, NEW r \in Requests,
         \/ PoolTimeout(r)
         \/ \E e \in Exceptions : ExchangeRaises(r, e)
  PROVE  IInv'
<1>1. Coroutines
  BY IInvParts
<1>2. /\ pc[r] \in {"pool", "sent"}
      /\ slots' \subseteq slots
      /\ pc[r] = "sent" => SlotOf(r) \notin slots'
      /\ \E e \in Exceptions : Raised(r, e)
  BY DEF PoolTimeout, ExchangeRaises, Release, Exceptions
<1>3. PICK e \in Exceptions : Raised(r, e)
  BY <1>2
<1>4. UNCHANGED <<clock, attempt, admitted>>
  BY <1>3 DEF Raised
<1>5. CASE Retries(r, e)
  <2>1. pc' = [pc EXCEPT ![r] = "backoff"] /\ UNCHANGED <<circuit, result>>
    BY <1>3, <1>5 DEF Raised, Goto
  <2>2. Breakers'
    BY <2>1, <1>2, <1>4, QuietStep DEF PCs, Waiting
  <2>3. attempt[r] < MaxAttempts
    BY <1>5 DEF Retries
  <2>4. Coroutines'
    BY <2>1, <2>3, <1>1, <1>2, <1>4
       DEF Coroutines, Suspended, JsonSlots, SlotOf, PCs, Waiting, Holding
  <2> QED
    BY <2>2, <2>4, IInvParts
<1>6. CASE ~Retries(r, e)
  <2>1. /\ pc' = [pc EXCEPT ![r] = "done"]
        /\ circuit' = [circuit EXCEPT ![TargetOf[r]] = record_failure(@, r, clock)]
        /\ result' = [result EXCEPT ![r] = "failure"]
    BY <1>3, <1>6 DEF Raised, Goto, Settle
  <2>2. Breakers'
    BY <2>1, <1>2, <1>4, FailureStep
  <2>3. Coroutines'
    BY <2>1, <1>1, <1>2, <1>4
       DEF Coroutines, Suspended, JsonSlots, SlotOf, PCs, Waiting, Holding
  <2> QED
    BY <2>2, <2>3, IInvParts
<1> QED
  BY <1>5, <1>6

(* An upstream that answers keeps the invariant: retried, a success or a   *)
(* failure.                                                                *)
LEMMA AnsweredIInv ==
  ASSUME IInv, NEW r \in Requests, NEW o \in Statuses, Answered(r, o)
  PROVE  IInv'
<1>1. Coroutines
  BY IInvParts
<1>2. /\ pc[r] = "sent"
      /\ slots' \subseteq slots
      /\ r \notin Streaming => SlotOf(r) \notin slots'
      /\ UNCHANGED <<clock, attempt, admitted>>
  BY DEF Answered, AfterAnswer
<1>3. CASE Retries(r, o)
  <2>1. pc' = [pc EXCEPT ![r] = "backoff"] /\ UNCHANGED <<circuit, result>>
    BY <1>3 DEF Answered, Goto
  <2>2. Breakers'
    BY <2>1, <1>2, QuietStep DEF PCs, Waiting
  <2>3. attempt[r] < MaxAttempts
    BY <1>3 DEF Retries
  <2>4. Coroutines'
    BY <2>1, <2>3, <1>1, <1>2
       DEF Coroutines, Suspended, JsonSlots, SlotOf, PCs, Waiting, Holding
  <2> QED
    BY <2>2, <2>4, IInvParts
<1>4. CASE ~Retries(r, o)
  <2> DEFINE x == IF r \notin Streaming THEN "done"
                  ELSE IF o = "ok" THEN "responding" ELSE "reading"
             y == IF o \in Below500 THEN "success" ELSE "failure"
  <2>1. /\ pc' = [pc EXCEPT ![r] = x]
        /\ circuit' = [circuit EXCEPT ![TargetOf[r]] = Verdict(r, o)]
        /\ result' = [result EXCEPT ![r] = y]
    BY <1>4 DEF Answered, Goto, Settle
  <2>2. TargetOf[r] \in Upstreams /\ circuit \in [Upstreams -> Breaker]
    BY ConstantsOK DEF IInv, TypeOK
  <2>3. ASSUME o \in Below500 PROVE Breakers'
    <3>1. circuit' = [u \in Upstreams |->
                        IF u \in {TargetOf[r]} THEN FreshBreaker ELSE circuit[u]]
      BY <2>1, <2>2, <2>3 DEF Verdict, record_success
    <3>2. \A q \in Requests :
            \/ pc'[q] = pc[q] /\ result'[q] = result[q]
            \/ pc[q] = "sent" /\ pc'[q] \notin Waiting
      BY <2>1, <1>1, <1>2 DEF Coroutines, Waiting
    <3> HIDE DEF x, y
    <3> QED
      BY <3>1, <3>2, <2>2, <1>2, FreshStep, ZenonT(60)
  <2>4. ASSUME o \notin Below500 PROVE Breakers'
    <3>1. circuit' = [circuit EXCEPT ![TargetOf[r]] = record_failure(@, r, clock)]
      BY <2>1, <2>2, <2>4 DEF Verdict
    <3>2. x \in {"done", "reading"} /\ y = "failure"
      BY <2>4 DEF Below500
    <3> HIDE DEF x, y
    <3> QED
      BY <3>1, <3>2, <2>1, <1>2, FailureStep
  <2>5. Coroutines'
    BY <2>1, <1>1, <1>2
       DEF Coroutines, Suspended, JsonSlots, SlotOf, PCs, Waiting, Holding
  <2> QED
    BY <2>3, <2>4, <2>5, IInvParts
<1> QED
  BY <1>3, <1>4

(* The steps of a request that touch no breaker keep the invariant.        *)
LEMMA QuietIInv ==
  ASSUME IInv, NEW r \in Requests,
         \/ Acquire(r) \/ Wake(r) \/ ReadErrorBody(r)
         \/ StartRelay(r) \/ EndRelay(r) \/ Cancel(r)
  PROVE  IInv'
<1>1. Coroutines
  BY IInvParts
<1>2. CASE Acquire(r)
  <2>1. Breakers'
    BY <1>2, QuietStep DEF Acquire, Goto, PCs, Waiting
  <2>2. attempt[r] \in 1..MaxAttempts
    BY <1>1, <1>2 DEF Acquire, Coroutines, Suspended, Waiting
  <2>3. Coroutines'
    BY <1>1, <1>2, <2>2
       DEF Acquire, Goto, SlotOf, Coroutines, Suspended, JsonSlots, PCs, Waiting, Holding
  <2> QED
    BY <2>1, <2>3, IInvParts
<1>3. CASE Wake(r)
  <2>1. Breakers'
    BY <1>3, QuietStep DEF Wake, Goto, PCs, Waiting
  <2>2. attempt[r] + 1 \in 1..MaxAttempts
    BY <1>1, <1>3, ConstantsOK DEF Wake, Coroutines, Suspended, Waiting
  <2>3. Coroutines'
    BY <1>1, <1>3, <2>2
       DEF Wake, Goto, Coroutines, Suspended, JsonSlots, PCs, Waiting, Holding
  <2> QED
    BY <2>1, <2>3, IInvParts
<1>4. CASE ReadErrorBody(r) \/ StartRelay(r) \/ EndRelay(r)
  <2>1. Breakers'
    BY <1>4, QuietStep DEF ReadErrorBody, StartRelay, EndRelay, Goto, PCs, Waiting, Holding
  <2>2. Coroutines'
    BY <1>1, <1>4
       DEF ReadErrorBody, StartRelay, EndRelay, Release, Goto, SlotOf,
           Coroutines, Suspended, JsonSlots, PCs, Waiting, Holding
  <2> QED
    BY <2>1, <2>2, IInvParts
<1>5. CASE Cancel(r)
  <2>1. /\ result'[r] = "cancelled"
        /\ \A q \in Requests : q # r => result'[q] = result[q]
    BY <1>1, <1>5 DEF Cancel, Settle, Coroutines
  <2>2. Breakers'
    BY <1>5, <2>1, QuietStep DEF Cancel, Goto, PCs, Waiting, Holding
  <2>3. /\ slots' \subseteq slots
        /\ pc[r] = "sent" => SlotOf(r) \notin slots'
    BY <1>5 DEF Cancel, Release, ReleasedOnCancel
  <2>4. Coroutines'
    BY <1>1, <1>5, <2>3
       DEF Cancel, Goto, Settle, SlotOf, Coroutines, Suspended, JsonSlots,
           PCs, Waiting, Holding
  <2> QED
    BY <2>2, <2>4, IInvParts
<1> QED
  BY <1>2, <1>3, <1>4, <1>5

(* Resetting breakers keeps the invariant.                                 *)
LEMMA ResetIInv ==
  ASSUME IInv, NEW U \in SUBSET Upstreams, Reset(U)
  PROVE  IInv'
<1>1. circuit' = [u \in Upstreams |-> IF u \in U THEN FreshBreaker ELSE circuit[u]]
  BY DEF Reset, reset
<1>2. Breakers'
  BY <1>1, FreshStep DEF Reset
<1>3. Coroutines'
  BY IInvParts DEF Reset, Coroutines, Suspended, JsonSlots
<1> QED
  BY <1>2, <1>3, IInvParts

(* The passing of time, and a step that changes nothing, keep it.          *)
LEMMA TickIInv ==
  ASSUME IInv, Tick \/ UNCHANGED vars
  PROVE  IInv'
<1>1. /\ clock' \in Nat /\ clock' >= clock
      /\ UNCHANGED <<circuit, pc, attempt, admitted, result, slots>>
  BY DEF Tick, vars, IInv, TypeOK
<1>2. Coroutines'
  <2>1. Coroutines
    BY IInvParts
  <2>2. Suspended'
    BY <1>1, <2>1 DEF Coroutines, Suspended
  <2> QED
    BY <1>1, <2>1, <2>2 DEF Coroutines, JsonSlots
<1>3. \A u \in Upstreams : \A f \in circuit[u].failures : f.at \in Nat
  BY DEF IInv, TypeOK, Breaker
<1>4. FailuresAreOwn'
  BY <1>1, <1>3 DEF IInv, TypeOK, FailuresAreOwn
<1>5. Breakers'
  BY <1>1, <1>4
     DEF IInv, TypeOK, Breakers, Finite, BreakerConsistent, NothingAdmittedWhileOpen
<1> QED
  BY <1>2, <1>5, IInvParts

-----------------------------------------------------------------------------
(* IInv is inductive: one case for each group of actions.                  *)
LEMMA NextIInv == IInv /\ [Next]_vars => IInv'
<1> SUFFICES ASSUME IInv, [Next]_vars PROVE IInv'
  OBVIOUS
<1>1. ASSUME NEW r \in Requests, Step(r) \/ Cancel(r) PROVE IInv'
  BY <1>1, AdmissionIInv, RaisedIInv, AnsweredIInv, QuietIInv DEF Step
<1>2. ASSUME NEW u \in Upstreams, Reset({u}) PROVE IInv'
  BY <1>2, ResetIInv
<1>3. CASE Reset(Upstreams)
  BY <1>3, ResetIInv
<1>4. CASE Tick \/ UNCHANGED vars
  BY <1>4, TickIInv
<1> QED
  BY <1>1, <1>2, <1>3, <1>4 DEF Next

(* IInv holds in every reachable state of the proxy.                       *)
THEOREM ProxyInvariant == Spec => []IInv
  BY InitIInv, NextIInv, PTL DEF Spec

(* Every variable stays in its type, whatever the constants are.           *)
THEOREM ProxyTypeOK == Spec => []TypeOK
<1>1. IInv => TypeOK
  BY DEF IInv
<1> QED
  BY <1>1, ProxyInvariant, PTL

(* A breaker knows when it opened exactly while it is not closed, and a    *)
(* closed one holds fewer failures than its threshold.                     *)
THEOREM ProxyBreakerConsistent == Spec => []BreakerConsistent
<1>1. IInv => BreakerConsistent
  BY DEF IInv
<1> QED
  BY <1>1, ProxyInvariant, PTL

(* A breaker counts each failed request of its own upstream once, and      *)
(* nothing else.                                                           *)
THEOREM ProxyFailuresAreOwn == Spec => []FailuresAreOwn
<1>1. IInv => FailuresAreOwn
  BY DEF IInv
<1> QED
  BY <1>1, ProxyInvariant, PTL

(* Fail fast: no request that is being tried was let through by a breaker  *)
(* that was already open.                                                  *)
THEOREM ProxyFailsFast == Spec => []NothingAdmittedWhileOpen
<1>1. IInv => NothingAdmittedWhileOpen
  BY DEF IInv
<1> QED
  BY <1>1, ProxyInvariant, PTL

(* A JSON request never loses a connection of the pool.                    *)
THEOREM ProxyOnlyStreamsLeak == Spec => []OnlyStreamsLeak
<1>1. IInv => OnlyStreamsLeak
  BY DEF IInv, JsonSlots, OnlyStreamsLeak, Leaked, Holding
<1> QED
  BY <1>1, ProxyInvariant, PTL
=============================================================================

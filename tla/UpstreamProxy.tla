---------------------------- MODULE UpstreamProxy ----------------------------
(***************************************************************************)
(* The gateway's path to its model servers: proxy.py's forward(), the      *)
(* circuit breaker of each upstream, the retry loop around one exchange    *)
(* and the connections of the one httpx client that all upstreams share.   *)
(*                                                                         *)
(* Each request is a coroutine.  It gives up control only where the code   *)
(* awaits: for a pool slot, for the upstream's answer, in the backoff      *)
(* sleep, while reading an error body and while relaying a stream.  The    *)
(* breaker's methods run between two awaits, so each is one atomic step.   *)
(***************************************************************************)
EXTENDS Integers, FiniteSets

CONSTANTS
  Requests,         \* the calls of forward(), each made once
  Upstreams,        \* the base URLs
  TargetOf,         \* the upstream resolve_target chose for each request
  Streaming,        \* the requests that asked for stream=True
  FailureWindow,    \* _CIRCUIT_FAILURE_WINDOW, in ticks
  FailureThreshold, \* _CIRCUIT_FAILURE_THRESHOLD
  OpenTimeout,      \* _CIRCUIT_OPEN_TIMEOUT, in ticks
  MaxAttempts,      \* _MAX_RETRY_ATTEMPTS
  PoolSize,         \* settings.max_connections
  MaxTime           \* bound on the clock (model only)

ASSUME ConstantsOK ==
  /\ TargetOf \in [Requests -> Upstreams]
  /\ Streaming \subseteq Requests
  /\ FailureWindow \in Nat \ {0}
  /\ FailureThreshold \in Nat \ {0}
  /\ OpenTimeout \in Nat
  /\ MaxAttempts \in Nat \ {0}
  /\ PoolSize \in Nat \ {0}
  /\ MaxTime \in Nat

VARIABLES
  clock,     \* time.monotonic()
  circuit,   \* _upstream_circuits: the breaker of each upstream
  pc,        \* where each request's coroutine is suspended
  attempt,   \* the retry loop's attempt counter, from 1
  admitted,  \* when can_proceed() let the request through
  result,    \* what the request came to, once that is settled
  slots      \* pool slots held: the pair of a request and an attempt

vars == <<clock, circuit, pc, attempt, admitted, result, slots>>

None == -1

(***************************************************************************)
(* What one exchange with an upstream can come to.                         *)
(*                                                                         *)
(* Statuses: below 400, other 4xx, 429, other 5xx, and 502/503/504.        *)
(* Exceptions: TimeoutException; ConnectError or RemoteProtocolError; any  *)
(* other httpx.HTTPError, which the retry loop does not catch.             *)
(***************************************************************************)
Statuses == {"ok", "client_error", "throttled", "server_error", "unavailable"}
Exceptions == {"timeout", "connect_error", "transport_error"}
Retryable == {"throttled", "unavailable", "timeout", "connect_error"}
Below500 == {"ok", "client_error", "throttled"}

Waiting == {"pool", "sent", "backoff"}               \* no verdict recorded yet
Holding == {"sent", "reading", "responding", "relaying"}
PCs == {"new", "done"} \cup Waiting \cup Holding

-----------------------------------------------------------------------------
(***************************************************************************)
(* _CircuitBreaker.  The order of the list of failure times matters to no  *)
(* method, so the list is a set; every entry names the request that        *)
(* recorded it, since two requests may fail at the same instant.           *)
(***************************************************************************)
BreakerStates == {"closed", "open", "half-open"}

Breaker == [state : BreakerStates,
            failures : SUBSET [by : Requests, at : Nat],
            opened_at : Nat \cup {None}]

FreshBreaker == [state |-> "closed", failures |-> {}, opened_at |-> None]

record_success(b) == FreshBreaker

reset(b) == FreshBreaker

(* The failures that are still inside the window.                          *)
Recent(b, now) == {f \in b.failures : f.at > now - FailureWindow}

(* Mutant: the threshold is compared with > instead of >=.                 *)
record_failure_TripsLate(b, r, now) ==
  LET failures == Recent(b, now) \cup {[by |-> r, at |-> now]}
      trips == Cardinality(failures) > FailureThreshold /\ b.state = "closed"
  IN  [state     |-> IF trips THEN "open" ELSE b.state,
       failures  |-> failures,
       opened_at |-> IF trips THEN now ELSE b.opened_at]

record_failure(b, r, now) ==
  LET failures == Recent(b, now) \cup {[by |-> r, at |-> now]}
      trips == /\ Cardinality(failures) >= FailureThreshold
               /\ b.state = "closed"
  IN  [state     |-> IF trips THEN "open" ELSE b.state,
       failures  |-> failures,
       opened_at |-> IF trips THEN now ELSE b.opened_at]

TimeoutElapsed(b, now) ==
  /\ b.state = "open"
  /\ b.opened_at # None
  /\ now - b.opened_at >= OpenTimeout

(* can_proceed(): its answer, and the breaker it leaves behind.            *)
can_proceed(b, now) == b.state # "open" \/ TimeoutElapsed(b, now)

(* Mutant: the elapsed timeout lets requests through without moving the    *)
(* breaker to half-open.                                                   *)
AfterCheck_StaysOpen(b, now) == b

AfterCheck(b, now) ==
  IF TimeoutElapsed(b, now) THEN [b EXCEPT !.state = "half-open"] ELSE b

-----------------------------------------------------------------------------
Init ==
  /\ clock = 0
  /\ circuit = [u \in Upstreams |-> FreshBreaker]
  /\ pc = [r \in Requests |-> "new"]
  /\ attempt = [r \in Requests |-> 0]
  /\ admitted = [r \in Requests |-> None]
  /\ result = [r \in Requests |-> "none"]
  /\ slots = {}

Goto(r, label) == pc' = [pc EXCEPT ![r] = label]

(* The status the caller gets, as far as the properties tell it apart.     *)
Settle(r, x) == result' = [result EXCEPT ![r] = x]

(* The slot the request's current attempt took, if it took one.            *)
SlotOf(r) == <<r, attempt[r]>>

Release(r) == slots' = slots \ {SlotOf(r)}

(* forward(): the breaker is asked first.  An open one answers 503.        *)
Reject(r) ==
  /\ pc[r] = "new"
  /\ ~can_proceed(circuit[TargetOf[r]], clock)
  /\ Goto(r, "done")
  /\ Settle(r, "rejected")
  /\ UNCHANGED <<clock, circuit, attempt, admitted, slots>>

Admit(r) ==
  /\ pc[r] = "new"
  /\ can_proceed(circuit[TargetOf[r]], clock)
  /\ circuit' = [circuit EXCEPT ![TargetOf[r]] = AfterCheck(@, clock)]
  /\ Goto(r, "pool")
  /\ attempt' = [attempt EXCEPT ![r] = 1]
  /\ admitted' = [admitted EXCEPT ![r] = clock]
  /\ UNCHANGED <<clock, result, slots>>

(* func(): the client waits for a slot of the shared pool, then sends.     *)
Acquire(r) ==
  /\ pc[r] = "pool"
  /\ Cardinality(slots) < PoolSize
  /\ slots' = slots \cup {SlotOf(r)}
  /\ Goto(r, "sent")
  /\ UNCHANGED <<clock, circuit, attempt, admitted, result>>

(* Mutant: the bound on the attempts is forgotten.                         *)
Retries_Unbounded(r, o) == o \in Retryable

(* _retry_with_backoff: another attempt is due.                            *)
Retries(r, o) == o \in Retryable /\ attempt[r] < MaxAttempts

(* Mutant: every attempt that raises is recorded, retried or not.          *)
Raised_CountsAttempts(r, e) ==
  /\ circuit' = [circuit EXCEPT ![TargetOf[r]] = record_failure(@, r, clock)]
  /\ \/ Retries(r, e) /\ Goto(r, "backoff") /\ UNCHANGED result
     \/ ~Retries(r, e) /\ Goto(r, "done") /\ Settle(r, "failure")
  /\ UNCHANGED <<clock, attempt, admitted>>

(* An attempt that raised: sleep and retry, or record the failure and give *)
(* the caller a 504 or a 502.                                              *)
Raised(r, e) ==
  /\ \/ /\ Retries(r, e)
        /\ Goto(r, "backoff")
        /\ UNCHANGED <<circuit, result>>
     \/ /\ ~Retries(r, e)
        /\ circuit' = [circuit EXCEPT ![TargetOf[r]] =
                          record_failure(@, r, clock)]
        /\ Settle(r, "failure")
        /\ Goto(r, "done")
  /\ UNCHANGED <<clock, attempt, admitted>>

(* Mutant: the client waits for a slot without a timeout.                  *)
PoolTimeout_Never(r) == pc[r] = "pool" /\ FALSE /\ UNCHANGED vars

(* The pool stayed full for the whole pool timeout: httpx.PoolTimeout.     *)
PoolTimeout(r) ==
  /\ pc[r] = "pool"
  /\ Cardinality(slots) >= PoolSize
  /\ Raised(r, "timeout")
  /\ UNCHANGED slots

(* The exchange raised; httpx gives the connection back.                   *)
ExchangeRaises(r, e) ==
  /\ pc[r] = "sent"
  /\ Raised(r, e)
  /\ Release(r)

(* Mutant: a JSON response is left open as well.                           *)
AfterAnswer_LeavesOpen(r) == slots

(* client.post reads the body and gives the connection back; client.send   *)
(* with stream=True leaves it open until aclose().                         *)
AfterAnswer(r) ==
  IF r \in Streaming THEN slots ELSE slots \ {SlotOf(r)}

Verdict(r, o) ==
  IF o \in Below500 THEN record_success(circuit[TargetOf[r]])
  ELSE record_failure(circuit[TargetOf[r]], r, clock)

(* The upstream answered with a status.  A retried streaming answer is     *)
(* dropped without aclose().                                               *)
Answered(r, o) ==
  /\ pc[r] = "sent"
  /\ slots' = AfterAnswer(r)
  /\ \/ /\ Retries(r, o)
        /\ Goto(r, "backoff")
        /\ UNCHANGED <<circuit, result>>
     \/ /\ ~Retries(r, o)
        /\ circuit' = [circuit EXCEPT ![TargetOf[r]] = Verdict(r, o)]
        /\ Settle(r, IF o \in Below500 THEN "success" ELSE "failure")
        /\ Goto(r, IF r \notin Streaming THEN "done"
                   ELSE IF o = "ok" THEN "responding" ELSE "reading")
  /\ UNCHANGED <<clock, attempt, admitted>>

(* asyncio.sleep(delay) is over.                                           *)
Wake(r) ==
  /\ pc[r] = "backoff"
  /\ attempt' = [attempt EXCEPT ![r] = @ + 1]
  /\ Goto(r, "pool")
  /\ UNCHANGED <<clock, circuit, admitted, result, slots>>

(* The error body of a stream: aread() and aclose().  If aread() raises,   *)
(* httpx has closed the connection and the exception reaches the caller.   *)
ReadErrorBody(r) ==
  /\ pc[r] = "reading"
  /\ Goto(r, "done")
  /\ Release(r)
  /\ UNCHANGED <<clock, circuit, attempt, admitted, result>>

(* The server begins to iterate relay().                                   *)
StartRelay(r) ==
  /\ pc[r] = "responding"
  /\ Goto(r, "relaying")
  /\ UNCHANGED <<clock, circuit, attempt, admitted, result, slots>>

(* relay() ends, normally or by a mid-stream error; finally: aclose().     *)
EndRelay(r) ==
  /\ pc[r] = "relaying"
  /\ Goto(r, "done")
  /\ Release(r)
  /\ UNCHANGED <<clock, circuit, attempt, admitted, result>>

(* The caller goes away.  httpx releases the slot of an exchange or a read *)
(* that is cancelled, relay()'s finally that of a running relay; a relay   *)
(* that never started has no finally to run.  No verdict is recorded.      *)
ReleasedOnCancel == {"sent", "reading", "relaying"}

Cancel(r) ==
  /\ pc[r] \in Waiting \cup Holding
  /\ Goto(r, "done")
  /\ IF pc[r] \in ReleasedOnCancel THEN Release(r) ELSE UNCHANGED slots
  /\ Settle(r, "cancelled")
  /\ UNCHANGED <<clock, circuit, attempt, admitted>>

(* POST /admin/circuit-breaker/reset, for some upstreams or for all.       *)
Reset(U) ==
  /\ circuit' = [u \in Upstreams |->
                   IF u \in U THEN reset(circuit[u]) ELSE circuit[u]]
  /\ UNCHANGED <<clock, pc, attempt, admitted, result, slots>>

Tick ==
  /\ clock < MaxTime
  /\ clock' = clock + 1
  /\ UNCHANGED <<circuit, pc, attempt, admitted, result, slots>>

Step(r) ==
  \/ Reject(r) \/ Admit(r) \/ Acquire(r) \/ PoolTimeout(r)
  \/ \E e \in Exceptions : ExchangeRaises(r, e)
  \/ \E o \in Statuses : Answered(r, o)
  \/ Wake(r) \/ ReadErrorBody(r) \/ StartRelay(r) \/ EndRelay(r)

Next ==
  \/ \E r \in Requests : Step(r) \/ Cancel(r)
  \/ \E u \in Upstreams : Reset({u})
  \/ Reset(Upstreams)
  \/ Tick

Spec == Init /\ [][Next]_vars

(* Every await of a request ends: httpx's timeouts bound the wait for a    *)
(* slot and for the upstream, and the backoff sleep is finite.  Nothing    *)
(* obliges a caller to send a request, or the clock to reach a value.      *)
Fairness ==
  \A r \in Requests : WF_vars(pc[r] # "new" /\ Step(r))

FairSpec == Spec /\ Fairness

-----------------------------------------------------------------------------
(* Every variable stays in its type.                                       *)
TypeOK ==
  /\ clock \in Nat
  /\ circuit \in [Upstreams -> Breaker]
  /\ pc \in [Requests -> PCs]
  /\ attempt \in [Requests -> 0..MaxAttempts]
  /\ admitted \in [Requests -> Nat \cup {None}]
  /\ result \in [Requests -> {"none", "rejected", "cancelled", "success", "failure"}]
  /\ slots \subseteq Requests \X (1..MaxAttempts)

(* A breaker remembers when it opened exactly while it is not closed, and  *)
(* a closed one never sits on enough failures to trip: whatever successes, *)
(* late failures, resets and half-open tests came in between, the next     *)
(* failure of a closed breaker is judged by the threshold.                 *)
BreakerConsistent ==
  \A u \in Upstreams :
    LET b == circuit[u]
    IN  /\ b.opened_at = None <=> b.state = "closed"
        /\ b.state = "closed" => Cardinality(b.failures) < FailureThreshold

(* Every failure on a breaker's list was recorded once, in the past, by a  *)
(* request to that upstream that was admitted and is through its retries:  *)
(* no attempt that was retried, no rejected request and no request to      *)
(* another upstream is counted.                                            *)
FailuresAreOwn ==
  \A u \in Upstreams : \A f \in circuit[u].failures :
    /\ TargetOf[f.by] = u
    /\ admitted[f.by] # None
    /\ admitted[f.by] <= f.at
    /\ f.at <= clock
    /\ pc[f.by] \in {"reading", "done"}
    /\ result[f.by] \in {"failure", "cancelled"}
    /\ \A g \in circuit[u].failures : g.by = f.by => g = f

(* Fail fast: while a breaker is open, every request of its upstream that  *)
(* is still being tried was let through before the breaker opened.         *)
NothingAdmittedWhileOpen ==
  \A r \in Requests :
    LET b == circuit[TargetOf[r]]
    IN  b.state = "open" /\ pc[r] \in Waiting => admitted[r] <= b.opened_at

(* The slots whose holder will never give them back: of an attempt that    *)
(* was retried, or of a request that is over.                              *)
Leaked == {s \in slots : pc[s[1]] \notin Holding \/ s[2] # attempt[s[1]]}

(* Only a stream can lose a connection of the shared pool, by a retried    *)
(* answer or a relay that never started; a JSON request always returns its *)
(* own, on every path through retries, errors and cancellation.            *)
OnlyStreamsLeak == \A s \in Leaked : s[1] \in Streaming

(* Every request the breaker lets through ends, even when the pool is full *)
(* of slots that nobody will release.                                      *)
EveryRequestEnds ==
  \A r \in Requests : pc[r] \notin {"new", "done"} ~> pc[r] = "done"

-----------------------------------------------------------------------------
(* What a test says, and the code does not do.                             *)

(* test_circuit_breaker.py: "Failure in half-open state reopens circuit".  *)
HalfOpenFailureReopens ==
  [][\A u \in Upstreams :
       /\ circuit[u].state = "half-open"
       /\ \E f \in circuit'[u].failures : f \notin circuit[u].failures
       => circuit'[u].state = "open"]_vars
=============================================================================

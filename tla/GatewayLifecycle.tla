-------------------------- MODULE GatewayLifecycle --------------------------
(***************************************************************************)
(* The gateway application around its routes: the access_log middleware    *)
(* (main.py), the metrics it keeps (metrics.py), the readiness check       *)
(* (routes/health.py) and the drain at the end of the lifespan.            *)
(*                                                                         *)
(* A request passes the middleware, is handled, and its body is relayed by *)
(* the generator timed(), whose finally clause is what takes the request   *)
(* off the books.  The handlers of other routes are one step: UpstreamProxy *)
(* has their insides.  Every await is a step boundary; the code between    *)
(* two awaits of the event loop is one step.                               *)
(***************************************************************************)
EXTENDS Integers, Sequences, FiniteSets

CONSTANTS
  Requests,         \* the requests clients make
  Checks,           \* those of them that go to /readyz/detailed
  Ids,              \* the x-request-id values
  Sent,             \* who may come with which id: a set of functions
  History,          \* _HISTORY, the completed requests that are retained
  ShutdownTimeout,  \* _SHUTDOWN_TIMEOUT
  MaxTime,          \* bound on the clock
  None

ASSUME GatewayAssumption ==
  /\ Checks \subseteq Requests
  /\ Sent \subseteq [Requests -> Ids]
  /\ History \in Nat \ {0} /\ ShutdownTimeout \in Nat /\ MaxTime \in Nat
  /\ None \notin Nat \cup Requests \cup {"ready", "degraded"}

VARIABLES
  settings,       \* autocomplete_enabled, and whether Redis is configured
  idOf,           \* the x-request-id of each request, the client's or a fresh one
  clock,
  pc,             \* where each request is
  start,          \* RequestMetrics.start_time
  took,           \* RequestMetrics.response_time_ms
  active,         \* MetricsCollector._active, as a partial function of the id
  completed,      \* MetricsCollector._completed
  total,          \* MetricsCollector._total_requests
  counted,        \* the sum of MetricsCollector._status_code_counts
  good,           \* of a check: what it found so far is healthy
  probed,         \* of a check: the upstreams it has heard from
  verdict,        \* of a check: what it answered
  open,           \* whether the primary upstream's circuit breaker is open
  phase,          \* where the lifespan is
  shutting_down,  \* _shutting_down
  drain_start

metrics == <<start, took, active, completed, total, counted>>
check == <<good, probed, verdict>>
server == <<phase, shutting_down, drain_start>>
vars == <<settings, idOf, clock, pc, metrics, check, open, server>>

(* Inside the application: between the middleware's first line and the     *)
(* end of the body.                                                        *)
Running == {"handling", "pinging", "responded", "relaying"}

Init ==
  /\ settings \in [autocomplete : BOOLEAN, redis : BOOLEAN]
  /\ idOf \in Sent
  /\ clock = 0
  /\ pc = [r \in Requests |-> "new"]
  /\ start = [r \in Requests |-> None]
  /\ took = [r \in Requests |-> None]
  /\ active = [i \in Ids |-> None]
  /\ completed = <<>>
  /\ total = 0 /\ counted = 0
  /\ good = [r \in Requests |-> TRUE]
  /\ probed = [r \in Requests |-> 0]
  /\ verdict = [r \in Requests |-> None]
  /\ open = FALSE
  /\ phase = "serving"
  /\ shutting_down = FALSE
  /\ drain_start = 0

-----------------------------------------------------------------------------
(* The metrics collector.                                                  *)

ActiveIds == {i \in Ids : active[i] # None}

(* An entry under the same id is overwritten, and still counted.           *)
start_request(r) ==
  /\ active' = [active EXCEPT ![idOf[r]] = r]
  /\ start' = [start EXCEPT ![r] = clock]
  /\ total' = total + 1
  /\ UNCHANGED <<took, completed, counted>>

(* The bounded deque.                                                      *)
Retain(r) ==
  LET all == Append(completed, r)
  IN  IF Len(all) > History THEN Tail(all) ELSE all

(* Mutant: the entry is looked up and not removed.                         *)
complete_Gets(r) ==
  /\ took' = [took EXCEPT ![r] = clock - start[r]]
  /\ counted' = counted + 1
  /\ completed' = Retain(r)
  /\ UNCHANGED <<start, active, total>>

(* complete() in access_log: the request's own record is finished, and     *)
(* then whatever record stands under its id is taken off the books.        *)
complete(r) ==
  LET i == idOf[r]
      m == active[i]
      mine == [took EXCEPT ![r] = clock - start[r]]
  IN  IF m = None
      THEN took' = mine /\ UNCHANGED <<start, active, completed, total, counted>>
      ELSE /\ active' = [active EXCEPT ![i] = None]
           /\ took' = IF mine[m] = None THEN [mine EXCEPT ![m] = clock - start[m]] ELSE mine
           /\ counted' = counted + 1
           /\ completed' = Retain(m)
           /\ UNCHANGED <<start, total>>

-----------------------------------------------------------------------------
(* The middleware and the routes.                                          *)

Goto(r, l) == pc' = [pc EXCEPT ![r] = l]

Refuse(r) ==
  /\ pc[r] = "new" /\ shutting_down
  /\ Goto(r, "refused")
  /\ UNCHANGED <<settings, idOf, clock, metrics, check, open, server>>

(* Mutant: the middleware does not look at the flag.                       *)
MayEnter_Always == TRUE

MayEnter == ~shutting_down

Enter(r) ==
  /\ pc[r] = "new" /\ MayEnter
  /\ start_request(r)
  /\ Goto(r, "handling")
  /\ UNCHANGED <<settings, idOf, clock, check, open, server>>

(* A route, the size limit or an exception handler produced a response.    *)
(* What call_next() returns always has a body iterator.                    *)
Respond(r) ==
  /\ pc[r] = "handling" /\ r \notin Checks
  /\ Goto(r, "responded")
  /\ UNCHANGED <<settings, idOf, clock, metrics, check, open, server>>

(* Mutant: no cleanup on exceptions.                                       *)
HandlerRaises_NoCleanup(r) ==
  /\ pc[r] = "handling"
  /\ Goto(r, "done")
  /\ UNCHANGED <<settings, idOf, clock, metrics, check, open, server>>

(* An exception that no handler turns into a response.                     *)
HandlerRaises(r) ==
  /\ pc[r] = "handling"
  /\ complete(r)
  /\ Goto(r, "done")
  /\ UNCHANGED <<settings, idOf, clock, check, open, server>>

(* The server cancels the task, or the client is gone before the body has  *)
(* started: CancelledError is not an Exception, a generator that has not   *)
(* started has no finally clause to run, and the entry stays.              *)
Abandon(r) ==
  /\ pc[r] \in {"handling", "pinging", "responded"}
  /\ Goto(r, "abandoned")
  /\ UNCHANGED <<settings, idOf, clock, metrics, check, open, server>>

(* timed() is under way, from the first chunk of the body on.             *)
FirstChunk(r) ==
  /\ pc[r] = "responded"
  /\ Goto(r, "relaying")
  /\ UNCHANGED <<settings, idOf, clock, metrics, check, open, server>>

(* The body is over, with or without a chunk, or was cut off: the finally  *)
(* clause of timed().                                                      *)
EndBody(r) ==
  /\ pc[r] \in {"responded", "relaying"}
  /\ complete(r)
  /\ Goto(r, "done")
  /\ UNCHANGED <<settings, idOf, clock, check, open, server>>

-----------------------------------------------------------------------------
(* GET /readyz/detailed.                                                   *)

Probes == IF settings.autocomplete THEN 2 ELSE 1

(* The loop over the upstreams skips the primary one, which is the only    *)
(* one in it, when autocomplete is enabled.                                *)
all_circuits_healthy == settings.autocomplete \/ ~open

Answer(r, ok) ==
  /\ verdict' = [verdict EXCEPT ![r] = IF ok THEN "ready" ELSE "degraded"]
  /\ Goto(r, "responded")

(* A probe answers.  The breakers are read in the step that follows the    *)
(* last one, and the answer is made in it too, unless Redis is asked.      *)
Probe(r, ok) ==
  /\ pc[r] = "handling" /\ r \in Checks
  /\ probed' = [probed EXCEPT ![r] = @ + 1]
  /\ IF probed'[r] < Probes
     THEN /\ good' = [good EXCEPT ![r] = @ /\ ok]
          /\ UNCHANGED <<pc, verdict>>
     ELSE /\ good' = [good EXCEPT ![r] = @ /\ ok /\ all_circuits_healthy]
          /\ IF settings.redis
             THEN Goto(r, "pinging") /\ UNCHANGED verdict
             ELSE Answer(r, good'[r])
  /\ UNCHANGED <<settings, idOf, clock, metrics, open, server>>

Ping(r, ok) ==
  /\ pc[r] = "pinging"
  /\ Answer(r, good[r] /\ ok)
  /\ UNCHANGED <<settings, idOf, clock, metrics, good, probed, open, server>>

(* The primary upstream's breaker, which other requests open and close.    *)
BreakerMoves ==
  /\ open' = ~open
  /\ UNCHANGED <<settings, idOf, clock, pc, metrics, check, server>>

-----------------------------------------------------------------------------
(* The lifespan.                                                           *)

(* The server leaves the lifespan's yield, early enough for the bound on   *)
(* the clock to leave room for the timeout.                                *)
Shutdown ==
  /\ phase = "serving"
  /\ clock + ShutdownTimeout <= MaxTime
  /\ phase' = "draining"
  /\ shutting_down' = TRUE
  /\ drain_start' = clock
  /\ UNCHANGED <<settings, idOf, clock, pc, metrics, check, open>>

(* Mutant: no way out for abandoned requests.                              *)
Drained_NoTimeout == ActiveIds = {}

Drained == ActiveIds = {} \/ clock - drain_start >= ShutdownTimeout

(* The poll that ends the loop; the ones that do not change nothing.       *)
EndDrain ==
  /\ phase = "draining"
  /\ Drained
  /\ phase' = "closing"
  /\ UNCHANGED <<settings, idOf, clock, pc, metrics, check, open, shutting_down, drain_start>>

(* client.aclose()                                                         *)
CloseClient ==
  /\ phase = "closing"
  /\ phase' = "closed"
  /\ UNCHANGED <<settings, idOf, clock, pc, metrics, check, open, shutting_down, drain_start>>

Tick ==
  /\ clock < MaxTime
  /\ clock' = clock + 1
  /\ UNCHANGED <<settings, idOf, pc, metrics, check, open, server>>

Step(r) ==
  \/ Refuse(r) \/ Enter(r) \/ Respond(r) \/ HandlerRaises(r) \/ Abandon(r)
  \/ FirstChunk(r) \/ EndBody(r)
  \/ \E ok \in BOOLEAN : Probe(r, ok) \/ Ping(r, ok)

Next ==
  \/ \E r \in Requests : Step(r)
  \/ BreakerMoves
  \/ Shutdown \/ EndDrain \/ CloseClient
  \/ Tick

Spec == Init /\ [][Next]_vars

(* Time passes, and the drain loop polls and closes; no request is obliged *)
(* to end, and none to be made.                                            *)
FairSpec == Spec /\ WF_vars(Tick) /\ WF_vars(EndDrain) /\ WF_vars(CloseClient)

-----------------------------------------------------------------------------
(* No other request came with the same x-request-id.                       *)
OwnId(r) == \A s \in Requests \ {r} : idOf[s] # idOf[r]

(* The books balance: a request that entered is on them, was taken off     *)
(* them once, or shares its id with another; none is counted twice, in     *)
(* whatever order requests with one id start, raise, end and are given up. *)
(* What is retained for the latency summary has a duration, and is bounded.*)
Accounting ==
  LET booked == counted + Cardinality(ActiveIds)
      entered == {r \in Requests : pc[r] \notin {"new", "refused"}}
  IN  /\ booked <= total
      /\ total = Cardinality(entered)
      /\ (\A r \in entered : OwnId(r)) => booked = total
      /\ \A j, k \in DOMAIN completed : completed[j] = completed[k] => j = k
      /\ \A k \in DOMAIN completed : took[completed[k]] # None
      /\ Len(completed) <= History

(* What the drain waits for is a request that still runs or was abandoned: *)
(* an entry never outlives the end of its own request.  And a request with *)
(* an id of its own is waited for until it ends.                           *)
ActiveIsOwed ==
  /\ \A i \in ActiveIds : idOf[active[i]] = i /\ pc[active[i]] \in Running \cup {"abandoned"}
  /\ \A r \in Requests : OwnId(r) /\ pc[r] \in Running => active[idOf[r]] = r

(* The shared client is closed under no request with an id of its own, as  *)
(* long as the shutdown timeout has not passed.                            *)
ClosedIsDrained ==
  phase \in {"closing", "closed"} /\ clock - drain_start < ShutdownTimeout
    => \A r \in Requests : pc[r] \in Running => ~OwnId(r)

(* The drain comes to an end, although abandoned requests stay on the      *)
(* books for good and running ones need not end.                           *)
DrainEnds == phase = "draining" ~> phase = "closed"
=============================================================================

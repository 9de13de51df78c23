----------------------------- MODULE RateLimiter -----------------------------
(***************************************************************************)
(* The gateway's sliding-window rate limiter (rate_limiting.py) and its    *)
(* one caller, require_api_key (deps.py), with no Redis configured.        *)
(*                                                                         *)
(* require_api_key is a synchronous dependency, so each request runs it in *)
(* a worker thread.  The thread reads the clock, then takes the lock and   *)
(* decides; if it must throttle it takes the lock again to work out when   *)
(* the client may come back.  Other threads run in both gaps.              *)
(***************************************************************************)
EXTENDS Integers, Sequences, FiniteSets

CONSTANTS
  Threads,         \* worker threads
  Keys,            \* the limiter's keys: an endpoint and a client
  Limit,           \* max_requests that applies to each key's endpoint
  Window,          \* window_seconds of each key's endpoint, in ticks
  GlobalWindow,    \* config.window_seconds, in ticks
  CleanupInterval, \* config.cleanup_interval, in ticks
  Second,          \* ticks in a second
  MaxStall,        \* bound: ticks between a thread's clock reading and its lock
  MaxTime          \* bound on the clock

ASSUME LimiterConstants ==
  /\ Limit \in [Keys -> Nat \ {0}]
  /\ Window \in [Keys -> Nat \ {0}]
  /\ {GlobalWindow, CleanupInterval, Second} \subseteq Nat \ {0}
  /\ {MaxStall, MaxTime} \subseteq Nat

VARIABLES
  clock,        \* time.time()
  requests,     \* _requests: the deque of each key; a key never seen is empty
  last_cleanup, \* _last_cleanup
  checking,     \* threads about to take the lock, with the time they read
  throttled,    \* threads about to answer 429
  granted,      \* history: when the requests of each key were let through
  retry_at      \* history: when a throttled client was told to come back

vars == <<clock, requests, last_cleanup, checking, throttled, granted, retry_at>>

None == -1

Call == [thread : Threads, key : Keys, now : Nat]

-----------------------------------------------------------------------------
(* The index of the first entry that stays when the entries at the head    *)
(* that are not later than the cutoff are popped.                          *)
FirstLive(q, cutoff) ==
  CHOOSE i \in 1..(Len(q) + 1) :
    /\ \A j \in 1..(i - 1) : q[j] <= cutoff
    /\ i <= Len(q) => q[i] > cutoff

(* Mutant: an entry is dropped one tick before it leaves the window.       *)
Expire_Early(q, cutoff) == SubSeq(q, FirstLive(q, cutoff + 1), Len(q))

Expire(q, cutoff) == SubSeq(q, FirstLive(q, cutoff), Len(q))

(* _maybe_cleanup: a key is stale when its newest entry is older than the  *)
(* window, the global one whatever the endpoint's is.                      *)
Stale(q, now) == q = <<>> \/ q[Len(q)] < now - GlobalWindow

CleanupDue(now) == now - last_cleanup >= CleanupInterval

Cleaned(now) ==
  IF CleanupDue(now)
  THEN [k \in Keys |-> IF Stale(requests[k], now) THEN <<>> ELSE requests[k]]
  ELSE requests

-----------------------------------------------------------------------------
Init ==
  /\ clock = 0
  /\ requests = [k \in Keys |-> <<>>]
  /\ last_cleanup = 0
  /\ checking = {}
  /\ throttled = {}
  /\ granted = [k \in Keys |-> <<>>]
  /\ retry_at = [k \in Keys |-> None]

Idle(t) == \A c \in checking \cup throttled : c.thread # t

(* is_allowed() up to the lock: the endpoint's limits and the time.        *)
Begin(t, k) ==
  /\ Idle(t)
  /\ checking' = checking \cup {[thread |-> t, key |-> k, now |-> clock]}
  /\ UNCHANGED <<clock, requests, last_cleanup, throttled, granted, retry_at>>

(* The deque as is_allowed() finds it once it has cleaned up and popped.   *)
Pending(c) == Expire(Cleaned(c.now)[c.key], c.now - Window[c.key])

(* Mutant: the comparison admits one request too many.                     *)
is_allowed_AtLimit(c) == Len(Pending(c)) <= Limit[c.key]

(* There is a place left in the window.                                    *)
is_allowed(c) == Len(Pending(c)) < Limit[c.key]

(* The rest of is_allowed(), under the lock: clean up, drop what has left  *)
(* the window, and take a place if there is one.                           *)
Check(c) ==
  /\ checking' = checking \ {c}
  /\ last_cleanup' = IF CleanupDue(c.now) THEN c.now ELSE last_cleanup
  /\ requests' =
       [Cleaned(c.now) EXCEPT ![c.key] =
          IF is_allowed(c) THEN Append(Pending(c), c.now) ELSE Pending(c)]
  /\ IF is_allowed(c)
     THEN /\ granted' = [granted EXCEPT ![c.key] = Append(@, clock)]
          /\ retry_at' = [retry_at EXCEPT ![c.key] = None]
          /\ UNCHANGED throttled
     ELSE /\ throttled' = throttled \cup {c}
          /\ UNCHANGED <<granted, retry_at>>
  /\ UNCHANGED clock

(* get_reset_time(): when the head of the deque leaves the window.         *)
get_reset_time(k) ==
  IF requests[k] = <<>> THEN clock ELSE requests[k][1] + Window[k]

(* Mutant: a fixed back-off of half the window, whatever the deque holds.  *)
RetryAfter_HalfWindow(k) ==
  IF Window[k] \div 2 < Second THEN 1 ELSE (Window[k] \div 2) \div Second

(* Retry-After: max(1, int(reset_time - time.time())), in whole seconds.   *)
RetryAfter(k) ==
  LET wait == get_reset_time(k) - clock
  IN  IF wait < Second THEN 1 ELSE wait \div Second

(* The 429 and its headers.                                                *)
Throttle(c) ==
  /\ throttled' = throttled \ {c}
  /\ retry_at' = [retry_at EXCEPT ![c.key] = clock + RetryAfter(c.key) * Second]
  /\ UNCHANGED <<clock, requests, last_cleanup, checking, granted>>

(* get_remaining_requests() drops what has left the window.                *)
Remaining(k) ==
  /\ requests' = [requests EXCEPT ![k] = Expire(@, clock - Window[k])]
  /\ UNCHANGED <<clock, last_cleanup, checking, throttled, granted, retry_at>>

(* A thread waits for the lock no longer than MaxStall ticks.              *)
Tick ==
  /\ clock < MaxTime
  /\ \A c \in checking : clock + 1 - c.now <= MaxStall
  /\ clock' = clock + 1
  /\ UNCHANGED <<requests, last_cleanup, checking, throttled, granted, retry_at>>

Next ==
  \/ \E t \in Threads, k \in Keys : Begin(t, k)
  \/ \E c \in checking : Check(c)
  \/ \E c \in throttled : Throttle(c)
  \/ \E k \in Keys : Remaining(k)
  \/ Tick

Spec == Init /\ [][Next]_vars

-----------------------------------------------------------------------------
(* Every variable stays in its type, and a deque never outgrows its limit. *)
TypeOK ==
  /\ clock \in Nat
  /\ requests \in [Keys -> Seq(Nat)]
  /\ \A k \in Keys : Len(requests[k]) <= Limit[k]
  /\ last_cleanup \in Nat
  /\ checking \subseteq Call
  /\ throttled \subseteq Call
  /\ granted \in [Keys -> Seq(Nat)]
  /\ retry_at \in [Keys -> Nat \cup {None}]

(* The requests let through on a key in the given time up to an instant.   *)
GrantedIn(k, length, end) ==
  {i \in DOMAIN granted[k] : end - length < granted[k][i] /\ granted[k][i] <= end}

(* In no stretch of that length, wherever it starts, are more requests of  *)
(* a key let through than its limit.                                       *)
AtMostLimit(k, length) ==
  \A end \in 0..clock : Cardinality(GrantedIn(k, length, end)) <= Limit[k]

(* How far back the limiter is sure to remember a key: the endpoint's own  *)
(* window, but no further than the global one by which the cleanup judges. *)
Horizon(k) == IF Window[k] < GlobalWindow THEN Window[k] ELSE GlobalWindow

(* No sliding window of a key is overfilled, across pruning, cleanups and  *)
(* threads that take the lock in any order.  A thread may have read the    *)
(* clock long before it decides, so an entry of the deque is older than    *)
(* the request it stands for, and is forgotten the sooner by as much: the  *)
(* window that holds is the horizon less the longest stall.                *)
SlidingWindow == \A k \in Keys : AtMostLimit(k, Horizon(k) - MaxStall)

(* A client that waits one second longer than Retry-After told it to is    *)
(* let through, whatever was throttled, pruned or cleaned up meanwhile.    *)
RetryAfterASecondMore ==
  [][\A c \in checking :
       /\ c \notin checking'
       /\ retry_at[c.key] # None
       /\ c.now >= retry_at[c.key] + Second
       => c \notin throttled']_vars
=============================================================================

\* Two JSON requests and a stream share an upstream whose breaker trips on two
\* failures; the clock outlasts the failure window and the open timeout.  The stream
\* can lose both slots of the pool while the others wait for one.
CONSTANTS
  r1 = r1
  r2 = r2
  r3 = r3
  r4 = r4
  u1 = u1
  u2 = u2
  Requests = {r1, r2, r3}
  Upstreams = {u1}
  TargetOf <- MCTargetOf
  Streaming <- MCStreaming
  FailureWindow = 1
  FailureThreshold = 2
  OpenTimeout = 1
  MaxAttempts = 2
  PoolSize = 2
  MaxTime = 2
SPECIFICATION FairSpec
INVARIANTS TypeOK BreakerConsistent FailuresAreOwn NothingAdmittedWhileOpen OnlyStreamsLeak
PROPERTY EveryRequestEnds
\* Every request is made once and the clock is bounded.
CHECK_DEADLOCK FALSE

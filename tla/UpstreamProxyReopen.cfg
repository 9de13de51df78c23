CONSTANTS
  r1 = r1
  r2 = r2
  r3 = r3
  r4 = r4
  u1 = u1
  u2 = u2
  Requests = {r1, r2, r3}
  Upstreams = {u1}
  TargetOf <- MCTargetOf
  Streaming <- MCStreaming
  FailureWindow = 2
  FailureThreshold = 1
  OpenTimeout = 1
  MaxAttempts = 1
  PoolSize = 2
  MaxTime = 2
SPECIFICATION Spec
PROPERTY HalfOpenFailureReopens
\* Every request is made once and the clock is bounded.
CHECK_DEADLOCK FALSE

\* Two requests and a readiness check; the clock reaches the shutdown timeout, and
\* the third completed request pushes out the first.
CONSTANTS
  None = None
  r1 = r1
  r2 = r2
  c1 = c1
  i1 = i1
  i2 = i2
  i3 = i3
  Requests = {r1, r2, c1}
  Checks = {c1}
  Ids = {i1, i2, i3}
  Sent <- MCSent
  History = 2
  ShutdownTimeout = 1
  MaxTime = 1
SPECIFICATION FairSpec
INVARIANTS Accounting ActiveIsOwed ClosedIsDrained
PROPERTY DrainEnds
\* Every request is made once, the server may stop, and the clock is bounded.
CHECK_DEADLOCK FALSE

\* Two processes, one session in one process at a time; a crash anywhere.
CONSTANTS
  None = None
  Procs = {p1, p2}
  Sessions = {s1, s2, s3}
  Workspaces = {w1}
  Keep = 2
  Shared = FALSE
  MaxAsks = 3
  MaxFaults = 1
  MaxExports = 1
SYMMETRY Symmetry
SPECIFICATION Spec
INVARIANT WithinLimit
PROPERTIES LatestIsKept KeepsItsPromise
\* At the bounds every process may have come to rest.
CHECK_DEADLOCK FALSE

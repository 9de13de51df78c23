\* Two processes that resume one session, as nothing prevents.
CONSTANTS
  None = None
  Procs = {p1, p2}
  Sessions = {s1, s2, s3}
  Workspaces = {w1}
  Keep = 2
  Shared = TRUE
  MaxAsks = 3
  MaxFaults = 1
  MaxExports = 1
SYMMETRY Symmetry
SPECIFICATION Spec
INVARIANT NothingHalfIsLeft
\* At the bounds every process may have come to rest.
CHECK_DEADLOCK FALSE

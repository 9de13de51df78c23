CONSTANTS
  f1 = f1
  f2 = f2
  w1 = w1
  w2 = w2
  Files = {f1, f2}
  Workers = {w1, w2}
  CacheSize = 1
  MaxWrites = 1
SPECIFICATION Spec
SYMMETRY Interchangeable
INVARIANTS TypeOK CacheNeverStale
PROPERTY EditsFollowReads
\* A thread may be left with a write that the bound on writes forbids.
CHECK_DEADLOCK FALSE

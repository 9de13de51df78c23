\* Two threads and two keys; the clock passes several windows and cleanups, in
\* half seconds.  The second endpoint has a longer window than the global one.  A
\* thread may wait for the lock for a tick after it read the clock.
CONSTANTS
  chat = chat
  embed = embed
  EmbedWindow = 5
  Threads = {t1, t2}
  Keys = {chat, embed}
  Limit <- MCLimit
  Window <- MCWindow
  GlobalWindow = 3
  CleanupInterval = 3
  Second = 2
  MaxStall = 1
  MaxTime = 5
SYMMETRY Symmetry
SPECIFICATION Spec
INVARIANTS TypeOK SlidingWindow
PROPERTY RetryAfterASecondMore

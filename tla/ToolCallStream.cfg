\* Up to three calls in up to three pieces each, in any interleaving, cut off anywhere.
CONSTANTS
  None = None
  Replies <- MCReplies
  Markers <- MCMarkers
SPECIFICATION StreamSpec
INVARIANTS RunsOnlyWholeCalls EveryCallIsAccountedFor
\* A turn ends with the reply.
CHECK_DEADLOCK FALSE

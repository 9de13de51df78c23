\* Two questions and two model turns of up to two calls each: enough for a turn
\* to be interrupted or abandoned, and the transcript then compacted twice, saved,
\* lost and resumed; and for a question to meet the step limit.
CONSTANTS
  Tools = {"grep", "edit_file"}
  MaxCalls = 2
  MaxAsks = 2
  MaxTurns = 2
  MaxSteps = 2
  RepeatAbort = 2
  MinMessages = 4
  TailCount = 3
SPECIFICATION FairSpec
INVARIANTS TypeOK OnlyStoppedTurnsAreOpen OneResultPerCall SentIsHeadAndTail DeclinedNeverRuns
PROPERTIES SavedOnlyGrows AskEnds
\* The user may stop asking.
CHECK_DEADLOCK FALSE

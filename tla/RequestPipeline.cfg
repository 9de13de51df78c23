\* One request of every kind under every setting; two tokens of output fit the
\* window with a short prompt, three do not.
CONSTANTS
  Absent = Absent
  NotInt = NotInt
  Payloads <- MCPayloads
  Configs <- MCConfigs
  Names <- MCNames
  Overhead = 2
  CharsPerToken = 2
SPECIFICATION Spec
INVARIANTS ListedIsServed PreparedIsFixpoint EngineTakesIt FitsTheWindow
\* A request ends with its reply.
CHECK_DEADLOCK FALSE

\* The companion's two threads and its sink, with an output that may break at any time.
SPECIFICATION FairSpec
CONSTANTS
  Capacity = 2
  ErrorCapacity = 1
  MaxCommands = 2
  MaxEvents = 3
  MaxLeases = 2
  Pushed <- OneOfEach
INVARIANTS
  ShutdownAnswerIsLast
  LinesAreAnswered
  ExitCodeTellsTruth
  LossesAreTold
PROPERTIES
  NobodyWaitsForEver
  RevokedIsNeverWritten
\* the process ends
CHECK_DEADLOCK FALSE

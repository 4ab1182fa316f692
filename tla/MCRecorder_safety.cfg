\* The recorder: all threads, a second recording, a process death.
SPECIFICATION Spec
CONSTANTS
  Capacity = 2
  BatchSize = 2
  MaxSubmits = 3
  MaxCaptures = 2
  MaxPauses = 1
  MaxCrashes = 1
INVARIANTS
  StopOkMeansPublished
  OutputIsComplete
  PartialIsAPrefix
  SummaryIsTrue
PROPERTIES
  ImplementsCapture
  StatusIsImplemented
\* nobody has to call the recorder again once the bounds are used up
CHECK_DEADLOCK FALSE

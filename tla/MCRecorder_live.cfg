\* The recorder: liveness under fairness.
SPECIFICATION FairSpec
CONSTANTS
  Capacity = 1
  BatchSize = 1
  MaxSubmits = 2
  MaxCaptures = 1
  MaxPauses = 1
  MaxCrashes = 0
PROPERTIES
  OperationsReturn
  SamplesSettle
\* nobody has to call the recorder again once the bounds are used up
CHECK_DEADLOCK FALSE

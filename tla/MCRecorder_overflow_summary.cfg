\* The recorder: README.md:86 against an overflow that races stop.
SPECIFICATION Spec
CONSTANTS
  Capacity = 1
  BatchSize = 1
  MaxSubmits = 2
  MaxCaptures = 1
  MaxPauses = 0
  MaxCrashes = 0
INVARIANTS
  OverflowedCaptureHasNoSummary
\* nobody has to call the recorder again once the bounds are used up
CHECK_DEADLOCK FALSE

\* The sensor client: its lifecycle and its streams.
SPECIFICATION FairSpec
CONSTANTS
  a = a
  b = b
  Callers = {a, b}
  Plays <- AllPlays
  Modulus = 8
  LowMax = 1
INVARIANTS
  StopIsFinal
PROPERTIES
  SamplesAreInOrder
  CallsReturn
\* the calls are used up
CHECK_DEADLOCK FALSE

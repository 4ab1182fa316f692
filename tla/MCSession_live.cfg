\* The session: operations return, and a failed recorder is shown.
SPECIFICATION FairSpec
CONSTANTS
  Capacity = 8
  ErrorCapacity = 4
  Plays <- FailingOnly
PROPERTIES
  OperationsReturn
  FailureIsShown
\* once the operations are used up and the last of them was disconnect, every thread has ended
CHECK_DEADLOCK FALSE

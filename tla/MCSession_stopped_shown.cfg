\* The session: a stopped recorder against the snapshot a poll still holds.
SPECIFICATION Spec
CONSTANTS
  Capacity = 8
  ErrorCapacity = 4
  Plays <- StoppingOnly
INVARIANTS
  StoppedIsShown
\* once the operations are used up and the last of them was disconnect, every thread has ended
CHECK_DEADLOCK FALSE

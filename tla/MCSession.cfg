\* The session: pauses, connections, configurations and recordings, a play for each.
SPECIFICATION Spec
CONSTANTS
  Capacity = 8
  ErrorCapacity = 4
  Plays <- AllPlays
INVARIANTS
  NothingOldIsDelivered
  ThreadsAreContained
  DisconnectedIsLast
  RecorderFollowsSession
PROPERTIES
  ConfigurationNotBehind
\* once the operations are used up and the last of them was disconnect, every thread has ended
CHECK_DEADLOCK FALSE

\* The supervisor, two faults anywhere, and the application quitting at any time.
SPECIFICATION FairSpec
CONSTANTS
  Attempts = 2
  ChunkLines = 2
  MaxFaults = 2
  MaxCalls = 1
  Commands <- OneCommand
INVARIANTS
  NoOrphan
  KilledForCause
PROPERTIES
  EverythingEnds
\* the application may be gone, or wait for somebody to call
CHECK_DEADLOCK FALSE

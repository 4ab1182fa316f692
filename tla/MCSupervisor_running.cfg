\* A line that fails the process in the chunk of the answer to hello.
SPECIFICATION Spec
CONSTANTS
  Attempts = 2
  ChunkLines = 2
  MaxFaults = 2
  MaxCalls = 1
  Commands <- OneCommand
INVARIANTS
  RunningHasProcess
\* the application may be gone, or wait for somebody to call
CHECK_DEADLOCK FALSE

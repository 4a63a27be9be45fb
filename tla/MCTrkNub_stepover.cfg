SPECIFICATION Spec
CONSTANTS
  NumBuffers = 3
  QueueLength = 2
  Commands <- OddKinds
  MaxOutstanding = 1
  MaxChunks = 1
INVARIANTS
  HostViewAgrees
\* The nub stops when it is reset or shut down.
CHECK_DEADLOCK FALSE

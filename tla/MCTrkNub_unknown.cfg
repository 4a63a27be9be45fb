SPECIFICATION FairSpec
CONSTANTS
  NumBuffers = 3
  QueueLength = 2
  Commands <- OddKinds
  MaxOutstanding = 1
  MaxChunks = 1
PROPERTIES
  RequestAnswered
\* The nub stops when it is reset or shut down.
CHECK_DEADLOCK FALSE

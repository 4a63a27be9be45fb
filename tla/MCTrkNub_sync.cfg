SPECIFICATION FairSpec
CONSTANTS
  NumBuffers = 3
  QueueLength = 2
  Commands <- Kinds
  MaxOutstanding = 1
  MaxChunks = 2
INVARIANTS
  TypeOK
  BufferAccounting
  PoolSuffices
  RequestsIntact
  HostViewAgrees
  NoSilentResume
PROPERTIES
  ControlSpec
  RequestAnswered
  FaultReported
  ShutdownTerminates
\* The nub stops when it is reset or shut down.
CHECK_DEADLOCK FALSE

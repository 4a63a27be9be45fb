SPECIFICATION MslSpec
CONSTANTS
  NumAddr = 5
  Unmapped = {4}
  DS_MAXREADWRITELENGTH = 2
  MaxCount = 3
  PPC_CACHE_ALIGNMENT = 2
  StopInfoBytes = 5
INVARIANTS
  NothingStaleIsExecuted
  AcknowledgedMeansDone
  RequestsHaveAHost
  TheProgramIsTold
PROPERTIES
  TransferIsExact
  FailureIsReported
  OnlyTheBufferChanges

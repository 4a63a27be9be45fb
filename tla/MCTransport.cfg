SPECIFICATION FairSpec
CONSTANTS
  Size = 4
  Byte <- AnyByte
  Blocks <- AllBlocks
  Lengths <- AllLengths
  TRK_MSG_HEADER_LENGTH = 2
  kMessageBufferSize = 8
  Packet = {1, 2, 3}
  Length <- ThatFit
  MaxUnread = 3
INVARIANTS
  PacketsIntact
  NothingIsLeftBehind
  AnswersIntact
PROPERTIES
  FifoSpec
  PacketsAreReceived
\* The host may send nothing more.
CHECK_DEADLOCK FALSE

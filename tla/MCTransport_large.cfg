SPECIFICATION FairSpec
CONSTANTS
  Size = 4
  Byte <- AnyByte
  Blocks <- AllBlocks
  Lengths <- AllLengths
  TRK_MSG_HEADER_LENGTH = 2
  kMessageBufferSize = 10
  Packet = {1}
  Length <- OfTwoKiB
  MaxUnread = 3
PROPERTIES
  PacketsAreReceived
CHECK_DEADLOCK FALSE

SPECIFICATION FairSpec
CONSTANTS
  BufferSize = 3
  BufferCount = 3
  HeaderSize = 2
  MaxPacket = 3
  MaxStream = 10
PROPERTY EveryPacketArrives
CHECK_DEADLOCK FALSE

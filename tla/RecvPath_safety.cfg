SPECIFICATION Spec
CONSTANTS
  BufferSize = 4
  BufferCount = 3
  HeaderSize = 2
  MaxPacket = 4
  MaxStream = 14
INVARIANTS
  CleanNeverOverlaps
  ReceptionGoesOn
PROPERTY ImplementsPacketChannel
CHECK_DEADLOCK FALSE

SPECIFICATION Spec
CONSTANTS
  BufferSize = 2
  BufferCount = 3
  Loops = {l1, l2, l3}
  MaxConnections = 2
  MaxStarts = 1
  MaxStream = 7
SYMMETRY Symmetry
INVARIANTS
  OneLoop
  OnlyReuseHarms
  NeverDeaf
CHECK_DEADLOCK FALSE

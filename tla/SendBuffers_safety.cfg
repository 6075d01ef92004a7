SPECIFICATION Spec
CONSTANTS
  Threads = {t1, t2}
  Buffers = {b1, b2, b3}
  Chunks = {c1, c2, c3}
  NoChunk = NoChunk
  ChunkSize = 3
  Sizes = {0, 1, 3, 4}
SYMMETRY Symmetry
INVARIANTS
  NoSharedBytes
  OneWriterPerChunk
  CloseFindsOpen
PROPERTY ImplementsAllocator
CHECK_DEADLOCK FALSE

--------------------------- MODULE MCSendBuffers ---------------------------
(***************************************************************************)
(* SendBuffers with chunks of a few bytes and interchangeable threads,     *)
(* chunks and buffers.                                                     *)
(***************************************************************************)
EXTENDS SendBuffers, FiniteSets, TLC

Symmetry ==
  Permutations(Threads) \cup Permutations(Chunks) \cup Permutations(Buffers)

\* There are chunks for every thread and every buffer.
ASSUME MCSendBuffersAssumption == Cardinality(Chunks) > Cardinality(Threads)

============================================================================

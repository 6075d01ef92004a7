---------------------------- MODULE SendBuffers ----------------------------
(***************************************************************************)
(* SendBuffer, SendBufferChunk and SendBufferManager (SendBuffer.cpp).     *)
(* Each thread cuts its buffers from a chunk of its own; a buffer keeps    *)
(* its chunk alive, and any thread may hold a buffer that was closed.      *)
(*                                                                         *)
(* A caller may open a buffer before it closed the last, ask for too much, *)
(* close with too much or let go of a buffer unclosed: the assertions      *)
(* decide, and where one fails the process ends, as in a debug build.  A   *)
(* buffer is written and closed by the thread that opened it, and closed   *)
(* at most once.  The pool of the manager is not modelled: nothing pushes  *)
(* a chunk to it, so Pop always makes one.  A chunk nobody refers to is    *)
(* freed, and its memory may serve for the next.  Threads do not end.      *)
(***************************************************************************)
EXTENDS Integers

CONSTANTS
  Threads,
  Buffers,    \* bound: SendBuffer objects
  Chunks,     \* bound: SendBufferChunk objects
  NoChunk,    \* a null LSendBufferChunk
  ChunkSize,  \* SEND_BUFFER_CHUNK_SIZE, 6000
  Sizes       \* the sizes callers ask for and close with

ASSUME SendBuffersAssumption ==
  /\ NoChunk \notin Chunks
  /\ ChunkSize \in Nat
  /\ Sizes \subseteq Nat

VARIABLES
  chunkOf,   \* LSendBufferChunk of each thread
  open,      \* SendBufferChunk::_open
  usedSize,  \* SendBufferChunk::_usedSize
  state,     \* how far each buffer is, "free" if nobody refers to it
  region,    \* _owner, _buffer (as an offset), _allocSize and _writeSize of
             \* each buffer
  failed     \* an assertion has failed

vars == <<chunkOf, open, usedSize, state, region, failed>>

Regions == [owner : Chunks \cup {NoChunk}, at : 0 .. ChunkSize,
            allocSize : 0 .. ChunkSize, writeSize : 0 .. ChunkSize]

NoRegion == [owner |-> NoChunk, at |-> 0, allocSize |-> 0, writeSize |-> 0]

Init ==
  /\ chunkOf = [t \in Threads |-> NoChunk]
  /\ open = [c \in Chunks |-> FALSE]
  /\ usedSize = [c \in Chunks |-> 0]
  /\ state = [b \in Buffers |-> "free"]
  /\ region = [b \in Buffers |-> NoRegion]
  /\ failed = FALSE

FreeSize(c) == ChunkSize - usedSize[c]

\* Mutation: a buffer does not keep its chunk alive.
InUse_ByThreads(c) == \E t \in Threads : chunkOf[t] = c

\* Mutation: the chunk a thread works on is forgotten.
InUse_ByBuffers(c) == \E b \in Buffers : state[b] # "free" /\ region[b].owner = c

\* The references to a chunk: LSendBufferChunk and SendBuffer::_owner.
InUse(c) ==
  \/ \E t \in Threads : chunkOf[t] = c
  \/ \E b \in Buffers : state[b] # "free" /\ region[b].owner = c

-----------------------------------------------------------------------------

AssertionFails ==
  /\ failed' = TRUE
  /\ UNCHANGED <<chunkOf, open, usedSize, state, region>>

\* The manager's Open when the thread's chunk is still open.
OpenTwice(t) ==
  /\ ~failed
  /\ chunkOf[t] # NoChunk /\ open[chunkOf[t]]
  /\ AssertionFails

\* Variants for mutation: the thread's chunk may be open; one byte more than
\* there is room for fits.
Usable_Open(t, n) == chunkOf[t] # NoChunk /\ FreeSize(chunkOf[t]) >= n

Usable_OneMore(t, n) ==
  chunkOf[t] # NoChunk /\ ~open[chunkOf[t]] /\ FreeSize(chunkOf[t]) + 1 >= n

\* The thread's chunk is there and closed, and the buffer fits into it.
Usable(t, n) ==
  chunkOf[t] # NoChunk /\ ~open[chunkOf[t]] /\ FreeSize(chunkOf[t]) >= n

\* The manager takes a new chunk: the thread has none, or not room enough.
NeedsChunk(t, n) ==
  chunkOf[t] # NoChunk => ~open[chunkOf[t]] /\ FreeSize(chunkOf[t]) < n

\* A buffer of n bytes at the given place of a chunk.
MakeBuffer(c, at, n) ==
  \E b \in Buffers :
    /\ state[b] = "free"
    /\ state' = [state EXCEPT ![b] = "open"]
    /\ region' = [region EXCEPT ![b] =
         [owner |-> c, at |-> at, allocSize |-> n, writeSize |-> 0]]

\* Open on the thread's chunk.  A buffer of size 0 fits into a full chunk, but
\* its address is past the end, which the checked operator[] of a debug build
\* refuses.
OpenHere(t, n) ==
  /\ ~failed
  /\ Usable(t, n)
  /\ LET c == chunkOf[t]
     IN  IF usedSize[c] = ChunkSize
         THEN AssertionFails
         ELSE /\ MakeBuffer(c, usedSize[c], n)
              /\ open' = [open EXCEPT ![c] = TRUE]
              /\ UNCHANGED <<chunkOf, usedSize, failed>>

\* Open on a new chunk.  A buffer larger than a chunk fails an assertion.
OpenFresh(t, n) ==
  /\ ~failed
  /\ NeedsChunk(t, n)
  /\ \/ n > ChunkSize /\ AssertionFails
     \/ /\ n <= ChunkSize
        /\ \E c \in {d \in Chunks : ~InUse(d)} :
             /\ chunkOf' = [chunkOf EXCEPT ![t] = c]
             /\ open' = [open EXCEPT ![c] = TRUE]
             /\ usedSize' = [usedSize EXCEPT ![c] = 0]
             /\ MakeBuffer(c, 0, n)
        /\ UNCHANGED failed

\* Close of a chunk: the next buffer begins where this one was written to.
CloseChunk(c, n) ==
  /\ open' = [open EXCEPT ![c] = FALSE]
  /\ usedSize' = [usedSize EXCEPT ![c] = @ + n]

\* Close of a buffer and of its chunk, with the two assertions.
Close(b, n) ==
  /\ ~failed
  /\ state[b] = "open"
  /\ IF n > region[b].allocSize \/ ~open[region[b].owner]
     THEN AssertionFails
     ELSE /\ state' = [state EXCEPT ![b] = "closed"]
          /\ region' = [region EXCEPT ![b].writeSize = n]
          /\ CloseChunk(region[b].owner, n)
          /\ UNCHANGED <<chunkOf, failed>>

\* The last reference to a buffer goes: a send queue, the handler of a write
\* or its maker was done with it.
Release(b) ==
  /\ ~failed
  /\ state[b] # "free"
  /\ state' = [state EXCEPT ![b] = "free"]
  /\ region' = [region EXCEPT ![b] = NoRegion]
  /\ UNCHANGED <<chunkOf, open, usedSize, failed>>

Next ==
  \/ \E t \in Threads :
       \/ OpenTwice(t)
       \/ \E n \in Sizes : OpenHere(t, n) \/ OpenFresh(t, n)
  \/ \E b \in Buffers :
       \/ \E n \in Sizes : Close(b, n)
       \/ Release(b)

Spec == Init /\ [][Next]_vars

-----------------------------------------------------------------------------
(* Properties                                                              *)

\* The type invariant.
TypeOK ==
  /\ chunkOf \in [Threads -> Chunks \cup {NoChunk}]
  /\ open \in [Chunks -> BOOLEAN]
  /\ usedSize \in [Chunks -> 0 .. ChunkSize]
  /\ state \in [Buffers -> {"free", "open", "closed"}]
  /\ region \in [Buffers -> Regions]
  /\ failed \in BOOLEAN

\* The bytes of its chunk a buffer stands for: all it asked for while it may be
\* written, what was written once it is closed.
Bytes(b) ==
  LET r == region[b]
  IN  r.at .. r.at + (IF state[b] = "open" THEN r.allocSize ELSE r.writeSize) - 1

\* No two buffers that somebody refers to share a byte, whatever threads open,
\* close and release: a send reads a closed buffer without a lock while its
\* thread fills the next.
NoSharedBytes ==
  \A a, b \in Buffers :
    /\ a # b
    /\ state[a] # "free" /\ state[b] # "free"
    /\ region[a].owner = region[b].owner
    => Bytes(a) \cap Bytes(b) = {}

\* No two threads cut buffers from one chunk, and a chunk has at most one
\* buffer that is not closed: the last one, and the chunk is still a thread's.
OneWriterPerChunk ==
  /\ \A t, u \in Threads :
       t # u /\ chunkOf[t] = chunkOf[u] => chunkOf[t] = NoChunk
  /\ \A a, b \in Buffers :
       /\ state[a] = "open" /\ state[b] = "open"
       /\ region[a].owner = region[b].owner
       => a = b
  /\ \A b \in Buffers :
       state[b] = "open" =>
         /\ \E t \in Threads : chunkOf[t] = region[b].owner
         /\ region[b].at = usedSize[region[b].owner]

\* The assertion of SendBufferChunk::Close (SendBuffer.cpp:44) cannot fail for
\* a buffer that is closed once: its chunk is open.
CloseFindsOpen ==
  \A b \in Buffers : state[b] = "open" => open[region[b].owner]

Holds(b) == IF state[b] = "free" THEN {} ELSE {region[b].owner} \X Bytes(b)

\* Managers, chunks and their used sizes amount to an allocator: a buffer is
\* given bytes nobody holds, keeps some of them when it is closed, and no step
\* of another buffer touches them.
Allocator == INSTANCE BufferAllocator WITH
  Memory <- Chunks \X (0 .. ChunkSize - 1),
  bytes <- [b \in Buffers |-> Holds(b)]

ImplementsAllocator == Allocator!Spec

=============================================================================

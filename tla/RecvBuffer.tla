----------------------------- MODULE RecvBuffer -----------------------------
(***************************************************************************)
(* RecvBuffer (RecvBuffer.cpp, RecvBuffer.h): a linear buffer with a read  *)
(* and a write position.  Its operations are operators on a record; the    *)
(* module that owns the buffer applies them in its actions.                *)
(*                                                                         *)
(* A byte is its offset in the stream it was read from, so that what is in *)
(* the buffer says where it came from.                                     *)
(***************************************************************************)
EXTENDS Integers

CONSTANTS
  BufferSize,  \* the room Clean sees to (Session::BUFFER_SIZE, 0x10000)
  BufferCount  \* BUFFER_COUNT, 10

ASSUME RecvBufferAssumption ==
  /\ BufferSize \in Nat \ {0}
  /\ BufferCount \in Nat \ {0, 1, 2}

Capacity == BufferSize * BufferCount
Cells == 0 .. Capacity - 1

\* The content of a cell nothing meaningful was written to.
NoByte == -1

Buffers ==
  {b \in [readPos : 0 .. Capacity, writePos : 0 .. Capacity,
          cell : [Cells -> Int]] : b.readPos <= b.writePos}

EmptyBuffer == [readPos |-> 0, writePos |-> 0,
                cell |-> [i \in Cells |-> NoByte]]

DataSize(b) == b.writePos - b.readPos
FreeSize(b) == Capacity - b.writePos

\* The socket stores the n bytes from offset "from" on at WritePos().
Store(b, n, from) ==
  [b EXCEPT !.cell = [i \in Cells |->
     IF i \in b.writePos .. b.writePos + n - 1 THEN from + (i - b.writePos)
     ELSE b.cell[i]]]

\* Mutation: a write that fills the buffer is refused.
MayWrite_Strict(b, n) == n < FreeSize(b)

\* What OnWrite and OnRead test, and what they do when the test succeeds.
MayWrite(b, n) == n <= FreeSize(b)
OnWrite(b, n) == [b EXCEPT !.writePos = @ + n]

MayRead(b, n) == n <= DataSize(b)
OnRead(b, n) == [b EXCEPT !.readPos = @ + n]

\* memcpy of the unread bytes to the front, which is defined only when the two
\* ranges are disjoint; otherwise what was unread is not to be relied on.
CopyIsDefined(b) == DataSize(b) <= b.readPos

MoveToFront(b) ==
  [readPos |-> 0,
   writePos |-> DataSize(b),
   cell |-> [i \in Cells |->
               IF i >= DataSize(b) THEN b.cell[i]
               ELSE IF CopyIsDefined(b) THEN b.cell[b.readPos + i]
               ELSE NoByte]]

Rewind(b) == [readPos |-> 0, writePos |-> 0, cell |-> b.cell]

\* Mutation: whatever is unread is moved, however much room there is.
CopiesInClean_Always(b) == DataSize(b) # 0

\* Clean moves what is unread when less than BufferSize is free behind it.
CopiesInClean(b) == DataSize(b) # 0 /\ FreeSize(b) < BufferSize

\* Mutation: the positions are moved and the bytes are not.
Clean_NoCopy(b) ==
  IF DataSize(b) = 0 THEN Rewind(b)
  ELSE IF CopiesInClean(b)
       THEN [b EXCEPT !.readPos = 0, !.writePos = DataSize(b)]
       ELSE b

\* Clean rewinds an empty buffer and moves the rest of one that runs full.
Clean(b) ==
  IF DataSize(b) = 0 THEN Rewind(b)
  ELSE IF CopiesInClean(b) THEN MoveToFront(b)
  ELSE b

=============================================================================

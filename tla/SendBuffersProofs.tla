------------------------- MODULE SendBuffersProofs -------------------------
(***************************************************************************)
(* Proofs about SendBuffers, for any number of threads, chunks and         *)
(* buffers, any size of a chunk and any sizes asked for.                   *)
(***************************************************************************)
EXTENDS SendBuffers, TLAPS

(***************************************************************************)
(* Within one chunk buffers lie one behind the other: the closed ones      *)
(* below usedSize, the open one at usedSize.  A chunk that somebody refers *)
(* to is never handed out, so that nothing is cut from it but at its end.  *)
(***************************************************************************)

End(b) ==
  region[b].at +
    (IF state[b] = "open" THEN region[b].allocSize ELSE region[b].writeSize)

PlaceInv ==
  \A b \in Buffers :
    state[b] # "free" =>
      /\ region[b].owner \in Chunks
      /\ End(b) <= ChunkSize
      /\ state[b] = "closed" => End(b) <= usedSize[region[b].owner]

ApartInv ==
  \A a, b \in Buffers :
    /\ a # b
    /\ state[a] # "free" /\ state[b] # "free"
    /\ region[a].owner = region[b].owner
    => End(a) <= region[b].at \/ End(b) <= region[a].at

IInv == TypeOK /\ PlaceInv /\ ApartInv /\ OneWriterPerChunk /\ CloseFindsOpen

\* What both ways to open a buffer come to: a buffer at the end of a chunk in
\* which every other buffer is closed.
LEMMA BufferMade ==
  ASSUME IInv, NEW c \in Chunks, NEW b \in Buffers, NEW n \in Nat,
         NEW at \in 0 .. ChunkSize, at + n <= ChunkSize,
         state[b] = "free",
         state' = [state EXCEPT ![b] = "open"],
         region' = [region EXCEPT ![b] =
           [owner |-> c, at |-> at, allocSize |-> n, writeSize |-> 0]],
         open' = [open EXCEPT ![c] = TRUE],
         usedSize' = [usedSize EXCEPT ![c] = at],
         \A a \in Buffers : state[a] # "free" /\ region[a].owner = c =>
           state[a] = "closed" /\ End(a) <= at,
         chunkOf' \in [Threads -> Chunks \cup {NoChunk}],
         \A t, u \in Threads :
           t # u /\ chunkOf'[t] = chunkOf'[u] => chunkOf'[t] = NoChunk,
         \E t \in Threads : chunkOf'[t] = c,
         \A a \in Buffers : state[a] = "open" =>
           \E t \in Threads : chunkOf'[t] = region[a].owner,
         failed' = failed
  PROVE  IInv'
<1>. USE SendBuffersAssumption DEF TypeOK, Regions, End
<1>1. TypeOK'
  BY DEF IInv
<1>2. /\ state'[b] = "open"
      /\ region'[b] = [owner |-> c, at |-> at, allocSize |-> n, writeSize |-> 0]
      /\ usedSize'[c] = at /\ open'[c] = TRUE
  BY DEF IInv
<1>3. \A a \in Buffers : a # b => state'[a] = state[a] /\ region'[a] = region[a]
  BY DEF IInv
<1>4. \A d \in Chunks :
        d # c => usedSize'[d] = usedSize[d] /\ open'[d] = open[d]
  BY DEF IInv
<1>5. PlaceInv'
  <2>1. ASSUME NEW a \in Buffers, a # b, state'[a] # "free"
        PROVE  /\ region'[a].owner \in Chunks
               /\ End(a)' <= ChunkSize
               /\ state'[a] = "closed" => End(a)' <= usedSize'[region'[a].owner]
    BY <2>1, <1>2, <1>3, <1>4 DEF IInv, PlaceInv
  <2>. QED
    BY <2>1, <1>2 DEF PlaceInv
<1>6. ApartInv'
  <2>1. ASSUME NEW a \in Buffers, a # b, state'[a] # "free",
               region'[a].owner = c
        PROVE  End(a)' <= region'[b].at
    BY <2>1, <1>2, <1>3
  <2>2. ASSUME NEW a \in Buffers, NEW d \in Buffers, a # b, d # b, a # d,
               state'[a] # "free", state'[d] # "free",
               region'[a].owner = region'[d].owner
        PROVE  End(a)' <= region'[d].at \/ End(d)' <= region'[a].at
    BY <2>2, <1>3 DEF IInv, ApartInv
  <2>. QED
    BY <2>1, <2>2, <1>2 DEF ApartInv
<1>7. OneWriterPerChunk'
  BY <1>2, <1>3, <1>4 DEF IInv, OneWriterPerChunk, PlaceInv
<1>8. CloseFindsOpen'
  BY <1>2, <1>3, <1>4 DEF IInv, CloseFindsOpen, PlaceInv
<1>. QED
  BY <1>1, <1>5, <1>6, <1>7, <1>8 DEF IInv

\* A buffer is made only where nothing is in use: at the end of the thread's
\* own chunk, or at the start of a chunk nobody refers to.
LEMMA BufferInvariant == Spec => []IInv
<1>. USE SendBuffersAssumption
<1>1. Init => IInv
  <2>. SUFFICES ASSUME Init PROVE IInv
    OBVIOUS
  <2>1. open \in [Chunks -> BOOLEAN] /\ failed \in BOOLEAN
    BY Zenon DEF Init
  <2>2. /\ chunkOf \in [Threads -> Chunks \cup {NoChunk}]
        /\ usedSize \in [Chunks -> 0 .. ChunkSize]
        /\ state \in [Buffers -> {"free", "open", "closed"}]
        /\ region \in [Buffers -> Regions]
    BY DEF Init, Regions, NoRegion
  <2>3. \A b \in Buffers : state[b] = "free"
    BY DEF Init
  <2>4. \A t \in Threads : chunkOf[t] = NoChunk
    BY DEF Init
  <2>. QED
    BY <2>1, <2>2, <2>3, <2>4
       DEF IInv, TypeOK, PlaceInv, ApartInv, OneWriterPerChunk, CloseFindsOpen
<1>2. IInv /\ [Next]_vars => IInv'
  <2>. SUFFICES ASSUME IInv, [Next]_vars
                PROVE  IInv'
    OBVIOUS
  <2>. USE DEF IInv, TypeOK, PlaceInv, ApartInv, OneWriterPerChunk,
               CloseFindsOpen, End, Regions
  <2>0. ASSUME AssertionFails
        PROVE  IInv'
    BY <2>0 DEF AssertionFails
  <2>1. ASSUME NEW t \in Threads, OpenTwice(t)
        PROVE  IInv'
    BY <2>0, <2>1 DEF OpenTwice
  <2>2. ASSUME NEW t \in Threads, NEW n \in Sizes, OpenHere(t, n),
               ~AssertionFails
        PROVE  IInv'
    <3>. DEFINE c == chunkOf[t]
    <3>1. /\ c \in Chunks /\ ~open[c] /\ n \in Nat
          /\ usedSize[c] \in 0 .. ChunkSize /\ usedSize[c] + n <= ChunkSize
          /\ chunkOf' = chunkOf /\ usedSize' = usedSize /\ failed' = failed
          /\ open' = [open EXCEPT ![c] = TRUE]
      BY <2>2 DEF OpenHere, Usable, FreeSize
    <3>2. PICK b \in Buffers :
            /\ state[b] = "free"
            /\ state' = [state EXCEPT ![b] = "open"]
            /\ region' = [region EXCEPT ![b] =
                 [owner |-> c, at |-> usedSize[c], allocSize |-> n,
                  writeSize |-> 0]]
      BY <2>2 DEF OpenHere, MakeBuffer
    <3>3. \A a \in Buffers : state[a] # "free" /\ region[a].owner = c =>
            state[a] = "closed" /\ End(a) <= usedSize[c]
      BY <3>1
    <3>4. usedSize' = [usedSize EXCEPT ![c] = usedSize[c]]
      BY <3>1
    <3>5. /\ \A u, v \in Threads :
               u # v /\ chunkOf'[u] = chunkOf'[v] => chunkOf'[u] = NoChunk
          /\ \E u \in Threads : chunkOf'[u] = c
          /\ \A a \in Buffers : state[a] = "open" =>
               \E u \in Threads : chunkOf'[u] = region[a].owner
          /\ chunkOf' \in [Threads -> Chunks \cup {NoChunk}]
      BY <3>1
    <3>. HIDE DEF c, IInv
    <3>. QED
      BY <3>1, <3>2, <3>3, <3>4, <3>5, BufferMade
  <2>3. ASSUME NEW t \in Threads, NEW n \in Sizes, OpenFresh(t, n),
               ~AssertionFails
        PROVE  IInv'
    <3>1. PICK c \in Chunks :
            /\ ~InUse(c) /\ n <= ChunkSize
            /\ chunkOf' = [chunkOf EXCEPT ![t] = c]
            /\ open' = [open EXCEPT ![c] = TRUE]
            /\ usedSize' = [usedSize EXCEPT ![c] = 0]
            /\ MakeBuffer(c, 0, n)
            /\ failed' = failed
      BY <2>3 DEF OpenFresh
    <3>2. PICK b \in Buffers :
            /\ state[b] = "free"
            /\ state' = [state EXCEPT ![b] = "open"]
            /\ region' = [region EXCEPT ![b] =
                 [owner |-> c, at |-> 0, allocSize |-> n, writeSize |-> 0]]
      BY <3>1 DEF MakeBuffer
    <3>3. n \in Nat /\ 0 \in 0 .. ChunkSize /\ 0 + n <= ChunkSize
      BY <3>1
    <3>4. \A a \in Buffers : state[a] # "free" /\ region[a].owner = c =>
            state[a] = "closed" /\ End(a) <= 0
      BY <3>1 DEF InUse
    <3>5. \A u \in Threads : chunkOf[u] # c
      BY <3>1 DEF InUse
    \* The chunk the thread leaves has no open buffer.
    <3>6. \A a \in Buffers : state[a] = "open" => region[a].owner # chunkOf[t]
      BY <2>3 DEF OpenFresh, NeedsChunk
    <3>7. /\ chunkOf' \in [Threads -> Chunks \cup {NoChunk}]
          /\ chunkOf'[t] = c
          /\ \A u \in Threads : u # t => chunkOf'[u] = chunkOf[u]
      BY <3>1
    <3>8. /\ \A u, v \in Threads :
               u # v /\ chunkOf'[u] = chunkOf'[v] => chunkOf'[u] = NoChunk
          /\ \E u \in Threads : chunkOf'[u] = c
          /\ \A a \in Buffers : state[a] = "open" =>
               \E u \in Threads : chunkOf'[u] = region[a].owner
      BY <3>5, <3>6, <3>7
    <3>9. IInv
      BY Zenon
    <3>. HIDE DEF IInv, TypeOK, PlaceInv, ApartInv, OneWriterPerChunk,
                  CloseFindsOpen, End, Regions
    <3>. QED
      BY <3>1, <3>2, <3>3, <3>4, <3>7, <3>8, <3>9, BufferMade
  <2>4. ASSUME NEW b \in Buffers, NEW n \in Sizes, Close(b, n), ~AssertionFails
        PROVE  IInv'
    <3>. DEFINE c == region[b].owner
    <3>1. /\ state[b] = "open" /\ c \in Chunks /\ n \in Nat
          /\ n <= region[b].allocSize
          /\ state' = [state EXCEPT ![b] = "closed"]
          /\ region' = [region EXCEPT ![b].writeSize = n]
          /\ open' = [open EXCEPT ![c] = FALSE]
          /\ usedSize' = [usedSize EXCEPT ![c] = @ + n]
          /\ chunkOf' = chunkOf /\ failed' = failed
      BY <2>4 DEF Close, CloseChunk
    <3>2. /\ region[b].at = usedSize[c] /\ End(b) <= ChunkSize
          /\ region[b] \in Regions
      BY <3>1
    <3>3. usedSize[c] + n \in 0 .. ChunkSize
      BY <3>1, <3>2
    <3>4. /\ state'[b] = "closed" /\ region'[b] \in Regions
          /\ region'[b].owner = c /\ region'[b].at = region[b].at
          /\ region'[b].writeSize = n
          /\ usedSize'[c] = usedSize[c] + n /\ open'[c] = FALSE
      BY <3>1, <3>2, <3>3
    <3>5. /\ \A a \in Buffers :
               a # b => state'[a] = state[a] /\ region'[a] = region[a]
          /\ \A d \in Chunks :
               d # c => usedSize'[d] = usedSize[d] /\ open'[d] = open[d]
      BY <3>1
    <3>6. TypeOK'
      BY <3>1, <3>3, <3>4
    <3>7. PlaceInv'
      BY <3>1, <3>2, <3>3, <3>4, <3>5
    <3>8. ApartInv'
      BY <3>1, <3>2, <3>4, <3>5
    <3>9. OneWriterPerChunk' /\ CloseFindsOpen'
      BY <3>1, <3>4, <3>5
    <3>. QED
      BY <3>6, <3>7, <3>8, <3>9
  <2>5. ASSUME NEW b \in Buffers, Release(b)
        PROVE  IInv'
    BY <2>5 DEF Release, NoRegion
  <2>6. CASE UNCHANGED vars
    BY <2>6 DEF vars
  <2>. QED
    BY <2>0, <2>1, <2>2, <2>3, <2>4, <2>5, <2>6 DEF Next
<1>. QED
  BY <1>1, <1>2, PTL DEF Spec

\* Every variable keeps its type; in particular no chunk is ever used beyond
\* its end.
THEOREM TypeCorrect == Spec => []TypeOK
<1>1. IInv => TypeOK
  BY DEF IInv
<1>. QED
  BY <1>1, BufferInvariant, PTL

\* Buffers that lie one behind the other share no byte.
LEMMA ApartShareNothing == IInv => NoSharedBytes
<1>. SUFFICES ASSUME IInv, NEW a \in Buffers, NEW b \in Buffers, a # b,
                     state[a] # "free", state[b] # "free",
                     region[a].owner = region[b].owner
              PROVE  Bytes(a) \cap Bytes(b) = {}
  BY DEF NoSharedBytes
<1>1. region[a] \in Regions /\ region[b] \in Regions
  BY DEF IInv, TypeOK
<1>2. End(a) <= region[b].at \/ End(b) <= region[a].at
  BY DEF IInv, ApartInv
<1>. QED
  BY <1>1, <1>2, SendBuffersAssumption DEF Regions, End, Bytes

\* No two buffers in use share a byte.
THEOREM BuffersAreDisjoint == Spec => []NoSharedBytes
BY ApartShareNothing, BufferInvariant, PTL

\* A chunk has one thread and one buffer that is not closed.
THEOREM ChunkHasOneWriter == Spec => []OneWriterPerChunk
<1>1. IInv => OneWriterPerChunk
  BY DEF IInv
<1>. QED
  BY <1>1, BufferInvariant, PTL

\* Close never meets a chunk that is not open.
THEOREM CloseMeetsOpenChunk == Spec => []CloseFindsOpen
<1>1. IInv => CloseFindsOpen
  BY DEF IInv
<1>. QED
  BY <1>1, BufferInvariant, PTL

(***************************************************************************)
(* The allocator.                                                          *)
(***************************************************************************)

\* A step that leaves every other buffer alone, as the allocator sees it.
LEMMA OneBufferTouched ==
  ASSUME IInv, NEW b \in Buffers, NEW what,
         state' = [state EXCEPT ![b] = what],
         NEW r, region' = [region EXCEPT ![b] = r]
  PROVE  /\ Allocator!Becomes(b, what)
         /\ [a \in Buffers |-> Holds(a)]'[b] = Holds(b)'
<1>1. \A a \in Buffers :
        a # b => state'[a] = state[a] /\ region'[a] = region[a]
  BY DEF IInv, TypeOK
<1>2. \A a \in Buffers : a # b => Holds(a)' = Holds(a)
  BY <1>1 DEF Holds, Bytes
<1>. DEFINE now == [a \in Buffers |-> Holds(a)]
            then == [a \in Buffers |-> Holds(a)']
<1>3. then = [now EXCEPT ![b] = then[b]]
  BY <1>2
<1>. QED
  BY <1>3 DEF Allocator!Becomes

LEMMA OpenTakesFree ==
  ASSUME IInv, IInv', NoSharedBytes',
         NEW c \in Chunks, NEW at, NEW n, MakeBuffer(c, at, n)
  PROVE  Allocator!Next
<1>1. PICK b \in Buffers :
        /\ state[b] = "free"
        /\ state' = [state EXCEPT ![b] = "open"]
        /\ region' = [region EXCEPT ![b] =
             [owner |-> c, at |-> at, allocSize |-> n, writeSize |-> 0]]
  BY DEF MakeBuffer
<1>2. /\ state'[b] = "open" /\ region'[b].owner = c
      /\ \A a \in Buffers :
           a # b => state'[a] = state[a] /\ region'[a] = region[a]
  BY <1>1 DEF IInv, TypeOK
<1>3. Bytes(b)' \subseteq 0 .. ChunkSize - 1
  BY <1>2, SendBuffersAssumption
     DEF IInv, TypeOK, Regions, PlaceInv, End, Bytes
<1>4. Holds(b)' \subseteq Chunks \X (0 .. ChunkSize - 1)
  BY <1>2, <1>3 DEF Holds
<1>5. ASSUME NEW a \in Buffers
      PROVE  Holds(b)' \cap Holds(a) = {}
  <2>1. CASE state[a] = "free"
    BY <2>1 DEF Holds
  <2>2. CASE state[a] # "free" /\ region[a].owner # c
    BY <1>2, <2>2 DEF Holds
  <2>3. CASE state[a] # "free" /\ region[a].owner = c
    <3>1. a # b
      BY <1>1, <2>3
    <3>2. Bytes(a)' \cap Bytes(b)' = {}
      BY <1>2, <2>3, <3>1 DEF NoSharedBytes
    <3>3. Bytes(a)' = Bytes(a)
      BY <1>2, <3>1 DEF Bytes
    <3>. QED
      BY <1>2, <2>3, <3>2, <3>3 DEF Holds
  <2>. QED
    BY <2>1, <2>2, <2>3
<1>6. Holds(b)' \subseteq
        (Chunks \X (0 .. ChunkSize - 1))
          \ UNION {[d \in Buffers |-> Holds(d)][a] : a \in Buffers}
  BY <1>4, <1>5
<1>7. Allocator!Becomes(b, "open") /\ [d \in Buffers |-> Holds(d)]'[b] = Holds(b)'
  BY <1>1, OneBufferTouched
<1>8. Allocator!Open(b)
  BY <1>1, <1>6, <1>7, Zenon DEF Allocator!Open
<1>. QED
  BY <1>8 DEF Allocator!Next

LEMMA CloseKeepsPart ==
  ASSUME IInv, NEW b \in Buffers, NEW n \in Sizes, Close(b, n), ~AssertionFails
  PROVE  Allocator!Next
<1>1. /\ state[b] = "open" /\ n <= region[b].allocSize
      /\ state' = [state EXCEPT ![b] = "closed"]
      /\ region' = [region EXCEPT ![b].writeSize = n]
  BY SendBuffersAssumption DEF Close, IInv, TypeOK, Regions
<1>2. PICK r : r = [region[b] EXCEPT !.writeSize = n]
  OBVIOUS
<1>3. region' = [region EXCEPT ![b] = r] /\ region'[b] = r
  BY <1>1, <1>2 DEF IInv, TypeOK
<1>4. /\ state'[b] = "closed"
      /\ region'[b].owner = region[b].owner /\ region'[b].at = region[b].at
      /\ region'[b].writeSize = n
  BY <1>1, <1>2, <1>3 DEF IInv, TypeOK, Regions
<1>5. Bytes(b)' \subseteq Bytes(b)
  BY <1>1, <1>4, SendBuffersAssumption DEF IInv, TypeOK, Regions, Bytes
<1>6. Holds(b)' \subseteq Holds(b)
  BY <1>1, <1>4, <1>5 DEF Holds
<1>. QED
  BY <1>1, <1>3, <1>6, OneBufferTouched DEF Allocator!Next, Allocator!Close

\* The send buffers implement the allocator of BufferAllocator, for any number
\* of threads, chunks and buffers.
THEOREM SendBuffersImplementAllocator == Spec => ImplementsAllocator
<1>1. Init => Allocator!Init
  <2>. SUFFICES ASSUME Init PROVE Allocator!Init
    OBVIOUS
  <2>1. \A b \in Buffers : Holds(b) = {}
    BY DEF Init, Holds
  <2>. QED
    BY <2>1 DEF Init, Allocator!Init
<1>2. IInv /\ IInv' /\ NoSharedBytes' /\ [Next]_vars
      => [Allocator!Next]_(Allocator!vars)
  <2>. SUFFICES ASSUME IInv, IInv', NoSharedBytes', [Next]_vars
                PROVE  Allocator!Next \/ UNCHANGED Allocator!vars
    OBVIOUS
  <2>1. CASE UNCHANGED <<state, region>>
    BY <2>1 DEF Allocator!vars, Holds, Bytes
  <2>2. CASE AssertionFails
    BY <2>1, <2>2 DEF AssertionFails
  <2>3. ASSUME NEW t \in Threads, NEW n \in Sizes, OpenHere(t, n),
               ~AssertionFails
        PROVE  Allocator!Next
    <3>1. chunkOf[t] \in Chunks
          /\ MakeBuffer(chunkOf[t], usedSize[chunkOf[t]], n)
      BY <2>3 DEF OpenHere, Usable, IInv, TypeOK
    <3>. QED
      BY <3>1, OpenTakesFree
  <2>4. ASSUME NEW t \in Threads, NEW n \in Sizes, OpenFresh(t, n),
               ~AssertionFails
        PROVE  Allocator!Next
    <3>1. \E c \in Chunks : MakeBuffer(c, 0, n)
      BY <2>4 DEF OpenFresh
    <3>. QED
      BY <3>1, OpenTakesFree
  <2>5. ASSUME NEW b \in Buffers, NEW n \in Sizes, Close(b, n), ~AssertionFails
        PROVE  Allocator!Next
    BY <2>5, CloseKeepsPart
  <2>6. ASSUME NEW b \in Buffers, Release(b)
        PROVE  Allocator!Next
    <3>1. /\ state[b] # "free" /\ state' = [state EXCEPT ![b] = "free"]
          /\ region' = [region EXCEPT ![b] = NoRegion] /\ state'[b] = "free"
      BY <2>6 DEF Release, IInv, TypeOK
    <3>2. Holds(b)' = {}
      BY <3>1 DEF Holds
    <3>. QED
      BY <3>1, <3>2, OneBufferTouched DEF Allocator!Next, Allocator!Release
  <2>. QED
    BY <2>1, <2>2, <2>3, <2>4, <2>5, <2>6 DEF Next, OpenTwice, vars
<1>. QED
  BY <1>1, <1>2, BufferInvariant, BuffersAreDisjoint, PTL
     DEF Spec, ImplementsAllocator, Allocator!Spec

=============================================================================

--------------------------- MODULE RecvPathProofs ---------------------------
(***************************************************************************)
(* Proofs about RecvPath and its RecvBuffer, for every size of the buffer, *)
(* of a header and of a packet within the assumptions, and for every       *)
(* stream.                                                                 *)
(***************************************************************************)
EXTENDS RecvPath, SequenceTheorems, TLAPS

(***************************************************************************)
(* The buffer.                                                             *)
(***************************************************************************)

LEMMA CapacityFact ==
  /\ BufferSize \in Nat /\ BufferSize >= 1
  /\ Capacity \in Nat /\ Capacity >= BufferSize + BufferSize + BufferSize
<1>1. /\ BufferSize \in Nat /\ BufferCount \in Nat
      /\ BufferSize >= 1 /\ BufferCount >= 3
  BY RecvBufferAssumption
<1>2. BufferSize * BufferCount \in Nat
  BY <1>1
<1>3. PICK k \in Nat : BufferCount = 3 + k
  <2>1. BufferCount - 3 \in Nat /\ BufferCount = 3 + (BufferCount - 3)
    BY <1>1
  <2>. QED
    BY <2>1
<1>4. BufferSize * BufferCount = 3 * BufferSize + BufferSize * k
  BY <1>1, <1>3
<1>5. BufferSize * k >= 0
  BY <1>1, <1>3
<1>. QED
  BY <1>1, <1>2, <1>4, <1>5 DEF Capacity

LEMMA PacketFact ==
  /\ HeaderSize \in Nat /\ HeaderSize >= 1
  /\ MaxPacket \in Nat /\ HeaderSize <= MaxPacket /\ MaxPacket <= BufferSize
BY RecvPathAssumption

\* What is unread is the last part of what was received.
Window(b, n) ==
  /\ DataSize(b) <= n
  /\ \A k \in 0 .. DataSize(b) - 1 :
       b.cell[b.readPos + k] = n - DataSize(b) + k

LEMMA EmptyBufferFacts ==
  EmptyBuffer \in Buffers /\ DataSize(EmptyBuffer) = 0 /\ Window(EmptyBuffer, 0)
<1>1. Capacity \in Nat
  BY CapacityFact
<1>2. [i \in Cells |-> NoByte] \in [Cells -> Int]
  BY DEF NoByte
<1>. QED
  BY <1>1, <1>2 DEF EmptyBuffer, Buffers, DataSize, Window

\* A completed read extends the window.
LEMMA WriteExtends ==
  ASSUME NEW b \in Buffers, NEW n \in Nat, NEW from \in Nat,
         MayWrite(b, n), Window(b, from)
  PROVE  LET c == OnWrite(Store(b, n, from), n)
         IN  /\ c \in Buffers /\ Window(c, from + n)
             /\ DataSize(c) = DataSize(b) + n
             /\ FreeSize(c) = FreeSize(b) - n
<1>. DEFINE c == OnWrite(Store(b, n, from), n)
<1>0. Capacity \in Nat
  BY CapacityFact
<1>1. /\ b.readPos \in 0 .. Capacity /\ b.writePos \in 0 .. Capacity
      /\ b.readPos <= b.writePos /\ b.cell \in [Cells -> Int]
  BY DEF Buffers
<1>2. /\ c.readPos = b.readPos /\ c.writePos = b.writePos + n
      /\ c.cell = [i \in Cells |->
                     IF i \in b.writePos .. b.writePos + n - 1
                     THEN from + (i - b.writePos) ELSE b.cell[i]]
      /\ c = [readPos |-> c.readPos, writePos |-> c.writePos, cell |-> c.cell]
  <2>. DEFINE F == [i \in Cells |->
                      IF i \in b.writePos .. b.writePos + n - 1
                      THEN from + (i - b.writePos) ELSE b.cell[i]]
  <2>1. Store(b, n, from) = [b EXCEPT !.cell = F]
    BY Zenon DEF Store
  <2>2. b = [readPos |-> b.readPos, writePos |-> b.writePos, cell |-> b.cell]
    BY DEF Buffers
  <2>. HIDE DEF F
  <2>3. Store(b, n, from) =
          [readPos |-> b.readPos, writePos |-> b.writePos, cell |-> F]
    BY <2>1, <2>2
  <2>4. c = [readPos |-> b.readPos, writePos |-> b.writePos + n, cell |-> F]
    BY <2>3 DEF OnWrite
  <2>. QED
    BY <2>4 DEF F
<1>. HIDE DEF c
<1>3. b.writePos + n <= Capacity
  BY <1>0, <1>1 DEF MayWrite, FreeSize
<1>4. c \in Buffers
  <2>1. c.cell \in [Cells -> Int]
    <3>1. \A i \in Cells : i \in Int
      BY <1>0 DEF Cells
    <3>. QED
      BY <1>0, <1>1, <1>2, <3>1
  <2>2. /\ c.readPos \in 0 .. Capacity /\ c.writePos \in 0 .. Capacity
        /\ c.readPos <= c.writePos
    BY <1>0, <1>1, <1>2, <1>3
  <2>3. c \in [readPos : 0 .. Capacity, writePos : 0 .. Capacity,
               cell : [Cells -> Int]]
    BY <1>2, <2>1, <2>2
  <2>. QED
    BY <2>2, <2>3 DEF Buffers
<1>5. /\ DataSize(c) = DataSize(b) + n
      /\ FreeSize(c) = FreeSize(b) - n
      /\ DataSize(b) \in Nat
  BY <1>0, <1>1, <1>2 DEF DataSize, FreeSize
<1>6. Window(c, from + n)
  <2>1. ASSUME NEW k \in 0 .. DataSize(c) - 1
        PROVE  c.cell[c.readPos + k] = (from + n) - DataSize(c) + k
    <3>1. k \in Nat /\ c.readPos + k \in Cells
      BY <1>0, <1>1, <1>2, <1>3, <1>5 DEF Cells, DataSize
    <3>2. CASE k < DataSize(b)
      <4>1. ~(c.readPos + k \in b.writePos .. b.writePos + n - 1)
        BY <1>1, <1>2, <3>1, <3>2 DEF DataSize
      <4>2. c.cell[c.readPos + k] = b.cell[b.readPos + k]
        BY <1>2, <3>1, <4>1
      <4>3. b.cell[b.readPos + k] = from - DataSize(b) + k
        BY <1>5, <3>1, <3>2 DEF Window
      <4>. QED
        BY <1>5, <3>1, <4>2, <4>3
    <3>3. CASE ~(k < DataSize(b))
      <4>1. c.readPos + k \in b.writePos .. b.writePos + n - 1
        BY <1>1, <1>2, <1>5, <3>1, <3>3 DEF DataSize
      <4>2. c.cell[c.readPos + k] = from + ((c.readPos + k) - b.writePos)
        BY <1>2, <3>1, <4>1
      <4>. QED
        BY <1>1, <1>2, <1>5, <3>1, <4>2 DEF DataSize
    <3>. QED
      BY <3>2, <3>3
  <2>2. DataSize(c) <= from + n
    BY <1>5 DEF Window
  <2>. QED
    BY <2>1, <2>2 DEF Window
<1>. QED
  BY <1>4, <1>5, <1>6 DEF c

\* Reading takes the first part of the window away.
LEMMA ReadShrinks ==
  ASSUME NEW b \in Buffers, NEW n \in Nat, NEW r \in Nat,
         MayRead(b, n), Window(b, r)
  PROVE  LET c == OnRead(b, n)
         IN  /\ c \in Buffers /\ Window(c, r)
             /\ DataSize(c) = DataSize(b) - n
             /\ FreeSize(c) = FreeSize(b)
<1>. DEFINE c == OnRead(b, n)
<1>0. Capacity \in Nat
  BY CapacityFact
<1>1. /\ b.readPos \in 0 .. Capacity /\ b.writePos \in 0 .. Capacity
      /\ b.readPos <= b.writePos /\ b.cell \in [Cells -> Int]
  BY DEF Buffers
<1>2. /\ c.readPos = b.readPos + n /\ c.writePos = b.writePos
      /\ c.cell = b.cell
      /\ c = [readPos |-> c.readPos, writePos |-> c.writePos, cell |-> c.cell]
  BY DEF OnRead, Buffers
<1>. HIDE DEF c
<1>3. b.readPos + n <= b.writePos
  BY <1>0, <1>1 DEF MayRead, DataSize
<1>4. c \in Buffers
  <2>1. /\ c.readPos \in 0 .. Capacity /\ c.writePos \in 0 .. Capacity
        /\ c.readPos <= c.writePos
    BY <1>0, <1>1, <1>2, <1>3
  <2>2. c \in [readPos : 0 .. Capacity, writePos : 0 .. Capacity,
               cell : [Cells -> Int]]
    BY <1>1, <1>2, <2>1
  <2>. QED
    BY <2>1, <2>2 DEF Buffers
<1>5. /\ DataSize(c) = DataSize(b) - n /\ DataSize(c) \in Nat
      /\ DataSize(b) \in Nat
      /\ FreeSize(c) = FreeSize(b)
  BY <1>0, <1>1, <1>2, <1>3 DEF DataSize, FreeSize
<1>6. Window(c, r)
  <2>1. ASSUME NEW k \in 0 .. DataSize(c) - 1
        PROVE  c.cell[c.readPos + k] = r - DataSize(c) + k
    <3>1. k + n \in 0 .. DataSize(b) - 1
      BY <1>5
    <3>2. b.cell[b.readPos + (k + n)] = r - DataSize(b) + (k + n)
      BY <3>1 DEF Window
    <3>3. c.readPos + k = b.readPos + (k + n)
      BY <1>1, <1>2, <1>5
    <3>. QED
      BY <1>2, <1>5, <3>2, <3>3
  <2>. QED
    BY <1>5, <2>1 DEF Window
<1>. QED
  BY <1>4, <1>5, <1>6 DEF c

\* Clean keeps the window and, when less than BufferSize is unread, leaves at
\* least BufferSize free and never copies between overlapping ranges.
LEMMA CleanKeepsWindow ==
  ASSUME NEW b \in Buffers, NEW r \in Nat, Window(b, r),
         DataSize(b) < BufferSize
  PROVE  /\ Clean(b) \in Buffers /\ Window(Clean(b), r)
         /\ DataSize(Clean(b)) = DataSize(b)
         /\ FreeSize(Clean(b)) >= BufferSize
         /\ CopiesInClean(b) => CopyIsDefined(b)
<1>0. /\ Capacity \in Nat /\ BufferSize \in Nat /\ BufferSize >= 1
      /\ Capacity >= BufferSize + BufferSize + BufferSize
  BY CapacityFact
<1>1. /\ b.readPos \in 0 .. Capacity /\ b.writePos \in 0 .. Capacity
      /\ b.readPos <= b.writePos /\ b.cell \in [Cells -> Int]
      /\ DataSize(b) = b.writePos - b.readPos /\ DataSize(b) \in Nat
      /\ FreeSize(b) = Capacity - b.writePos
  BY <1>0 DEF Buffers, DataSize, FreeSize
<1>2. CopiesInClean(b) => CopyIsDefined(b)
  BY <1>0, <1>1 DEF CopiesInClean, CopyIsDefined
<1>3. CASE DataSize(b) = 0
  <2>. DEFINE c == Rewind(b)
  <2>1. Clean(b) = c
    BY <1>3 DEF Clean
  <2>2. /\ c.readPos = 0 /\ c.writePos = 0 /\ c.cell = b.cell
        /\ c \in [readPos : 0 .. Capacity, writePos : 0 .. Capacity,
                  cell : [Cells -> Int]]
    <3>1. 0 \in 0 .. Capacity
      BY <1>0
    <3>. QED
      BY <1>1, <3>1 DEF Rewind
  <2>. HIDE DEF c
  <2>3. c \in Buffers
    BY <2>2 DEF Buffers
  <2>4. DataSize(c) = 0 /\ FreeSize(c) = Capacity
    BY <1>0, <2>2 DEF DataSize, FreeSize
  <2>5. Window(c, r)
    BY <2>4 DEF Window
  <2>. QED
    BY <1>0, <1>2, <1>3, <2>1, <2>3, <2>4, <2>5
<1>4. CASE DataSize(b) # 0 /\ CopiesInClean(b)
  <2>. DEFINE c == MoveToFront(b)
  <2>1. Clean(b) = c
    BY <1>4 DEF Clean
  <2>2. CopyIsDefined(b)
    BY <1>2, <1>4
  <2>3. /\ c.readPos = 0 /\ c.writePos = DataSize(b)
        /\ c.cell = [i \in Cells |-> IF i >= DataSize(b) THEN b.cell[i]
                                     ELSE b.cell[b.readPos + i]]
        /\ c = [readPos |-> c.readPos, writePos |-> c.writePos,
                cell |-> c.cell]
    BY <2>2 DEF MoveToFront
  <2>. HIDE DEF c
  <2>4. ASSUME NEW i \in Cells, i < DataSize(b)
        PROVE  b.readPos + i \in Cells
    <3>1. i \in Nat /\ b.readPos \in Nat /\ b.writePos \in Nat
      BY <1>0, <1>1 DEF Cells
    <3>2. b.readPos + i < b.writePos
      BY <1>1, <2>4, <3>1
    <3>3. Capacity \in Nat /\ b.writePos <= Capacity
      BY <1>0, <1>1
    <3>. HIDE DEF Capacity
    <3>. QED
      BY <3>1, <3>2, <3>3 DEF Cells
  <2>5. c.cell \in [Cells -> Int]
    <3>1. ASSUME NEW i \in Cells
          PROVE  (IF i >= DataSize(b) THEN b.cell[i]
                  ELSE b.cell[b.readPos + i]) \in Int
      <4>1. i \in Int
        BY <1>0 DEF Cells
      <4>. QED
        BY <1>1, <2>4, <4>1
    <3>. QED
      BY <2>3, <3>1
  <2>6. c \in Buffers
    <3>1. c.writePos \in 0 .. Capacity /\ c.readPos \in 0 .. Capacity
          /\ c.readPos <= c.writePos
      BY <1>0, <1>1, <2>3
    <3>2. c \in [readPos : 0 .. Capacity, writePos : 0 .. Capacity,
                 cell : [Cells -> Int]]
      BY <2>3, <2>5, <3>1
    <3>. QED
      BY <3>1, <3>2 DEF Buffers
  <2>7. /\ DataSize(c) = DataSize(b)
        /\ FreeSize(c) = Capacity - DataSize(b)
    BY <1>0, <1>1, <2>3 DEF DataSize, FreeSize
  <2>8. Window(c, r)
    <3>1. ASSUME NEW k \in 0 .. DataSize(c) - 1
          PROVE  c.cell[c.readPos + k] = r - DataSize(c) + k
      <4>1. k \in Cells /\ k < DataSize(b) /\ c.readPos + k = k
        BY <1>0, <1>1, <2>3, <2>7 DEF Cells
      <4>2. c.cell[k] = b.cell[b.readPos + k]
        BY <1>1, <2>3, <4>1
      <4>3. b.cell[b.readPos + k] = r - DataSize(b) + k
        BY <2>7 DEF Window
      <4>. QED
        BY <2>7, <4>1, <4>2, <4>3
    <3>. QED
      BY <2>7, <3>1 DEF Window
  <2>. QED
    BY <1>0, <1>1, <1>2, <2>1, <2>6, <2>7, <2>8
<1>5. CASE DataSize(b) # 0 /\ ~CopiesInClean(b)
  <2>1. Clean(b) = b
    BY <1>5 DEF Clean
  <2>2. FreeSize(b) >= BufferSize
    BY <1>0, <1>1, <1>5 DEF CopiesInClean
  <2>. QED
    BY <1>2, <2>1, <2>2
<1>. QED
  BY <1>3, <1>4, <1>5

(***************************************************************************)
(* The stream.                                                             *)
(***************************************************************************)

StartAfter(s, i) == IF i = 0 THEN 0 ELSE s[i].start + s[i].size

\* The peer's packets follow one another without gap or overlap.
StreamInv ==
  /\ \A i \in 1 .. Len(sent) :
       /\ sent[i].start \in Nat
       /\ sent[i].size \in HeaderSize .. MaxPacket
       /\ sent[i].start = StartAfter(sent, i - 1)
       /\ sent[i].start + sent[i].size <= EndOf(sent)
  /\ \A i, j \in 1 .. Len(sent) :
       i < j => sent[i].start + sent[i].size <= sent[j].start

\* What has been handed over, what is unread and what was received agree.
CutInv ==
  /\ DeliversWhatWasSent
  /\ Window(buf, received)
  /\ received <= EndOf(sent)
  /\ processLen <= DataSize(buf)
  /\ pc # "parsing" => processLen = 0
  /\ EndOf(given) = received - DataSize(buf) + processLen

\* The session goes back to reading with room for more and without a whole
\* packet.
RestInv ==
  pc \in {"start", "register", "reading"} =>
    /\ FreeSize(buf) >= BufferSize
    /\ Len(given) < Len(sent) =>
         received < sent[Len(given) + 1].start + sent[Len(given) + 1].size

IInv == TypeOK /\ StreamInv /\ CutInv /\ RestInv /\ ReceptionGoesOn

LEMMA EndOfIsStart ==
  ASSUME NEW s \in Seq(Packets)
  PROVE  EndOf(s) = StartAfter(s, Len(s))
BY EmptySeq, LenProperties DEF EndOf, StartAfter

LEMMA EndOfInt ==
  ASSUME NEW s \in Seq(Packets)
  PROVE  EndOf(s) \in Int
<1>1. CASE s = << >>
  BY <1>1 DEF EndOf
<1>2. CASE s # << >>
  <2>1. Len(s) \in 1 .. Len(s)
    BY <1>2, LenProperties, EmptySeq
  <2>2. s[Len(s)] \in Packets
    BY <2>1, ElementOfSeq
  <2>. QED
    BY <1>2, <2>2 DEF EndOf, Packets
<1>. QED
  BY <1>1, <1>2

\* What was handed over ends where the next packet of the stream starts.
LEMMA GivenEndsAtNext ==
  ASSUME TypeOK, StreamInv, DeliversWhatWasSent
  PROVE  /\ EndOf(given) = StartAfter(sent, Len(given))
         /\ Len(given) \in Nat /\ Len(sent) \in Nat
         /\ Len(given) < Len(sent) =>
              /\ Len(given) + 1 \in 1 .. Len(sent)
              /\ sent[Len(given) + 1].start = EndOf(given)
         /\ Len(given) = Len(sent) => EndOf(given) = EndOf(sent)
<1>1. Len(given) \in Nat /\ Len(sent) \in Nat
  BY LenProperties DEF TypeOK
<1>2. EndOf(given) = StartAfter(sent, Len(given))
  <2>1. EndOf(given) = StartAfter(given, Len(given))
    BY EndOfIsStart DEF TypeOK
  <2>2. Len(given) # 0 => given[Len(given)] = sent[Len(given)]
    BY <1>1 DEF DeliversWhatWasSent
  <2>. QED
    BY <2>1, <2>2 DEF StartAfter
<1>3. ASSUME Len(given) < Len(sent)
      PROVE  /\ Len(given) + 1 \in 1 .. Len(sent)
             /\ sent[Len(given) + 1].start = EndOf(given)
  <2>1. Len(given) + 1 \in 1 .. Len(sent) /\ (Len(given) + 1) - 1 = Len(given)
    BY <1>1, <1>3
  <2>2. sent[Len(given) + 1].start = StartAfter(sent, (Len(given) + 1) - 1)
    BY <2>1 DEF StreamInv
  <2>. QED
    BY <1>2, <2>1, <2>2
<1>4. Len(given) = Len(sent) => EndOf(given) = EndOf(sent)
  <2>1. EndOf(sent) = StartAfter(sent, Len(sent))
    BY EndOfIsStart DEF TypeOK
  <2>. QED
    BY <1>2, <2>1
<1>. QED
  BY <1>1, <1>2, <1>3, <1>4

LEMMA SentTypes ==
  ASSUME StreamInv, NEW i \in 1 .. Len(sent)
  PROVE  /\ sent[i].start \in Nat /\ sent[i].size \in Nat
         /\ sent[i].size >= 1
         /\ sent[i].size >= HeaderSize /\ sent[i].size <= MaxPacket
<1>1. sent[i].start \in Nat /\ sent[i].size \in HeaderSize .. MaxPacket
  BY DEF StreamInv
<1>. QED
  BY <1>1, PacketFact

\* The peer's next packet keeps the stream well formed.
LEMMA StreamGrows ==
  ASSUME TypeOK, StreamInv, PeerSend
  PROVE  /\ StreamInv' /\ sent' \in Seq(Packets)
         /\ Len(sent') = Len(sent) + 1 /\ Len(sent) \in Nat
         /\ \A i \in 1 .. Len(sent) : sent'[i] = sent[i]
         /\ sent'[Len(sent) + 1].start = EndOf(sent)
         /\ sent'[Len(sent) + 1].size >= 1
         /\ EndOf(sent) \in Nat /\ EndOf(sent) <= EndOf(sent')
<1>1. PICK n \in HeaderSize .. MaxPacket :
        sent' = Append(sent, [start |-> EndOf(sent), size |-> n])
  BY DEF PeerSend
<1>. DEFINE p == [start |-> EndOf(sent), size |-> n]
<1>2. /\ HeaderSize \in Nat /\ HeaderSize >= 1 /\ MaxPacket \in Nat
      /\ n \in Nat /\ n >= 1
  BY PacketFact
<1>3. Len(sent) \in Nat /\ sent \in Seq(Packets)
  BY LenProperties DEF TypeOK
<1>4. EndOf(sent) \in Nat
  <2>1. CASE sent = << >>
    BY <2>1 DEF EndOf
  <2>2. CASE sent # << >>
    <3>1. Len(sent) \in 1 .. Len(sent)
      BY <1>3, <2>2, EmptySeq
    <3>2. /\ sent[Len(sent)].start \in Nat
          /\ sent[Len(sent)].size \in HeaderSize .. MaxPacket
      BY <3>1 DEF StreamInv
    <3>. QED
      BY <1>2, <2>2, <3>2 DEF EndOf
  <2>. QED
    BY <2>1, <2>2
<1>5. p \in Packets
  BY <1>2, <1>4 DEF Packets
<1>. DEFINE s == sent'
<1>6. /\ s \in Seq(Packets) /\ Len(s) = Len(sent) + 1
      /\ \A i \in 1 .. Len(sent) : s[i] = sent[i]
      /\ s[Len(sent) + 1] = p
  BY <1>1, <1>3, <1>5, AppendProperties
<1>7. /\ p.start = EndOf(sent) /\ p.size = n
  OBVIOUS
<1>. HIDE DEF p, s
<1>8. EndOf(s) = EndOf(sent) + n
  <2>1. EndOf(s) = StartAfter(s, Len(s))
    BY <1>6, EndOfIsStart
  <2>. QED
    BY <1>3, <1>6, <1>7, <2>1 DEF StartAfter
<1>9. ASSUME NEW i \in 1 .. Len(s)
      PROVE  /\ s[i].start \in Nat
             /\ s[i].size \in HeaderSize .. MaxPacket
             /\ s[i].start = StartAfter(s, i - 1)
             /\ s[i].start + s[i].size <= EndOf(s)
  <2>1. CASE i \in 1 .. Len(sent)
    <3>1. /\ sent[i].start \in Nat
          /\ sent[i].size \in HeaderSize .. MaxPacket
          /\ sent[i].start = StartAfter(sent, i - 1)
          /\ sent[i].start + sent[i].size <= EndOf(sent)
      BY <2>1 DEF StreamInv
    <3>2. StartAfter(s, i - 1) = StartAfter(sent, i - 1)
      <4>1. i - 1 = 0 \/ i - 1 \in 1 .. Len(sent)
        BY <1>3, <2>1
      <4>. QED
        BY <1>6, <4>1 DEF StartAfter
    <3>3. sent[i].size \in Nat
      BY <1>2, <3>1
    <3>4. s[i] = sent[i]
      BY <1>6, <2>1
    <3>. QED
      BY <1>2, <1>4, <1>8, <3>1, <3>2, <3>3, <3>4
  <2>2. CASE i = Len(sent) + 1
    <3>1. StartAfter(s, i - 1) = StartAfter(sent, Len(sent))
      <4>1. i - 1 = Len(sent)
        BY <1>3, <2>2
      <4>2. Len(sent) = 0 \/ Len(sent) \in 1 .. Len(sent)
        BY <1>3
      <4>. QED
        BY <1>6, <4>1, <4>2 DEF StartAfter
    <3>2. s[i].start = StartAfter(s, i - 1)
      BY <1>3, <1>6, <1>7, <2>2, <3>1, EndOfIsStart
    <3>. QED
      BY <1>2, <1>4, <1>6, <1>7, <1>8, <2>2, <3>2
  <2>. QED
    BY <1>3, <1>6, <2>1, <2>2
<1>10. ASSUME NEW i \in 1 .. Len(s), NEW j \in 1 .. Len(s), i < j
       PROVE  s[i].start + s[i].size <= s[j].start
  <2>1. i \in 1 .. Len(sent) /\ s[i] = sent[i]
    BY <1>3, <1>6, <1>10
  <2>2. CASE j \in 1 .. Len(sent)
    BY <1>6, <1>10, <2>1, <2>2 DEF StreamInv
  <2>3. CASE j = Len(sent) + 1
    BY <1>6, <1>7, <2>1, <2>3 DEF StreamInv
  <2>. QED
    BY <1>3, <1>6, <2>2, <2>3
<1>. QED
  BY <1>2, <1>3, <1>4, <1>6, <1>7, <1>8, <1>9, <1>10 DEF StreamInv, s

(***************************************************************************)
(* The loop of OnRecv.                                                     *)
(***************************************************************************)

LEMMA LoopFacts ==
  ASSUME TypeOK, CutInv
  PROVE  /\ DataSize(buf) \in Nat /\ FreeSize(buf) \in Nat
         /\ Remaining \in Nat /\ received \in Nat /\ processLen \in Nat
         /\ EndOf(given) \in Int /\ EndOf(sent) \in Int
         /\ EndOf(given) + Remaining = received
<1>1. /\ buf.readPos \in 0 .. Capacity /\ buf.writePos \in 0 .. Capacity
      /\ buf.readPos <= buf.writePos /\ Capacity \in Nat
  BY CapacityFact DEF TypeOK, Buffers
<1>2. DataSize(buf) \in Nat /\ FreeSize(buf) \in Nat
  BY <1>1 DEF DataSize, FreeSize
<1>3. EndOf(given) \in Int /\ EndOf(sent) \in Int
  BY EndOfInt DEF TypeOK
<1>. QED
  BY <1>2, <1>3 DEF Remaining, CutInv, TypeOK

\* The bytes the loop has not looked at are the stream from the end of what
\* was handed over.
LEMMA UnreadCells ==
  ASSUME TypeOK, CutInv, NEW k \in 0 .. Remaining - 1
  PROVE  buf.cell[At + k] = EndOf(given) + k
<1>1. /\ buf.readPos \in Nat
  BY CapacityFact DEF TypeOK, Buffers
<1>2. processLen + k \in 0 .. DataSize(buf) - 1
  BY LoopFacts DEF Remaining
<1>3. buf.cell[buf.readPos + (processLen + k)] =
        received - DataSize(buf) + (processLen + k)
  BY <1>2 DEF CutInv, Window
<1>4. buf.readPos + (processLen + k) = At + k
  BY <1>1, LoopFacts DEF At
<1>. QED
  BY <1>3, <1>4, LoopFacts DEF Remaining

\* When there are bytes for a header, they are the header of the next packet.
LEMMA NextHeader ==
  ASSUME TypeOK, StreamInv, CutInv, HasHeader
  PROVE  /\ Len(given) < Len(sent)
         /\ HeaderValues = {sent[Len(given) + 1].size}
<1>1. HeaderSize \in Nat /\ HeaderSize >= 1
  BY PacketFact
<1>2. Remaining >= 1 /\ Remaining >= HeaderSize /\ Remaining \in Nat
  BY <1>1, LoopFacts DEF HasHeader
<1>3. Len(given) < Len(sent)
  <2>1. EndOf(given) # EndOf(sent)
    BY <1>2, LoopFacts DEF CutInv
  <2>2. Len(given) <= Len(sent) /\ Len(given) \in Nat /\ Len(sent) \in Nat
    BY GivenEndsAtNext DEF CutInv, DeliversWhatWasSent
  <2>3. Len(given) # Len(sent)
    BY <2>1, GivenEndsAtNext DEF CutInv
  <2>. QED
    BY <2>2, <2>3
<1>. DEFINE m == Len(given) + 1
<1>4. m \in 1 .. Len(sent) /\ sent[m].start = EndOf(given)
  BY <1>3, GivenEndsAtNext DEF CutInv
<1>5. buf.cell[At] = EndOf(given)
  <2>1. buf.cell[At + 0] = EndOf(given) + 0
    BY <1>2, UnreadCells
  <2>2. At + 0 = At
    BY CapacityFact, LoopFacts DEF At, TypeOK, Buffers
  <2>. QED
    BY <2>1, <2>2, LoopFacts
<1>. HIDE DEF m
<1>6. \A i \in 1 .. Len(sent) : sent[i].start = buf.cell[At] <=> i = m
  <2>1. ASSUME NEW i \in 1 .. Len(sent), i # m
        PROVE  sent[i].start # sent[m].start
    <3>1. /\ sent[i].start \in Nat /\ sent[i].size \in Nat /\ sent[i].size >= 1
          /\ sent[m].start \in Nat /\ sent[m].size \in Nat /\ sent[m].size >= 1
      BY <1>4, SentTypes
    <3>2. CASE i < m
      <4>1. sent[i].start + sent[i].size <= sent[m].start
        BY <1>4, <3>2 DEF StreamInv
      <4>. QED
        BY <3>1, <4>1
    <3>3. CASE m < i
      <4>1. sent[m].start + sent[m].size <= sent[i].start
        BY <1>4, <3>3 DEF StreamInv
      <4>. QED
        BY <3>1, <4>1
    <3>. QED
      BY <1>4, <2>1, <3>2, <3>3
  <2>. QED
    BY <1>4, <1>5, <2>1
<1>7. {i \in 1 .. Len(sent) : sent[i].start = buf.cell[At]} = {m}
  BY <1>4, <1>6
<1>8. HeaderValues = {sent[m].size}
  BY <1>1, <1>2, <1>7 DEF HeaderValues
<1>. QED
  BY <1>3, <1>8 DEF m

\* When the loop ends, less than a packet is left, and not the next packet.
LEMMA LoopEndsShort ==
  ASSUME TypeOK, StreamInv, CutInv, LoopEnds
  PROVE  /\ Remaining < BufferSize
         /\ Len(given) < Len(sent) =>
              received < sent[Len(given) + 1].start + sent[Len(given) + 1].size
<1>1. /\ HeaderSize \in Nat /\ MaxPacket \in Nat /\ BufferSize \in Nat
      /\ HeaderSize <= MaxPacket /\ MaxPacket <= BufferSize
  BY PacketFact, CapacityFact
<1>2. ASSUME Len(given) < Len(sent)
      PROVE  /\ sent[Len(given) + 1].start = EndOf(given)
             /\ sent[Len(given) + 1].size \in HeaderSize .. MaxPacket
  BY <1>2, GivenEndsAtNext DEF StreamInv, CutInv
<1>3. CASE ~HasHeader
  <2>1. Remaining < HeaderSize
    BY <1>1, <1>3, LoopFacts DEF HasHeader
  <2>2. ASSUME Len(given) < Len(sent)
        PROVE  received < sent[Len(given) + 1].start + sent[Len(given) + 1].size
    <3>. DEFINE p == sent[Len(given) + 1]
    <3>1. p.start = EndOf(given) /\ p.size \in Nat /\ p.size >= HeaderSize
      BY <1>2, <2>2, GivenEndsAtNext, SentTypes DEF CutInv
    <3>2. /\ EndOf(given) \in Int /\ Remaining \in Nat
          /\ received = EndOf(given) + Remaining
      BY LoopFacts
    <3>. HIDE DEF p
    <3>3. received < p.start + p.size
      BY <1>1, <2>1, <3>1, <3>2
    <3>. QED
      BY <3>3 DEF p
  <2>. QED
    BY <1>1, <2>1, <2>2, LoopFacts
<1>4. CASE HasHeader
  <2>1. Len(given) < Len(sent) /\ ~IsWhole(sent[Len(given) + 1].size)
    BY <1>4, NextHeader DEF LoopEnds
  <2>2. /\ sent[Len(given) + 1].start = EndOf(given)
        /\ sent[Len(given) + 1].size \in Nat
        /\ sent[Len(given) + 1].size <= MaxPacket
    BY <1>1, <1>2, <2>1
  <2>3. Remaining < sent[Len(given) + 1].size
    BY <2>1, <2>2, LoopFacts DEF IsWhole
  <2>. QED
    BY <1>1, <2>2, <2>3, LoopFacts
<1>. QED
  BY <1>3, <1>4

\* One turn of the loop hands over the next packet of the stream.
LEMMA TurnGivesNext ==
  ASSUME TypeOK, StreamInv, CutInv, OnRecvPacket
  PROVE  /\ Len(given) < Len(sent)
         /\ given' = Append(given, sent[Len(given) + 1])
         /\ processLen' = processLen + sent[Len(given) + 1].size
         /\ sent[Len(given) + 1] \in Packets
         /\ sent[Len(given) + 1].size \in Nat
         /\ sent[Len(given) + 1].size <= Remaining
<1>1. HasHeader /\ \E n \in HeaderValues :
        /\ IsWhole(n)
        /\ given' = Append(given, Piece(At, n))
        /\ processLen' = processLen + n
  BY DEF OnRecvPacket
<1>. DEFINE p == sent[Len(given) + 1]
<1>2. Len(given) < Len(sent) /\ HeaderValues = {p.size}
  BY <1>1, NextHeader
<1>3. /\ IsWhole(p.size) /\ given' = Append(given, Piece(At, p.size))
      /\ processLen' = processLen + p.size
  BY <1>1, <1>2
<1>4. Len(given) + 1 \in 1 .. Len(sent) /\ p.start = EndOf(given)
  BY <1>2, GivenEndsAtNext DEF CutInv
<1>5. p \in Packets /\ p.size \in HeaderSize .. MaxPacket
  BY <1>4, ElementOfSeq DEF TypeOK, StreamInv
<1>. HIDE DEF p
<1>6. p.size \in Nat /\ p.size >= 1 /\ p.size <= Remaining
  BY <1>3, <1>5, PacketFact, LoopFacts DEF IsWhole
<1>7. Piece(At, p.size) = p
  <2>1. \A k \in 0 .. p.size - 1 : buf.cell[At + k] = EndOf(given) + k
    BY <1>6, LoopFacts, UnreadCells
  <2>2. buf.cell[At] = EndOf(given)
    <3>1. buf.cell[At + 0] = EndOf(given) + 0
      BY <1>6, <2>1
    <3>2. At + 0 = At
      BY CapacityFact, LoopFacts DEF At, TypeOK, Buffers
    <3>. QED
      BY <3>1, <3>2, LoopFacts
  <2>3. Piece(At, p.size) = [start |-> EndOf(given), size |-> p.size]
    BY <2>1, <2>2 DEF Piece
  <2>4. p = [start |-> p.start, size |-> p.size]
    BY <1>5 DEF Packets
  <2>. QED
    BY <1>4, <2>3, <2>4 DEF p
<1>. QED
  BY <1>2, <1>3, <1>5, <1>6, <1>7 DEF p

(***************************************************************************)
(* The invariant, action by action.                                        *)
(***************************************************************************)

LEMMA InitInv == Init => IInv
<1>. SUFFICES ASSUME Init PROVE IInv
  OBVIOUS
<1>1. Capacity \in Nat /\ Capacity >= BufferSize /\ BufferSize \in Nat
  BY CapacityFact
<1>2. << >> \in Seq(Packets) /\ Len(<< >>) = 0
  BY EmptySeq
<1>3. FreeSize(buf) = Capacity
  BY <1>1 DEF Init, EmptyBuffer, FreeSize
<1>4. TypeOK
  BY <1>2, EmptyBufferFacts DEF Init, TypeOK
<1>5. StreamInv
  BY <1>2 DEF Init, StreamInv
<1>6. CutInv
  BY <1>2, EmptyBufferFacts DEF Init, CutInv, DeliversWhatWasSent, EndOf
<1>7. RestInv
  BY <1>1, <1>2, <1>3 DEF Init, RestInv
<1>. QED
  BY <1>4, <1>5, <1>6, <1>7 DEF Init, IInv, ReceptionGoesOn

LEMMA PeerSendInv ==
  ASSUME IInv, PeerSend
  PROVE  IInv'
<1>1. /\ TypeOK /\ StreamInv /\ CutInv /\ RestInv /\ ReceptionGoesOn
      /\ UNCHANGED <<connected, pc, buf, processLen, received, given>>
  BY DEF IInv, PeerSend
<1>2. /\ StreamInv' /\ sent' \in Seq(Packets)
      /\ Len(sent') = Len(sent) + 1 /\ Len(sent) \in Nat
      /\ \A i \in 1 .. Len(sent) : sent'[i] = sent[i]
      /\ sent'[Len(sent) + 1].start = EndOf(sent)
      /\ sent'[Len(sent) + 1].size >= 1
      /\ EndOf(sent) \in Nat /\ EndOf(sent) <= EndOf(sent')
  BY <1>1, StreamGrows
<1>3. TypeOK'
  BY <1>1, <1>2 DEF TypeOK
<1>4. EndOf(sent') \in Int
  BY <1>2, EndOfInt
<1>5. Len(given) \in Nat /\ Len(given) <= Len(sent)
  BY <1>1, GivenEndsAtNext DEF CutInv, DeliversWhatWasSent
<1>6. DeliversWhatWasSent'
  <2>1. \A i \in 1 .. Len(given) : given[i] = sent'[i]
    BY <1>1, <1>2, <1>5 DEF CutInv, DeliversWhatWasSent
  <2>. QED
    BY <1>1, <1>2, <1>5, <2>1 DEF DeliversWhatWasSent
<1>7. CutInv'
  <2>1. received <= EndOf(sent')
    BY <1>1, <1>2, <1>4, LoopFacts DEF CutInv
  <2>2. Window(buf, received)'
    BY <1>1 DEF CutInv, Window, DataSize
  <2>3. /\ (processLen <= DataSize(buf))'
        /\ (EndOf(given) = received - DataSize(buf) + processLen)'
    BY <1>1 DEF CutInv, DataSize, EndOf
  <2>. QED
    BY <1>1, <1>6, <2>1, <2>2, <2>3 DEF CutInv
<1>8. RestInv'
  <2>1. ASSUME pc \in {"start", "register", "reading"}, Len(given) < Len(sent')
        PROVE  received < sent'[Len(given) + 1].start
                            + sent'[Len(given) + 1].size
    <3>1. CASE Len(given) < Len(sent)
      BY <1>1, <1>2, <1>5, <2>1, <3>1 DEF RestInv
    <3>2. CASE Len(given) = Len(sent)
      <4>1. received <= EndOf(sent) /\ received \in Nat
        BY <1>1, LoopFacts DEF CutInv
      <4>2. sent'[Len(sent) + 1].size \in Int
        <5>1. Len(sent) + 1 \in 1 .. Len(sent')
          BY <1>2
        <5>2. sent'[Len(sent) + 1] \in Packets
          BY <1>2, <5>1, ElementOfSeq
        <5>. QED
          BY <5>2 DEF Packets
      <4>. QED
        BY <1>2, <3>2, <4>1, <4>2
    <3>. QED
      BY <1>2, <1>5, <2>1, <3>1, <3>2
  <2>2. pc \in {"start", "register", "reading"} => FreeSize(buf) >= BufferSize
    BY <1>1 DEF RestInv
  <2>. QED
    BY <1>1, <2>1, <2>2 DEF RestInv, FreeSize
<1>. QED
  BY <1>1, <1>2, <1>3, <1>7, <1>8 DEF IInv, ReceptionGoesOn

\* Actions that move the loop or the connection and nothing else.
LEMMA ControlInv ==
  ASSUME IInv, UNCHANGED <<buf, processLen, sent, received, given>>,
         connected' \in BOOLEAN,
         pc' \in {"start", "register", "reading", "parsing", "stopped"},
         pc' = "parsing" <=> pc = "parsing",
         pc' \in {"start", "register", "reading"} =>
           pc \in {"start", "register", "reading"},
         connected' => pc' # "stopped"
  PROVE  IInv'
<1>1. TypeOK /\ StreamInv /\ CutInv /\ RestInv
  BY DEF IInv
<1>2. TypeOK'
  BY <1>1 DEF TypeOK
<1>3. StreamInv'
  BY <1>1 DEF StreamInv, EndOf, StartAfter
<1>4. CutInv'
  BY <1>1 DEF CutInv, DeliversWhatWasSent, Window, DataSize, EndOf
<1>5. RestInv'
  BY <1>1 DEF RestInv, FreeSize
<1>. QED
  BY <1>2, <1>3, <1>4, <1>5 DEF IInv, ReceptionGoesOn

LEMMA ReadDoneInv ==
  ASSUME IInv, ReadDone
  PROVE  IInv'
<1>1. /\ TypeOK /\ StreamInv /\ CutInv /\ RestInv /\ ReceptionGoesOn
      /\ pc = "reading" /\ processLen' = 0
      /\ UNCHANGED <<connected, sent, given>>
  BY DEF IInv, ReadDone
<1>2. PICK n \in ReadSizes :
        /\ received' = received + n
        /\ LET b == Store(buf, n, received)
           IN  IF MayWrite(b, n)
               THEN buf' = OnWrite(b, n) /\ pc' = "parsing"
               ELSE buf' = b /\ pc' = "stopped"
  BY DEF ReadDone
<1>3. FreeSize(buf) >= 1 /\ FreeSize(buf) \in Nat /\ received \in Nat
      /\ DataSize(buf) \in Nat
  BY <1>1, CapacityFact, LoopFacts DEF RestInv
<1>4. /\ n \in Nat /\ n >= 1 /\ n <= FreeSize(buf)
      /\ received + n <= EndOf(sent)
  BY <1>3 DEF ReadSizes
<1>5. MayWrite(buf, n) /\ MayWrite(Store(buf, n, received), n)
  <2>1. FreeSize(Store(buf, n, received)) = FreeSize(buf)
    <3>1. Store(buf, n, received).writePos = buf.writePos
      BY <1>1 DEF Store, TypeOK, Buffers
    <3>. QED
      BY <3>1 DEF FreeSize
  <2>. QED
    BY <1>4, <2>1 DEF MayWrite
<1>6. /\ buf' = OnWrite(Store(buf, n, received), n) /\ pc' = "parsing"
      /\ received' = received + n
  BY <1>2, <1>5
<1>7. /\ buf' \in Buffers /\ Window(buf', received')
      /\ DataSize(buf') = DataSize(buf) + n
  BY <1>1, <1>3, <1>4, <1>5, <1>6, WriteExtends DEF TypeOK, CutInv
<1>8. TypeOK'
  BY <1>1, <1>3, <1>4, <1>6, <1>7 DEF TypeOK
<1>9. CutInv'
  <2>1. EndOf(given) = received - DataSize(buf) /\ EndOf(given) \in Int
    BY <1>1, <1>3, LoopFacts DEF CutInv
  <2>2. EndOf(given)' = EndOf(given) /\ EndOf(sent)' = EndOf(sent)
    BY <1>1 DEF EndOf
  <2>3. EndOf(given) = received' - DataSize(buf') + 0
    BY <1>3, <1>4, <1>6, <1>7, <2>1
  <2>4. 0 <= DataSize(buf')
    BY <1>3, <1>4, <1>7
  <2>5. DeliversWhatWasSent'
    BY <1>1 DEF CutInv, DeliversWhatWasSent
  <2>6. Window(buf, received)' /\ DataSize(buf)' = DataSize(buf')
    BY <1>7 DEF Window, DataSize
  <2>. QED
    BY <1>1, <1>4, <1>6, <2>2, <2>3, <2>4, <2>5, <2>6 DEF CutInv
<1>10. StreamInv'
  BY <1>1 DEF StreamInv, EndOf, StartAfter
<1>. QED
  BY <1>1, <1>6, <1>8, <1>9, <1>10 DEF IInv, RestInv, ReceptionGoesOn

LEMMA OnRecvPacketInv ==
  ASSUME IInv, pc = "parsing", OnRecvPacket
  PROVE  IInv'
<1>1. /\ TypeOK /\ StreamInv /\ CutInv /\ ReceptionGoesOn
      /\ UNCHANGED <<connected, pc, buf, sent, received>>
  BY DEF IInv, OnRecvPacket
<1>. DEFINE p == sent[Len(given) + 1]
<1>2. /\ Len(given) < Len(sent) /\ given' = Append(given, p)
      /\ processLen' = processLen + p.size
      /\ p \in Packets /\ p.size \in Nat /\ p.size <= Remaining
  BY <1>1, TurnGivesNext
<1>3. Len(given) \in Nat /\ Len(sent) \in Nat /\ p.start = EndOf(given)
  BY <1>1, <1>2, GivenEndsAtNext DEF CutInv
<1>4. /\ given' \in Seq(Packets) /\ Len(given') = Len(given) + 1
      /\ \A i \in 1 .. Len(given) : given'[i] = given[i]
      /\ given'[Len(given) + 1] = p
  BY <1>1, <1>2, AppendProperties DEF TypeOK
<1>5. TypeOK'
  BY <1>1, <1>2, <1>4, LoopFacts DEF TypeOK
<1>6. DeliversWhatWasSent'
  <2>1. ASSUME NEW i \in 1 .. Len(given')
        PROVE  given'[i] = sent[i]
    <3>1. CASE i \in 1 .. Len(given)
      BY <1>1, <1>4, <3>1 DEF CutInv, DeliversWhatWasSent
    <3>2. CASE i = Len(given) + 1
      BY <1>4, <3>2
    <3>. QED
      BY <1>3, <1>4, <3>1, <3>2
  <2>2. Len(given') <= Len(sent)
    BY <1>2, <1>3, <1>4
  <2>. QED
    BY <1>1, <2>1, <2>2 DEF DeliversWhatWasSent
<1>7. EndOf(given') = EndOf(given) + p.size
  <2>1. EndOf(given') = StartAfter(given', Len(given'))
    BY <1>4, EndOfIsStart
  <2>. HIDE DEF p
  <2>2. StartAfter(given', Len(given')) = p.start + p.size
    BY <1>3, <1>4 DEF StartAfter
  <2>. QED
    BY <1>3, <2>1, <2>2
<1>. HIDE DEF p
<1>8. CutInv'
  <2>0. EndOf(given) = received - DataSize(buf) + processLen
    BY <1>1 DEF CutInv
  <2>. /\ EndOf(given) \in Int /\ received \in Nat
       /\ DataSize(buf) \in Nat /\ processLen \in Nat
    BY <1>1, LoopFacts
  <2>1. EndOf(given') = received - DataSize(buf) + processLen'
    <3>1. EndOf(given') = EndOf(given) + p.size
      BY <1>7
    <3>2. processLen' = processLen + p.size /\ p.size \in Nat
      BY <1>2
    <3>. QED
      BY <2>0, <3>1, <3>2
  <2>2. processLen' <= DataSize(buf)
    BY <1>1, <1>2, LoopFacts DEF Remaining
  <2>3. /\ DataSize(buf)' = DataSize(buf) /\ EndOf(sent)' = EndOf(sent)
        /\ EndOf(given)' = EndOf(given')
    BY <1>1 DEF DataSize, EndOf
  <2>4. Window(buf, received)' /\ (received <= EndOf(sent))'
    BY <1>1 DEF CutInv, Window, DataSize, EndOf
  <2>. QED
    BY <1>1, <1>6, <2>1, <2>2, <2>3, <2>4 DEF CutInv
<1>9. StreamInv'
  BY <1>1 DEF StreamInv, EndOf, StartAfter
<1>. QED
  BY <1>1, <1>5, <1>8, <1>9 DEF IInv, RestInv, ReceptionGoesOn

LEMMA OnRecvReturnsInv ==
  ASSUME IInv, OnRecvReturns
  PROVE  IInv'
<1>1. /\ TypeOK /\ StreamInv /\ CutInv /\ ReceptionGoesOn
      /\ pc = "parsing" /\ LoopEnds /\ processLen' = 0
      /\ UNCHANGED <<sent, received, given>>
  BY DEF IInv, OnRecvReturns
<1>2. MayRead(buf, processLen)
  BY <1>1 DEF CutInv, MayRead
<1>. DEFINE b == OnRead(buf, processLen)
<1>3. buf' = Clean(b) /\ pc' = "register" /\ connected' = connected
  BY <1>2 DEF OnRecvReturns
<1>4. /\ b \in Buffers /\ Window(b, received)
      /\ DataSize(b) = DataSize(buf) - processLen
  BY <1>1, <1>2, LoopFacts, ReadShrinks DEF TypeOK, CutInv
<1>. HIDE DEF b
<1>5. DataSize(b) = Remaining /\ Remaining < BufferSize
  BY <1>1, <1>4, LoopEndsShort DEF Remaining
<1>6. /\ buf' \in Buffers /\ Window(buf', received)
      /\ DataSize(buf') = Remaining
      /\ FreeSize(buf') >= BufferSize
  BY <1>1, <1>3, <1>4, <1>5, LoopFacts, CleanKeepsWindow
<1>7. TypeOK'
  BY <1>1, <1>3, <1>6 DEF TypeOK
<1>8. CutInv'
  <2>1. EndOf(given) = received - DataSize(buf') + 0 /\ 0 <= DataSize(buf')
    BY <1>1, <1>6, LoopFacts
  <2>2. /\ EndOf(given)' = EndOf(given) /\ DataSize(buf)' = DataSize(buf')
        /\ Window(buf, received)'
    BY <1>1, <1>6 DEF EndOf, DataSize, Window
  <2>3. DeliversWhatWasSent' /\ (received <= EndOf(sent))'
    BY <1>1 DEF CutInv, DeliversWhatWasSent, EndOf
  <2>. QED
    BY <1>1, <1>3, <2>1, <2>2, <2>3 DEF CutInv
<1>9. RestInv'
  <2>1. Len(given) < Len(sent) =>
          received < sent[Len(given) + 1].start + sent[Len(given) + 1].size
    BY <1>1, LoopEndsShort
  <2>2. FreeSize(buf)' >= BufferSize
    BY <1>6 DEF FreeSize
  <2>. QED
    BY <1>1, <2>1, <2>2 DEF RestInv
<1>10. StreamInv'
  BY <1>1 DEF StreamInv, EndOf, StartAfter
<1>. QED
  BY <1>3, <1>7, <1>8, <1>9, <1>10 DEF IInv, ReceptionGoesOn

LEMMA RecvInvariant == Spec => []IInv
<1>1. IInv /\ [Next]_vars => IInv'
  <2>. SUFFICES ASSUME IInv, [Next]_vars
                PROVE  IInv'
    OBVIOUS
  <2>1. /\ connected \in BOOLEAN
        /\ pc \in {"start", "register", "reading", "parsing", "stopped"}
        /\ connected => pc # "stopped"
    BY DEF IInv, TypeOK, ReceptionGoesOn
  <2>2. CASE ProcessConnect
    BY <2>2, ControlInv DEF ProcessConnect
  <2>3. CASE Disconnect
    BY <2>1, <2>3, ControlInv DEF Disconnect
  <2>4. CASE RegisterRecv
    BY <2>1, <2>4, ControlInv DEF RegisterRecv
  <2>5. CASE ReadFailed
    BY <2>5, ControlInv DEF ReadFailed
  <2>6. CASE OnRecvPacket
    <3>1. pc = "parsing"
      BY <2>6 DEF OnRecvPacket
    <3>. QED
      BY <2>6, <3>1, OnRecvPacketInv
  <2>7. CASE UNCHANGED vars
    BY <2>1, <2>7, ControlInv DEF vars
  <2>. QED
    BY <2>2, <2>3, <2>4, <2>5, <2>6, <2>7, PeerSendInv, ReadDoneInv,
       OnRecvReturnsInv DEF Next
<1>. QED
  BY <1>1, InitInv, PTL DEF Spec

(***************************************************************************)
(* What follows.                                                           *)
(***************************************************************************)

\* Every variable keeps its type: in particular the positions stay in order
\* and inside the buffer.
THEOREM TypeCorrect == Spec => []TypeOK
<1>1. IInv => TypeOK
  BY DEF IInv
<1>. QED
  BY <1>1, RecvInvariant, PTL

\* However the network cuts the stream, OnRecvPacket is called with the packets
\* the peer sent, whole, once each and in order.
THEOREM PacketsArriveIntact == Spec => []DeliversWhatWasSent
<1>1. IInv => DeliversWhatWasSent
  BY DEF IInv, CutInv
<1>. QED
  BY <1>1, RecvInvariant, PTL

\* The socket is always given room to read into.
THEOREM AlwaysRoom == Spec => []ReadHasRoom
<1>1. IInv => ReadHasRoom
  <2>. SUFFICES ASSUME IInv, pc \in {"register", "reading"}
                PROVE  FreeSize(buf) >= 1
    BY DEF ReadHasRoom
  <2>1. FreeSize(buf) >= BufferSize /\ FreeSize(buf) \in Nat
    BY LoopFacts DEF IInv, RestInv
  <2>. QED
    BY <2>1, CapacityFact
<1>. QED
  BY <1>1, RecvInvariant, PTL

\* The memcpy of Clean is always defined: a partial packet is shorter than
\* BufferSize, and the buffer is at least three times as long.
THEOREM NoOverlappingCopy == Spec => []CleanNeverOverlaps
<1>1. IInv => CleanNeverOverlaps
  <2>. SUFFICES ASSUME IInv, pc = "parsing", LoopEnds,
                       CopiesInClean(OnRead(buf, processLen))
                PROVE  CopyIsDefined(OnRead(buf, processLen))
    BY DEF CleanNeverOverlaps
  <2>. DEFINE b == OnRead(buf, processLen)
  <2>1. MayRead(buf, processLen) /\ TypeOK /\ StreamInv /\ CutInv
    BY DEF IInv, CutInv, MayRead
  <2>2. /\ b \in Buffers /\ Window(b, received)
        /\ DataSize(b) = DataSize(buf) - processLen
    BY <2>1, LoopFacts, ReadShrinks DEF TypeOK, CutInv
  <2>3. DataSize(b) < BufferSize
    BY <2>1, <2>2, LoopEndsShort DEF Remaining
  <2>. HIDE DEF b
  <2>4. CopiesInClean(b) => CopyIsDefined(b)
    BY <2>1, <2>2, <2>3, LoopFacts, CleanKeepsWindow
  <2>. QED
    BY <2>4 DEF b
<1>. QED
  BY <1>1, RecvInvariant, PTL

\* Neither the silent return of the handler nor "Read Overflow" is ever taken
\* on a PacketSession whose peer sends well-formed packets.
THEOREM ReceptionNeverStalls == Spec => []ReceptionGoesOn
<1>1. IInv => ReceptionGoesOn
  BY DEF IInv
<1>. QED
  BY <1>1, RecvInvariant, PTL

\* The session never waits for the network with a whole packet unread.
THEOREM NothingWholeIsLeft == Spec => []NoPacketLeftBehind
<1>1. IInv => NoPacketLeftBehind
  BY DEF IInv, RestInv, NoPacketLeftBehind
<1>. QED
  BY <1>1, RecvInvariant, PTL

(***************************************************************************)
(* The channel of packets.                                                 *)
(***************************************************************************)

LEMMA SameEnds ==
  /\ Channel!Length = EndOf(sent)
  /\ Channel!Waiting <=>
       /\ Len(given) < Len(sent)
       /\ sent[Len(given) + 1].start + sent[Len(given) + 1].size <= received
BY DEF Channel!Length, Channel!Behind, Channel!Waiting, EndOf

\* A read brings bytes, and none while a whole packet is unread.
LEMMA ReadArrives ==
  ASSUME IInv, ReadDone
  PROVE  Channel!Arrive
<1>1. /\ TypeOK /\ StreamInv /\ CutInv /\ RestInv
      /\ pc = "reading" /\ UNCHANGED <<sent, given>>
  BY DEF IInv, ReadDone
<1>2. PICK n \in ReadSizes : received' = received + n
  BY DEF ReadDone
<1>3. /\ FreeSize(buf) >= 1
      /\ EndOf(sent) \in Int /\ received \in Nat
  BY <1>1, CapacityFact, LoopFacts DEF RestInv
<1>4. n \in 1 .. EndOf(sent) - received
  BY <1>1, <1>3, LoopFacts DEF ReadSizes
<1>5. ~Channel!Waiting
  <2>1. ASSUME Len(given) < Len(sent)
        PROVE  ~(sent[Len(given) + 1].start + sent[Len(given) + 1].size
                   <= received)
    <3>. DEFINE p == sent[Len(given) + 1]
    <3>1. p.start \in Int /\ p.size \in Nat /\ received < p.start + p.size
      BY <1>1, <1>3, <2>1, GivenEndsAtNext, SentTypes DEF RestInv, CutInv
    <3>. HIDE DEF p
    <3>2. ~(p.start + p.size <= received)
      BY <1>3, <3>1
    <3>. QED
      BY <3>2 DEF p
  <2>. QED
    BY <2>1, SameEnds
<1>. QED
  BY <1>1, <1>2, <1>4, <1>5, SameEnds DEF Channel!Arrive

\* A turn of the loop hands over the packet the channel would.
LEMMA TurnHandsOver ==
  ASSUME IInv, OnRecvPacket
  PROVE  Channel!HandOver
<1>1. TypeOK /\ StreamInv /\ CutInv /\ UNCHANGED <<sent, received>>
  BY DEF IInv, OnRecvPacket
<1>. DEFINE p == sent[Len(given) + 1]
<1>2. /\ Len(given) < Len(sent) /\ given' = Append(given, p)
      /\ p.size \in Nat /\ p.size <= Remaining
  BY <1>1, TurnGivesNext
<1>3. p.start = EndOf(given)
  BY <1>1, <1>2, GivenEndsAtNext DEF CutInv
<1>. HIDE DEF p
<1>4. p.start + p.size <= received
  <2>1. /\ EndOf(given) \in Int /\ Remaining \in Nat
        /\ received = EndOf(given) + Remaining
    BY <1>1, LoopFacts
  <2>. QED
    BY <1>2, <1>3, <2>1
<1>5. Channel!Waiting
  BY <1>2, <1>4, SameEnds DEF p
<1>. QED
  BY <1>1, <1>2, <1>5 DEF Channel!HandOver, p

\* The receive path implements the channel of PacketChannel, for every stream,
\* every size of the buffer and every way the network cuts the stream.
THEOREM RecvPathImplementsPacketChannel == Spec => ImplementsPacketChannel
<1>1. Init => Channel!Init
  BY DEF Init, Channel!Init
<1>2. IInv /\ [Next]_vars => [Channel!Next]_(Channel!vars)
  <2>. SUFFICES ASSUME IInv, [Next]_vars
                PROVE  Channel!Next \/ UNCHANGED Channel!vars
    OBVIOUS
  <2>1. CASE PeerSend
    <3>1. PICK n \in HeaderSize .. MaxPacket :
                 sent' = Append(sent, [start |-> EndOf(sent), size |-> n])
      BY <2>1 DEF PeerSend
    <3>2. n \in 1 .. MaxPacket
      BY PacketFact
    <3>3. Channel!Send
      BY <2>1, <3>1, <3>2, SameEnds DEF PeerSend, Channel!Send
    <3>. QED
      BY <3>3 DEF Channel!Next
  <2>2. CASE ReadDone
    BY <2>2, ReadArrives DEF Channel!Next
  <2>3. CASE OnRecvPacket
    BY <2>3, TurnHandsOver DEF Channel!Next
  <2>4. CASE \/ ProcessConnect \/ Disconnect \/ RegisterRecv \/ ReadFailed
             \/ OnRecvReturns \/ UNCHANGED vars
    BY <2>4 DEF ProcessConnect, Disconnect, RegisterRecv, ReadFailed,
                OnRecvReturns, vars, Channel!vars
  <2>. QED
    BY <2>1, <2>2, <2>3, <2>4 DEF Next
<1>. QED
  BY <1>1, <1>2, RecvInvariant, PTL
     DEF Spec, ImplementsPacketChannel, Channel!Spec

=============================================================================

-------------------------- MODULE ReconnectProofs --------------------------
(***************************************************************************)
(* Theorems about Reconnect, for any number of loops, connections, calls   *)
(* of Start and bytes, and every size of the buffer.                       *)
(***************************************************************************)
EXTENDS Reconnect, TLAPS

(***************************************************************************)
(* Numbers, and the buffer.                                                *)
(***************************************************************************)

LEMMA CapacityFact ==
  /\ BufferSize \in Nat /\ BufferSize >= 2
  /\ Capacity \in Nat /\ Capacity >= BufferSize + BufferSize + BufferSize
<1>1. /\ BufferSize \in Nat /\ BufferCount \in Nat
      /\ BufferSize >= 2 /\ BufferCount >= 3
  BY RecvBufferAssumption, ReconnectAssumption
<1>2. BufferSize * BufferCount \in Nat
  BY <1>1
<1>3. PICK k \in Nat : BufferCount = 3 + k
  <2>1. BufferCount - 3 \in Nat /\ BufferCount = 3 + (BufferCount - 3)
    BY <1>1
  <2>. QED  BY <2>1
<1>4. BufferSize * BufferCount = 3 * BufferSize + BufferSize * k /\ BufferSize * k >= 0
  BY <1>1, <1>3
<1>. QED  BY <1>1, <1>2, <1>4 DEF Capacity

\* The streams of the connections begin at even numbers.
LEMMA ByteFact ==
  ASSUME connection \in Nat
  PROVE  \E m \in Nat : \A k \in Int : Byte(k) = m + m + k
<1>. DEFINE m == connection * (MaxStream + 1)
<1>1. connection \in Nat /\ MaxStream + 1 \in Nat
  BY ReconnectAssumption
<1>2. m \in Nat /\ connection * 2 * (MaxStream + 1) = m + m
  BY <1>1
<1>3. \A k \in Int : Byte(k) = m + m + k
  BY <1>2 DEF Byte
<1>. QED  BY <1>2, <1>3

LEMMA Halves ==
  ASSUME NEW a \in Nat, NEW n \in Nat
  PROVE  /\ a % 2 \in {0, 1} /\ a % 2 <= a
         /\ (a - (a % 2)) % 2 = 0
         /\ ((a % 2) + n) % 2 = (a + n) % 2
OBVIOUS

LEMMA BufferFact ==
  ASSUME NEW b \in Buffers
  PROVE  /\ b.readPos \in Nat /\ b.writePos \in Nat /\ b.cell \in [Cells -> Int]
         /\ b.readPos <= b.writePos /\ b.writePos <= Capacity
         /\ DataSize(b) \in Nat /\ FreeSize(b) \in 0 .. Capacity
         /\ b = [readPos |-> b.readPos, writePos |-> b.writePos, cell |-> b.cell]
BY CapacityFact DEF Buffers, DataSize, FreeSize

\* OnWrite, within the room there is, and OnRead.
LEMMA AdvanceFact ==
  ASSUME NEW b \in Buffers, NEW n \in Nat, NEW k \in Nat,
         MayWrite(b, n), k <= DataSize(b) + n
  PROVE  LET c == OnRead(OnWrite(b, n), k)
         IN  /\ c = [readPos |-> b.readPos + k, writePos |-> b.writePos + n,
                     cell |-> b.cell]
             /\ c \in Buffers
             /\ OnWrite(b, n).readPos = b.readPos
             /\ OnWrite(b, n).writePos = b.writePos + n
             /\ OnWrite(b, n).cell = b.cell
             /\ DataSize(OnWrite(b, n)) = DataSize(b) + n
             /\ DataSize(c) = DataSize(b) + n - k
<1>1. OnWrite(b, n) = [readPos |-> b.readPos, writePos |-> b.writePos + n, cell |-> b.cell]
  BY BufferFact DEF OnWrite
<1>2. OnRead(OnWrite(b, n), k)
        = [readPos |-> b.readPos + k, writePos |-> b.writePos + n, cell |-> b.cell]
  BY <1>1 DEF OnRead
<1>3. b.writePos + n <= Capacity /\ b.readPos + k <= b.writePos + n
  BY BufferFact, CapacityFact DEF MayWrite, DataSize, FreeSize
<1>4. OnRead(OnWrite(b, n), k) \in Buffers
  BY <1>2, <1>3, BufferFact, CapacityFact DEF Buffers
<1>5. /\ DataSize(OnWrite(b, n)) = DataSize(b) + n
      /\ DataSize(OnRead(OnWrite(b, n), k)) = DataSize(b) + n - k
  BY <1>1, <1>2, BufferFact DEF DataSize
<1>. QED  BY <1>1, <1>2, <1>4, <1>5

LEMMA MoveFact ==
  ASSUME NEW b \in Buffers
  PROVE  MoveToFront(b) \in Buffers
<1>1. DataSize(b) \in 0 .. Capacity
  BY BufferFact, CapacityFact DEF DataSize
<1>2. MoveToFront(b).cell \in [Cells -> Int]
  <2>1. ASSUME NEW i \in Cells, ~(i >= DataSize(b)) PROVE b.readPos + i \in Cells
    BY <2>1, BufferFact, CapacityFact DEF Cells, DataSize
  <2>2. NoByte \in Int
    BY DEF NoByte
  <2>. QED  BY <2>1, <2>2, BufferFact DEF MoveToFront
<1>. QED  BY <1>1, <1>2, CapacityFact DEF MoveToFront, Buffers

LEMMA CleanFact ==
  ASSUME NEW b \in Buffers
  PROVE  Clean(b) \in Buffers
<1>1. Rewind(b) \in Buffers
  BY BufferFact, CapacityFact DEF Rewind, Buffers
<1>. QED  BY <1>1, MoveFact DEF Clean

(***************************************************************************)
(* The inductive invariant.                                                *)
(***************************************************************************)

\* An abort is left over from no connection that is still open.
AbortInv == Tidy => \A l \in Loops : pc[l] = "aborted" => ~connected

\* A connected session has a loop the buffer will not refuse.
Welcome(l) ==
  \/ pc[l] \in {"register", "issue", "aborted"}
  \/ pc[l] \in {"reading", "done"} /\ window[l].size <= FreeSize(buf)

WelcomeInv == connected => \E l \in Loops : Welcome(l)

\* The cells from the read position to e hold the last bytes received.
Last(b, e) ==
  \A i \in b.readPos .. e - 1 : b.cell[i] = Byte(received - (e - i))

\* With one loop a read stores where the unread bytes end, and these begin with
\* a packet.
FrameInv ==
  Tidy /\ ~misread =>
    /\ (\A l \in Loops : pc[l] # "done") =>
         Last(buf, buf.writePos) /\ DataSize(buf) = received % 2
    /\ \A l \in Loops :
         /\ pc[l] \in {"reading", "done"} =>
              window[l].at = buf.writePos /\ window[l].size <= FreeSize(buf)
         /\ pc[l] = "done" =>
              /\ window[l].size \in 1 .. received
              /\ Last(buf, buf.writePos + window[l].size)
              /\ DataSize(buf) = (received - window[l].size) % 2

IInv == TypeOK /\ OneLoop /\ AbortInv /\ WelcomeInv /\ FrameInv /\ OnlyReuseHarms

LEMMA InitInv == Init => IInv
<1>. SUFFICES ASSUME Init PROVE IInv
  OBVIOUS
<1>. USE DEF Init
<1>1. TypeOK
  <2>1. EmptyBuffer \in Buffers
    BY CapacityFact DEF EmptyBuffer, Buffers, NoByte
  <2>2. window \in [Loops -> [at : 0 .. Capacity, size : 0 .. Capacity]]
    BY CapacityFact DEF NoWindow
  <2>. QED  BY <2>1, <2>2 DEF TypeOK
<1>2. OneLoop /\ AbortInv /\ WelcomeInv /\ OnlyReuseHarms
  BY DEF OneLoop, AbortInv, WelcomeInv, OnlyReuseHarms
<1>3. FrameInv
  <2>1. DataSize(buf) = 0 /\ buf.readPos = 0 /\ buf.writePos = 0
    BY DEF EmptyBuffer, DataSize
  <2>. QED  BY <2>1 DEF FrameInv, Last
<1>. QED  BY <1>1, <1>2, <1>3 DEF IInv

LEMMA TypeStep ==
  ASSUME TypeOK, [Next]_vars
  PROVE  TypeOK'
<1>. USE DEF TypeOK
<1>1. CASE UNCHANGED vars
  BY <1>1 DEF vars
<1>2. CASE Connect \/ ConnectFails \/ Disconnect
  BY <1>2 DEF Connect, ConnectFails, Disconnect, history
<1>3. CASE ProcessConnect \/ Start
  <2>1. CASE ProcessConnect
    <3>1. reused' \in BOOLEAN
      BY <2>1, Zenon DEF ProcessConnect
    <3>2. pc' \in [Loops -> {"none", "register", "issue", "reading", "done", "aborted"}]
      BY <2>1 DEF ProcessConnect, Begin
    <3>3. /\ connected' = TRUE /\ connecting' = FALSE
          /\ connection' = connection + 1 /\ received' = 0
          /\ UNCHANGED <<window, buf, starts, wronged, misread>>
      BY <2>1, Zenon DEF ProcessConnect
    <3>4. connection' \in Nat /\ received' \in Nat /\ starts' \in Nat
      BY <3>3
    <3>5. connected' \in BOOLEAN /\ connecting' \in BOOLEAN
      BY <3>3, Zenon
    <3>6. misread' \in BOOLEAN /\ wronged' \in BOOLEAN /\ buf' \in Buffers
          /\ window' \in [Loops -> [at : 0 .. Capacity, size : 0 .. Capacity]]
      BY <3>3, Zenon
    <3>. QED  BY <3>1, <3>2, <3>4, <3>5, <3>6, Zenon
  <2>2. CASE Start
    BY <2>2 DEF Start, Begin, link
  <2>. QED  BY <1>3, <2>1, <2>2
<1>4. ASSUME NEW l \in Loops, RegisterRecv(l) PROVE TypeOK'
  BY <1>4 DEF RegisterRecv, link, history
<1>5. ASSUME NEW l \in Loops, Issue(l) PROVE TypeOK'
  <2>1. window' \in [Loops -> [at : 0 .. Capacity, size : 0 .. Capacity]]
    <3>1. FreeSize(buf) \in 0 .. Capacity /\ buf.writePos \in 0 .. Capacity
      BY BufferFact, CapacityFact
    <3>. QED  BY <1>5, <3>1 DEF Issue
  <2>. QED  BY <1>5, <2>1 DEF Issue, link, history
<1>6. ASSUME NEW l \in Loops, ReadDone(l) PROVE TypeOK'
  <2>1. PICK n \in 1 .. window[l].size :
          /\ received' = received + n
          /\ buf' = [buf EXCEPT !.cell = [i \in Cells |->
                       IF i \in window[l].at .. window[l].at + n - 1
                       THEN Byte(received + (i - window[l].at)) ELSE @[i]]]
          /\ window' = [window EXCEPT ![l].size = n]
    BY <1>6 DEF ReadDone
  <2>2. n \in Nat /\ n \in 0 .. Capacity
    BY CapacityFact
  <2>3. window' \in [Loops -> [at : 0 .. Capacity, size : 0 .. Capacity]]
    BY <2>1, <2>2
  <2>4. PICK m \in Nat : \A k \in Int : Byte(k) = m + m + k
    BY ByteFact
  <2>5. \A i \in Cells : Byte(received + (i - window[l].at)) \in Int
    BY <2>4, CapacityFact DEF Cells
  <2>6. buf' \in Buffers
    BY <2>1, <2>5 DEF Buffers
  <2>. QED  BY <1>6, <2>1, <2>2, <2>3, <2>6 DEF ReadDone, link, history
<1>7. ASSUME NEW l \in Loops, HandleRead(l) PROVE TypeOK'
  <2>. DEFINE n == window[l].size
              b == OnWrite(buf, n)
  <2>1. buf' \in Buffers
    <3>1. CASE ~MayWrite(buf, n)
      BY <1>7, <3>1 DEF HandleRead
    <3>2. CASE MayWrite(buf, n)
      <4>1. n \in Nat /\ DataSize(buf) + n \in Nat
        BY BufferFact
      <4>2. /\ DataSize(b) = DataSize(buf) + n
            /\ DataSize(b) - (DataSize(b) % 2) \in Nat
            /\ DataSize(b) - (DataSize(b) % 2) <= DataSize(buf) + n
        <5>1. DataSize(b) = DataSize(buf) + n
          BY <3>2, <4>1, AdvanceFact
        <5>. QED  BY <4>1, <5>1
      <4>3. OnRead(b, DataSize(b) - (DataSize(b) % 2)) \in Buffers
        BY <3>2, <4>1, <4>2, AdvanceFact
      <4>. QED  BY <1>7, <3>2, <4>3, CleanFact DEF HandleRead
    <3>. QED  BY <3>1, <3>2
  <2>2. window' \in [Loops -> [at : 0 .. Capacity, size : 0 .. Capacity]]
    BY <1>7, CapacityFact DEF HandleRead, NoWindow
  <2>3. /\ pc' \in [Loops -> {"none", "register", "issue", "reading", "done", "aborted"}]
        /\ misread' \in BOOLEAN
    BY <1>7 DEF HandleRead
  <2>. QED  BY <1>7, <2>1, <2>2, <2>3 DEF HandleRead, link, history
<1>8. ASSUME NEW l \in Loops, ReadFails(l) PROVE TypeOK'
  BY <1>8 DEF ReadFails, Closed, history
<1>9. ASSUME NEW l \in Loops, HandleAbort(l) PROVE TypeOK'
  BY <1>9 DEF HandleAbort, Closed, link
<1>. QED
  BY <1>1, <1>2, <1>3, <1>4, <1>5, <1>6, <1>7, <1>8, <1>9 DEF Next, LoopGoesOn

\* Tidiness is not regained.
LEMMA TidyBefore ==
  ASSUME TypeOK, [Next]_vars, Tidy'
  PROVE  Tidy
BY DEF Next, vars, Connect, ConnectFails, ProcessConnect, Disconnect, Start,
       LoopGoesOn, RegisterRecv, Issue, ReadDone, HandleRead, ReadFails, HandleAbort,
       Tidy, TypeOK, history

LEMMA LoopStep ==
  ASSUME TypeOK, OneLoop, AbortInv, [Next]_vars
  PROVE  OneLoop' /\ AbortInv'
<1>. SUFFICES ASSUME Tidy'
              PROVE  /\ \A l, m \in Loops : pc'[l] # "none" /\ pc'[m] # "none" => l = m
                     /\ \A l \in Loops : pc'[l] = "aborted" => ~connected'
  BY DEF OneLoop, AbortInv
<1>0. /\ \A l, m \in Loops : pc[l] # "none" /\ pc[m] # "none" => l = m
      /\ \A l \in Loops : pc[l] = "aborted" => ~connected
  BY TidyBefore DEF OneLoop, AbortInv
<1>. USE DEF TypeOK
<1>1. CASE UNCHANGED vars
  BY <1>0, <1>1 DEF vars
<1>2. CASE Connect \/ ConnectFails \/ Disconnect
  BY <1>0, <1>2 DEF Connect, ConnectFails, Disconnect
<1>3. CASE ProcessConnect
  <2>1. Quiet
    BY <1>3 DEF ProcessConnect, Tidy
  <2>. QED  BY <1>3, <2>1 DEF ProcessConnect, Begin, Quiet
<1>4. CASE Start
  BY <1>4 DEF Start, Tidy
<1>5. ASSUME NEW l \in Loops,
             \/ RegisterRecv(l) \/ Issue(l) \/ ReadDone(l) \/ HandleRead(l)
             \/ ReadFails(l) \/ HandleAbort(l)
      PROVE  /\ \A k, m \in Loops : pc'[k] # "none" /\ pc'[m] # "none" => k = m
             /\ \A k \in Loops : pc'[k] = "aborted" => ~connected'
  <2>1. \A m \in Loops : pc'[m] # "none" => pc[m] # "none"
    BY <1>5 DEF RegisterRecv, Issue, ReadDone, HandleRead, ReadFails, HandleAbort, Closed
  <2>2. \A m \in Loops : pc'[m] = "aborted" => ~connected'
    BY <1>0, <1>5 DEF RegisterRecv, Issue, ReadDone, HandleRead, ReadFails, HandleAbort,
                      Closed, link
  <2>. QED  BY <1>0, <2>1, <2>2
<1>. QED  BY <1>1, <1>2, <1>3, <1>4, <1>5 DEF Next, LoopGoesOn

LEMMA WelcomeStep ==
  ASSUME TypeOK, WelcomeInv, [Next]_vars
  PROVE  WelcomeInv'
<1>. SUFFICES ASSUME connected' PROVE \E l \in Loops : Welcome(l)'
  BY DEF WelcomeInv
<1>. USE DEF TypeOK, WelcomeInv, Welcome
<1>1. CASE UNCHANGED vars
  BY <1>1 DEF vars
<1>2. CASE Connect \/ ConnectFails \/ Disconnect
  BY <1>2 DEF Connect, ConnectFails, Disconnect
<1>3. CASE ProcessConnect
  BY <1>3 DEF ProcessConnect, Begin
<1>4. CASE Start
  BY <1>4 DEF Start, Begin, link
<1>5. ASSUME NEW l \in Loops, RegisterRecv(l) PROVE \E m \in Loops : Welcome(m)'
  BY <1>5 DEF RegisterRecv, link
<1>6. ASSUME NEW l \in Loops, Issue(l) PROVE \E m \in Loops : Welcome(m)'
  <2>1. FreeSize(buf) \in 0 .. Capacity
    BY BufferFact
  <2>2. Welcome(l)'
    BY <1>6, <2>1, CapacityFact DEF Issue, link
  <2>. QED  BY <2>2
<1>7. ASSUME NEW l \in Loops, ReadDone(l) PROVE \E m \in Loops : Welcome(m)'
  <2>1. PICK n \in 1 .. window[l].size :
          /\ buf' = [buf EXCEPT !.cell = [i \in Cells |->
                       IF i \in window[l].at .. window[l].at + n - 1
                       THEN Byte(received + (i - window[l].at)) ELSE @[i]]]
          /\ window' = [window EXCEPT ![l].size = n]
    BY <1>7 DEF ReadDone
  <2>2. FreeSize(buf') = FreeSize(buf) /\ FreeSize(buf) \in 0 .. Capacity
    <3>1. buf'.writePos = buf.writePos
      BY <2>1, BufferFact
    <3>. QED  BY <3>1, BufferFact DEF FreeSize
  <2>3. PICK m \in Loops : Welcome(m)
    BY <1>7 DEF ReadDone, link
  <2>4. FreeSize(buf)' = FreeSize(buf)
    BY <2>2 DEF FreeSize
  <2>5. window'[m].size <= window[m].size
    BY <2>1, CapacityFact
  <2>6. window'[m].size \in Nat /\ window[m].size \in Nat
    BY <2>1, CapacityFact
  <2>7. Welcome(m)'
    BY <1>7, <2>2, <2>3, <2>4, <2>5, <2>6, CapacityFact DEF ReadDone
  <2>. QED  BY <2>7
<1>8. ASSUME NEW l \in Loops, HandleRead(l) PROVE \E m \in Loops : Welcome(m)'
  <2>1. CASE MayWrite(buf, window[l].size)
    <3>1. pc'[l] = "register"
      BY <1>8, <2>1 DEF HandleRead
    <3>. QED  BY <3>1
  <2>2. CASE ~MayWrite(buf, window[l].size)
    <3>1. PICK m \in Loops : Welcome(m)
      BY <1>8 DEF HandleRead, link
    <3>2. m # l
      BY <1>8, <2>2, <3>1 DEF HandleRead, MayWrite
    <3>3. pc'[m] = pc[m] /\ window'[m] = window[m] /\ buf' = buf
      BY <1>8, <2>2, <3>2 DEF HandleRead
    <3>4. Welcome(m)'
      BY <3>1, <3>3 DEF FreeSize
    <3>. QED  BY <3>4
  <2>. QED  BY <2>1, <2>2
<1>9. ASSUME NEW l \in Loops, ReadFails(l) \/ HandleAbort(l) PROVE FALSE
  BY <1>9 DEF ReadFails, HandleAbort, Closed, link
<1>. QED
  BY <1>1, <1>2, <1>3, <1>4, <1>5, <1>6, <1>7, <1>8, <1>9 DEF Next, LoopGoesOn

\* What the one read brings continues what is unread.
LEMMA ReadDoneFrames ==
  ASSUME TypeOK, OneLoop, FrameInv, Tidy, NEW l \in Loops, ReadDone(l)
  PROVE  FrameInv'
<1>. USE DEF TypeOK
<1>1. PICK n \in 1 .. window[l].size :
        /\ received' = received + n
        /\ buf' = [buf EXCEPT !.cell = [i \in Cells |->
                     IF i \in window[l].at .. window[l].at + n - 1
                     THEN Byte(received + (i - window[l].at)) ELSE @[i]]]
        /\ window' = [window EXCEPT ![l].size = n]
  BY DEF ReadDone
<1>2. /\ ~misread /\ pc[l] = "reading"
      /\ pc' = [pc EXCEPT ![l] = "done"] /\ connection' = connection
  BY DEF ReadDone, link
<1>3. \A m \in Loops : m # l => pc[m] = "none"
  BY <1>2 DEF OneLoop
<1>4. /\ Last(buf, buf.writePos) /\ DataSize(buf) = received % 2
      /\ window[l].at = buf.writePos /\ window[l].size <= FreeSize(buf)
  BY <1>2, <1>3 DEF FrameInv
<1>5. n \in Nat /\ n >= 1 /\ n <= FreeSize(buf) /\ buf.writePos + n <= Capacity
  <2>1. n \in Nat /\ n >= 1 /\ n <= window[l].size /\ window[l].size \in Nat
    BY CapacityFact
  <2>. QED  BY <1>4, <2>1, BufferFact, CapacityFact DEF FreeSize
<1>6. /\ buf'.readPos = buf.readPos /\ buf'.writePos = buf.writePos
      /\ \A i \in Cells : buf'.cell[i] = IF i \in buf.writePos .. buf.writePos + n - 1
                                        THEN Byte(received + (i - buf.writePos))
                                        ELSE buf.cell[i]
  BY <1>1, <1>4, BufferFact
<1>7. \A k : Byte(k)' = Byte(k)
  BY <1>2 DEF Byte
<1>8. Last(buf, buf.writePos + n)'
  <2>1. ASSUME NEW i \in buf.readPos .. (buf.writePos + n) - 1
        PROVE  buf'.cell[i] = Byte((received + n) - ((buf.writePos + n) - i))
    <3>1. i \in Cells
      BY <1>5, BufferFact, CapacityFact DEF Cells
    <3>2. CASE i \in buf.writePos .. buf.writePos + n - 1
      <4>1. received + (i - buf.writePos) = (received + n) - ((buf.writePos + n) - i)
        BY <1>5, BufferFact
      <4>. QED  BY <1>6, <3>1, <3>2, <4>1
    <3>3. CASE ~(i \in buf.writePos .. buf.writePos + n - 1)
      <4>1. i \in buf.readPos .. buf.writePos - 1
        BY <1>5, <3>3, BufferFact
      <4>2. buf.cell[i] = Byte(received - (buf.writePos - i))
        BY <1>4, <4>1 DEF Last
      <4>3. received - (buf.writePos - i) = (received + n) - ((buf.writePos + n) - i)
        BY <1>5, <4>1, BufferFact
      <4>. QED  BY <1>6, <3>1, <3>3, <4>2, <4>3
    <3>. QED  BY <3>2, <3>3
  <2>. QED  BY <1>1, <1>6, <1>7, <2>1 DEF Last
<1>9. /\ DataSize(buf') = DataSize(buf) /\ FreeSize(buf') = FreeSize(buf)
      /\ received' - n = received
      /\ n \in 1 .. received'
  BY <1>1, <1>5, <1>6 DEF DataSize, FreeSize
<1>10. pc'[l] = "done" /\ \A m \in Loops : m # l => pc'[m] = "none"
  BY <1>2, <1>3
<1>11. window'[l].at = buf'.writePos /\ window'[l].size = n
  BY <1>1, <1>4, <1>6
<1>12. (DataSize(buf) = received % 2)
  BY <1>4
<1>. QED
  <2>1. /\ window'[l].at = buf'.writePos /\ window'[l].size <= FreeSize(buf')
        /\ window'[l].size \in 1 .. received'
        /\ DataSize(buf') = (received' - window'[l].size) % 2
    BY <1>5, <1>9, <1>11, <1>12
  <2>2. Last(buf, buf.writePos + window[l].size)'
    BY <1>8, <1>11
  <2>3. DataSize(buf)' = DataSize(buf') /\ FreeSize(buf)' = FreeSize(buf')
    BY DEF DataSize, FreeSize
  <2>. QED  BY <1>10, <2>1, <2>2, <2>3 DEF FrameInv

\* Clean keeps the last bytes received, when at most one is unread.
LEMMA CleanKeepsLast ==
  ASSUME NEW b \in Buffers, Last(b, b.writePos), DataSize(b) <= 1
  PROVE  /\ Last(Clean(b), Clean(b).writePos)
         /\ DataSize(Clean(b)) = DataSize(b)
<1>1. CASE DataSize(b) = 0
  <2>1. Clean(b).readPos = 0 /\ Clean(b).writePos = 0
    BY <1>1 DEF Clean, Rewind
  <2>. QED  BY <1>1, <2>1 DEF Last, DataSize
<1>2. CASE DataSize(b) # 0 /\ ~CopiesInClean(b)
  BY <1>2 DEF Clean
<1>3. CASE DataSize(b) # 0 /\ CopiesInClean(b)
  <2>1. DataSize(b) = 1 /\ b.writePos = b.readPos + 1
    BY <1>3, BufferFact DEF DataSize
  <2>2. CopyIsDefined(b)
    BY <1>3, <2>1, BufferFact, CapacityFact DEF CopiesInClean, CopyIsDefined, FreeSize
  <2>3. Clean(b) = MoveToFront(b)
    BY <1>3 DEF Clean
  <2>4. /\ Clean(b).readPos = 0 /\ Clean(b).writePos = 1
        /\ Clean(b).cell[0] = b.cell[b.readPos]
    <3>1. 0 \in Cells
      BY CapacityFact DEF Cells
    <3>. QED  BY <2>1, <2>2, <2>3, <3>1, BufferFact DEF MoveToFront
  <2>5. b.cell[b.readPos] = Byte(received - 1)
    <3>1. b.readPos \in b.readPos .. b.writePos - 1 /\ b.writePos - b.readPos = 1
      BY <2>1, BufferFact
    <3>. QED  BY <3>1 DEF Last
  <2>6. \A i \in 0 .. 1 - 1 : i = 0 /\ 1 - i = 1
    OBVIOUS
  <2>7. Last(Clean(b), Clean(b).writePos)
    BY <2>4, <2>5, <2>6 DEF Last
  <2>8. DataSize(Clean(b)) = DataSize(b)
    BY <2>1, <2>4 DEF DataSize
  <2>. QED  BY <2>7, <2>8
<1>. QED  BY <1>1, <1>2, <1>3, BufferFact

\* The one loop finds packets, and leaves at most a half of one.
LEMMA HandleReadFrames ==
  ASSUME TypeOK, OneLoop, FrameInv, Tidy, NEW l \in Loops, HandleRead(l)
  PROVE  FrameInv' /\ ~misread'
<1>. USE DEF TypeOK
<1>. DEFINE n == window[l].size
            b == OnWrite(buf, n)
            c == OnRead(b, DataSize(b) - (DataSize(b) % 2))
<1>1. /\ ~misread /\ pc[l] = "done"
      /\ connection' = connection /\ received' = received
  BY DEF HandleRead, link
<1>2. \A m \in Loops : m # l => pc[m] = "none"
  BY <1>1 DEF OneLoop
<1>3. /\ n <= FreeSize(buf) /\ n \in 1 .. received
      /\ Last(buf, buf.writePos + n)
      /\ DataSize(buf) = (received - n) % 2
  BY <1>1 DEF FrameInv
<1>4. n \in Nat /\ n >= 1 /\ MayWrite(buf, n) /\ received - n \in Nat /\ received \in Nat
  BY <1>3 DEF MayWrite
<1>5. /\ pc' = [pc EXCEPT ![l] = "register"]
      /\ misread' = ~Framed(b) /\ buf' = Clean(c)
  BY <1>4, Zenon DEF HandleRead
<1>6. /\ b.readPos = buf.readPos /\ b.writePos = buf.writePos + n /\ b.cell = buf.cell
      /\ DataSize(b) = DataSize(buf) + n /\ DataSize(b) \in Nat
  <2>1. 0 <= DataSize(buf) + n
    BY <1>4, BufferFact
  <2>. QED  BY <1>4, <2>1, BufferFact, AdvanceFact
<1>7. DataSize(b) % 2 = received % 2 /\ DataSize(b) % 2 \in {0, 1} /\ DataSize(b) % 2 <= DataSize(b)
  <2>1. (((received - n) % 2) + n) % 2 = ((received - n) + n) % 2
    BY <1>4, Halves
  <2>2. (received - n) + n = received
    BY <1>4
  <2>3. DataSize(b) % 2 = received % 2
    BY <1>3, <1>6, <2>1, <2>2
  <2>. QED  BY <1>6, <2>3, Halves
<1>8. Framed(b)
  <2>. DEFINE first == received - n - DataSize(buf)
  <2>1. first \in Nat /\ first % 2 = 0
    BY <1>3, <1>4, Halves
  <2>2. PICK m \in Nat : \A k \in Int : Byte(k) = m + m + k
    BY ByteFact
  <2>3. \A i \in b.readPos .. b.writePos - 1 :
          b.cell[i] = m + m + first + (i - b.readPos)
    <3>1. ASSUME NEW i \in b.readPos .. b.writePos - 1
          PROVE  b.cell[i] = m + m + first + (i - b.readPos)
      <4>1. buf.cell[i] = Byte(received - ((buf.writePos + n) - i))
        BY <1>3, <1>6 DEF Last
      <4>2. /\ received - ((buf.writePos + n) - i) \in Int
            /\ received - ((buf.writePos + n) - i) = first + (i - buf.readPos)
        BY <1>4, <1>6, BufferFact DEF DataSize
      <4>. QED  BY <1>6, <2>1, <2>2, <4>1, <4>2, BufferFact
    <3>. QED  BY <3>1
  <2>4. (m + m + first) % 2 = 0 /\ m + m + first >= 0 /\ m + m + first \in Nat
    BY <2>1, <2>2
  <2>. HIDE DEF first, b
  <2>5. b.readPos \in Nat /\ b.writePos \in Nat
    BY <1>4, <1>6, BufferFact
  <2>6. ASSUME NEW i \in b.readPos .. b.writePos - 1
        PROVE  IF i = b.readPos THEN b.cell[i] # NoByte /\ b.cell[i] % 2 = 0
               ELSE b.cell[i] = b.cell[i - 1] + 1
    <3>1. CASE i = b.readPos
      <4>1. b.cell[i] = m + m + first
        BY <2>3, <2>4, <2>5, <3>1
      <4>. QED  BY <2>4, <3>1, <4>1 DEF NoByte
    <3>2. CASE i # b.readPos
      <4>1. i - 1 \in b.readPos .. b.writePos - 1 /\ i \in Int
        BY <2>5, <3>2
      <4>. QED  BY <2>3, <2>4, <2>5, <3>2, <4>1
    <3>. QED  BY <3>1, <3>2
  <2>. QED  BY <2>6 DEF Framed
<1>9. /\ c \in Buffers /\ c.writePos = buf.writePos + n /\ c.cell = buf.cell
      /\ DataSize(c) = received % 2
      /\ c.readPos >= buf.readPos /\ c.readPos \in Nat
  <2>. DEFINE k == DataSize(b) - (DataSize(b) % 2)
  <2>1. k \in Nat /\ k <= DataSize(buf) + n /\ DataSize(buf) + n - k = received % 2
    <3>1. \A d, m, s, q \in Nat :
            s = d + m /\ q <= s =>
              s - q \in Nat /\ s - q <= d + m /\ d + m - (s - q) = q
      OBVIOUS
    <3>2. /\ DataSize(buf) \in Nat /\ n \in Nat /\ DataSize(b) \in Nat
          /\ DataSize(b) % 2 \in Nat /\ DataSize(b) % 2 <= DataSize(b)
          /\ DataSize(b) = DataSize(buf) + n /\ DataSize(b) % 2 = received % 2
      BY <1>4, <1>6, <1>7, BufferFact
    <3>. HIDE DEF b
    <3>3. k \in Nat /\ k <= DataSize(buf) + n /\ DataSize(buf) + n - k = DataSize(b) % 2
      BY <3>1, <3>2
    <3>. QED  BY <3>2, <3>3
  <2>2. /\ c = [readPos |-> buf.readPos + k, writePos |-> buf.writePos + n,
                cell |-> buf.cell]
        /\ c \in Buffers /\ DataSize(c) = DataSize(buf) + n - k
    BY <1>4, <2>1, AdvanceFact
  <2>. HIDE DEF k
  <2>3. c.readPos = buf.readPos + k /\ c.writePos = buf.writePos + n /\ c.cell = buf.cell
    BY <2>2
  <2>. QED  BY <2>1, <2>2, <2>3, BufferFact
<1>. HIDE DEF c, b
<1>10. Last(c, c.writePos)
  <2>1. ASSUME NEW i \in c.readPos .. c.writePos - 1
        PROVE  c.cell[i] = Byte(received - (c.writePos - i))
    <3>1. i \in buf.readPos .. (buf.writePos + n) - 1
      BY <1>4, <1>9, BufferFact
    <3>. QED  BY <1>3, <1>9, <3>1 DEF Last
  <2>. QED  BY <2>1 DEF Last
<1>11. Last(Clean(c), Clean(c).writePos) /\ DataSize(Clean(c)) = received % 2
  <2>1. DataSize(c) <= 1
    BY <1>4, <1>7, <1>9
  <2>. QED  BY <1>9, <1>10, <2>1, CleanKeepsLast
<1>12. Last(buf, buf.writePos)' /\ DataSize(buf)' = received' % 2
  <2>1. \A k : Byte(k)' = Byte(k)
    BY <1>1 DEF Byte
  <2>. QED  BY <1>1, <1>5, <1>11, <2>1 DEF Last, DataSize
<1>13. \A m \in Loops : pc'[m] \notin {"reading", "done"}
  BY <1>2, <1>5
<1>. QED  BY <1>5, <1>8, <1>12, <1>13 DEF FrameInv

LEMMA FrameStep ==
  ASSUME IInv, [Next]_vars
  PROVE  FrameInv' /\ OnlyReuseHarms'
<1>. USE DEF IInv, TypeOK
<1>1. SUFFICES ASSUME Tidy' PROVE FrameInv' /\ ~misread' /\ ~wronged'
  BY DEF FrameInv, OnlyReuseHarms
<1>2. Tidy /\ ~misread /\ ~wronged
  BY <1>1, TidyBefore DEF OnlyReuseHarms
<1>3. \A k, m \in Loops : pc[k] # "none" /\ pc[m] # "none" => k = m
  BY <1>2 DEF OneLoop
<1>4. CASE UNCHANGED vars
  BY <1>2, <1>4 DEF vars, FrameInv, Last, Byte, DataSize, FreeSize, Tidy
<1>5. CASE Connect \/ ConnectFails \/ Disconnect
  BY <1>2, <1>5 DEF Connect, ConnectFails, Disconnect, FrameInv, Last, Byte, DataSize,
                    FreeSize, Tidy, history
<1>6. CASE ProcessConnect
  <2>1. Quiet /\ DataSize(buf) = 0 /\ received' = 0 /\ buf' = buf /\ ~misread' /\ ~wronged'
    BY <1>1, <1>2, <1>6, Zenon DEF ProcessConnect, Tidy
  <2>2. \A l \in Loops : pc'[l] \in {"none", "register"}
    BY <1>6, <2>1 DEF ProcessConnect, Begin, Quiet
  <2>3. Last(buf, buf.writePos)'
    BY <2>1, BufferFact DEF Last, DataSize
  <2>4. DataSize(buf)' = received' % 2
    BY <2>1 DEF DataSize
  <2>. QED  BY <2>1, <2>2, <2>3, <2>4 DEF FrameInv
<1>7. CASE Start
  BY <1>1, <1>7 DEF Start, Tidy
<1>8. ASSUME NEW l \in Loops,
             RegisterRecv(l) \/ ReadFails(l) \/ HandleAbort(l)
      PROVE  FrameInv' /\ ~misread' /\ ~wronged'
  <2>1. ~misread' /\ ~wronged'
    <3>1. CASE RegisterRecv(l) \/ ReadFails(l)
      BY <1>2, <3>1 DEF RegisterRecv, ReadFails, history
    <3>2. CASE HandleAbort(l)
      BY <1>2, <3>2 DEF HandleAbort, AbortInv
    <3>. QED  BY <1>8, <3>1, <3>2
  <2>2. /\ UNCHANGED <<connection, window, buf, received>>
        /\ \A m \in Loops : /\ pc'[m] \in {"reading", "done"} => pc'[m] = pc[m]
                            /\ pc[m] = "done" => pc'[m] = "done"
    BY <1>8 DEF RegisterRecv, ReadFails, HandleAbort, Closed, link
  <2>. QED  BY <1>2, <2>1, <2>2 DEF FrameInv, Last, Byte, DataSize, FreeSize
<1>9. ASSUME NEW l \in Loops, Issue(l) PROVE FrameInv' /\ ~misread' /\ ~wronged'
  <2>1. /\ UNCHANGED <<connection, buf, received, misread, wronged>>
        /\ \A m \in Loops : m # l => pc[m] = "none" /\ pc'[m] = "none"
        /\ pc[l] # "done" /\ pc'[l] # "done"
        /\ window'[l] = [at |-> buf.writePos, size |-> FreeSize(buf)]
    BY <1>3, <1>9 DEF Issue, link, history
  <2>2. Last(buf, buf.writePos)' /\ DataSize(buf)' = received' % 2
    BY <1>2, <2>1 DEF FrameInv, Last, Byte, DataSize
  <2>3. window'[l].at = buf'.writePos /\ window'[l].size <= FreeSize(buf)'
    BY <2>1, BufferFact DEF FreeSize
  <2>. QED  BY <1>2, <2>1, <2>2, <2>3 DEF FrameInv
<1>10. ASSUME NEW l \in Loops, ReadDone(l) PROVE FrameInv' /\ ~misread' /\ ~wronged'
  BY <1>2, <1>10, ReadDoneFrames DEF ReadDone, history
<1>11. ASSUME NEW l \in Loops, HandleRead(l) PROVE FrameInv' /\ ~misread' /\ ~wronged'
  BY <1>2, <1>11, HandleReadFrames DEF HandleRead, history
<1>. QED
  BY <1>4, <1>5, <1>6, <1>7, <1>8, <1>9, <1>10, <1>11 DEF Next, LoopGoesOn

LEMMA Invariance == Spec => []IInv
<1>1. IInv /\ [Next]_vars => IInv'
  BY TypeStep, LoopStep, WelcomeStep, FrameStep DEF IInv
<1>. QED  BY <1>1, InitInv, PTL DEF Spec

(***************************************************************************)
(* The theorems.                                                           *)
(***************************************************************************)

\* The type invariant: the positions of the buffer and the windows of the reads
\* stay inside it, whatever the loops do to each other.
THEOREM TypeCorrect == Spec => []TypeOK
<1>1. IInv => TypeOK
  BY DEF IInv
<1>. QED  BY <1>1, Invariance, PTL

\* A session that is connected again only when its loop is over and its buffer
\* empty, and whose Start is left alone, has one receive loop
\* (Session.cpp:20, :118, :181).
THEOREM LoopsDoNotMeet == Spec => []OneLoop
<1>1. IInv => OneLoop
  BY DEF IInv
<1>. QED  BY <1>1, Invariance, PTL

\* Then every packet is read from its beginning, and no connection is ended by the
\* abort of an earlier one's read (Session.cpp:123, :181).
THEOREM TidySessionsAreSafe == Spec => []OnlyReuseHarms
<1>1. IInv => OnlyReuseHarms
  BY DEF IInv
<1>. QED  BY <1>1, Invariance, PTL

\* However it is used, a connected session has a loop left (Session.cpp:107).
THEOREM ConnectedHears == Spec => []NeverDeaf
<1>1. IInv => NeverDeaf
  BY DEF IInv, WelcomeInv, Welcome, NeverDeaf, Quiet
<1>. QED  BY <1>1, Invariance, PTL

=============================================================================

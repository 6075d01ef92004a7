--------------------------- MODULE SendPathProofs ---------------------------
(***************************************************************************)
(* Proofs about SendPath, for any set of threads and any bounds.           *)
(***************************************************************************)
EXTENDS SendPath, SequenceTheorems, TLAPS

(***************************************************************************)
(* Types.                                                                  *)
(***************************************************************************)

\* Handing over the first n buffers of a write keeps the wire a sequence.
LEMMA WirePrefixType ==
  ASSUME NEW w \in Seq(Nat), NEW b \in Seq(Nat), NEW n \in 0 .. Len(b)
  PROVE  w \o SubSeq(b, 1, n) \in Seq(Nat)
<1>1. n \in Int /\ Len(b) \in Nat
  BY LenProperties
<1>2. \A i \in 1 .. n : b[i] \in Nat
  BY <1>1, ElementOfSeq
<1>3. SubSeq(b, 1, n) \in Seq(Nat)
  BY <1>1, <1>2, SubSeqProperties
<1>. QED
  BY <1>3, ConcatProperties

\* Every variable keeps its type, whatever the interleaving.
THEOREM TypeCorrect == Spec => []TypeOK
<1>. USE SendPathAssumption DEF TypeOK, Locations, Goto
<1>1. Init => TypeOK
  <2>. SUFFICES ASSUME Init PROVE TypeOK
    OBVIOUS
  <2>1. writes \subseteq [buffers : Seq(Nat), conn : Nat]
    BY DEF Init
  <2>2. /\ << >> \in Seq(Nat)
        /\ pc \in [Threads -> Locations]
    BY EmptySeq DEF Init
  <2>3. batch \in [Threads -> Seq(Nat)]
    BY <2>2 DEF Init
  <2>. QED
    BY <2>1, <2>2, <2>3 DEF Init
<1>2. TypeOK /\ [Next]_vars => TypeOK'
  <2>. SUFFICES ASSUME TypeOK, [Next]_vars
                PROVE  TypeOK'
    OBVIOUS
  <2>1. ASSUME NEW t \in Threads, Send(t)
        PROVE  TypeOK'
    BY <2>1 DEF Send
  <2>2. ASSUME NEW t \in Threads, Enqueue(t)
        PROVE  TypeOK'
    <3>1. sendQueue' \in Seq(Nat)
      BY <2>2, AppendProperties DEF Enqueue
    <3>. QED
      BY <2>2, <3>1 DEF Enqueue
  <2>3. ASSUME NEW t \in Threads, RegisterSend(t)
        PROVE  TypeOK'
    BY <2>3 DEF RegisterSend
  <2>4. ASSUME NEW t \in Threads, Drain(t)
        PROVE  TypeOK'
    BY <2>4 DEF Drain
  <2>5. ASSUME NEW t \in Threads, IssueWrite(t)
        PROVE  TypeOK'
    BY <2>5 DEF IssueWrite
  <2>6. ASSUME NEW t \in Threads, WriteDone(t)
        PROVE  TypeOK'
    <3>1. PICK w \in writes : \E n \in 0 .. Len(w.buffers) :
                 wire' = wire \o SubSeq(w.buffers, 1, n)
      BY <2>6 DEF WriteDone
    <3>2. w.buffers \in Seq(Nat)
      OBVIOUS
    <3>3. wire' \in Seq(Nat)
      BY <3>1, <3>2, WirePrefixType
    <3>. QED
      BY <2>6, <3>3 DEF WriteDone
  <2>7. ASSUME NEW t \in Threads, WriteFailed(t)
        PROVE  TypeOK'
    BY <2>7 DEF WriteFailed
  <2>8. ASSUME NEW t \in Threads, ProcessSend(t)
        PROVE  TypeOK'
    BY <2>8 DEF ProcessSend
  <2>9. ASSUME NEW t \in Threads, Settle(t)
        PROVE  TypeOK'
    BY <2>9 DEF Settle
  <2>10. ASSUME NEW t \in Threads, Resend(t)
         PROVE  TypeOK'
    BY <2>10 DEF Resend
  <2>11. ASSUME NEW t \in Threads, Relock(t)
         PROVE  TypeOK'
    BY <2>11 DEF Relock
  <2>12. ASSUME NEW t \in Threads, Disconnect(t)
         PROVE  TypeOK'
    BY <2>12 DEF Disconnect
  <2>13. ASSUME NEW t \in Threads, CloseSocket(t)
         PROVE  TypeOK'
    BY <2>13 DEF CloseSocket
  <2>14. ASSUME NEW t \in Threads, Connect(t)
         PROVE  TypeOK'
    BY <2>14 DEF Connect
  <2>15. ASSUME NEW t \in Threads, ConnectDone(t)
         PROVE  TypeOK'
    <3>1. connects' \in Nat
      BY <2>15 DEF ConnectDone
    <3>2. connected' \in BOOLEAN
      BY <2>15, Zenon DEF ConnectDone
    <3>3. socket' \in {"closed", "connecting", "open"}
      BY <2>15 DEF ConnectDone
    <3>. QED
      BY <2>15, <3>1, <3>2, <3>3 DEF ConnectDone
  <2>16. CASE UNCHANGED vars
    BY <2>16 DEF vars
  <2>. QED
    BY <2>1, <2>2, <2>3, <2>4, <2>5, <2>6, <2>7, <2>8, <2>9, <2>10, <2>11,
       <2>12, <2>13, <2>14, <2>15, <2>16 DEF Next
<1>. QED
  BY <1>1, <1>2, PTL DEF Spec

(***************************************************************************)
(* One send operation at a time.  _sendRegistered is a token: Send takes   *)
(* it, the write it issues carries it, and ProcessSend gives it back or    *)
(* goes on with it.  SingleSender alone is not inductive: that a thread    *)
(* on its way to the drain finds a buffer, that buffers wait only while    *)
(* the token is out, and which thread holds the lock all depend on it and  *)
(* it on them.                                                             *)
(***************************************************************************)
LockInv ==
  \A t \in Threads :
    sendLock = t <=> pc[t] \in {"resend", "relock", "blocked"}

IInv == SingleSender /\ NoLostWakeup /\ NeverDrainsNothing /\ LockInv

\* The send protocol is sound for every number of threads: one send operation
\* at a time, no buffer left behind while the flag is clear, no drain of an
\* empty queue.
LEMMA SendInvariant == Spec => []IInv
<1>. USE SendPathAssumption DEF Goto
<1>1. Init => IInv
  BY DEF Init, IInv, SingleSender, NoLostWakeup, NeverDrainsNothing, LockInv,
         Sending
<1>2. TypeOK /\ IInv /\ [Next]_vars => IInv'
  <2>. SUFFICES ASSUME TypeOK, IInv, [Next]_vars
                PROVE  IInv'
    OBVIOUS
  <2>. USE DEF TypeOK, Locations, IInv, SingleSender, NoLostWakeup,
               NeverDrainsNothing, LockInv, Sending
  <2>1. ASSUME NEW t \in Threads, Send(t)
        PROVE  IInv'
    BY <2>1 DEF Send
  <2>2. ASSUME NEW t \in Threads, Enqueue(t)
        PROVE  IInv'
    BY <2>2 DEF Enqueue
  <2>3. ASSUME NEW t \in Threads, RegisterSend(t)
        PROVE  IInv'
    BY <2>3 DEF RegisterSend
  <2>4. ASSUME NEW t \in Threads, Drain(t)
        PROVE  IInv'
    BY <2>4 DEF Drain
  <2>5. ASSUME NEW t \in Threads, IssueWrite(t)
        PROVE  IInv'
    BY <2>5 DEF IssueWrite
  <2>6. ASSUME NEW t \in Threads, WriteDone(t)
        PROVE  IInv'
    BY <2>6 DEF WriteDone
  <2>7. ASSUME NEW t \in Threads, WriteFailed(t)
        PROVE  IInv'
    BY <2>7 DEF WriteFailed
  <2>8. ASSUME NEW t \in Threads, ProcessSend(t)
        PROVE  IInv'
    BY <2>8 DEF ProcessSend
  <2>9. ASSUME NEW t \in Threads, Settle(t)
        PROVE  IInv'
    <3>1. CASE sendQueue = << >>
      <4>1. /\ pc' = [pc EXCEPT ![t] = "idle"]
            /\ UNCHANGED <<sendLock, sendQueue, writes>>
        BY <2>9, <3>1 DEF Settle
      <4>2. Sending' = {} /\ writes' = {}
        BY <2>9, <4>1 DEF Settle
      <4>. QED
        BY <2>9, <3>1, <4>1, <4>2 DEF Settle
    <3>2. CASE sendQueue # << >>
      <4>1. /\ pc' = [pc EXCEPT ![t] = "resend"]
            /\ sendLock' = t /\ sendLock = NoThread
            /\ UNCHANGED <<sendQueue, sendRegistered, writes>>
            /\ pc[t] = "settle"
        BY <2>9, <3>2 DEF Settle
      <4>2. Sending' = Sending
        BY <4>1
      <4>3. LockInv'
        BY <4>1
      <4>. QED
        BY <4>1, <4>2, <4>3
    <3>. QED
      BY <3>1, <3>2
  <2>10. ASSUME NEW t \in Threads, Resend(t)
        PROVE  IInv'
    BY <2>10 DEF Resend
  <2>11. ASSUME NEW t \in Threads, Relock(t)
        PROVE  IInv'
    BY <2>11 DEF Relock
  <2>12. ASSUME NEW t \in Threads, Disconnect(t)
        PROVE  IInv'
    BY <2>12 DEF Disconnect
  <2>13. ASSUME NEW t \in Threads, CloseSocket(t)
        PROVE  IInv'
    BY <2>13 DEF CloseSocket
  <2>14. ASSUME NEW t \in Threads, Connect(t)
        PROVE  IInv'
    BY <2>14 DEF Connect
  <2>15. ASSUME NEW t \in Threads, ConnectDone(t)
        PROVE  IInv'
    BY <2>15 DEF ConnectDone
  <2>16. CASE UNCHANGED vars
    BY <2>16 DEF vars
  <2>. QED
    BY <2>1, <2>2, <2>3, <2>4, <2>5, <2>6, <2>7, <2>8, <2>9, <2>10, <2>11,
       <2>12, <2>13, <2>14, <2>15, <2>16 DEF Next
<1>. QED
  BY <1>1, <1>2, TypeCorrect, PTL DEF Spec

\* The comment at Session.cpp:32 holds for every number of threads.
THEOREM OneSendAtATime == Spec => []SingleSender
BY SendInvariant, PTL DEF IInv

\* No buffer is left behind with the flag clear, for every number of threads.
THEOREM NoWakeupLost == Spec => []NoLostWakeup
BY SendInvariant, PTL DEF IInv

\* Lines 149-153 of Session.cpp are dead code, for every number of threads.
THEOREM DrainFindsBuffers == Spec => []NeverDrainsNothing
BY SendInvariant, PTL DEF IInv

(***************************************************************************)
(* Order.                                                                  *)
(***************************************************************************)

\* Appending a greater number.
LEMMA AscendingAppend ==
  ASSUME NEW s \in Seq(Nat), NEW e \in Nat, Ascending(s),
         \A i \in 1 .. Len(s) : s[i] < e
  PROVE  Ascending(Append(s, e))
<1>1. /\ Len(Append(s, e)) = Len(s) + 1
      /\ \A i \in 1 .. Len(s) : Append(s, e)[i] = s[i]
      /\ Append(s, e)[Len(s) + 1] = e
  BY AppendProperties
<1>2. Len(s) \in Nat
  BY LenProperties
<1>. QED
  BY <1>1, <1>2 DEF Ascending

LEMMA BelowAppend ==
  ASSUME NEW s \in Seq(Nat), NEW r \in Seq(Nat), NEW e \in Nat,
         Below(r, s), \A i \in 1 .. Len(r) : r[i] < e
  PROVE  Below(r, Append(s, e))
<1>1. /\ Len(Append(s, e)) = Len(s) + 1
      /\ \A i \in 1 .. Len(s) : Append(s, e)[i] = s[i]
      /\ Append(s, e)[Len(s) + 1] = e
  BY AppendProperties
<1>2. Len(s) \in Nat
  BY LenProperties
<1>. QED
  BY <1>1, <1>2 DEF Below

\* What one element of the wire may be after a completed write.
LEMMA WirePrefix ==
  ASSUME NEW w \in Seq(Nat), NEW b \in Seq(Nat), NEW n \in 0 .. Len(b)
  PROVE  LET v == w \o SubSeq(b, 1, n)
         IN  /\ Len(v) = Len(w) + n
             /\ \A i \in 1 .. Len(w) : v[i] = w[i]
             /\ \A i \in Len(w) + 1 .. Len(w) + n : v[i] = b[i - Len(w)]
<1>1. n \in Nat /\ Len(b) \in Nat /\ Len(w) \in Nat
  BY LenProperties
<1>2. \A i \in 1 .. n : b[i] \in Nat
  BY <1>1, ElementOfSeq
<1>3. /\ SubSeq(b, 1, n) \in Seq(Nat)
      /\ Len(SubSeq(b, 1, n)) = n
      /\ \A i \in 1 .. n : SubSeq(b, 1, n)[i] = b[i]
  BY <1>1, <1>2, SubSeqProperties
<1>4. /\ Len(w \o SubSeq(b, 1, n)) = Len(w) + n
      /\ \A i \in 1 .. Len(w) + n :
           (w \o SubSeq(b, 1, n))[i] =
             IF i <= Len(w) THEN w[i] ELSE SubSeq(b, 1, n)[i - Len(w)]
  BY <1>3, ConcatProperties
<1>. QED
  BY <1>1, <1>3, <1>4

LEMMA WireGrowsInOrder ==
  ASSUME NEW w \in Seq(Nat), NEW b \in Seq(Nat), NEW q \in Seq(Nat),
         NEW n \in 0 .. Len(b),
         Ascending(w), Ascending(b), Below(w, b), Below(w, q), Below(b, q)
  PROVE  /\ Ascending(w \o SubSeq(b, 1, n))
         /\ Below(w \o SubSeq(b, 1, n), q)
<1>. DEFINE v == w \o SubSeq(b, 1, n)
<1>1. n \in Nat /\ Len(b) \in Nat /\ Len(w) \in Nat
  BY LenProperties
<1>2. /\ Len(v) = Len(w) + n
      /\ \A i \in 1 .. Len(w) : v[i] = w[i]
      /\ \A i \in Len(w) + 1 .. Len(w) + n : v[i] = b[i - Len(w)]
  BY WirePrefix
<1>. HIDE DEF v
<1>3. Ascending(v)
  <2>. SUFFICES ASSUME NEW i \in 1 .. Len(w) + n, NEW j \in 1 .. Len(w) + n,
                       i < j
                PROVE  v[i] < v[j]
    BY <1>2 DEF Ascending
  <2>. i \in Nat /\ j \in Nat
    BY <1>1
  <2>1. CASE j <= Len(w)
    <3>1. i \in 1 .. Len(w) /\ j \in 1 .. Len(w)
      BY <1>1, <2>1
    <3>. QED
      BY <1>2, <3>1 DEF Ascending
  <2>2. CASE i <= Len(w) /\ j > Len(w)
    <3>1. i \in 1 .. Len(w) /\ j \in Len(w) + 1 .. Len(w) + n
      BY <1>1, <2>2
    <3>2. j - Len(w) \in 1 .. Len(b)
      BY <1>1, <3>1
    <3>3. v[i] = w[i] /\ v[j] = b[j - Len(w)]
      BY <1>2, <3>1
    <3>. QED
      BY <3>1, <3>2, <3>3 DEF Below
  <2>3. CASE i > Len(w)
    <3>1. i \in Len(w) + 1 .. Len(w) + n /\ j \in Len(w) + 1 .. Len(w) + n
      BY <1>1, <2>3
    <3>2. /\ i - Len(w) \in 1 .. Len(b)
          /\ j - Len(w) \in 1 .. Len(b)
          /\ i - Len(w) < j - Len(w)
      BY <1>1, <3>1
    <3>3. v[i] = b[i - Len(w)] /\ v[j] = b[j - Len(w)]
      BY <1>2, <3>1
    <3>. QED
      BY <3>2, <3>3 DEF Ascending
  <2>. QED
    BY <1>1, <2>1, <2>2, <2>3
<1>4. Below(v, q)
  <2>. SUFFICES ASSUME NEW i \in 1 .. Len(w) + n, NEW j \in 1 .. Len(q)
                PROVE  v[i] < q[j]
    BY <1>2 DEF Below
  <2>. i \in Nat
    BY <1>1
  <2>1. CASE i <= Len(w)
    <3>1. i \in 1 .. Len(w)
      BY <1>1, <2>1
    <3>. QED
      BY <1>2, <3>1 DEF Below
  <2>2. CASE i > Len(w)
    <3>1. v[i] = b[i - Len(w)] /\ i - Len(w) \in 1 .. Len(b)
      BY <1>1, <1>2, <2>2
    <3>. QED
      BY <3>1 DEF Below
  <2>. QED
    BY <1>1, <2>1, <2>2
<1>. QED
  BY <1>3, <1>4 DEF v

AtMost(s, n) == \A i \in 1 .. Len(s) : s[i] <= n

\* InOrder is not inductive by itself: a new number is above all others, a
\* thread holds buffers only while it is about to write them, and there is
\* something in every write.
BatchInv ==
  /\ \A t \in Threads : pc[t] = "write" <=> batch[t] # << >>
  /\ \A w \in writes : w.buffers # << >>

BoundInv ==
  /\ AtMost(wire, pushed) /\ AtMost(sendQueue, pushed)
  /\ \A b \in InFlight : AtMost(b, pushed)

OrderInv == BatchInv /\ BoundInv /\ InOrder

\* Threads and writes hold sequences of numbers, and nothing is in flight
\* besides the one write while there is one.
LEMMA InFlightType == TypeOK => InFlight \subseteq Seq(Nat)
BY DEF TypeOK, InFlight

LEMMA OnlyWrite ==
  ASSUME TypeOK, IInv, BatchInv, NEW w \in writes
  PROVE  /\ writes = {w}
         /\ \A t \in Threads : batch[t] = << >>
BY DEF IInv, SingleSender, Sending, BatchInv

\* BatchInv is inductive relative to IInv.
LEMMA BatchInvariant ==
  /\ Init => BatchInv
  /\ TypeOK /\ IInv /\ BatchInv /\ [Next]_vars => BatchInv'
<1>1. Init => BatchInv
  BY DEF Init, BatchInv
<1>2. ASSUME TypeOK, IInv, BatchInv, [Next]_vars
      PROVE  BatchInv'
  <2>. USE <1>2 DEF TypeOK, Locations, BatchInv, Goto
  <2>1. ASSUME NEW t \in Threads,
               \/ Send(t) \/ Enqueue(t) \/ RegisterSend(t) \/ ProcessSend(t)
               \/ Settle(t) \/ Resend(t) \/ Relock(t) \/ CloseSocket(t)
        PROVE  BatchInv'
    BY <2>1 DEF Send, Enqueue, RegisterSend, ProcessSend, Settle, Resend,
                Relock, CloseSocket
  <2>2. ASSUME NEW t \in Threads, Drain(t)
        PROVE  BatchInv'
    BY <2>2 DEF Drain
  <2>3. ASSUME NEW t \in Threads, IssueWrite(t)
        PROVE  BatchInv'
    BY <2>3 DEF IssueWrite
  <2>4. ASSUME NEW t \in Threads, WriteDone(t)
        PROVE  BatchInv'
    BY <2>4 DEF WriteDone
  <2>5. ASSUME NEW t \in Threads, WriteFailed(t)
        PROVE  BatchInv'
    BY <2>5 DEF WriteFailed
  <2>6. ASSUME NEW t \in Threads, Disconnect(t) \/ Connect(t) \/ ConnectDone(t)
        PROVE  BatchInv'
    BY <2>6 DEF Disconnect, Connect, ConnectDone
  <2>7. CASE UNCHANGED vars
    BY <2>7 DEF vars
  <2>. QED
    BY <2>1, <2>2, <2>3, <2>4, <2>5, <2>6, <2>7 DEF Next
<1>. QED
  BY <1>1, <1>2

\* A step that pushes nothing, completes nothing and takes nothing from the
\* queue leaves the order alone.
LEMMA OrderUndisturbed ==
  ASSUME BoundInv, InOrder, UNCHANGED <<wire, sendQueue, pushed>>,
         InFlight' \subseteq InFlight \cup {<< >>}
  PROVE  BoundInv' /\ InOrder'
<1>1. /\ Ascending(<< >>)
      /\ \A s : Below(<< >>, s) /\ Below(s, << >>)
      /\ \A n : AtMost(<< >>, n)
  BY DEF Ascending, Below, AtMost
<1>2. /\ wire' = wire /\ sendQueue' = sendQueue /\ pushed' = pushed
  OBVIOUS
<1>3. BoundInv'
  <2>1. \A b \in InFlight' : AtMost(b, pushed)
    BY <1>1 DEF BoundInv
  <2>. QED
    BY <1>2, <2>1 DEF BoundInv, AtMost
<1>4. InOrder'
  <2>1. \A b \in InFlight' :
          Ascending(b) /\ Below(wire, b) /\ Below(b, sendQueue)
    BY <1>1 DEF InOrder
  <2>. QED
    BY <1>2, <2>1 DEF InOrder, Ascending, Below
<1>. QED
  BY <1>3, <1>4

LEMMA EnqueueOrder ==
  ASSUME TypeOK, BoundInv, InOrder, NEW t \in Threads, Enqueue(t)
  PROVE  BoundInv' /\ InOrder'
<1>. DEFINE e == pushed + 1
<1>1. /\ sendQueue' = Append(sendQueue, e) /\ pushed' = e /\ wire' = wire
      /\ InFlight' = InFlight
  BY DEF Enqueue, InFlight
<1>2. /\ e \in Nat /\ sendQueue \in Seq(Nat) /\ wire \in Seq(Nat)
      /\ InFlight \subseteq Seq(Nat)
  BY InFlightType DEF TypeOK
<1>3. ASSUME NEW s \in Seq(Nat), AtMost(s, pushed)
      PROVE  AtMost(s, e) /\ \A i \in 1 .. Len(s) : s[i] < e
  <2>1. \A i \in 1 .. Len(s) : s[i] \in Nat
    BY ElementOfSeq
  <2>. QED
    BY <1>3, <2>1 DEF AtMost, TypeOK
<1>4. AtMost(Append(sendQueue, e), e)
  <2>1. /\ Len(Append(sendQueue, e)) = Len(sendQueue) + 1
        /\ \A i \in 1 .. Len(sendQueue) : Append(sendQueue, e)[i] = sendQueue[i]
        /\ Append(sendQueue, e)[Len(sendQueue) + 1] = e
    BY <1>2, AppendProperties
  <2>2. AtMost(sendQueue, e) /\ Len(sendQueue) \in Nat
    BY <1>2, <1>3, LenProperties DEF BoundInv
  <2>. HIDE DEF e
  <2>. QED
    BY <1>2, <2>1, <2>2 DEF AtMost
<1>5. BoundInv'
  <2>1. AtMost(wire, e) /\ \A b \in InFlight : AtMost(b, e)
    BY <1>2, <1>3 DEF BoundInv
  <2>. HIDE DEF e
  <2>. QED
    BY <1>1, <1>4, <2>1 DEF BoundInv, AtMost
<1>6. InOrder'
  <2>1. Ascending(Append(sendQueue, e))
    BY <1>2, <1>3, AscendingAppend DEF InOrder, BoundInv
  <2>2. Below(wire, Append(sendQueue, e))
    BY <1>2, <1>3, BelowAppend DEF InOrder, BoundInv
  <2>3. \A b \in InFlight : Below(b, Append(sendQueue, e))
    BY <1>2, <1>3, BelowAppend DEF InOrder, BoundInv
  <2>. HIDE DEF e
  <2>. QED
    BY <1>1, <2>1, <2>2, <2>3 DEF InOrder, Ascending, Below
<1>. QED
  BY <1>5, <1>6

LEMMA DrainOrder ==
  ASSUME TypeOK, BoundInv, InOrder, NEW t \in Threads, Drain(t)
  PROVE  BoundInv' /\ InOrder'
<1>1. /\ sendQueue' = << >> /\ UNCHANGED <<pushed, wire>>
      /\ InFlight' \subseteq InFlight \cup {sendQueue}
  BY DEF Drain, InFlight, TypeOK
<1>2. /\ Ascending(<< >>)
      /\ \A s : Below(<< >>, s) /\ Below(s, << >>)
      /\ AtMost(<< >>, pushed)
  BY DEF Ascending, Below, AtMost
<1>3. BoundInv'
  <2>1. \A b \in InFlight' : AtMost(b, pushed)
    BY <1>1 DEF BoundInv
  <2>. QED
    BY <1>1, <1>2, <2>1 DEF BoundInv, AtMost
<1>4. InOrder'
  <2>1. \A b \in InFlight' : Ascending(b) /\ Below(wire, b)
    BY <1>1 DEF InOrder
  <2>. QED
    BY <1>1, <1>2, <2>1 DEF InOrder, Ascending, Below
<1>. QED
  BY <1>3, <1>4

LEMMA WriteDoneOrder ==
  ASSUME TypeOK, IInv, BatchInv, BoundInv, InOrder,
         NEW t \in Threads, WriteDone(t)
  PROVE  BoundInv' /\ InOrder'
<1>1. PICK w \in writes : \E n \in 0 .. Len(w.buffers) :
             /\ writes' = writes \ {w}
             /\ wire' = wire \o SubSeq(w.buffers, 1, n)
  BY DEF WriteDone
<1>2. PICK n \in 0 .. Len(w.buffers) :
             /\ writes' = writes \ {w}
             /\ wire' = wire \o SubSeq(w.buffers, 1, n)
  BY <1>1
<1>3. UNCHANGED <<sendQueue, pushed, batch>>
  BY DEF WriteDone
<1>4. InFlight' \subseteq {<< >>}
  BY <1>2, <1>3, OnlyWrite DEF InFlight
<1>5. /\ w.buffers \in InFlight /\ w.buffers \in Seq(Nat)
      /\ wire \in Seq(Nat) /\ sendQueue \in Seq(Nat) /\ pushed \in Nat
  BY DEF InFlight, TypeOK
<1>. DEFINE b == w.buffers
            v == wire \o SubSeq(b, 1, n)
<1>6. Ascending(v) /\ Below(v, sendQueue)
  <2>1. /\ Ascending(wire) /\ Ascending(b) /\ Below(wire, b)
        /\ Below(wire, sendQueue) /\ Below(b, sendQueue)
    BY <1>5 DEF InOrder
  <2>2. /\ b \in Seq(Nat) /\ wire \in Seq(Nat) /\ sendQueue \in Seq(Nat)
        /\ n \in 0 .. Len(b)
    BY <1>5
  <2>. HIDE DEF b
  <2>. QED
    BY <2>1, <2>2, WireGrowsInOrder
<1>7. AtMost(v, pushed)
  <2>1. AtMost(wire, pushed) /\ AtMost(b, pushed)
    BY <1>5 DEF BoundInv
  <2>2. /\ Len(v) = Len(wire) + n
        /\ \A i \in 1 .. Len(wire) : v[i] = wire[i]
        /\ \A i \in Len(wire) + 1 .. Len(wire) + n : v[i] = b[i - Len(wire)]
    BY <1>5, WirePrefix
  <2>3. Len(wire) \in Nat /\ Len(b) \in Nat /\ n \in 0 .. Len(b)
    BY <1>5, LenProperties
  <2>. HIDE DEF v, b
  <2>4. ASSUME NEW i \in 1 .. Len(v) PROVE v[i] <= pushed
    <3>1. CASE i <= Len(wire)
      <4>1. i \in 1 .. Len(wire)
        BY <2>2, <2>3, <3>1
      <4>. QED
        BY <2>1, <2>2, <4>1 DEF AtMost
    <3>2. CASE ~(i <= Len(wire))
      <4>1. i \in Len(wire) + 1 .. Len(wire) + n
        BY <2>2, <2>3, <3>2
      <4>2. i - Len(wire) \in 1 .. Len(b)
        BY <2>3, <4>1
      <4>3. v[i] = b[i - Len(wire)]
        BY <2>2, <4>1
      <4>. QED
        BY <2>1, <4>2, <4>3 DEF AtMost
    <3>. QED
      BY <3>1, <3>2
  <2>. QED
    BY <2>4 DEF AtMost
<1>8. /\ Ascending(<< >>) /\ AtMost(<< >>, pushed)
      /\ \A s : Below(<< >>, s) /\ Below(s, << >>)
  BY DEF Ascending, Below, AtMost
<1>9. wire' = v /\ sendQueue' = sendQueue /\ pushed' = pushed
  BY <1>2, <1>3
<1>. HIDE DEF v
<1>10. BoundInv'
  <2>1. AtMost(sendQueue, pushed)
    BY DEF BoundInv
  <2>. QED
    BY <1>4, <1>7, <1>8, <1>9, <2>1 DEF BoundInv, AtMost
<1>11. InOrder'
  <2>1. Ascending(sendQueue)
    BY DEF InOrder
  <2>. QED
    BY <1>4, <1>6, <1>8, <1>9, <2>1 DEF InOrder, Ascending, Below
<1>. QED
  BY <1>10, <1>11

LEMMA OrderInvariant == Spec => []OrderInv
<1>1. Init => BoundInv /\ InOrder
  BY DEF Init, BoundInv, InOrder, InFlight, Ascending, Below, AtMost
<1>2. TypeOK /\ IInv /\ OrderInv /\ [Next]_vars => BoundInv' /\ InOrder'
  <2>. SUFFICES ASSUME TypeOK, IInv, OrderInv, [Next]_vars
                PROVE  BoundInv' /\ InOrder'
    OBVIOUS
  <2>. USE DEF OrderInv
  <2>1. ASSUME NEW t \in Threads,
               \/ Send(t) \/ RegisterSend(t) \/ ProcessSend(t) \/ Settle(t)
               \/ Resend(t) \/ Relock(t) \/ Disconnect(t) \/ CloseSocket(t)
               \/ Connect(t) \/ ConnectDone(t)
        PROVE  BoundInv' /\ InOrder'
    <3>1. /\ UNCHANGED <<wire, sendQueue, pushed>> /\ InFlight' = InFlight
      BY <2>1 DEF Send, RegisterSend, ProcessSend, Settle, Resend, Relock,
                  Disconnect, CloseSocket, Connect, ConnectDone, InFlight
    <3>. QED
      BY <3>1, OrderUndisturbed
  <2>2. ASSUME NEW t \in Threads, IssueWrite(t)
        PROVE  BoundInv' /\ InOrder'
    <3>1. /\ UNCHANGED <<wire, sendQueue, pushed>>
          /\ InFlight' \subseteq InFlight \cup {<< >>}
      BY <2>2 DEF IssueWrite, InFlight, TypeOK
    <3>. QED
      BY <3>1, OrderUndisturbed
  <2>3. ASSUME NEW t \in Threads, WriteFailed(t)
        PROVE  BoundInv' /\ InOrder'
    <3>1. /\ UNCHANGED <<wire, sendQueue, pushed>>
          /\ InFlight' \subseteq InFlight \cup {<< >>}
      BY <2>3 DEF WriteFailed, InFlight
    <3>. QED
      BY <3>1, OrderUndisturbed
  <2>4. CASE UNCHANGED vars
    <3>1. UNCHANGED <<wire, sendQueue, pushed>> /\ InFlight' = InFlight
      BY <2>4 DEF vars, InFlight
    <3>. QED
      BY <3>1, OrderUndisturbed
  <2>. QED
    BY <2>1, <2>2, <2>3, <2>4, EnqueueOrder, DrainOrder, WriteDoneOrder
       DEF Next
<1>. QED
  BY <1>1, <1>2, BatchInvariant, TypeCorrect, SendInvariant, PTL
     DEF Spec, OrderInv

\* Buffers reach the wire in the order of the pushes and at most once, for
\* every number of threads.
THEOREM SentInOrder == Spec => []InOrder
BY OrderInvariant, PTL DEF OrderInv

(***************************************************************************)
(* The stranded flag.                                                      *)
(***************************************************************************)

\* Once the flag is set with nobody sending, no step of any thread, a new
\* connection included, starts a send operation or clears the flag.
THEOREM StrandedStays == Spec => StrandedForEver
<1>1. TypeOK /\ [Next]_vars => [Stranded => Stranded']_vars
  <2>. SUFFICES ASSUME TypeOK, [Next]_vars, Stranded
                PROVE  Stranded'
    OBVIOUS
  <2>. USE DEF Stranded, Sending, TypeOK, Locations, Goto
  <2>1. ASSUME NEW t \in Threads,
               \/ Send(t) \/ RegisterSend(t) \/ Drain(t) \/ IssueWrite(t)
               \/ WriteDone(t) \/ WriteFailed(t) \/ ProcessSend(t)
               \/ Settle(t) \/ Resend(t) \/ Relock(t)
        PROVE  Stranded'
    BY <2>1 DEF Send, RegisterSend, Drain, IssueWrite, WriteDone, WriteFailed,
                ProcessSend, Settle, Resend, Relock
  <2>2. ASSUME NEW t \in Threads, Enqueue(t)
        PROVE  Stranded'
    BY <2>2 DEF Enqueue
  <2>3. ASSUME NEW t \in Threads,
               Disconnect(t) \/ CloseSocket(t) \/ Connect(t) \/ ConnectDone(t)
        PROVE  Stranded'
    BY <2>3 DEF Disconnect, CloseSocket, Connect, ConnectDone
  <2>4. CASE UNCHANGED vars
    BY <2>4 DEF vars
  <2>. QED
    BY <2>1, <2>2, <2>3, <2>4 DEF Next
<1>. QED
  BY <1>1, TypeCorrect, PTL DEF Spec, StrandedForEver

(***************************************************************************)
(* Refinement of SendChannel.  The abstract writer's buffers are those the *)
(* one send operation carries, wherever they are: with the thread or with  *)
(* the write.                                                              *)
(***************************************************************************)

LEMMA NonEmptyIs ==
  ASSUME NEW S, NEW b \in S, b # << >>, \A c \in S : c # << >> => c = b
  PROVE  NonEmpty(S) = b
<1>1. \E c \in S : c # << >>
  OBVIOUS
<1>2. /\ (CHOOSE c \in S : c # << >>) \in S
      /\ (CHOOSE c \in S : c # << >>) # << >>
  BY <1>1
<1>. QED
  BY <1>1, <1>2 DEF NonEmpty

LEMMA NonEmptyNone ==
  ASSUME NEW S, \A c \in S : c = << >>
  PROVE  NonEmpty(S) = << >>
BY DEF NonEmpty

\* Two sets with the same non-empty element, which is the only one.
LEMMA NonEmptySame ==
  ASSUME NEW S, NEW T,
         \A b, c \in S : b # << >> /\ c # << >> => b = c,
         \A b : b # << >> => (b \in S <=> b \in T)
  PROVE  NonEmpty(T) = NonEmpty(S)
<1>1. CASE \A b \in S : b = << >>
  <2>1. \A b \in T : b = << >>
    BY <1>1
  <2>. QED
    BY <1>1, <2>1, NonEmptyNone
<1>2. CASE \E b \in S : b # << >>
  <2>1. PICK b \in S : b # << >>
    BY <1>2
  <2>2. b \in T /\ \A c \in T : c # << >> => c = b
    BY <2>1
  <2>3. \A c \in S : c # << >> => c = b
    BY <2>1
  <2>. QED
    BY <2>1, <2>2, <2>3, NonEmptyIs
<1>. QED
  BY <1>1, <1>2

\* At most one batch is in flight.
LEMMA OneBatch ==
  ASSUME TypeOK, IInv, BatchInv
  PROVE  \A b, c \in InFlight : b # << >> /\ c # << >> => b = c
<1>1. \A t, u \in Threads :
        batch[t] # << >> /\ batch[u] # << >> => batch[t] = batch[u]
  BY DEF BatchInv, IInv, SingleSender, Sending
<1>2. \A t \in Threads : \A w \in writes : batch[t] = << >>
  BY OnlyWrite
<1>3. \A w, v \in writes : w.buffers = v.buffers
  BY OnlyWrite
<1>. QED
  BY <1>1, <1>2, <1>3 DEF InFlight

\* A thread on its way from the flag to the write finds nothing in flight.
LEMMA NothingElse ==
  ASSUME TypeOK, IInv, BatchInv, NEW t \in Sending, pc[t] # "write"
  PROVE  writes = {} /\ \A u \in Threads : batch[u] = << >>
BY DEF BatchInv, IInv, SingleSender, Sending

LEMMA ChannelStutter ==
  ASSUME TypeOK, IInv, BatchInv, UNCHANGED <<pushed, sendQueue, wire>>,
         \A b : b # << >> => (b \in InFlight <=> b \in InFlight')
  PROVE  UNCHANGED Channel!vars
<1>1. NonEmpty(InFlight') = NonEmpty(InFlight)
  BY OneBatch, NonEmptySame
<1>2. Writing' = Writing
  BY <1>1 DEF Writing, NonEmpty
<1>. QED
  BY <1>2 DEF Channel!vars

LEMMA EnqueueAccepts ==
  ASSUME TypeOK, NEW t \in Threads, Enqueue(t)
  PROVE  Channel!Accept
<1>1. InFlight' = InFlight
  BY DEF Enqueue, InFlight
<1>2. Writing' = Writing
  BY <1>1 DEF Writing, NonEmpty
<1>. QED
  BY <1>2 DEF Enqueue, Channel!Accept

LEMMA DrainTakes ==
  ASSUME TypeOK, IInv, BatchInv, NEW t \in Threads, Drain(t)
  PROVE  Channel!Take
<1>1. /\ sendQueue' = << >> /\ UNCHANGED <<pushed, wire, writes>>
      /\ batch' = [batch EXCEPT ![t] = sendQueue]
      /\ t \in Sending /\ pc[t] = "drain"
  BY DEF Drain, Sending
<1>2. writes = {} /\ \A u \in Threads : batch[u] = << >>
  BY <1>1, NothingElse
<1>3. \A b \in InFlight : b = << >>
  BY <1>2 DEF InFlight
<1>4. sendQueue # << >>
  BY <1>1 DEF IInv, NeverDrainsNothing
<1>5. /\ sendQueue \in InFlight'
      /\ \A b \in InFlight' : b # << >> => b = sendQueue
  BY <1>1, <1>2 DEF InFlight, TypeOK
<1>6. Writing = << >>
  BY <1>3, NonEmptyNone DEF Writing
<1>7. Writing' = sendQueue
  <2>1. NonEmpty(InFlight') = sendQueue
    BY <1>4, <1>5, NonEmptyIs
  <2>. QED
    BY <2>1 DEF Writing, NonEmpty
<1>. QED
  BY <1>1, <1>6, <1>7 DEF Channel!Take

\* The end of the write w, n of whose buffers the network has taken.
LEMMA WriteEnds ==
  ASSUME TypeOK, IInv, BatchInv, NEW w \in writes,
         writes' = writes \ {w}, UNCHANGED <<pushed, sendQueue, batch>>,
         NEW n \in 0 .. Len(w.buffers),
         wire' = wire \o SubSeq(w.buffers, 1, n)
  PROVE  Channel!Finish
<1>1. writes = {w} /\ \A u \in Threads : batch[u] = << >>
  BY OnlyWrite
<1>2. w.buffers # << >> /\ w.buffers \in InFlight
  BY DEF BatchInv, InFlight
<1>3. Writing = w.buffers
  <2>1. \A c \in InFlight : c # << >> => c = w.buffers
    BY <1>2, OneBatch
  <2>. QED
    BY <1>2, <2>1, NonEmptyIs DEF Writing
<1>4. Writing' = << >>
  <2>1. \A b \in InFlight' : b = << >>
    BY <1>1 DEF InFlight
  <2>2. NonEmpty(InFlight') = << >>
    BY <2>1, NonEmptyNone
  <2>. QED
    BY <2>2 DEF Writing, NonEmpty
<1>. QED
  BY <1>2, <1>3, <1>4 DEF Channel!Finish

\* A write that fails is the end of a write of which nothing was taken.
LEMMA NothingTaken ==
  ASSUME NEW s \in Seq(Nat), NEW b \in Seq(Nat)
  PROVE  /\ 0 \in 0 .. Len(b)
         /\ s = s \o SubSeq(b, 1, 0)
<1>1. Len(b) \in Nat
  BY LenProperties
<1>2. SubSeq(b, 1, 0) = << >>
  BY SubSeqEmpty
<1>. QED
  BY <1>1, <1>2, ConcatEmptySeq

\* The send path with all its threads implements the one writer of SendChannel,
\* for every number of threads.
THEOREM SendPathImplementsChannel == Spec => ImplementsChannel
<1>1. Init => Channel!Init
  <2>. SUFFICES ASSUME Init PROVE Channel!Init
    OBVIOUS
  <2>1. \A b \in InFlight : b = << >>
    BY DEF Init, InFlight
  <2>2. Writing = << >>
    BY <2>1, NonEmptyNone DEF Writing
  <2>. QED
    BY <2>2 DEF Init, Channel!Init
<1>2. TypeOK /\ IInv /\ OrderInv /\ [Next]_vars => [Channel!Next]_(Channel!vars)
  <2>. SUFFICES ASSUME TypeOK, IInv, BatchInv, [Next]_vars
                PROVE  Channel!Next \/ UNCHANGED Channel!vars
    BY DEF OrderInv
  <2>1. ASSUME NEW t \in Threads,
               \/ Send(t) \/ RegisterSend(t) \/ ProcessSend(t) \/ Settle(t)
               \/ Resend(t) \/ Relock(t) \/ Disconnect(t) \/ CloseSocket(t)
               \/ Connect(t) \/ ConnectDone(t)
        PROVE  UNCHANGED Channel!vars
    <3>1. /\ UNCHANGED <<wire, sendQueue, pushed>> /\ InFlight' = InFlight
      BY <2>1 DEF Send, RegisterSend, ProcessSend, Settle, Resend, Relock,
                  Disconnect, CloseSocket, Connect, ConnectDone, InFlight
    <3>. QED
      BY <3>1, ChannelStutter
  <2>2. ASSUME NEW t \in Threads, IssueWrite(t)
        PROVE  UNCHANGED Channel!vars
    <3>1. UNCHANGED <<wire, sendQueue, pushed>>
      BY <2>2 DEF IssueWrite
    <3>. DEFINE w == [buffers |-> batch[t],
                      conn |-> IF socket = "open" THEN connects ELSE 0]
    <3>2. writes' = writes \cup {w} /\ w.buffers = batch[t]
      BY <2>2 DEF IssueWrite
    <3>3. /\ batch'[t] = << >>
          /\ \A u \in Threads : u # t => batch'[u] = batch[u]
      BY <2>2 DEF IssueWrite, TypeOK
    <3>. HIDE DEF w
    <3>4. {v.buffers : v \in writes'} = {v.buffers : v \in writes} \cup {batch[t]}
      BY <3>2
    <3>5. ASSUME NEW b, b # << >>
          PROVE  b \in InFlight <=> b \in InFlight'
      <4>1. CASE b = batch[t]
        BY <3>4, <4>1 DEF InFlight
      <4>2. CASE b # batch[t]
        BY <3>3, <3>4, <3>5, <4>2 DEF InFlight
      <4>. QED
        BY <4>1, <4>2
    <3>. QED
      BY <3>1, <3>5, ChannelStutter
  <2>3. ASSUME NEW t \in Threads, WriteDone(t)
        PROVE  Channel!Next
    <3>1. PICK w \in writes : \E n \in 0 .. Len(w.buffers) :
                 /\ writes' = writes \ {w}
                 /\ wire' = wire \o SubSeq(w.buffers, 1, n)
      BY <2>3 DEF WriteDone
    <3>2. UNCHANGED <<pushed, sendQueue, batch>>
      BY <2>3 DEF WriteDone
    <3>. QED
      BY <3>1, <3>2, WriteEnds DEF Channel!Next
  <2>4. ASSUME NEW t \in Threads, WriteFailed(t)
        PROVE  Channel!Next
    <3>1. PICK w \in writes : writes' = writes \ {w}
      BY <2>4 DEF WriteFailed
    <3>2. wire' = wire /\ UNCHANGED <<pushed, sendQueue, batch>>
      BY <2>4 DEF WriteFailed
    <3>3. wire \in Seq(Nat) /\ w.buffers \in Seq(Nat)
      BY DEF TypeOK
    <3>4. /\ 0 \in 0 .. Len(w.buffers)
          /\ wire' = wire \o SubSeq(w.buffers, 1, 0)
      BY <3>2, <3>3, NothingTaken
    <3>. QED
      BY <3>1, <3>2, <3>4, WriteEnds DEF Channel!Next
  <2>5. CASE UNCHANGED vars
    <3>1. UNCHANGED <<wire, sendQueue, pushed>> /\ InFlight' = InFlight
      BY <2>5 DEF vars, InFlight
    <3>. QED
      BY <3>1, ChannelStutter
  <2>. QED
    BY <2>1, <2>2, <2>3, <2>4, <2>5, EnqueueAccepts, DrainTakes
       DEF Next, Channel!Next
<1>. QED
  BY <1>1, <1>2, TypeCorrect, SendInvariant, OrderInvariant, PTL
     DEF Spec, ImplementsChannel, Channel!Spec

=============================================================================

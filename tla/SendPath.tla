------------------------------ MODULE SendPath ------------------------------
(***************************************************************************)
(* The send path of one Session (Session.cpp): Send, RegisterSend,         *)
(* ProcessSend and HandleError, run by any number of threads, with the     *)
(* asynchronous socket writes they issue and the connection they issue     *)
(* them on.  An application thread that calls Send and a thread that runs  *)
(* asio handlers are not told apart: any thread can do either.             *)
(*                                                                         *)
(* A step is what one thread does between two accesses to state another    *)
(* thread can change.  A critical section of _sendLock is one step unless  *)
(* a call made inside it can wait.  A SendBuffer is named by its place in  *)
(* the order of pushes, so that order and loss are visible.                *)
(***************************************************************************)
EXTENDS Naturals, Sequences, FiniteSets

CONSTANTS
  Threads,      \* every thread that calls Send or runs the io_context
  NoThread,     \* the owner of a _sendLock nobody holds
  WriteErrors,  \* how a write on a live socket may fail
  EmptyBuffers, \* which buffers have WriteSize 0 (a SendBuffer never Closed)
  MaxSends,     \* bound: buffers pushed
  MaxConnects   \* bound: connections made by this Session object

\* The error codes for which HandleError disconnects, and those it only logs.
FatalErrors == {"operation_aborted", "connection_reset", "connection_aborted"}
LoggedErrors == {"broken_pipe", "bad_descriptor"}

ASSUME SendPathAssumption ==
  /\ NoThread \notin Threads
  /\ WriteErrors \subseteq FatalErrors \cup LoggedErrors
  /\ EmptyBuffers \subseteq Nat
  /\ MaxSends \in Nat
  /\ MaxConnects \in Nat

VARIABLES
  connected,       \* Session::_connected
  socket,          \* Session::_socket
  sendLock,        \* the thread that holds Session::_sendLock
  sendQueue,       \* Session::_sendQueue
  sendRegistered,  \* Session::_sendRegistered
  writes,          \* asynchronous writes whose handler has not run
  pc,              \* where each thread is
  batch,           \* RegisterSend's local sendBuffers
  connects,        \* history: connections made, the current one's number
  pushed,          \* history: buffers pushed
  wire             \* history: buffers a completed write carried, in order

vars == <<connected, socket, sendLock, sendQueue, sendRegistered, writes, pc,
          batch, connects, pushed, wire>>

Locations ==
  {"idle", "enqueue", "register", "drain", "write", "sent", "sent_nothing",
   "settle", "resend", "relock", "blocked", "disconnect", "close"}

Goto(t, l) == pc' = [pc EXCEPT ![t] = l]

Init ==
  /\ connected = FALSE
  /\ socket = "closed"
  /\ sendLock = NoThread
  /\ sendQueue = << >>
  /\ sendRegistered = FALSE
  /\ writes = {}
  /\ pc = [t \in Threads |-> "idle"]
  /\ batch = [t \in Threads |-> << >>]
  /\ connects = 0
  /\ pushed = 0
  /\ wire = << >>

-----------------------------------------------------------------------------
(* Send and RegisterSend                                                   *)

\* Send up to the lock: a call on a session that is not connected returns.
Send(t) ==
  /\ pc[t] = "idle"
  /\ connected
  /\ pushed + Cardinality({u \in Threads : pc[u] = "enqueue"}) < MaxSends
  /\ Goto(t, "enqueue")
  /\ UNCHANGED <<connected, socket, sendLock, sendQueue, sendRegistered,
                 writes, batch, connects, pushed, wire>>

\* Variants of the critical section for mutation: the caller that finds the
\* queue empty registers; every caller registers.
Enqueue_IfQueueEmpty(t) ==
  /\ pc[t] = "enqueue"
  /\ sendLock = NoThread
  /\ sendQueue' = Append(sendQueue, pushed + 1)
  /\ pushed' = pushed + 1
  /\ sendRegistered' = TRUE
  /\ Goto(t, IF sendQueue = << >> THEN "register" ELSE "idle")
  /\ UNCHANGED <<connected, socket, sendLock, writes, batch, connects, wire>>

Enqueue_Always(t) ==
  /\ pc[t] = "enqueue"
  /\ sendLock = NoThread
  /\ sendQueue' = Append(sendQueue, pushed + 1)
  /\ pushed' = pushed + 1
  /\ sendRegistered' = TRUE
  /\ Goto(t, "register")
  /\ UNCHANGED <<connected, socket, sendLock, writes, batch, connects, wire>>

\* The critical section of Send: push the buffer; whoever finds
\* _sendRegistered clear has set it and goes on to RegisterSend.
Enqueue(t) ==
  /\ pc[t] = "enqueue"
  /\ sendLock = NoThread
  /\ sendQueue' = Append(sendQueue, pushed + 1)
  /\ pushed' = pushed + 1
  /\ sendRegistered' = TRUE
  /\ Goto(t, IF sendRegistered THEN "idle" ELSE "register")
  /\ UNCHANGED <<connected, socket, sendLock, writes, batch, connects, wire>>

\* RegisterSend returns at once, _sendRegistered still set, when the session
\* was disconnected in the meantime.
RegisterSend(t) ==
  /\ pc[t] = "register"
  /\ Goto(t, IF connected THEN "drain" ELSE "idle")
  /\ UNCHANGED <<connected, socket, sendLock, sendQueue, sendRegistered,
                 writes, batch, connects, pushed, wire>>

\* Mutation: the buffers are read with front() and not popped.
Drain_NoPop(t) ==
  /\ pc[t] = "drain"
  /\ sendLock = NoThread
  /\ batch' = [batch EXCEPT ![t] = sendQueue]
  /\ Goto(t, IF sendQueue = << >> THEN "idle" ELSE "write")
  /\ UNCHANGED <<connected, socket, sendLock, sendQueue, sendRegistered,
                 writes, connects, pushed, wire>>

\* RegisterSend takes the whole queue under the lock.  With nothing to send it
\* clears _sendRegistered and returns: NeverDrainsNothing says that this does
\* not happen, so the store, which the code makes after the unlock, is not
\* given a step of its own.
Drain(t) ==
  /\ pc[t] = "drain"
  /\ sendLock = NoThread
  /\ batch' = [batch EXCEPT ![t] = sendQueue]
  /\ sendQueue' = << >>
  /\ sendRegistered' = (sendRegistered /\ sendQueue # << >>)
  /\ Goto(t, IF sendQueue = << >> THEN "idle" ELSE "write")
  /\ UNCHANGED <<connected, socket, sendLock, writes, connects, pushed, wire>>

\* async_write_some.  "conn" is the connection the write was issued on, 0 for
\* a socket that is not open: asio then fails the write.
IssueWrite(t) ==
  /\ pc[t] = "write"
  /\ writes' = writes \cup
       {[buffers |-> batch[t], conn |-> IF socket = "open" THEN connects ELSE 0]}
  /\ batch' = [batch EXCEPT ![t] = << >>]
  /\ Goto(t, "idle")
  /\ UNCHANGED <<connected, socket, sendLock, sendQueue, sendRegistered,
                 connects, pushed, wire>>

-----------------------------------------------------------------------------
(* The handler of async_write_some                                         *)

\* The connection the write was issued on is still open.
OnOpenSocket(w) == socket = "open" /\ w.conn = connects

\* All buffers of the write are empty.
CarriesNothing(w) == \A i \in 1 .. Len(w.buffers) : w.buffers[i] \in EmptyBuffers

\* What asio may report for a failed write.  One that had failed before its
\* socket was closed may still report why.
ErrorsOf(w) ==
  IF w.conn = 0 THEN {"bad_descriptor"}
  ELSE IF OnOpenSocket(w) THEN WriteErrors
  ELSE WriteErrors \cup {"operation_aborted"}

\* A write completes without error.  async_write_some may stop short: n is the
\* number of buffers carried whole.  It reports 0 bytes only for a write all of
\* whose buffers are empty.
WriteDone(t) ==
  /\ pc[t] = "idle"
  /\ \E w \in writes : \E n \in 0 .. Len(w.buffers) :
       /\ w.conn # 0
       /\ CarriesNothing(w) => n = Len(w.buffers)
       /\ writes' = writes \ {w}
       /\ wire' = wire \o SubSeq(w.buffers, 1, n)
       /\ Goto(t, IF CarriesNothing(w) THEN "sent_nothing" ELSE "sent")
  /\ UNCHANGED <<connected, socket, sendLock, sendQueue, sendRegistered,
                 batch, connects, pushed>>

\* A write fails: HandleError disconnects for three codes and ignores the rest.
WriteFailed(t) ==
  /\ pc[t] = "idle"
  /\ \E w \in writes : \E e \in ErrorsOf(w) :
       /\ writes' = writes \ {w}
       /\ Goto(t, IF e \in FatalErrors THEN "disconnect" ELSE "idle")
  /\ UNCHANGED <<connected, socket, sendLock, sendQueue, sendRegistered,
                 batch, connects, pushed, wire>>

\* ProcessSend up to the lock.  OnSend is the application's: what it may do
\* here, any other thread may do as well.
ProcessSend(t) ==
  /\ pc[t] \in {"sent", "sent_nothing"}
  /\ Goto(t, IF ~connected THEN "idle"
             ELSE IF pc[t] = "sent" THEN "settle" ELSE "disconnect")
  /\ UNCHANGED <<connected, socket, sendLock, sendQueue, sendRegistered,
                 writes, batch, connects, pushed, wire>>

\* Mutation: _sendRegistered is cleared whatever arrived during the write.
Settle_NoRecheck(t) ==
  /\ pc[t] = "settle"
  /\ sendLock = NoThread
  /\ sendRegistered' = FALSE
  /\ Goto(t, "idle")
  /\ UNCHANGED <<connected, socket, sendLock, sendQueue, writes, batch,
                 connects, pushed, wire>>

\* ProcessSend under the lock: clear _sendRegistered if the queue is empty,
\* otherwise call RegisterSend with _sendLock still held.
Settle(t) ==
  /\ pc[t] = "settle"
  /\ sendLock = NoThread
  /\ \/ /\ sendQueue = << >>
        /\ sendRegistered' = FALSE
        /\ Goto(t, "idle")
        /\ UNCHANGED sendLock
     \/ /\ sendQueue # << >>
        /\ sendLock' = t
        /\ Goto(t, "resend")
        /\ UNCHANGED sendRegistered
  /\ UNCHANGED <<connected, socket, sendQueue, writes, batch, connects,
                 pushed, wire>>

\* RegisterSend's test of IsConnected, called with _sendLock held: on a
\* session disconnected in the meantime it returns and the lock is released.
Resend(t) ==
  /\ pc[t] = "resend"
  /\ \/ /\ ~connected
        /\ sendLock' = NoThread
        /\ Goto(t, "idle")
     \/ /\ connected
        /\ Goto(t, "relock")
        /\ UNCHANGED sendLock
  /\ UNCHANGED <<connected, socket, sendQueue, sendRegistered, writes, batch,
                 connects, pushed, wire>>

\* RegisterSend locks the std::mutex its caller holds.  That is undefined: an
\* implementation that detects it throws, and the exception leaves ProcessSend
\* (which unlocks) and the handler; one that does not waits for ever.
Relock(t) ==
  /\ pc[t] = "relock"
  /\ \/ /\ sendLock' = NoThread
        /\ Goto(t, "idle")
     \/ /\ Goto(t, "blocked")
        /\ UNCHANGED sendLock
  /\ UNCHANGED <<connected, socket, sendQueue, sendRegistered, writes, batch,
                 connects, pushed, wire>>

-----------------------------------------------------------------------------
(* The connection                                                          *)

\* Disconnect, called by the application or by a handler: only the call that
\* finds _connected set goes on.
Disconnect(t) ==
  /\ \/ pc[t] = "idle" /\ connected
     \/ pc[t] = "disconnect"
  /\ connected' = FALSE
  /\ Goto(t, IF connected THEN "close" ELSE "idle")
  /\ UNCHANGED <<socket, sendLock, sendQueue, sendRegistered, writes, batch,
                 connects, pushed, wire>>

\* Disconnect shuts the socket down and closes it.
CloseSocket(t) ==
  /\ pc[t] = "close"
  /\ socket' = "closed"
  /\ Goto(t, "idle")
  /\ UNCHANGED <<connected, sendLock, sendQueue, sendRegistered, writes,
                 batch, connects, pushed, wire>>

\* Connect on a session that is not connected starts an asynchronous connect;
\* nothing forbids to call it again on a session that was disconnected.  On a
\* socket that is connecting or not closed yet the connect fails with an error
\* HandleError only logs, and nothing changes.
Connect(t) ==
  /\ pc[t] = "idle"
  /\ ~connected
  /\ socket = "closed"
  /\ connects < MaxConnects
  /\ socket' = "connecting"
  /\ UNCHANGED <<connected, sendLock, sendQueue, sendRegistered, writes, pc,
                 batch, connects, pushed, wire>>

\* The connect succeeds and ProcessConnect sets _connected, or it fails with
\* an error HandleError only logs.  Neither touches the send state.
ConnectDone(t) ==
  /\ pc[t] = "idle"
  /\ socket = "connecting"
  /\ \/ /\ socket' = "open"
        /\ connected' = TRUE
        /\ connects' = connects + 1
     \/ /\ socket' = "closed"
        /\ UNCHANGED <<connected, connects>>
  /\ UNCHANGED <<sendLock, sendQueue, sendRegistered, writes, pc, batch,
                 pushed, wire>>

-----------------------------------------------------------------------------

\* What a thread does once it has begun: it does not stop half way.
Continue(t) ==
  \/ Enqueue(t) \/ RegisterSend(t) \/ Drain(t) \/ IssueWrite(t)
  \/ ProcessSend(t) \/ Settle(t) \/ Resend(t) \/ Relock(t)
  \/ (pc[t] = "disconnect" /\ Disconnect(t)) \/ CloseSocket(t)

\* What a thread in io_context::run() picks up.
HandleCompletion(t) == WriteDone(t) \/ WriteFailed(t)

Next ==
  \E t \in Threads :
    \/ Send(t) \/ Enqueue(t) \/ RegisterSend(t) \/ Drain(t) \/ IssueWrite(t)
    \/ WriteDone(t) \/ WriteFailed(t) \/ ProcessSend(t) \/ Settle(t)
    \/ Resend(t) \/ Relock(t)
    \/ Disconnect(t) \/ CloseSocket(t) \/ Connect(t) \/ ConnectDone(t)

Spec == Init /\ [][Next]_vars

\* A write that ends only when the peer reads, or the connection fails: asio
\* completes at once what carries nothing and what is on a closed socket.
AwaitsPeer(w) == OnOpenSocket(w) /\ ~CarriesNothing(w)

\* The threads run, and at least one of them runs the io_context, where it
\* finds every write that does not wait for the peer.  Nothing obliges the peer
\* to read or the application to call anything.  SingleSender says that there
\* is one write, so that the one handled is the one that is due.
FairSpec ==
  /\ Spec
  /\ \A t \in Threads : WF_vars(Continue(t))
  /\ WF_vars(/\ \E w \in writes : ~AwaitsPeer(w)
             /\ \E t \in Threads : HandleCompletion(t))

-----------------------------------------------------------------------------
(* Properties                                                              *)

\* The type invariant.
TypeOK ==
  /\ connected \in BOOLEAN
  /\ socket \in {"closed", "connecting", "open"}
  /\ sendLock \in Threads \cup {NoThread}
  /\ sendQueue \in Seq(Nat)
  /\ sendRegistered \in BOOLEAN
  /\ writes \subseteq [buffers : Seq(Nat), conn : Nat]
  /\ pc \in [Threads -> Locations]
  /\ batch \in [Threads -> Seq(Nat)]
  /\ connects \in Nat
  /\ pushed \in Nat
  /\ wire \in Seq(Nat)

\* The threads that have the send operation in hand: between the exchange of
\* _sendRegistered that gave it to them and the write they issue, or between a
\* write's completion and the end of ProcessSend.
Sending ==
  {t \in Threads : pc[t] \in {"register", "drain", "write", "sent",
                              "sent_nothing", "settle", "resend", "relock"}}

\* At most one send operation is in progress on a session, and
\* _sendRegistered is set while there is one (the comment at Session.cpp:32:
\* a new send is registered only when none is in progress).
SingleSender ==
  /\ \A t, u \in Sending : t = u
  /\ \A w, v \in writes : w = v
  /\ writes # {} => Sending = {}
  /\ Sending # {} \/ writes # {} => sendRegistered

\* No wakeup is lost: buffers wait in the queue only while _sendRegistered is
\* set, so no sender leaves a buffer behind for nobody.
NoLostWakeup == sendQueue # << >> => sendRegistered

\* RegisterSend never finds the queue empty: its early return that clears
\* _sendRegistered outside the lock (Session.cpp:149-153), which could race
\* with a push, is not taken.
NeverDrainsNothing ==
  \A t \in Threads : pc[t] \in {"register", "drain"} => sendQueue # << >>

Ascending(s) == \A i, j \in 1 .. Len(s) : i < j => s[i] < s[j]
Below(s, r) == \A i \in 1 .. Len(s) : \A j \in 1 .. Len(r) : s[i] < r[j]

\* What has been taken from the queue and not yet completed.
InFlight == {batch[t] : t \in Threads} \cup {w.buffers : w \in writes}

\* Buffers leave in the order they were pushed and at most once: the wire, the
\* write in progress and the queue, in this order, hold ascending numbers.
InOrder ==
  /\ Ascending(wire) /\ Ascending(sendQueue) /\ Below(wire, sendQueue)
  /\ \A b \in InFlight :
       Ascending(b) /\ Below(wire, b) /\ Below(b, sendQueue)

\* _sendRegistered is set and nobody has a send operation in hand.
Stranded == sendRegistered /\ Sending = {} /\ writes = {}

\* A stranded flag stays stranded for the rest of the object's life, across
\* reconnections: nothing but a send operation clears _sendRegistered, and no
\* send operation starts while it is set.
StrandedForEver == [][Stranded => Stranded']_vars

\* A write of an open connection waits for the peer.
PeerDoesNotRead == \E w \in writes : AwaitsPeer(w)

\* With fair threads a queue that holds buffers is drained, or one of two things
\* keeps it from that for good: the flag is stranded (the session was
\* disconnected, the write failed, or the handler met the second lock of
\* _sendLock), or the peer of a connection that stays open never takes what
\* the write in progress carries.  A write that is only slow is no excuse.
DrainsOrStrands ==
  sendQueue # << >> ~>
    sendQueue = << >> \/ Stranded \/ []PeerDoesNotRead

\* What the comment at Session.cpp:32 reads the flag as: on a connected session
\* that is not being disconnected, set means that a send is in progress.
FlagMeansInProgress ==
  connected /\ Stranded => \E t \in Threads : pc[t] = "disconnect"

\* The element of S that is not empty, if there is one.
NonEmpty(S) ==
  IF \E b \in S : b # << >> THEN CHOOSE b \in S : b # << >> ELSE << >>

\* What the one send operation in progress has taken from the queue.
Writing == NonEmpty(InFlight)

\* The threads, the lock and the flag amount to one writer that takes the whole
\* queue and waits for the network before it takes the queue again.
Channel == INSTANCE SendChannel WITH
  accepted <- pushed, backlog <- sendQueue, writing <- Writing, carried <- wire

ImplementsChannel == Channel!Spec

=============================================================================

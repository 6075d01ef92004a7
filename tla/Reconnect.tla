----------------------------- MODULE Reconnect -----------------------------
(***************************************************************************)
(* The receive loops of one PacketSession that is connected several times  *)
(* (Session.cpp): ProcessConnect begins a loop on the buffer as the last   *)
(* connection left it, the public Start begins another, and a loop that    *)
(* outlives its connection goes on with the next.  RecvPath has one loop   *)
(* on one connection, in detail.                                           *)
(*                                                                         *)
(* A packet is two bytes, its header and its body.  A byte is its offset   *)
(* in the stream of its connection, and the streams of two connections lie *)
(* far apart.  Every loop may be run by a thread of its own, but what two  *)
(* of them do to the buffer at the same time, which is undefined, is not   *)
(* modelled: OneLoop says when it cannot happen.                           *)
(***************************************************************************)
EXTENDS RecvBuffer

CONSTANTS
  Loops,          \* bound: receive loops at a time
  MaxConnections, \* bound: connections
  MaxStarts,      \* bound: calls of Start
  MaxStream       \* bound: bytes of a connection

ASSUME ReconnectAssumption ==
  /\ MaxConnections \in Nat /\ MaxStarts \in Nat /\ MaxStream \in Nat
  /\ BufferSize >= 2

VARIABLES
  connected,   \* Session::_connected
  connecting,  \* an async_connect is pending
  connection,  \* which connection it is, or was
  pc,          \* where each loop is
  window,      \* where its read stores, and how many bytes it has brought
  buf,         \* Session::_recvBuffer
  received,    \* how many bytes of the connection have been read
  starts,      \* calls of Start
  reused,      \* history: a connection began with a loop left, or with bytes
  misread,     \* OnRecv has taken something else for a packet: the model ends
  wronged      \* history: the abort of an old read ended a later connection

vars == <<connected, connecting, connection, pc, window, buf, received, starts, reused,
          misread, wronged>>

link == <<connected, connecting, connection>>
history == <<starts, reused, wronged>>

NoWindow == [at |-> 0, size |-> 0]
Byte(k) == connection * 2 * (MaxStream + 1) + k

Init ==
  /\ connected = FALSE /\ connecting = FALSE /\ connection = 0
  /\ pc = [l \in Loops |-> "none"]
  /\ window = [l \in Loops |-> NoWindow]
  /\ buf = EmptyBuffer
  /\ received = 0
  /\ starts = 0 /\ reused = FALSE /\ misread = FALSE /\ wronged = FALSE

Quiet == \A l \in Loops : pc[l] = "none"

Begin(l) == pc[l] = "none" /\ pc' = [pc EXCEPT ![l] = "register"]

\* Disconnect, by loop l or by others: the reads on the socket are aborted.
Closed(l) ==
  /\ connected' = FALSE
  /\ pc' = [m \in Loops |-> IF m = l THEN "none"
                            ELSE IF pc[m] = "reading" THEN "aborted" ELSE pc[m]]
  /\ UNCHANGED <<connecting, connection>>

-----------------------------------------------------------------------------

Connect ==
  /\ ~misread
  /\ ~connected /\ ~connecting /\ connection < MaxConnections
  /\ connecting' = TRUE
  /\ UNCHANGED <<connected, connection, pc, window, buf, received, history, misread>>

\* The connect fails, and HandleError finds nothing to disconnect.
ConnectFails ==
  /\ ~misread
  /\ connecting
  /\ connecting' = FALSE
  /\ UNCHANGED <<connected, connection, pc, window, buf, received, history, misread>>

\* Mutation: ProcessConnect calls Start, too.
ProcessConnect_Starts ==
  /\ ~misread
  /\ connecting
  /\ connecting' = FALSE /\ connected' = TRUE /\ connection' = connection + 1
  /\ received' = 0
  /\ reused' = (reused \/ ~Quiet \/ DataSize(buf) # 0)
  /\ \E l, m \in Loops :
       /\ l # m /\ pc[l] = "none" /\ pc[m] = "none"
       /\ pc' = [pc EXCEPT ![l] = "register", ![m] = "register"]
  /\ UNCHANGED <<window, buf, starts, wronged, misread>>

\* ProcessConnect up to the call of RegisterRecv.
ProcessConnect ==
  /\ ~misread
  /\ connecting
  /\ connecting' = FALSE /\ connected' = TRUE /\ connection' = connection + 1
  /\ received' = 0
  /\ reused' = (reused \/ ~Quiet \/ DataSize(buf) # 0)
  /\ \E l \in Loops : Begin(l)
  /\ UNCHANGED <<window, buf, starts, wronged, misread>>

\* The application, or another handler of the session, disconnects.
Disconnect ==
  /\ ~misread
  /\ connected
  /\ connected' = FALSE
  /\ pc' = [m \in Loops |-> IF pc[m] = "reading" THEN "aborted" ELSE pc[m]]
  /\ UNCHANGED <<connecting, connection, window, buf, received, history, misread>>

\* The application calls Start.
Start ==
  /\ ~misread
  /\ starts < MaxStarts
  /\ starts' = starts + 1
  /\ \E l \in Loops : Begin(l)
  /\ UNCHANGED <<link, window, buf, received, reused, wronged, misread>>

-----------------------------------------------------------------------------
(* RegisterRecv and its handler                                            *)

RegisterRecv(l) ==
  /\ ~misread
  /\ pc[l] = "register"
  /\ pc' = [pc EXCEPT ![l] = IF connected THEN "issue" ELSE "none"]
  /\ UNCHANGED <<link, window, buf, received, history, misread>>

\* The read is issued, and fails when the socket has been closed meanwhile.
Issue(l) ==
  /\ ~misread
  /\ pc[l] = "issue"
  /\ pc' = [pc EXCEPT ![l] = IF connected THEN "reading" ELSE "aborted"]
  /\ window' = [window EXCEPT ![l] = [at |-> buf.writePos, size |-> FreeSize(buf)]]
  /\ UNCHANGED <<link, buf, received, history, misread>>

\* The read completes with bytes of the stream.
ReadDone(l) ==
  /\ ~misread
  /\ pc[l] = "reading"
  /\ \E n \in 1 .. window[l].size :
       /\ received + n <= MaxStream
       /\ received' = received + n
       /\ buf' = [buf EXCEPT !.cell = [i \in Cells |->
                    IF i \in window[l].at .. window[l].at + n - 1
                    THEN Byte(received + (i - window[l].at)) ELSE @[i]]]
       /\ window' = [window EXCEPT ![l].size = n]
  /\ pc' = [pc EXCEPT ![l] = "done"]
  /\ UNCHANGED <<link, history, misread>>

\* Whole packets, or a whole packet's header, from the read position on.
Framed(b) ==
  \A i \in b.readPos .. b.writePos - 1 :
    IF i = b.readPos THEN b.cell[i] # NoByte /\ b.cell[i] % 2 = 0
    ELSE b.cell[i] = b.cell[i - 1] + 1

\* Mutation: the rest of a packet is taken out of the buffer with the packets
\* before it.
HandleRead_TakesAll(l) ==
  /\ ~misread
  /\ pc[l] = "done"
  /\ LET n == window[l].size
         b == OnWrite(buf, n)
     IN  IF ~MayWrite(buf, n)
         THEN pc' = [pc EXCEPT ![l] = "none"] /\ UNCHANGED <<buf, misread>>
         ELSE /\ pc' = [pc EXCEPT ![l] = "register"]
              /\ misread' = ~Framed(b)
              /\ buf' = Clean(OnRead(b, DataSize(b)))
  /\ window' = [window EXCEPT ![l] = NoWindow]
  /\ UNCHANGED <<link, received, history>>

\* The handler: a write the buffer refuses ends the loop, silently; else whole
\* packets are handed over and the buffer is cleaned.
HandleRead(l) ==
  /\ ~misread
  /\ pc[l] = "done"
  /\ LET n == window[l].size
         b == OnWrite(buf, n)
     IN  IF ~MayWrite(buf, n)
         THEN pc' = [pc EXCEPT ![l] = "none"] /\ UNCHANGED <<buf, misread>>
         ELSE /\ pc' = [pc EXCEPT ![l] = "register"]
              /\ misread' = ~Framed(b)
              /\ buf' = Clean(OnRead(b, DataSize(b) - (DataSize(b) % 2)))
  /\ window' = [window EXCEPT ![l] = NoWindow]
  /\ UNCHANGED <<link, received, history>>

\* The read fails on an open connection.
ReadFails(l) ==
  /\ ~misread
  /\ pc[l] = "reading"
  /\ Closed(l)
  /\ UNCHANGED <<window, buf, received, history, misread>>

\* The handler of an aborted read disconnects what is connected by then.
HandleAbort(l) ==
  /\ ~misread
  /\ pc[l] = "aborted"
  /\ IF connected THEN Closed(l)
     ELSE pc' = [pc EXCEPT ![l] = "none"] /\ UNCHANGED link
  /\ wronged' = (wronged \/ connected)
  /\ UNCHANGED <<window, buf, received, starts, reused, misread>>

-----------------------------------------------------------------------------

LoopGoesOn(l) ==
  RegisterRecv(l) \/ Issue(l) \/ HandleRead(l) \/ HandleAbort(l)

Next ==
  \/ Connect \/ ConnectFails \/ ProcessConnect \/ Disconnect \/ Start
  \/ \E l \in Loops : LoopGoesOn(l) \/ ReadDone(l) \/ ReadFails(l)

Spec == Init /\ [][Next]_vars

-----------------------------------------------------------------------------
(* Properties                                                              *)

\* The application waits for the end of the loop, finds the buffer empty, and
\* leaves Start alone.
Tidy == ~reused /\ starts = 0

\* The type invariant.
TypeOK ==
  /\ connected \in BOOLEAN /\ connecting \in BOOLEAN
  /\ connection \in Nat
  /\ pc \in [Loops -> {"none", "register", "issue", "reading", "done", "aborted"}]
  /\ window \in [Loops -> [at : 0 .. Capacity, size : 0 .. Capacity]]
  /\ buf \in Buffers
  /\ received \in Nat /\ starts \in Nat
  /\ reused \in BOOLEAN /\ misread \in BOOLEAN /\ wronged \in BOOLEAN

\* A session used tidily has one receive loop, so that nobody shares the buffer
\* with it.
OneLoop == Tidy => \A l, m \in Loops : pc[l] # "none" /\ pc[m] # "none" => l = m

\* Then nothing but packets is taken for a packet (Session.cpp:181, :20), and no
\* connection is ended by what is left of an earlier one (Session.cpp:123).
OnlyReuseHarms == misread \/ wronged => ~Tidy

\* A connected session has a receive loop: two that refuse each other's bytes
\* (Session.cpp:107) do not both end.
NeverDeaf == connected => ~Quiet

=============================================================================

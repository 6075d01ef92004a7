------------------------------ MODULE RecvPath ------------------------------
(***************************************************************************)
(* The receive path of one PacketSession on one connection (Session.cpp):  *)
(* RegisterRecv and its handler, the RecvBuffer they share, and the loop   *)
(* of PacketSession::OnRecv that cuts the byte stream into packets.        *)
(*                                                                         *)
(* The peer sends whole packets, each with its own size in its header; the *)
(* network cuts the stream wherever it likes.  Other threads can           *)
(* disconnect the session between any two steps.  The buffer is used by    *)
(* the handler only, so the handler's local dataSize is DataSize(buf), and *)
(* the window handed to the socket is the one the buffer still has when    *)
(* the read completes.                                                     *)
(***************************************************************************)
EXTENDS RecvBuffer, Sequences

CONSTANTS
  HeaderSize,  \* sizeof(PacketHeader), 4
  MaxPacket,   \* the largest size a header can hold, 0xFFFF
  MaxStream    \* bound: bytes the peer sends

ASSUME RecvPathAssumption ==
  /\ HeaderSize \in Nat \ {0}
  /\ MaxPacket \in Nat
  /\ HeaderSize <= MaxPacket
  /\ MaxPacket <= BufferSize
  /\ MaxStream \in Nat

VARIABLES
  connected,   \* Session::_connected
  pc,          \* where the receive loop is
  buf,         \* Session::_recvBuffer
  processLen,  \* the local of PacketSession::OnRecv
  sent,        \* the packets the peer has sent
  received,    \* how many bytes of the stream the socket has delivered
  given        \* history: what OnRecvPacket was called with

vars == <<connected, pc, buf, processLen, sent, received, given>>

Packets == [start : Int, size : Int]

EndOf(packets) ==
  IF packets = << >> THEN 0
  ELSE packets[Len(packets)].start + packets[Len(packets)].size

Init ==
  /\ connected = FALSE
  /\ pc = "start"
  /\ buf = EmptyBuffer
  /\ processLen = 0
  /\ sent = << >>
  /\ received = 0
  /\ given = << >>

-----------------------------------------------------------------------------
(* The connection                                                          *)

\* The peer sends a packet that is not shorter than its own header.
PeerSend ==
  /\ \E n \in HeaderSize .. MaxPacket :
       /\ EndOf(sent) + n <= MaxStream
       /\ sent' = Append(sent, [start |-> EndOf(sent), size |-> n])
  /\ UNCHANGED <<connected, pc, buf, processLen, received, given>>

\* ProcessConnect up to the call of RegisterRecv.
ProcessConnect ==
  /\ pc = "start"
  /\ connected' = TRUE
  /\ pc' = "register"
  /\ UNCHANGED <<buf, processLen, sent, received, given>>

\* Another thread, or OnRecvPacket, calls Disconnect.
Disconnect ==
  /\ connected
  /\ connected' = FALSE
  /\ UNCHANGED <<pc, buf, processLen, sent, received, given>>

-----------------------------------------------------------------------------
(* RegisterRecv and its handler                                            *)

RegisterRecv ==
  /\ pc = "register"
  /\ pc' = IF connected THEN "reading" ELSE "stopped"
  /\ UNCHANGED <<connected, buf, processLen, sent, received, given>>

\* The read completes with as many bytes as the network cares to deliver; a
\* read of length 0 completes at once with none.
ReadSizes ==
  IF FreeSize(buf) = 0 THEN {0}
  ELSE {n \in 1 .. FreeSize(buf) : received + n <= EndOf(sent)}

\* The handler up to the call of OnRecv.  A write the buffer does not accept
\* ends the handler, and the receive loop with it.
ReadDone ==
  /\ pc = "reading"
  /\ \E n \in ReadSizes :
       /\ received' = received + n
       /\ LET b == Store(buf, n, received)
          IN  IF MayWrite(b, n)
              THEN buf' = OnWrite(b, n) /\ pc' = "parsing"
              ELSE buf' = b /\ pc' = "stopped"
  /\ processLen' = 0
  /\ UNCHANGED <<connected, sent, given>>

\* The read fails: the peer is gone, or Disconnect has closed the socket.
ReadFailed ==
  /\ pc = "reading"
  /\ connected' = FALSE
  /\ pc' = "stopped"
  /\ UNCHANGED <<buf, processLen, sent, received, given>>

-----------------------------------------------------------------------------
(* PacketSession::OnRecv                                                   *)

\* The n bytes from a cell on, as the piece of the stream they are.
Piece(at, n) ==
  [start |-> IF \A k \in 0 .. n - 1 : buf.cell[at + k] = buf.cell[at] + k
             THEN buf.cell[at] ELSE NoByte,
   size  |-> n]

\* The bytes the loop has not looked at yet, the first of them, and the two
\* tests of the loop.  For mutation: a packet that is nothing but a header does
\* not count as one.
Remaining == DataSize(buf) - processLen
At == buf.readPos + processLen

HasHeader_Exceeds == Remaining > HeaderSize
HasHeader == Remaining >= HeaderSize

IsWhole(n) == Remaining >= n

\* What header->size can be: the size of the packet that starts here, or
\* anything if what is here is not the header of a packet.
HeaderValues ==
  LET here == {i \in 1 .. Len(sent) : sent[i].start = buf.cell[At]}
  IN  IF here = {} \/ Remaining < HeaderSize THEN 0 .. MaxPacket
      ELSE {sent[i].size : i \in here}

\* One turn of the loop hands a packet over.
OnRecvPacket ==
  /\ pc = "parsing"
  /\ HasHeader
  /\ \E n \in HeaderValues :
       /\ IsWhole(n)
       /\ given' = Append(given, Piece(At, n))
       /\ processLen' = processLen + n
  /\ UNCHANGED <<connected, pc, buf, sent, received>>

\* The loop ends at the first packet that is not whole.
LoopEnds == HasHeader => \E n \in HeaderValues : ~IsWhole(n)

\* OnRecv returns; the handler takes what was processed out of the buffer,
\* cleans it and goes on to RegisterRecv.  A processed length beyond the data
\* disconnects the session.
OnRecvReturns ==
  /\ pc = "parsing"
  /\ LoopEnds
  /\ IF MayRead(buf, processLen)
     THEN /\ buf' = Clean(OnRead(buf, processLen))
          /\ pc' = "register"
          /\ UNCHANGED connected
     ELSE /\ connected' = FALSE
          /\ pc' = "stopped"
          /\ UNCHANGED buf
  /\ processLen' = 0
  /\ UNCHANGED <<sent, received, given>>

-----------------------------------------------------------------------------

Next ==
  \/ PeerSend \/ ProcessConnect \/ Disconnect
  \/ RegisterRecv \/ ReadDone \/ ReadFailed
  \/ OnRecvPacket \/ OnRecvReturns

Spec == Init /\ [][Next]_vars

\* A thread runs the handlers, and the network delivers what was sent.
FairSpec ==
  /\ Spec
  /\ WF_vars(RegisterRecv)
  /\ WF_vars(ReadDone)
  /\ WF_vars(OnRecvPacket)
  /\ WF_vars(OnRecvReturns)

-----------------------------------------------------------------------------
(* Properties                                                              *)

\* The type invariant.
TypeOK ==
  /\ connected \in BOOLEAN
  /\ pc \in {"start", "register", "reading", "parsing", "stopped"}
  /\ buf \in Buffers
  /\ processLen \in Nat
  /\ sent \in Seq(Packets)
  /\ received \in Nat
  /\ given \in Seq(Packets)

\* OnRecvPacket is called with the packets the peer sent, each whole, none
\* twice, none missing, in the order sent.
DeliversWhatWasSent ==
  /\ Len(given) <= Len(sent)
  /\ \A i \in 1 .. Len(given) : given[i] = sent[i]

\* A read is never issued on an empty window: asio completes it at once with
\* no bytes, and the handler would issue it again for ever.
ReadHasRoom == pc \in {"register", "reading"} => FreeSize(buf) >= 1

\* memcpy in Clean is never asked to move bytes to an overlapping range.
CleanNeverOverlaps ==
  pc = "parsing" /\ LoopEnds =>
    LET b == OnRead(buf, processLen) IN CopiesInClean(b) => CopyIsDefined(b)

\* While the session is connected the receive loop goes on: neither a write
\* the buffer refuses (where the handler just returns, Session.cpp:107) nor a
\* "Read Overflow" ends it.
ReceptionGoesOn == connected => pc # "stopped"

\* The session waits for more bytes only when no whole packet is left unread.
NoPacketLeftBehind ==
  pc \in {"register", "reading"} /\ Len(given) < Len(sent) =>
    LET next == sent[Len(given) + 1] IN received < next.start + next.size

\* Every packet the peer sends on a connection is handed over unless the
\* session is disconnected.
EveryPacketArrives ==
  \A i \in 1 .. MaxStream :
    pc # "start" /\ Len(sent) >= i ~> Len(given) >= i \/ ~connected

\* However the network cuts the stream and the buffer moves it, the handler, the
\* buffer and the loop amount to a channel of packets: between two reads every
\* packet that has arrived whole is handed over, in the order sent.
Channel == INSTANCE PacketChannel WITH arrived <- received

ImplementsPacketChannel == Channel!Spec

=============================================================================

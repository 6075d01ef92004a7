---------------------------- MODULE PacketChannel ----------------------------
(***************************************************************************)
(* What the receive path of a PacketSession promises: it takes more bytes  *)
(* from the network only when it has handed over every packet that has     *)
(* arrived whole, and it hands them over in the order sent.                *)
(***************************************************************************)
EXTENDS Integers, Sequences

CONSTANT MaxPacket  \* the longest packet

VARIABLES
  sent,     \* the packets, each a piece of the stream
  arrived,  \* how many bytes of the stream have arrived
  given     \* the packets handed over

vars == <<sent, arrived, given>>

Behind(p) == p.start + p.size
Length == IF sent = << >> THEN 0 ELSE Behind(sent[Len(sent)])

\* The next packet has arrived and is not handed over.
Waiting ==
  Len(given) < Len(sent) /\ Behind(sent[Len(given) + 1]) <= arrived

Init == sent = << >> /\ arrived = 0 /\ given = << >>

Send ==
  /\ \E n \in 1 .. MaxPacket :
       sent' = Append(sent, [start |-> Length, size |-> n])
  /\ UNCHANGED <<arrived, given>>

Arrive ==
  /\ ~Waiting
  /\ \E n \in 1 .. Length - arrived : arrived' = arrived + n
  /\ UNCHANGED <<sent, given>>

HandOver ==
  /\ Waiting
  /\ given' = Append(given, sent[Len(given) + 1])
  /\ UNCHANGED <<sent, arrived>>

Next == Send \/ Arrive \/ HandOver

Spec == Init /\ [][Next]_vars

==============================================================================

---------------------------- MODULE SendChannel ----------------------------
(***************************************************************************)
(* What the send path of a Session promises: one writer that takes the     *)
(* whole backlog, hands it to the network, and takes the next only when    *)
(* the network has answered.  Buffers are numbered in the order in which   *)
(* they are accepted; a write that fails or falls short loses a tail.      *)
(***************************************************************************)
EXTENDS Naturals, Sequences

VARIABLES
  accepted,  \* how many buffers were accepted
  backlog,   \* accepted and not taken yet
  writing,   \* what the writer has taken, empty if it is at rest
  carried    \* what the network took, in order

vars == <<accepted, backlog, writing, carried>>

Init ==
  /\ accepted = 0
  /\ backlog = << >>
  /\ writing = << >>
  /\ carried = << >>

Accept ==
  /\ accepted' = accepted + 1
  /\ backlog' = Append(backlog, accepted + 1)
  /\ UNCHANGED <<writing, carried>>

Take ==
  /\ writing = << >>
  /\ writing' = backlog
  /\ backlog' = << >>
  /\ UNCHANGED <<accepted, carried>>

Finish ==
  /\ writing # << >>
  /\ \E n \in 0 .. Len(writing) : carried' = carried \o SubSeq(writing, 1, n)
  /\ writing' = << >>
  /\ UNCHANGED <<accepted, backlog>>

Next == Accept \/ Take \/ Finish

Spec == Init /\ [][Next]_vars

=============================================================================

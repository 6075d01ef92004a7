-------------------------- MODULE OrderedBroadcast --------------------------
(***************************************************************************)
(* What Broadcast promises: broadcasts go out one after the other, each to *)
(* everybody who is a member when it begins, and members come and go only  *)
(* between two of them.  A member is passed over only if its connection is *)
(* gone.                                                                   *)
(***************************************************************************)
EXTENDS Integers, Sequences

CONSTANT Sessions

VARIABLES
  up,       \* the sessions that are connected
  members,  \* the registry
  count,    \* the number of the last broadcast
  pending,  \* the members it has not come to
  log       \* what each session was given

vars == <<up, members, count, pending, log>>

Init ==
  /\ up = {} /\ members = {} /\ count = 0 /\ pending = {}
  /\ log = [s \in Sessions |-> << >>]

Broadcast ==
  /\ pending = {}
  /\ count' = count + 1 /\ pending' = members
  /\ UNCHANGED <<up, members, log>>

Give(s) ==
  /\ s \in pending
  /\ pending' = pending \ {s} /\ log' = [log EXCEPT ![s] = Append(@, count)]
  /\ UNCHANGED <<up, members, count>>

PassOver(s) ==
  /\ s \in pending \ up
  /\ pending' = pending \ {s}
  /\ UNCHANGED <<up, members, count, log>>

Join(s) ==
  /\ pending = {}
  /\ members' = members \cup {s}
  /\ UNCHANGED <<up, count, pending, log>>

Leave(s) ==
  /\ pending = {} /\ s \notin up
  /\ members' = members \ {s}
  /\ UNCHANGED <<up, count, pending, log>>

Connect(s) ==
  /\ s \notin up \cup members
  /\ up' = up \cup {s}
  /\ UNCHANGED <<members, count, pending, log>>

Disconnect(s) ==
  /\ s \in up
  /\ up' = up \ {s}
  /\ UNCHANGED <<members, count, pending, log>>

Next ==
  \/ Broadcast
  \/ \E s \in Sessions :
       \/ Give(s) \/ PassOver(s) \/ Join(s) \/ Leave(s)
       \/ Connect(s) \/ Disconnect(s)

Spec == Init /\ [][Next]_vars

=============================================================================

--------------------------- MODULE SessionProtocol ---------------------------
(***************************************************************************)
(* What becomes of a session, whoever runs its handlers: it is connected   *)
(* once and disconnected once, each is told once, and the registry holds   *)
(* it neither before it was connected nor lets it go, unless it is cleared *)
(* as a whole, before the session was told that it is disconnected.  The   *)
(* registry may take a session again that has left.                        *)
(***************************************************************************)
CONSTANT Sessions

VARIABLES
  link,   \* "new", "up" or "down"
  told,   \* the callbacks made on each session
  listed  \* the registry

vars == <<link, told, listed>>

Init ==
  /\ link = [s \in Sessions |-> "new"]
  /\ told = [s \in Sessions |-> {}]
  /\ listed = {}

Tell(s, callback) ==
  /\ callback \notin told[s]
  /\ told' = [told EXCEPT ![s] = @ \cup {callback}]
  /\ UNCHANGED link

Connect(s) ==
  /\ link[s] = "new"
  /\ link' = [link EXCEPT ![s] = "up"]
  /\ UNCHANGED <<told, listed>>

Disconnect(s) ==
  /\ link[s] = "up"
  /\ link' = [link EXCEPT ![s] = "down"]
  /\ UNCHANGED <<told, listed>>

AddSession(s) ==
  /\ link[s] # "new"
  /\ listed' = listed \cup {s}
  /\ UNCHANGED <<link, told>>

OnConnected(s) ==
  link[s] # "new" /\ Tell(s, "OnConnected") /\ UNCHANGED listed

\* The session may leave the registry in the same step.
OnDisconnected(s) ==
  /\ link[s] = "down" /\ Tell(s, "OnDisconnected")
  /\ listed' \in {listed, listed \ {s}}

ReleaseSession(s) ==
  /\ "OnDisconnected" \in told[s]
  /\ listed' = listed \ {s}
  /\ UNCHANGED <<link, told>>

Clear == listed' = {} /\ UNCHANGED <<link, told>>

Next ==
  \/ Clear
  \/ \E s \in Sessions :
       \/ Connect(s) \/ Disconnect(s) \/ AddSession(s) \/ OnConnected(s)
       \/ OnDisconnected(s) \/ ReleaseSession(s)

Spec == Init /\ [][Next]_vars

==============================================================================

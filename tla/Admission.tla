------------------------------ MODULE Admission ------------------------------
(***************************************************************************)
(* How a ServerService admits clients.  A client that is here costs two of *)
(* the places the server has, and one that has gone still costs one.  A    *)
(* client is admitted while a place is free, and the gate that is shut     *)
(* when none is free is not opened again.                                  *)
(***************************************************************************)
EXTENDS Integers, FiniteSets

CONSTANTS Sessions, MaxSessionCount

VARIABLES here, gone, shut

vars == <<here, gone, shut>>

Taken == 2 * Cardinality(here) + Cardinality(gone)

Init == here = {} /\ gone = {} /\ shut = FALSE

Admit(s) ==
  /\ ~shut /\ Taken < MaxSessionCount
  /\ s \notin here \cup gone
  /\ here' = here \cup {s}
  /\ UNCHANGED <<gone, shut>>

Leave(s) ==
  /\ s \in here
  /\ here' = here \ {s} /\ gone' = gone \cup {s}
  /\ UNCHANGED shut

Shut ==
  /\ Taken >= MaxSessionCount
  /\ shut' = TRUE
  /\ UNCHANGED <<here, gone>>

Next == Shut \/ \E s \in Sessions : Admit(s) \/ Leave(s)

Spec == Init /\ [][Next]_vars

==============================================================================

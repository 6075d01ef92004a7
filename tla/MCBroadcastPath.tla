-------------------------- MODULE MCBroadcastPath --------------------------
(***************************************************************************)
(* BroadcastPath on instances TLC can explore.                             *)
(***************************************************************************)
EXTENDS BroadcastPath, FiniteSets

\* Threads enough for a broadcast, a completion that waits, and one that waits
\* for the registry.
ASSUME MCBroadcastPathAssumption ==
  /\ Cardinality(Threads) >= 3 /\ Cardinality(Sessions) >= 2
  /\ MaxBroadcasts >= 2 /\ MaxSends >= 1

=============================================================================

----------------------------- MODULE MCRuntime -----------------------------
(***************************************************************************)
(* Runtime on instances TLC can explore.                                   *)
(***************************************************************************)
EXTENDS Runtime, FiniteSets

\* Threads enough for one that is joined, one in a handler, and one it launches.
ASSUME MCRuntimeAssumption == Cardinality(Threads) >= 3 /\ MaxWork >= 2

=============================================================================

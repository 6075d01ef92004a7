---------------------------- MODULE MCSendPath ----------------------------
(***************************************************************************)
(* SendPath on instances TLC can explore.  The sets of threads, the error  *)
(* codes, the empty buffers and the two bounds are given in the .cfg.      *)
(***************************************************************************)
EXTENDS SendPath

\* The bounds are large enough for a write to end with buffers waiting and for
\* the object to be connected again.
ASSUME MCSendPathAssumption == MaxSends >= 2 /\ Cardinality(Threads) >= 2

===========================================================================

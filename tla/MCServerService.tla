-------------------------- MODULE MCServerService --------------------------
(***************************************************************************)
(* ServerService with a few session objects.                               *)
(***************************************************************************)
EXTENDS ServerService

\* There are sessions enough to reach the limit and come back to it.
ASSUME MCServerServiceAssumption ==
  2 * Cardinality(Sessions) > MaxSessionCount

============================================================================

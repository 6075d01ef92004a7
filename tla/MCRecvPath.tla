---------------------------- MODULE MCRecvPath ----------------------------
(***************************************************************************)
(* RecvPath with a buffer of a few bytes.  The stream is long enough for   *)
(* the buffer to be rewound, moved to the front and filled again.          *)
(***************************************************************************)
EXTENDS RecvPath

ASSUME MCRecvPathAssumption == MaxStream > Capacity

===========================================================================

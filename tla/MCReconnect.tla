---------------------------- MODULE MCReconnect ----------------------------
(***************************************************************************)
(* Reconnect with a few loops, which are interchangeable, and streams long *)
(* enough to fill the buffer.                                              *)
(***************************************************************************)
EXTENDS Reconnect, TLC

Symmetry == Permutations(Loops)

=============================================================================

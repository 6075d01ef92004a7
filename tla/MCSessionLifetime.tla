------------------------- MODULE MCSessionLifetime -------------------------
(***************************************************************************)
(* SessionLifetime with a few sessions, which are interchangeable.         *)
(***************************************************************************)
EXTENDS SessionLifetime, TLC

Symmetry == Permutations(Sessions)

=============================================================================

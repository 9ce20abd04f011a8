----------------------------- MODULE MCListener -----------------------------
(***************************************************************************)
(* Listener for TLC.                                                       *)
(***************************************************************************)
EXTENDS Listener, Bitwise, TLC

\* 3_14159_2653 modulo 16 is 13.
MCXorIRS(v) == v ^^ 13

MCSymmetry == Permutations(Clients)
=============================================================================

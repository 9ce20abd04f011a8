------------------------------ MODULE MCTCPLink ------------------------------
(***************************************************************************)
(* TCPLink for TLC.                                                        *)
(***************************************************************************)
EXTENDS TCPLink, Bitwise

\* 3_14159_2653 modulo 16 is 13.
MCXorIRS(v) == v ^^ 13
=============================================================================

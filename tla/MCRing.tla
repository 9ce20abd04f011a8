------------------------------- MODULE MCRing -------------------------------
(* Model of Ring for TLC: a 4-byte buffer, writes and reads of up to 5 bytes. *)
EXTENDS Ring

MCInputs == UNION {[1 .. n -> Byte] : n \in 0 .. BufLen + 1}
MCRequests == 1 .. BufLen + 1
MCRequestsZero == 0 .. BufLen + 1
=============================================================================

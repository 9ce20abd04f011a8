---------------------------- MODULE MCUDPClients ----------------------------
(***************************************************************************)
(* UDPClients for TLC: either client several times in a row, or both at once.      *)
(***************************************************************************)
EXTENDS UDPClients

MCPlans ==
  {[dns |-> 3, ntp |-> 0], [dns |-> 0, ntp |-> 2], [dns |-> 1, ntp |-> 1]}
=============================================================================

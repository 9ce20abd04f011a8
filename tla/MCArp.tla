-------------------------------- MODULE MCArp --------------------------------
(***************************************************************************)
(* Arp for TLC: three stacks whose addresses are numbers.                  *)
(***************************************************************************)
EXTENDS Arp

MCNodes == {"a", "b", "c"}

MCAddrOf == [n \in MCNodes |-> CASE n = "a" -> 1 [] n = "b" -> 2 [] OTHER -> 3]
=============================================================================

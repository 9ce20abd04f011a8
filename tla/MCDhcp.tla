------------------------------- MODULE MCDhcp -------------------------------
(***************************************************************************)
(* Dhcp for TLC: clients c1 and c2, servers s1 and s2 like DHCPServer, and *)
(* s3 and s4, which send their identification.                             *)
(***************************************************************************)
EXTENDS Dhcp

MCXid == [c \in Clients |-> IF c = "c1" THEN 1 ELSE 2]

\* One client and two servers of a kind, or two clients and one server.
MCSegments ==
  {[stacks |-> {"c1", "s1", "s2"}, faults |-> 2], [stacks |-> {"c1", "s3", "s4"}, faults |-> 1],
   [stacks |-> {"c1", "c2", "s1"}, faults |-> 1]}

\* One client and a server of each kind.
MCMixed == {[stacks |-> {"c1", "s1", "s3"}, faults |-> 0]}

\* One of each, and nothing gets lost.
MCPair == {[stacks |-> {"c1", "s1"}, faults |-> 0]}

\* The clients ask for different addresses.
MCRequested == [c \in Clients |-> IF c = "c1" THEN "a1" ELSE "a2"]

\* They ask for none.
MCNothing == [c \in Clients |-> None]
=============================================================================

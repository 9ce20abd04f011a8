-------------------------------- MODULE Fifo --------------------------------
(***************************************************************************)
(* What a connection expects of the byte buffer it sends from or receives  *)
(* into: a bounded first-in first-out queue whose Write is all-or-nothing  *)
(* and whose Read removes a prefix and returns exactly the bytes removed.  *)
(* stacks.ring (module Ring) is shown to implement this specification.     *)
(***************************************************************************)
EXTENDS Integers, Sequences

CONSTANTS
  Cap,      \* capacity of the queue
  Inputs,   \* the byte strings a caller may write
  Requests  \* the numbers of bytes a caller may ask for

VARIABLES
  q,    \* the bytes written and not yet read, oldest first
  ret   \* what the last call returned: count, bytes and error

vars == <<q, ret>>

Result(n, data, err) == [n |-> n, data |-> data, err |-> err]

Init ==
  /\ q = <<>>
  /\ ret = Result(0, <<>>, "nil")

\* A write that does not fit is refused whole.
WriteFull(b) ==
  /\ Len(b) > Cap - Len(q)
  /\ ret' = Result(0, <<>>, "full")
  /\ UNCHANGED q

WriteOk(b) ==
  /\ Len(b) <= Cap - Len(q)
  /\ q' = q \o b
  /\ ret' = Result(Len(b), <<>>, "nil")

ReadEmpty(k) ==
  /\ q = <<>>
  /\ ret' = Result(0, <<>>, "EOF")
  /\ UNCHANGED q

\* A read takes the n oldest bytes, n being the request or all there is.
ReadOk(k) ==
  LET n == IF k < Len(q) THEN k ELSE Len(q) IN
  /\ q # <<>>
  /\ q' = SubSeq(q, n + 1, Len(q))
  /\ ret' = Result(n, SubSeq(q, 1, n), "nil")

Reset ==
  /\ q' = <<>>
  /\ UNCHANGED ret

Next ==
  \/ \E b \in Inputs : WriteFull(b) \/ WriteOk(b)
  \/ \E k \in Requests : ReadEmpty(k) \/ ReadOk(k)
  \/ Reset

Spec == Init /\ [][Next]_vars
=============================================================================

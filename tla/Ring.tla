-------------------------------- MODULE Ring --------------------------------
(***************************************************************************)
(* stacks/ring.go: the circular byte buffer behind TCPConn's tx and rx.    *)
(*                                                                         *)
(* The three fields of the struct are a record r = [buf, off, end]; buf is *)
(* a function on 0..BufLen-1.  off = end is ambiguous between "empty" and  *)
(* "full": the code keeps empty at off = end = 0 only (Reset) and takes    *)
(* any other coincidence for a full buffer.                                *)
(***************************************************************************)
EXTENDS Integers, Sequences

CONSTANTS
  BufLen,    \* len(r.buf)
  Byte,      \* the values a byte can take
  Inputs,    \* the byte strings callers write
  Requests   \* the lengths of the slices callers read into

ASSUME RingAssumption ==
  /\ BufLen \in Nat \ {0}
  /\ Inputs \subseteq Seq(Byte)
  /\ Requests \subseteq Nat

Rings == [buf : [0 .. BufLen - 1 -> Byte], off : 0 .. BufLen, end : 0 .. BufLen]

MinOf(a, b) == IF a < b THEN a ELSE b

-----------------------------------------------------------------------------
(* The methods, as functions of the struct. *)

Free(r) ==
  IF r.off = 0 THEN BufLen - r.end
  ELSE IF r.off < r.end THEN r.off + (BufLen - r.end)
  ELSE r.off - r.end

Buffered(r) == BufLen - Free(r)

MidFree(r) == IF r.end >= r.off THEN 0 ELSE r.off - r.end

Cleared(r) == [buf |-> r.buf, off |-> 0, end |-> 0]

\* Go's copy(buf[at:], b[from:]) of n bytes.
CopyIn(buf, at, b, from, n) ==
  [i \in 0 .. BufLen - 1 |->
     IF at <= i /\ i < at + n THEN b[from + (i - at) + 1] ELSE buf[i]]

\* Write with the bytes in the gap between end and off ...
WriteMid(r, b) ==
  LET n == MinOf(r.off - r.end, Len(b))
  IN  [r EXCEPT !.buf = CopyIn(r.buf, r.end, b, 0, n), !.end = r.end + n]

\* ... or at the end of buf, wrapping round to its start.
WriteWrap(r, b) ==
  LET n  == MinOf(BufLen - r.end, Len(b))
      n2 == MinOf(BufLen, Len(b) - n)
      b1 == CopyIn(r.buf, r.end, b, 0, n)
  IN  IF n < Len(b)
      THEN [r EXCEPT !.buf = CopyIn(b1, 0, b, n, n2), !.end = n2]
      ELSE [r EXCEPT !.buf = b1, !.end = r.end + n]

WriteFits(r, b) == Len(b) <= Free(r)

Written(r, b) == IF MidFree(r) > 0 THEN WriteMid(r, b) ELSE WriteWrap(r, b)

\* Mutant of OnReadEnd: off is left at the end of buf.
OnReadEndNoWrap(r) ==
  IF r.off = r.end THEN Cleared(r) ELSE r

\* Mutant of OnReadEnd: end is not wrapped along with off.
OnReadEndKeepsEnd(r) ==
  LET o == IF r.off = BufLen THEN 0 ELSE r.off
  IN  IF o = r.end THEN Cleared(r) ELSE [r EXCEPT !.off = o]

OnReadEnd(r) ==
  LET e == IF r.end = BufLen THEN 0 ELSE r.end
      o == IF r.off = BufLen THEN 0 ELSE r.off
  IN  IF o = e THEN Cleared(r) ELSE [buf |-> r.buf, off |-> o, end |-> e]

\* The i-th byte from off on, cyclically.
At(r, i) ==
  IF r.off + i <= BufLen THEN r.buf[r.off + i - 1] ELSE r.buf[r.off + i - 1 - BufLen]

\* How many bytes a Read into a slice of length k copies ...
ReadCount(r, k) ==
  IF r.end > r.off THEN MinOf(k, r.end - r.off)
  ELSE LET n == MinOf(k, BufLen - r.off)
       IN  IF n < k THEN n + MinOf(k - n, r.end) ELSE n

\* ... which bytes they are (the second copy starts at buf[0]) ...
ReadData(r, k) == [i \in 1 .. ReadCount(r, k) |-> At(r, i)]

\* ... and the struct it leaves.
ReadRest(r, k) ==
  LET n == MinOf(k, BufLen - r.off)
  IN  IF r.end > r.off
      THEN OnReadEnd([r EXCEPT !.off = r.off + MinOf(k, r.end - r.off)])
      ELSE IF n < k THEN OnReadEnd([r EXCEPT !.off = MinOf(k - n, r.end)])
           ELSE OnReadEnd([r EXCEPT !.off = r.off + n])

-----------------------------------------------------------------------------
(* One ring and its callers. *)

VARIABLES
  ring,  \* the struct
  ret    \* what the last call returned

vars == <<ring, ret>>

Result(n, data, err) == [n |-> n, data |-> data, err |-> err]

Init ==
  /\ ring \in {r \in Rings : r.off = 0 /\ r.end = 0}
  /\ ret = Result(0, <<>>, "nil")

Write(b) ==
  \/ /\ ~WriteFits(ring, b)
     /\ ret' = Result(0, <<>>, "full")
     /\ UNCHANGED ring
  \/ /\ WriteFits(ring, b)
     /\ ring' = Written(ring, b)
     /\ ret' = Result(Len(b), <<>>, "nil")

Read(k) ==
  \/ /\ Buffered(ring) = 0
     /\ ret' = Result(0, <<>>, "EOF")
     /\ UNCHANGED ring
  \/ /\ Buffered(ring) # 0
     /\ ring' = ReadRest(ring, k)
     /\ ret' = Result(ReadCount(ring, k), ReadData(ring, k), "nil")

Reset ==
  /\ ring' = Cleared(ring)
  /\ UNCHANGED ret

Next ==
  \/ \E b \in Inputs : Write(b)
  \/ \E k \in Requests : Read(k)
  \/ Reset

Spec == Init /\ [][Next]_vars

-----------------------------------------------------------------------------
(* Properties. *)

\* The indices stay inside the buffer; off never rests on len(buf), which
\* Free, Read and Write rely on (OnReadEnd wraps it).
TypeOK ==
  /\ ring \in Rings
  /\ ring.off < BufLen
  /\ ret.n \in Nat
  /\ ret.data \in Seq(Byte)
  /\ ret.err \in {"nil", "full", "EOF"}

\* The bytes a ring stands for: Buffered(r) bytes from off on, cyclically.
Contents(r) == [i \in 1 .. Buffered(r) |-> At(r, i)]

Queue == INSTANCE Fifo WITH Cap <- BufLen, q <- Contents(ring)

\* Every Write, Read and Reset of the ring is the same call on a bounded FIFO
\* queue: no byte lost, reordered or invented by the wrapping, and the count,
\* bytes and error that Write and Read return are the queue's.
FifoSpec == Queue!Spec

\* What TestRing_findcrash asserts after each Read: the number of buffered
\* bytes went down by the number of bytes the call returned.
ReadAccounting ==
  [][\A k \in Requests :
       Read(k) => Buffered(ring') = Buffered(ring) - ret'.n]_vars
=============================================================================

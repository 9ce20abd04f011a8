------------------------------- MODULE SeqNum -------------------------------
(***************************************************************************)
(* valuesize.go and the Segment type of seqs.go: sequence numbers modulo   *)
(* SeqMod (2^32 in the code), and segments in the sequence space.          *)
(***************************************************************************)
EXTENDS Integers

CONSTANTS
  SeqMod,   \* size of the sequence space: 2^32
  MaxWnd    \* math.MaxUint16, the largest window a segment may carry

ASSUME SeqAssumption ==
  /\ SeqMod \in Nat \ {0, 1}
  /\ MaxWnd \in Nat \ {0} /\ 2 * MaxWnd < SeqMod

Value == 0 .. SeqMod - 1

Window == 0 .. MaxWnd

Wrap(x) == x % SeqMod

\* Mutant of Add: no overflow.
AddUnwrapped(v, s) == v + s

Add(v, s) == Wrap(v + s)

Sizeof(v, w) == Wrap(w - v)

\* int32(v-w) < 0
LessThan(v, w) == 2 * Wrap(v - w) >= SeqMod

LessThanEq(v, w) == v = w \/ LessThan(v, w)

InRange(v, a, b) == Wrap(v - a) < Wrap(b - a)

InWindow(v, first, size) == InRange(v, first, Add(first, size))

-----------------------------------------------------------------------------
(* Flags are sets; the bits the control block never looks at are left out. *)

FlagNames == {"FIN", "SYN", "RST", "PSH", "ACK"}
synack == {"SYN", "ACK"}
finack == {"FIN", "ACK"}

Segment == [SEQ : Value, ACK : Value, DATALEN : Value, WND : Value,
            Flags : SUBSET FlagNames]

Has(seg, flag) == flag \in seg.Flags

\* LEN: SYN and FIN occupy one sequence number each.
SegLen(seg) ==
  Wrap(seg.DATALEN + (IF Has(seg, "FIN") THEN 1 ELSE 0)
                   + (IF Has(seg, "SYN") THEN 1 ELSE 0))

Last(seg) ==
  IF SegLen(seg) = 0 THEN seg.SEQ ELSE Wrap(Add(seg.SEQ, SegLen(seg)) - 1)
=============================================================================

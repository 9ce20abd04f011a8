--------------------------- MODULE MCControlBlock ---------------------------
(***************************************************************************)
(* ControlBlock for TLC: an 8-value sequence space, so that every          *)
(* comparison is exercised across the wrap, and segments whose numbers     *)
(* lie around the ones the block expects.                                  *)
(***************************************************************************)
EXTENDS ControlBlock, Bitwise

\* 3_14159_2653 modulo 8 is 5.
MCXorIRS(v) == v ^^ 5

MCFlags == {{"SYN"}, {"SYN", "ACK"}, {"ACK"}, {"FIN", "ACK"}, {"FIN"}, {"RST"},
            {"RST", "SYN"}}

\* The peer's SYNs carry one sequence number.
MCSynSEQ == 5

\* Bound on the sequence numbers either side uses up, SYN and FIN included.
MaxOctets == 3

MCPayloads(t) == IF Sizeof(t.snd.ISS, t.snd.NXT) < MaxOctets THEN {0, 1} ELSE {0}

\* Other segments have SEQ one before, at or one after what is expected.  ACK is
\* from one below SND.UNA to one above SND.NXT, and zero without the ACK flag.
MCIncoming(t) ==
  {seg \in [SEQ : {MCSynSEQ} \union {Wrap(t.rcv.NXT + d) : d \in -1 .. 1},
            ACK : {0} \union {Wrap(t.snd.UNA + d) : d \in -1 .. InFlight(t) + 1},
            DATALEN : {0, 1}, WND : Windows, Flags : MCFlags] :
     /\ Has(seg, "SYN") => seg.SEQ = MCSynSEQ
     /\ Has(seg, "SYN") \/ Has(seg, "RST") => seg.DATALEN = 0
     /\ seg.ACK # 0 => Has(seg, "ACK")
     /\ SegLen(seg) > 0 => Sizeof(t.rcv.IRS, t.rcv.NXT) < MaxOctets}
=============================================================================

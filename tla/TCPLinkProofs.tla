---------------------------- MODULE TCPLinkProofs ----------------------------
(***************************************************************************)
(* Proofs about TCPLink, for buffers, windows and streams of every size    *)
(* and a link that loses, duplicates and reorders: the reader of either    *)
(* side gets the octets the other user wrote (StreamIsPrefix), the         *)
(* sequence numbers of the two control blocks agree (BothEndsAgree), what  *)
(* is acknowledged has been buffered (AckedAreBuffered), a FIN comes after *)
(* the data (PassiveHasAllOctets, FinComesLast), and a port is never lost  *)
(* over a segment of its own (PendingIsSent).                              *)
(*                                                                         *)
(* Sequence numbers are taken as counts of octets from the initial number, *)
(* which is exact while neither stream fills half the sequence space       *)
(* (HalfLap).  The first half of the module reduces Recv and Send of a     *)
(* TCPConn to what they do to those counts; the second states the          *)
(* invariant IInv in counts and shows that each action keeps it.  What     *)
(* makes it inductive is what it says of the packets under way: which      *)
(* octets each carries (Carries), what it acknowledges (Acknowledges),     *)
(* that of two packets of one side one is the newer in both respects       *)
(* (Paired), and that none can take back window that the sender has        *)
(* filled already (Windowed).  The last four theorems need JInv as well,   *)
(* which is about the end of a stream and rests on IInv: where a FIN lies  *)
(* and what its receiver then has (Finishes, Heard), what the octets       *)
(* acknowledged by packets under way are (Buffered), and that the window   *)
(* is not taken back by a FIN or by what follows it (Ordered, Lasting).    *)
(***************************************************************************)
EXTENDS TCPLink, SequenceTheorems, TLAPS

-----------------------------------------------------------------------------
(* Sequence numbers, counted from the initial one *)

\* Within one lap around the sequence space a reduction is at most one turn.
LEMMA WrapIs ==
  ASSUME NEW x \in Int
  PROVE  /\ Wrap(x) \in Value
         /\ x >= 0 /\ x < SeqMod => Wrap(x) = x
         /\ x >= 0 - SeqMod /\ x < 0 => Wrap(x) = x + SeqMod
         /\ x >= SeqMod /\ x < 2 * SeqMod => Wrap(x) = x - SeqMod
<1>1. SeqMod \in Nat /\ SeqMod > 1
  BY SeqAssumption
<1>2. Wrap(x) \in Value
  BY <1>1 DEF Wrap, Value
<1>3. x >= 0 /\ x < SeqMod => Wrap(x) = x
  BY <1>1 DEF Wrap
<1>4. x >= 0 - SeqMod /\ x < 0 => Wrap(x) = x + SeqMod
  BY <1>1 DEF Wrap
<1>5. x >= SeqMod /\ x < 2 * SeqMod => Wrap(x) = x - SeqMod
  BY <1>1 DEF Wrap
<1>6. QED
  BY <1>2, <1>3, <1>4, <1>5

\* The octets of e's stream before sequence number v, its SYN among them.
Iss(e) == IF e = "client" THEN ClientISS ELSE ServerISS
Num(e, v) == Wrap(v - Iss(e))

\* A count is the distance from the initial number, around the end of the space.
LEMMA NumIs ==
  ASSUME NEW e, NEW v \in Value
  PROVE  /\ Iss(e) \in Value /\ Num(e, v) \in Value
         /\ Num(e, v) = IF v >= Iss(e) THEN v - Iss(e) ELSE v - Iss(e) + SeqMod
<1>1. Iss(e) \in Value
  BY TCPLinkAssumption DEF Iss
<1>2. v - Iss(e) \in Int /\ v - Iss(e) < SeqMod /\ v - Iss(e) >= 0 - SeqMod
  BY <1>1, SeqAssumption DEF Value
<1>3. QED
  BY <1>1, <1>2, WrapIs, SeqAssumption DEF Num, Value

\* Sequence numbers and counts are one to one, and adding is adding ...
LEMMA NumEq ==
  ASSUME NEW e, NEW v \in Value, NEW w \in Value, Num(e, v) = Num(e, w) PROVE v = w
  BY NumIs, SeqAssumption DEF Value

\* Advancing a sequence number by n advances its count by n, within one lap.
LEMMA NumAdd ==
  ASSUME NEW e, NEW v \in Value, NEW n \in Nat, Num(e, v) + n < SeqMod
  PROVE  Add(v, n) \in Value /\ Num(e, Add(v, n)) = Num(e, v) + n
<1>1. v + n \in Nat /\ v + n < 2 * SeqMod
  BY NumIs, SeqAssumption DEF Value
<1>2. Add(v, n) = IF v + n < SeqMod THEN v + n ELSE v + n - SeqMod
  BY <1>1, WrapIs, SeqAssumption DEF Add, Value
<1>3. Add(v, n) \in Value
  BY <1>1, WrapIs, SeqAssumption DEF Add
<1>4. QED
  BY <1>1, <1>2, <1>3, NumIs, SeqAssumption DEF Value

\* ... the distance is the difference, and within half a lap int32(v-w) < 0 is
\* the order.
LEMMA NumSize ==
  ASSUME NEW e, NEW v \in Value, NEW w \in Value, Num(e, v) <= Num(e, w)
  PROVE  Sizeof(v, w) = Num(e, w) - Num(e, v)
<1>1. w - v \in Int /\ w - v < SeqMod /\ w - v >= 0 - SeqMod
  BY SeqAssumption DEF Value
<1>2. Sizeof(v, w) = IF w >= v THEN w - v ELSE w - v + SeqMod
  BY <1>1, WrapIs, SeqAssumption DEF Sizeof, Value
<1>3. QED
  BY <1>2, NumIs, SeqAssumption DEF Value

\* Within half a lap the int32 order of sequence numbers is the order of the counts.
LEMMA NumLess ==
  ASSUME NEW e, NEW v \in Value, NEW w \in Value,
         2 * Num(e, v) < SeqMod, 2 * Num(e, w) < SeqMod
  PROVE  /\ LessThan(v, w) <=> Num(e, v) < Num(e, w)
         /\ LessThanEq(v, w) <=> Num(e, v) <= Num(e, w)
<1>1. v - w \in Int /\ v - w < SeqMod /\ v - w >= 0 - SeqMod
  BY SeqAssumption DEF Value
<1>2. Wrap(v - w) = IF v >= w THEN v - w ELSE v - w + SeqMod
  BY <1>1, WrapIs, SeqAssumption DEF Value
<1>3. LessThan(v, w) <=> Num(e, v) < Num(e, w)
  BY <1>2, NumIs, SeqAssumption DEF Value, LessThan
<1>4. Num(e, v) = Num(e, w) <=> v = w
  BY NumEq
<1>5. QED
  BY <1>3, <1>4, NumIs, SeqAssumption DEF Value, LessThanEq

-----------------------------------------------------------------------------
(* Control blocks *)

Ending == {"FinWait1", "FinWait2", "Closing", "TimeWait", "CloseWait", "LastAck"}

IsBlock(t) ==
  /\ DOMAIN t = {"state", "snd", "rcv", "rstPtr", "p0", "p1", "challengeAck"}
  /\ DOMAIN t.snd = {"ISS", "UNA", "NXT", "WND"}
  /\ DOMAIN t.rcv = {"IRS", "NXT", "WND"}
  /\ t.state \in States
  /\ t.snd.ISS \in Value /\ t.snd.UNA \in Value /\ t.snd.NXT \in Value
  /\ t.snd.WND \in 0 .. RxCap 
  /\ t.rcv.NXT \in Value /\ t.rcv.WND \in 0 .. RxCap

\* No reset is ever owed, a SYN only by SynRcvd, and a FIN is queued at most once.
Queued(t) ==
  /\ ~t.challengeAck
  /\ t.p0 \subseteq {"SYN", "ACK", "FIN"} /\ t.p1 \subseteq {"FIN", "ACK"}
  /\ "SYN" \in t.p0 => t.p0 = synack /\ t.state = "SynRcvd"
  /\ t.state \in {"Closed", "Listen", "SynSent"} => t.p0 = {} /\ t.p1 = {}
  /\ t.state \in {"SynRcvd", "Established"} => t.p1 = {}
  /\ t.state \in {"FinWait1", "FinWait2", "Closing", "TimeWait"}
       => "FIN" \notin t.p0 /\ "FIN" \notin t.p1
  /\ t.state = "LastAck" => "FIN" \notin t.p1
  /\ t.state = "CloseWait" => t.p0 # {}
  /\ t.state = "FinWait1" => t.p0 = {}
  /\ t.state \in {"FinWait1", "FinWait2"} => t.p1 = {}

\* A FIN has not been sent, and may be.
FinDue(t) ==
  \/ t.state \in {"SynRcvd", "Established", "CloseWait"}
  \/ t.state = "LastAck" /\ "FIN" \in t.p0

IsSeg(seg) ==
  /\ seg \in Segment /\ seg.WND <= RxCap
  /\ seg.Flags \subseteq {"SYN", "ACK", "FIN"}

\* What the handshake guarantees about the segments that reach a block.
Expected(t, seg) ==
  /\ Has(seg, "SYN") => t.state \in {"Listen", "SynSent"}
  /\ t.state = "Listen" => Has(seg, "SYN") /\ ~Has(seg, "ACK")
  /\ t.state = "SynSent" /\ Has(seg, "SYN") => Has(seg, "ACK")
  /\ t.state = "SynRcvd" => Has(seg, "ACK") /\ "SYN" \notin t.p0
  /\ t.state \in {"SynSent", "SynRcvd"} /\ Has(seg, "ACK")
       => LessThan(t.snd.UNA, seg.ACK) /\ LessThanEq(seg.ACK, t.snd.NXT)

\* A segment that is not taken changes nothing but flags.
Refuses(t, u) ==
  /\ IsBlock(u) /\ Queued(u)
  /\ u.state = t.state /\ u.snd = t.snd /\ u.rcv = t.rcv
  /\ \A f \in {"SYN", "FIN"} : f \in u.p0 => f \in t.p0
  /\ t.state # "Established" => u.p0 = t.p0
  /\ FinDue(u) => FinDue(t)

\* Where a segment that is taken leads ...
Leads(t, seg, s) ==
  \/ t.state = "Listen" /\ s = "SynRcvd"
  \/ t.state = "SynSent" /\ s = "Established" /\ Has(seg, "SYN") /\ Has(seg, "ACK")
  \/ t.state = "SynRcvd" /\ s = "Established"
  \/ t.state = "Established" /\ s = (IF Has(seg, "FIN") THEN "CloseWait" ELSE "Established")
  \/ t.state = "FinWait1" /\ s \in (IF Has(seg, "FIN") THEN {"Closing", "TimeWait"} ELSE {"FinWait2"})
  \/ t.state = "FinWait2" /\ s = "TimeWait" /\ Has(seg, "FIN")
  \/ t.state = "CloseWait" /\ s = "CloseWait"
  \/ t.state = "LastAck" /\ s = (IF Has(seg, "ACK") THEN "Closed" ELSE "LastAck")
  \/ t.state = "Closing" /\ s \in {"Closing", "TimeWait"}

\* A FIN that an open block owes.
OwesFin(t) == "FIN" \in t.p0 /\ t.state \in {"SynRcvd", "Established"}

\* ... and what it does to the numbers.
Takes(t, seg, u) ==
  /\ IsBlock(u) /\ Queued(u) /\ Leads(t, seg, u.state)
  /\ Has(seg, "SYN") \/ seg.SEQ = t.rcv.NXT
  /\ FinDue(u) => FinDue(t) \/ t.state \in {"Listen", "SynSent"}
  /\ OwesFin(u) => OwesFin(t)
  /\ t.state = "Established" /\ Has(seg, "ACK")
       => /\ LessThanEq(seg.ACK, t.snd.NXT)
          /\ LessThan(t.snd.UNA, seg.ACK) \/ seg.DATALEN > 0 \/ Has(seg, "FIN")
  /\ u.state # "Closed" =>
       /\ u.snd.ISS = t.snd.ISS
       /\ u.snd.NXT = IF t.state = "Listen" THEN t.snd.ISS ELSE t.snd.NXT
       /\ u.snd.UNA = IF Has(seg, "ACK") THEN seg.ACK
                      ELSE IF t.state = "Listen" THEN t.snd.ISS ELSE t.snd.UNA
       /\ u.snd.WND = seg.WND
       /\ u.rcv.NXT = Add(IF t.state \in {"Listen", "SynSent"} THEN seg.SEQ ELSE t.rcv.NXT,
                          SegLen(seg))

\* LEN of a segment is a number of octets.
LEMMA SegLenIs == ASSUME NEW seg \in Segment PROVE SegLen(seg) \in Nat
<1>1. seg.DATALEN \in Nat
  BY SeqAssumption DEF Segment, Value
<1>2. SegLen(seg) \in Value
  BY <1>1, WrapIs DEF SegLen
<1>3. QED
  BY <1>2, SeqAssumption DEF Value

\* Add stays within the sequence space.
LEMMA AddIn == ASSUME NEW v \in Value, NEW n \in Nat PROVE Add(v, n) \in Value
  BY WrapIs, SeqAssumption DEF Add, Value

\* The block and the flags that the method for the state gives, before Accepted.
Steps(t, seg, s) ==
  /\ IsBlock(s.tcb) /\ Leads(t, seg, s.tcb.state)
  /\ Queued([s.tcb EXCEPT !.p0 = s.tcb.p0 \union s.pending])
  /\ FinDue([s.tcb EXCEPT !.p0 = s.tcb.p0 \union s.pending])
       => FinDue(t) \/ t.state \in {"Listen", "SynSent"}
  /\ OwesFin([s.tcb EXCEPT !.p0 = s.tcb.p0 \union s.pending]) => OwesFin(t)
  /\ s.tcb.state # "Closed" =>
       /\ s.tcb.snd.ISS = t.snd.ISS
       /\ s.tcb.snd.NXT = IF t.state = "Listen" THEN t.snd.ISS ELSE t.snd.NXT
       /\ s.tcb.snd.UNA = IF t.state = "Listen" THEN t.snd.ISS ELSE t.snd.UNA
       /\ s.tcb.rcv.NXT = IF t.state \in {"Listen", "SynSent"} THEN seg.SEQ ELSE t.rcv.NXT

\* rcvListen, rcvSynSent, rcvSynRcvd, ...: what the method for the state does with an
\* expected segment.
LEMMA RcvInStateSteps ==
  ASSUME NEW t, NEW seg, IsBlock(t), Queued(t), IsSeg(seg), Expected(t, seg),
         t.state \notin {"Closed", "TimeWait"},
         RcvInState(t, seg).err = "nil"
  PROVE  Steps(t, seg, RcvInState(t, seg))
<1> DEFINE r == RcvInState(t, seg)
<1> USE DEF IsBlock, Queued, Expected, Steps, Step, Leads, FinDue, OwesFin, States, synack
<1>0. seg.SEQ \in Value /\ seg.WND \in 0 .. RxCap /\ 0 \in Value
  BY SeqAssumption DEF IsSeg, Segment, Value
<1>1. CASE t.state = "Listen"
  <2>1. r = RcvListen(t, seg)
    BY <1>1 DEF RcvInState
  <2>2. PICK snd, rcv : /\ snd = ResetSnd(t.snd.ISS, seg.WND)
                         /\ rcv = ResetRcv(t.rcv.WND, seg.SEQ)
    OBVIOUS
  <2>3. /\ DOMAIN snd = {"ISS", "UNA", "NXT", "WND"} /\ DOMAIN rcv = {"IRS", "NXT", "WND"}
        /\ snd.ISS = t.snd.ISS /\ snd.UNA = t.snd.ISS /\ snd.NXT = t.snd.ISS /\ snd.WND = seg.WND
        /\ rcv.NXT = seg.SEQ /\ rcv.WND = t.rcv.WND
    BY <2>2 DEF ResetSnd, ResetRcv
  <2>4. /\ r.tcb = [t EXCEPT !.state = "SynRcvd", !.p0 = synack, !.snd = snd, !.rcv = rcv]
        /\ r.pending = synack
    BY <1>1, <2>1, <2>2 DEF RcvListen
  <2>5. QED
    BY <1>0, <1>1, <2>3, <2>4
<1>2. CASE t.state = "SynSent"
  <2>1. r = RcvSynSent(t, seg)
    BY <1>2 DEF RcvInState
  <2>2. QED
    BY <1>0, <1>2, <2>1 DEF RcvSynSent, ResetSnd, ResetRcv
<1>3. CASE t.state = "SynRcvd"
  <2>1. r = RcvSynRcvd(t, seg)
    BY <1>3 DEF RcvInState
  <2>2. QED
    BY <1>3, <2>1 DEF RcvSynRcvd
<1>4. CASE t.state = "Established"
  <2>1. r = RcvEstablished(t, seg)
    BY <1>4 DEF RcvInState
  <2>2. QED
    BY <1>4, <2>1 DEF RcvEstablished
<1>5. CASE t.state = "FinWait1"
  <2>1. r = RcvFinWait1(t, seg)
    BY <1>5 DEF RcvInState
  <2>2. QED
    BY <1>5, <2>1 DEF RcvFinWait1
<1>6. CASE t.state = "FinWait2"
  <2>1. r = RcvFinWait2(t, seg)
    BY <1>6 DEF RcvInState
  <2>2. QED
    BY <1>6, <2>1 DEF RcvFinWait2, finack, Has
<1>7. CASE t.state = "CloseWait"
  BY <1>7 DEF RcvInState
<1>8. CASE t.state = "LastAck"
  <2>1. r = RcvLastAck(t, seg)
    BY <1>8 DEF RcvInState
  <2>2. QED
    BY <1>0, <1>8, <2>1, TCPConnAssumption DEF RcvLastAck, Shut, ResetSnd, ResetRcv
<1>9. CASE t.state = "Closing"
  <2>1. r = RcvClosing(t, seg)
    BY <1>9 DEF RcvInState
  <2>2. QED
    BY <1>9, <2>1 DEF RcvClosing
<1>10. QED
  BY <1>1, <1>2, <1>3, <1>4, <1>5, <1>6, <1>7, <1>8, <1>9

\* The end of Recv, after the method for the state accepted the segment: SND.UNA and
\* the window follow the ACK, RCV.NXT the octets.
LEMMA AcceptedTakes ==
  ASSUME NEW t, NEW seg, NEW s, IsSeg(seg), Steps(t, seg, s),
         Has(seg, "SYN") \/ seg.SEQ = t.rcv.NXT,
         t.state = "Established" /\ Has(seg, "ACK")
           => /\ LessThanEq(seg.ACK, t.snd.NXT)
              /\ LessThan(t.snd.UNA, seg.ACK) \/ seg.DATALEN > 0 \/ Has(seg, "FIN")
  PROVE  Takes(t, seg, Accepted(s.tcb, seg, s.pending))
<1>1. PICK u : u = Accepted(s.tcb, seg, s.pending)
  OBVIOUS
<1>2. PICK v : v = [s.tcb EXCEPT !.p0 = s.tcb.p0 \union s.pending]
  OBVIOUS
<1>3. /\ seg.ACK \in Value /\ seg.WND \in 0 .. RxCap
      /\ Add(s.tcb.rcv.NXT, SegLen(seg)) \in Value
  BY SegLenIs, AddIn, SeqAssumption DEF IsSeg, Segment, Value, Steps, IsBlock
<1>4. /\ IsBlock(u) /\ u.state = s.tcb.state /\ u.p0 = v.p0 /\ u.p1 = v.p1
      /\ u.challengeAck = v.challengeAck /\ v.state = u.state
      /\ u.snd.NXT = s.tcb.snd.NXT /\ u.snd.WND = seg.WND /\ u.snd.ISS = s.tcb.snd.ISS
      /\ u.snd.UNA = (IF Has(seg, "ACK") THEN seg.ACK ELSE s.tcb.snd.UNA)
      /\ u.rcv.NXT = Add(s.tcb.rcv.NXT, SegLen(seg))
  BY <1>1, <1>2, <1>3 DEF Accepted, Steps, IsBlock
<1>5. Queued(u) /\ (FinDue(u) => FinDue(v)) /\ (OwesFin(u) => OwesFin(v))
  BY <1>2, <1>4 DEF Steps, Queued, FinDue, OwesFin
<1>6. QED
  BY <1>1, <1>2, <1>4, <1>5 DEF Steps, Takes

\* Recv refuses a segment or takes it.
LEMMA RecvTakes ==
  ASSUME NEW t, NEW seg, IsBlock(t), Queued(t), IsSeg(seg), Expected(t, seg),
         t.state \notin {"Closed", "TimeWait"}
  PROVE  LET out == Recv(t, seg)
         IN  \/ out.err # "nil" /\ Refuses(t, out.tcb)
             \/ out.err = "nil" /\ Takes(t, seg, out.tcb)
<1>0. Refuses(t, t)
  BY DEF Refuses
<1>1. CASE IncomingError(t, seg) # "nil"
  BY <1>0, <1>1 DEF Recv, Outcome
<1>2. ~Has(seg, "RST")
  BY DEF IsSeg, Has
<1>3. CASE IncomingError(t, seg) = "nil" /\ Dropped(t, seg)
  <2>1. ~StrayAck(t, seg)
    BY DEF StrayAck, AcksOld, AcksUnsent, Expected, IsPreestablished
  <2>2. t.state = "Established" /\ Recv(t, seg) = Outcome(AfterDrop(t, seg), "drop")
    BY <1>2, <1>3, <2>1 DEF Recv, Dropped, DupAck, UnsentAck
  <2>3. PICK q \in {t.p0 \intersect {"FIN"}, {"ACK"}} : AfterDrop(t, seg) = [t EXCEPT !.p0 = q]
    BY <1>3, <2>1 DEF AfterDrop, Dropped
  <2>4. Refuses(t, [t EXCEPT !.p0 = q])
    BY <2>2, <2>3 DEF Refuses, IsBlock, Queued, FinDue, synack
  <2>5. QED
    BY <2>2, <2>3, <2>4 DEF Outcome
<1>4. CASE IncomingError(t, seg) = "nil" /\ ~Dropped(t, seg)
  <2>1. PICK s : s = RcvInState(t, seg)
    OBVIOUS
  <2>2. Recv(t, seg) = IF s.err # "nil" THEN Outcome(t, s.err)
                       ELSE Outcome(Accepted(s.tcb, seg, s.pending), "nil")
    BY <1>2, <1>4, <2>1 DEF Recv
  <2>3. Has(seg, "SYN") \/ seg.SEQ = t.rcv.NXT
    BY <1>4 DEF IncomingError
  <2>4. t.state = "Established" /\ Has(seg, "ACK")
           => /\ LessThanEq(seg.ACK, t.snd.NXT)
              /\ LessThan(t.snd.UNA, seg.ACK) \/ seg.DATALEN > 0 \/ Has(seg, "FIN")
    <3>1. seg.DATALEN \in Nat
      BY SeqAssumption DEF IsSeg, Segment, Value
    <3>2. QED
      BY <1>2, <1>4, <3>1 DEF Dropped, DupAck, UnsentAck, AcksOld, AcksUnsent
  <2>5. CASE s.err # "nil"
    BY <1>0, <2>2, <2>5 DEF Outcome
  <2>6. CASE s.err = "nil"
    <3>1. Steps(t, seg, s)
      BY <2>1, <2>6, RcvInStateSteps
    <3>2. Takes(t, seg, Accepted(s.tcb, seg, s.pending))
      BY <2>3, <2>4, <3>1, AcceptedTakes
    <3>3. QED
      BY <2>2, <2>6, <3>2 DEF Outcome
  <2>7. QED
    BY <2>5, <2>6
<1>5. QED
  BY <1>1, <1>3, <1>4

-----------------------------------------------------------------------------
(* Connections *)

\* A FIN is owed once the user has closed and everything it wrote has been sent.
Sealed(c) ==
  /\ OwesFin(c.scb) => c.closing /\ c.tx = <<>>
  /\ c.scb.state \in {"FinWait1", "FinWait2", "Closing", "TimeWait"} => c.closing

IsConn(c) ==
  /\ DOMAIN c = {"scb", "tx", "rx", "remote", "closing", "abortErr", "late"}
  /\ IsBlock(c.scb) /\ Queued(c.scb)
  /\ c.tx \in Seq(Int) /\ Len(c.tx) <= TxCap
  /\ c.rx \in Seq(Int) /\ Len(c.rx) <= RxCap
  /\ Sealed(c)

IsPkt(p) ==
  /\ IsSeg(p.seg) /\ p.data \in Seq(Int) /\ p.seg.DATALEN = Len(p.data)
  /\ SegLen(p.seg) = Len(p.data) + (IF Has(p.seg, "FIN") THEN 1 ELSE 0)
                                 + (IF Has(p.seg, "SYN") THEN 1 ELSE 0)

\* d differs from c in the flags it owes and in the window it offers.
Alike(c, d) ==
  /\ IsConn(d)
  /\ d.scb.state = c.scb.state /\ d.scb.snd = c.scb.snd /\ d.scb.rcv.NXT = c.scb.rcv.NXT
  /\ d.tx = c.tx /\ d.rx = c.rx /\ (d.late => c.late) /\ d.closing = c.closing
  /\ "SYN" \in d.scb.p0 => "SYN" \in c.scb.p0
  /\ c.scb.state # "Established" => d.scb.p0 = c.scb.p0
  /\ FinDue(d.scb) => FinDue(c.scb)

\* A connection that nothing happens to is like itself.
LEMMA AlikeSelf == ASSUME NEW c, IsConn(c) PROVE Alike(c, c)
  BY DEF Alike

\* Two calls that each leave a connection alike leave it so together.
LEMMA AlikeTrans ==
  ASSUME NEW c, NEW d, NEW e, Alike(c, d), Alike(d, e) PROVE Alike(c, e)
  BY DEF Alike

\* The check of the state may close an established connection.
LEMMA StateCheckAlike == ASSUME NEW c, IsConn(c) PROVE Alike(c, StateCheck(c).conn)
<1>1. CASE StateCheck(c).conn = c
  BY <1>1, AlikeSelf
<1>2. CASE StateCheck(c).conn # c
  <2>1. /\ c.scb.state = "Established" /\ StateCheck(c).conn = [c EXCEPT !.scb = Close(c.scb).tcb]
        /\ c.closing /\ c.tx = <<>>
    BY <1>2 DEF StateCheck
  <2>2. Close(c.scb).tcb = [c.scb EXCEPT !.p0 = (c.scb.p0 \intersect {"ACK"}) \union {"FIN"}]
    BY <2>1 DEF Close, Outcome
  <2>3. PICK u : u = Close(c.scb).tcb
    OBVIOUS
  <2>4. /\ IsBlock(u) /\ Queued(u) /\ u.state = c.scb.state /\ u.snd = c.scb.snd
        /\ u.rcv = c.scb.rcv /\ "SYN" \notin u.p0
    BY <2>1, <2>2, <2>3 DEF IsConn, IsBlock, Queued, synack
  <2>5. QED
    BY <2>1, <2>3, <2>4 DEF Alike, IsConn, FinDue, Sealed
<1>3. QED
  BY <1>1, <1>2

\* The connection after a packet it takes.
TakesPkt(c, pkt, d) ==
  /\ IsConn(d)
  /\ \E u : /\ Takes(c.scb, pkt.seg, u)
            /\ d.scb.state = u.state /\ d.scb.snd = u.snd /\ d.scb.rcv.NXT = u.rcv.NXT
            /\ FinDue(d.scb) => FinDue(u)
            /\ "SYN" \in d.scb.p0 => "SYN" \in u.p0
  /\ d.tx = c.tx /\ d.rx = c.rx \o pkt.data /\ (d.late => c.late) /\ d.closing = c.closing

\* recv, provided that what it takes fits.
LEMMA RecvPacketTakes ==
  ASSUME NEW c, NEW pkt, IsConn(c), IsPkt(pkt), Expected(c.scb, pkt.seg),
         Has(pkt.seg, "SYN") \/ pkt.seg.SEQ = c.scb.rcv.NXT
           => Len(c.rx) + Len(pkt.data) <= RxCap
  PROVE  LET res == RecvPacket(c, pkt)
         IN  res.err = "EOF" \/ Alike(c, res.conn) \/ TakesPkt(c, pkt, res.conn)
<1>1. CASE IsClosed(c.scb.state)
  BY <1>1 DEF RecvPacket, RecvResult
<1>2. CASE ~IsClosed(c.scb.state) /\ IncomingIsKeepalive(c.scb, pkt.seg)
  BY <1>2, AlikeSelf DEF RecvPacket, RecvResult
<1>3. CASE ~IsClosed(c.scb.state) /\ ~IncomingIsKeepalive(c.scb, pkt.seg)
  <2>1. PICK out : out = Recv(c.scb, pkt.seg)
    OBVIOUS
  <2>2. PICK c1 : c1 = [c EXCEPT !.scb = out.tcb]
    OBVIOUS
  <2>3. \/ out.err # "nil" /\ Refuses(c.scb, out.tcb)
        \/ out.err = "nil" /\ Takes(c.scb, pkt.seg, out.tcb)
    BY <1>3, <2>1, RecvTakes DEF IsConn, IsPkt, IsClosed
  <2>4. RecvPacket(c, pkt) =
          IF out.err = "nil" THEN RecvAccepted(c1, pkt)
          ELSE IF out.tcb.state = "Closed" THEN RecvResult([c1 EXCEPT !.abortErr = TRUE], "EOF")
          ELSE RecvResult(c1, "nil")
    BY <1>3, <2>1, <2>2 DEF RecvPacket
  <2>5. CASE out.err # "nil"
    <3>1. /\ DOMAIN c1 = DOMAIN c /\ c1.scb = out.tcb /\ c1.tx = c.tx /\ c1.rx = c.rx
          /\ c1.closing = c.closing /\ c1.late = c.late
      BY <2>2 DEF IsConn
    <3>2. Refuses(c.scb, c1.scb)
      BY <2>3, <2>5, <3>1
    <3>3. Sealed(c1)
      BY <3>1, <3>2 DEF Refuses, Sealed, OwesFin, IsConn
    <3>4. Alike(c, c1)
      BY <3>1, <3>2, <3>3 DEF Alike, IsConn, Refuses
    <3>5. QED
      BY <2>4, <2>5, <3>4 DEF RecvResult
  <2>6. CASE out.err = "nil"
    <3>1. PICK u : u = out.tcb
      OBVIOUS
    <3>2. Takes(c.scb, pkt.seg, u)
      BY <2>3, <2>6, <3>1
    <3>3. Len(c.rx) + Len(pkt.data) <= RxCap
      BY <3>2 DEF Takes
    <3>4. /\ c.rx \o pkt.data \in Seq(Int)
          /\ Len(c.rx \o pkt.data) = Len(c.rx) + Len(pkt.data)
      BY DEF IsConn, IsPkt
    <3>5. PICK c2 : c2 = IF Has(pkt.seg, "SYN") THEN [c1 EXCEPT !.rx = c.rx \o pkt.data, !.remote = TRUE]
                         ELSE [c1 EXCEPT !.rx = c.rx \o pkt.data]
      OBVIOUS
    <3>6. /\ IsConn(c2) /\ c2.scb = u /\ c2.tx = c.tx /\ c2.rx = c.rx \o pkt.data
          /\ c2.late = c.late /\ c2.closing = c.closing
      <4>1. /\ DOMAIN c2 = DOMAIN c /\ c2.scb = u /\ c2.tx = c.tx /\ c2.rx = c.rx \o pkt.data
            /\ c2.late = c.late /\ c2.closing = c.closing
        BY <2>2, <3>1, <3>5 DEF IsConn
      <4>2. Sealed(c2)
        BY <3>2, <4>1 DEF Takes, Leads, Sealed, IsConn
      <4>3. QED
        BY <3>2, <3>3, <3>4, <4>1, <4>2 DEF IsConn, Takes
    <3>7. Alike(c2, StateCheck(c2).conn)
      BY <3>6, StateCheckAlike
    <3>8. TakesPkt(c, pkt, StateCheck(c2).conn)
      BY <3>2, <3>6, <3>7 DEF TakesPkt, Alike
    <3>9. RecvAccepted(c1, pkt) = StateCheck(c2)
      <4>1. c1.rx = c.rx /\ ~(Len(pkt.data) > RxCap - Len(c1.rx))
        BY <2>2, <3>3, TCPConnAssumption DEF IsConn, IsPkt
      <4>2. QED
        BY <2>2, <3>5, <4>1 DEF RecvAccepted, IsConn
    <3>10. QED
      BY <2>4, <2>6, <3>8, <3>9
  <2>7. QED
    BY <2>5, <2>6
<1>4. QED
  BY <1>1, <1>2, <1>3

-----------------------------------------------------------------------------
(* Sending *)

\* What is in flight is within the window of the other side.
Fitting(t) == t.state = "Established" => InFlight(t) <= t.snd.WND

\* The octets in flight are a number.
LEMMA InFlightIn == ASSUME NEW t, IsBlock(t) PROVE InFlight(t) \in Nat
<1>1. t.snd.NXT - t.snd.UNA \in Int
  BY SeqAssumption DEF IsBlock, Value
<1>2. InFlight(t) \in Value
  BY <1>1, WrapIs DEF InFlight, Sizeof
<1>3. QED
  BY <1>2, SeqAssumption DEF Value

\* What PendingSegment may send is the unused part of the window, which does not
\* underflow while the octets in flight fit it.
LEMMA MaxSendIs ==
  ASSUME NEW t, IsBlock(t), t.state = "Established", Fitting(t)
  PROVE  /\ MaxSend(t) \in Nat /\ MaxSend(t) = t.snd.WND - InFlight(t)
         /\ ToInt(MaxSend(t)) = MaxSend(t)
<1>1. /\ t.snd.WND - InFlight(t) \in Int /\ t.snd.WND - InFlight(t) >= 0
      /\ t.snd.WND - InFlight(t) <= MaxWnd
  BY InFlightIn, TCPConnAssumption, SeqAssumption DEF Fitting, IsBlock
<1>2. MaxSend(t) = t.snd.WND - InFlight(t)
  BY <1>1, WrapIs, SeqAssumption DEF MaxSend
<1>3. ToInt(MaxSend(t)) = MaxSend(t)
  BY <1>1, <1>2, SeqAssumption DEF ToInt
<1>4. QED
  BY <1>1, <1>2, <1>3

\* The segment that PendingSegment proposes: everything owed, and data only from
\* Established, within the window.
Proposes(t, n, seg) ==
  /\ seg = MakeSegment(t.snd.NXT, IF "ACK" \in seg.Flags THEN t.rcv.NXT ELSE 0, t.rcv.WND,
                       seg.Flags, seg.DATALEN)
  /\ seg.Flags = t.p0 \union (IF t.state = "Established" THEN {"ACK"} ELSE {})
  /\ seg.Flags # {} /\ t.state \notin {"Closed", "Listen", "SynSent"}
  /\ seg.DATALEN \in 0 .. n
  /\ t.state # "Established" => seg.DATALEN = 0
  /\ t.state = "Established" => /\ InFlight(t) + seg.DATALEN <= t.snd.WND
                                /\ n > 0 /\ seg.DATALEN = 0 => "FIN" \in seg.Flags

\* PendingSegment: what it proposes starts at SND.NXT and fits the window.
LEMMA PendingProposes ==
  ASSUME NEW t, NEW n \in Nat, IsBlock(t), Queued(t), Fitting(t),
         PendingSegment(t, n).ok = "yes"
  PROVE  Proposes(t, n, PendingSegment(t, n).seg)
<1>1. PICK room : room = MaxSend(t)
  OBVIOUS
<1>2. PICK len : len = IF t.state \in {"Established", "CloseWait"} THEN n ELSE 0
  OBVIOUS
<1>3. PICK flags : flags = t.p0 \union (IF t.state = "Established" THEN {"ACK"} ELSE {})
  OBVIOUS
<1>4. PICK sent : sent = IF t.state # "Established" THEN 0
                         ELSE IF len > ToInt(room) THEN ToInt(room) ELSE len
  OBVIOUS
<1>5. "RST" \notin flags /\ ~t.challengeAck
  BY <1>3 DEF Queued
<1>6. /\ PendingSegment(t, n).seg = MakeSegment(t.snd.NXT, IF "ACK" \in flags THEN t.rcv.NXT ELSE 0,
                                                t.rcv.WND, flags, sent)
      /\ ~(t.p0 = {} /\ len = 0)
      /\ ~(len > ToInt(room) /\ room = 0 /\ t.p0 \intersect {"FIN", "RST", "SYN"} = {})
  BY <1>1, <1>2, <1>3, <1>4, <1>5 DEF PendingSegment
<1>7. t.state = "Established"
        => /\ sent \in 0 .. n /\ InFlight(t) + sent <= t.snd.WND
           /\ n > 0 /\ sent = 0 => "FIN" \in flags
  <2>1. SUFFICES ASSUME t.state = "Established"
                 PROVE  /\ sent \in 0 .. n /\ InFlight(t) + sent <= t.snd.WND
                        /\ n > 0 /\ sent = 0 => "FIN" \in flags
    OBVIOUS
  <2>2. room \in Nat /\ room = t.snd.WND - InFlight(t) /\ ToInt(room) = room /\ len = n
    BY <1>1, <1>2, <2>1, MaxSendIs
  <2>3. sent = IF n > room THEN room ELSE n
    BY <1>4, <2>1, <2>2
  <2>4. sent \in 0 .. n /\ InFlight(t) + sent <= t.snd.WND
    BY <2>2, <2>3, InFlightIn DEF IsBlock
  <2>5. n > 0 /\ sent = 0 => n > room /\ room = 0
    BY <2>2, <2>3
  <2>6. "SYN" \notin t.p0 /\ "RST" \notin t.p0
    BY <2>1 DEF Queued
  <2>7. QED
    BY <1>3, <1>6, <2>2, <2>4, <2>5, <2>6
<1>8. t.state # "Established" => sent = 0 /\ (len > 0 => t.state = "CloseWait")
  BY <1>2, <1>4
<1>9. flags # {} /\ t.state \notin {"Closed", "Listen", "SynSent"}
  BY <1>2, <1>3, <1>6, <1>8 DEF Queued
<1>10. sent \in 0 .. n
  BY <1>7, <1>8
<1>11. QED
  BY <1>3, <1>6, <1>7, <1>8, <1>9, <1>10 DEF Proposes, MakeSegment

\* The block after the segment has left.
Leaves(t, seg, u) ==
  /\ IsBlock(u) /\ Queued(u) /\ u.state = StateAfterSend(t, seg)
  /\ u.snd.NXT = Add(t.snd.NXT, SegLen(seg))
  /\ u.snd.UNA = t.snd.UNA /\ u.snd.WND = t.snd.WND /\ u.rcv.NXT = t.rcv.NXT
  /\ u.snd.ISS = t.snd.ISS
  /\ "SYN" \notin u.p0 /\ ~OwesFin(u)
  /\ u.state = "FinWait2" => u.p0 = {}
  /\ FinDue(u) => FinDue(t) /\ "FIN" \notin seg.Flags
  /\ "FIN" \in seg.Flags => FinDue(t)

\* Send, once it has accepted the segment: SND.NXT moves over it and the flags it
\* carries are owed no more.
LEMMA SentLeaves ==
  ASSUME NEW t, NEW n \in Nat, NEW seg \in Segment, IsBlock(t), Queued(t), Proposes(t, n, seg)
  PROVE  Leaves(t, seg, Sent(t, seg))
<1>1. PICK u : u = Sent(t, seg)
  OBVIOUS
<1>2. PICK q : q = QueueAfterSend(t, seg)
  OBVIOUS
<1>3. t.p0 \ seg.Flags = {} /\ seg.Flags \subseteq {"SYN", "ACK", "FIN"}
  BY DEF Proposes, Queued
<1>4. /\ q.p1 = {}
      /\ q.p0 = (t.p1 \ (seg.Flags \intersect {"FIN"}))
                 \union (IF t.state = "CloseWait" /\ "FIN" \notin seg.Flags /\ "ACK" \in seg.Flags
                         THEN finack ELSE {})
  BY <1>2, <1>3 DEF QueueAfterSend, Has
<1>5. Add(t.snd.NXT, SegLen(seg)) \in Value
  BY SegLenIs, AddIn DEF IsBlock
<1>6. /\ DOMAIN u = DOMAIN t /\ DOMAIN u.snd = DOMAIN t.snd /\ DOMAIN u.rcv = DOMAIN t.rcv
      /\ u.state = StateAfterSend(t, seg) /\ u.p0 = q.p0 /\ u.p1 = q.p1
      /\ u.snd.NXT = Add(t.snd.NXT, SegLen(seg)) /\ u.snd.ISS = t.snd.ISS
      /\ u.snd.UNA = t.snd.UNA /\ u.snd.WND = t.snd.WND
      /\ u.rcv.NXT = t.rcv.NXT /\ u.rcv.WND = seg.WND /\ seg.WND = t.rcv.WND
      /\ u.challengeAck = t.challengeAck
  BY <1>1, <1>2 DEF Sent, IsBlock, Proposes, MakeSegment
<1>7. /\ u.state \in States
      /\ t.state \in {"SynRcvd", "Established"} => u.state = IF "FIN" \in seg.Flags THEN "FinWait1" ELSE t.state
      /\ t.state = "CloseWait" => u.state = IF "FIN" \in seg.Flags THEN "LastAck" ELSE t.state
      /\ t.state = "LastAck" => u.state = t.state
      /\ t.state = "FinWait2" => u.state = t.state
      /\ t.state \in {"FinWait1", "Closing", "TimeWait"} => u.state \in {"FinWait1", "Closing", "TimeWait"}
  BY <1>6 DEF StateAfterSend, Has, States, IsBlock
<1>8. IsBlock(u)
  BY <1>5, <1>6, <1>7 DEF IsBlock
<1>9. t.state \in {"SynRcvd", "Established", "CloseWait", "LastAck", "FinWait1", "FinWait2", "Closing", "TimeWait"}
  BY DEF Proposes, IsBlock, States
<1>10. /\ ~u.challengeAck /\ u.p1 = {} /\ u.p0 \subseteq {"ACK", "FIN"}
  BY <1>4, <1>6 DEF Queued, finack
<1>11. CASE t.state \in {"SynRcvd", "Established"}
  <2>1. u.p0 = {}
    BY <1>4, <1>6, <1>11 DEF Queued
  <2>2. QED
    BY <1>1, <1>6, <1>7, <1>8, <1>10, <1>11, <2>1 DEF Leaves, Queued, FinDue, OwesFin
<1>12. CASE t.state = "CloseWait"
  <2>1. "FIN" \notin seg.Flags => "ACK" \in seg.Flags /\ u.p0 # {}
    BY <1>3, <1>4, <1>6, <1>12 DEF Queued, Proposes, finack
  <2>2. "FIN" \in seg.Flags => "FIN" \notin u.p0
    BY <1>4, <1>6
  <2>3. QED
    BY <1>1, <1>6, <1>7, <1>8, <1>10, <1>12, <2>1, <2>2 DEF Leaves, Queued, FinDue, OwesFin
<1>13. CASE t.state = "LastAck"
  <2>1. "FIN" \notin u.p0 /\ ("FIN" \in seg.Flags => "FIN" \in t.p0)
    BY <1>4, <1>6, <1>13 DEF Queued, Proposes
  <2>2. QED
    BY <1>1, <1>6, <1>7, <1>8, <1>10, <1>13, <2>1 DEF Leaves, Queued, FinDue, OwesFin
<1>14. CASE t.state \in {"FinWait1", "FinWait2", "Closing", "TimeWait"}
  <2>1. "FIN" \notin u.p0 /\ "FIN" \notin seg.Flags
    BY <1>4, <1>6, <1>14 DEF Queued, Proposes
  <2>2. t.state # "FinWait1"
    BY DEF Proposes, Queued
  <2>3. t.state = "FinWait2" => u.p0 = {}
    BY <1>4, <1>6 DEF Queued
  <2>4. u.state # "FinWait1" /\ (u.state = "FinWait2" => t.state = "FinWait2")
    BY <1>6, <1>14, <2>2 DEF StateAfterSend
  <2>5. QED
    BY <1>1, <1>6, <1>7, <1>8, <1>10, <1>14, <2>1, <2>3, <2>4 DEF Leaves, Queued, FinDue, OwesFin
<1>15. QED
  BY <1>9, <1>11, <1>12, <1>13, <1>14

\* The connection c after sending the packet p.
SendsPkt(c, p, d) ==
  /\ IsConn(d) /\ IsPkt(p) /\ ~d.late /\ d.rx = c.rx /\ d.closing = c.closing
  /\ d.scb.state = "FinWait2" => d.scb.p0 = {}
  /\ \E u : /\ Leaves(c.scb, p.seg, u)
            /\ d.scb.state = u.state /\ d.scb.snd = u.snd /\ d.scb.rcv.NXT = u.rcv.NXT
            /\ FinDue(d.scb) => FinDue(u)
            /\ "SYN" \notin d.scb.p0
  /\ p.seg.SEQ = c.scb.snd.NXT /\ p.seg.WND = RxCap - Len(c.rx)
  /\ p.seg.Flags = c.scb.p0 \union (IF c.scb.state = "Established" THEN {"ACK"} ELSE {})
  /\ p.seg.Flags # {} /\ c.scb.state \notin {"Closed", "Listen", "SynSent"}
  /\ "ACK" \in p.seg.Flags => p.seg.ACK = c.scb.rcv.NXT
  /\ p.data = SubSeq(c.tx, 1, Len(p.data)) /\ Len(p.data) <= Len(c.tx)
  /\ c.scb.state # "Established" => p.data = <<>>
  /\ c.scb.state = "Established" => InFlight(c.scb) + Len(p.data) <= c.scb.snd.WND
  /\ d.scb.state \in {"SynRcvd", "Established"}
       => d.tx = SubSeq(c.tx, Len(p.data) + 1, Len(c.tx))

\* The segment proposed is a packet's.
LEMMA ProposedIsPkt ==
  ASSUME NEW t, NEW n \in Nat, NEW seg, NEW data \in Seq(Int), IsBlock(t), Queued(t), Fitting(t),
         Proposes(t, n, seg), Len(data) = seg.DATALEN
  PROVE  seg \in Segment /\ IsPkt(Packet(seg, data))
<1>1. /\ seg.SEQ = t.snd.NXT /\ seg.WND = t.rcv.WND
      /\ seg.ACK = (IF "ACK" \in seg.Flags THEN t.rcv.NXT ELSE 0)
      /\ seg = [SEQ |-> seg.SEQ, ACK |-> seg.ACK, WND |-> seg.WND, Flags |-> seg.Flags, DATALEN |-> seg.DATALEN]
  BY DEF Proposes, MakeSegment
<1>2. seg.Flags \subseteq {"SYN", "ACK", "FIN"}
  BY DEF Proposes, Queued
<1>3. seg.DATALEN \in Nat /\ seg.DATALEN <= MaxWnd /\ (seg.DATALEN > 0 => t.state = "Established")
  <2>1. PICK l, f, w : l = seg.DATALEN /\ f = InFlight(t) /\ w = t.snd.WND
    OBVIOUS
  <2>2. l \in 0 .. n /\ f \in Nat /\ w \in 0 .. RxCap
    BY <2>1, InFlightIn DEF Proposes, IsBlock
  <2>3. IF t.state = "Established" THEN f + l <= w ELSE l = 0
    BY <2>1 DEF Proposes
  <2>4. RxCap \in Nat /\ RxCap <= MaxWnd /\ MaxWnd \in Nat
    BY SeqAssumption, TCPConnAssumption
  <2>5. l \in Nat /\ l <= MaxWnd /\ (l > 0 => t.state = "Established")
    BY ONLY <2>2, <2>3, <2>4, n \in Nat
  <2>6. QED
    BY <2>1, <2>5
<1>4. seg.SEQ \in Value /\ seg.ACK \in Value /\ seg.WND \in Value /\ seg.DATALEN \in Value
  <2>1. 0 \in Value /\ \A k \in Nat : k <= MaxWnd => k \in Value
    BY SeqAssumption DEF Value
  <2>2. \A k \in 0 .. RxCap : k \in Nat /\ k <= MaxWnd
    BY SeqAssumption, TCPConnAssumption
  <2>3. t.snd.NXT \in Value /\ t.rcv.NXT \in Value /\ t.rcv.WND \in 0 .. RxCap
    BY DEF IsBlock
  <2>4. QED
    BY <1>1, <1>3, <2>1, <2>2, <2>3
<1>5. seg \in Segment
  BY <1>1, <1>2, <1>4 DEF Segment, FlagNames
<1>6. IsSeg(seg)
  BY <1>1, <1>2, <1>5, TCPConnAssumption DEF IsSeg, IsBlock
<1>7. PICK f, s \in {0, 1} : f = (IF Has(seg, "FIN") THEN 1 ELSE 0) /\ s = (IF Has(seg, "SYN") THEN 1 ELSE 0)
  OBVIOUS
<1>8. s = 1 => f = 0 /\ seg.DATALEN = 0
  BY <1>3, <1>7 DEF Proposes, Queued, Has, synack
<1>9. seg.DATALEN + f + s \in Nat /\ seg.DATALEN + f + s < SeqMod
  <2>1. MaxWnd \in Nat /\ MaxWnd >= 1 /\ SeqMod \in Nat /\ SeqMod > 2 * MaxWnd
    BY SeqAssumption
  <2>2. CASE s = 0 /\ f = 0
    BY <1>3, <2>1, <2>2
  <2>3. CASE s = 0 /\ f = 1
    BY <1>3, <2>1, <2>3
  <2>4. CASE s = 1
    BY <1>8, <2>1, <2>4
  <2>5. QED
    BY <1>7, <2>2, <2>3, <2>4
<1>10. SegLen(seg) = seg.DATALEN + f + s
  BY <1>7, <1>9, WrapIs DEF SegLen
<1>11. QED
  BY <1>5, <1>6, <1>7, <1>10 DEF IsPkt, Packet

\* Setting the window and taking the proposal do not change the block otherwise.
LEMMA WindowSet ==
  ASSUME NEW t, NEW n \in 0 .. RxCap, IsBlock(t), Queued(t)
  PROVE  LET u == SetRecvWindow(t, n)
         IN  /\ IsBlock(u) /\ Queued(u) /\ IsBlock(AfterPending(u)) /\ Queued(AfterPending(u))
             /\ \A v \in {u, AfterPending(u)} :
                  /\ v.state = t.state /\ v.snd = t.snd /\ v.rcv.NXT = t.rcv.NXT /\ v.rcv.WND = n
                  /\ v.p0 = t.p0 /\ v.p1 = t.p1
<1>1. PICK u : u = SetRecvWindow(t, n)
  OBVIOUS
<1>2. /\ IsBlock(u) /\ Queued(u)
      /\ u.state = t.state /\ u.snd = t.snd /\ u.rcv.NXT = t.rcv.NXT /\ u.rcv.WND = n
      /\ u.p0 = t.p0 /\ u.p1 = t.p1
  BY <1>1 DEF SetRecvWindow, IsBlock, Queued
<1>3. PICK v : v = AfterPending(u)
  OBVIOUS
<1>4. /\ IsBlock(v) /\ Queued(v)
      /\ v.state = u.state /\ v.snd = u.snd /\ v.rcv.NXT = u.rcv.NXT /\ v.rcv.WND = u.rcv.WND
      /\ v.p0 = u.p0 /\ v.p1 = u.p1
  BY <1>2, <1>3 DEF AfterPending, IsBlock, Queued
<1>5. QED
  BY <1>1, <1>2, <1>3, <1>4

\* What is left in the transmit buffer.
LEMMA TxLeft ==
  ASSUME NEW tx \in Seq(Int), Len(tx) <= TxCap, NEW n \in 0 .. Len(tx)
  PROVE  /\ TxRead(tx, n) \in Seq(Int) /\ Len(TxRead(tx, n)) <= TxCap
         /\ SubSeq(tx, 1, n) \in Seq(Int) /\ Len(SubSeq(tx, 1, n)) = n
         /\ ~(n = 0 /\ Len(tx) = TxCap) => TxRead(tx, n) = SubSeq(tx, n + 1, Len(tx))
         /\ tx = <<>> => SubSeq(tx, n + 1, Len(tx)) = tx
<1>1. SubSeq(tx, n + 1, Len(tx)) \in Seq(Int) /\ Len(SubSeq(tx, n + 1, Len(tx))) = Len(tx) - n
  OBVIOUS
<1>2. SubSeq(tx, 1, n) \in Seq(Int) /\ Len(SubSeq(tx, 1, n)) = n
  OBVIOUS
<1>3. <<>> \in Seq(Int) /\ Len(<<>>) = 0 /\ TxCap \in Nat
  BY TCPConnAssumption
<1>4. tx = <<>> => SubSeq(tx, n + 1, Len(tx)) = tx
  BY <1>1
<1>5. QED
  BY <1>1, <1>2, <1>3, <1>4 DEF TxRead

\* The smaller of two sizes is at most the first.
LEMMA SmallerIn == ASSUME NEW a \in Nat, NEW b \in Nat PROVE Smaller(a, b) \in 0 .. a
  BY DEF Smaller

\* send: nothing goes out, or the first SYN, or a packet from an open connection.
LEMMA SendPacketSends ==
  ASSUME NEW c, IsConn(c), Fitting(c.scb),
         c.scb.state = "SynRcvd" => Len(c.tx) < TxCap
  PROVE  LET res == SendPacket(c)
         IN  \/ res.pkts = <<>> /\ Alike(c, res.conn)
             \/ /\ c.scb.state = "SynSent" /\ c.late
                /\ res.pkts = <<Packet(SynsentSegment(c), <<>>)>>
                /\ Alike(c, res.conn) /\ ~res.conn.late
             \/ \E p : res.pkts = <<p>> /\ SendsPkt(c, p, res.conn)
<1> DEFINE res == SendPacket(c)
           n == Smaller(Len(c.tx), MaxSeg)
<1>0. Alike(c, c) /\ n \in 0 .. Len(c.tx) /\ Len(c.tx) \in Nat /\ Len(c.rx) \in Nat
  <2>1. Len(c.tx) \in Nat /\ Len(c.rx) \in Nat /\ MaxSeg \in Nat
    BY TCPConnAssumption DEF IsConn
  <2>2. n \in 0 .. Len(c.tx)
    BY <2>1, SmallerIn
  <2>3. QED
    BY <2>1, <2>2, AlikeSelf
<1>1. CASE ~c.remote
  <2>1. res = SendResult(c, <<>>, "nil")
    BY <1>1 DEF SendPacket
  <2>2. QED
    BY <1>0, <2>1 DEF SendResult
<1>2. CASE c.remote /\ MustSendSyn(c)
  <2>1. PICK d : d = [c EXCEPT !.late = FALSE]
    OBVIOUS
  <2>2. res.conn = d /\ res.pkts = <<Packet(SynsentSegment(c), <<>>)>>
    BY <1>2, <2>1 DEF SendPacket, SendSyn, SendResult
  <2>3. Alike(c, d) /\ ~d.late
    BY <2>1 DEF Alike, IsConn, Sealed
  <2>4. QED
    BY <1>2, <2>2, <2>3 DEF MustSendSyn, AwaitingSyn
<1>3. CASE c.remote /\ ~MustSendSyn(c) /\ AwaitingSyn(c)
  BY <1>0, <1>3 DEF SendPacket, SendResult
<1>4. CASE c.remote /\ ~MustSendSyn(c) /\ ~AwaitingSyn(c)
  <2>1. PICK t1 : t1 = SetRecvWindow(c.scb, RxCap - Len(c.rx))
    OBVIOUS
  <2>2. PICK t2 : t2 = AfterPending(t1)
    OBVIOUS
  <2>3. /\ IsBlock(t1) /\ Queued(t1) /\ IsBlock(t2) /\ Queued(t2)
        /\ \A v \in {t1, t2} :
             /\ v.state = c.scb.state /\ v.snd = c.scb.snd /\ v.rcv.NXT = c.scb.rcv.NXT
             /\ v.rcv.WND = RxCap - Len(c.rx) /\ v.p0 = c.scb.p0 /\ v.p1 = c.scb.p1
    <3>1. RxCap - Len(c.rx) \in 0 .. RxCap
      BY <1>0, TCPConnAssumption DEF IsConn
    <3>2. QED
      BY <2>1, <2>2, <3>1, WindowSet DEF IsConn
  <2>4. PICK c1 : c1 = [c EXCEPT !.scb = t1]
    OBVIOUS
  <2>5. PICK c2 : c2 = [c1 EXCEPT !.scb = t2]
    OBVIOUS
  <2>6. /\ Alike(c, c1) /\ c1.scb = t1
        /\ Alike(c, c2) /\ c2.scb = t2 /\ c2.tx = c.tx /\ c2.rx = c.rx /\ DOMAIN c2 = DOMAIN c
        /\ c2.closing = c.closing
    BY <2>3, <2>4, <2>5 DEF Alike, IsConn, FinDue, Sealed, OwesFin
  <2>7. PICK nxt : nxt = PendingSegment(t1, n)
    OBVIOUS
  <2>8. PICK out : out = Send(t2, nxt.seg)
    OBVIOUS
  <2>9. PICK c3 : c3 = [c2 EXCEPT !.scb = out.tcb]
    OBVIOUS
  <2>10. res = IF nxt.ok = "panic" THEN SendResult(c1, <<>>, "panic")
               ELSE IF nxt.ok = "no" THEN SendResult(StateCheck(c2).conn, <<>>, StateCheck(c2).err)
               ELSE IF out.err # "nil" THEN SendResult(c2, <<>>, "error")
               ELSE SendAccepted(c3, nxt.seg, n)
    BY <1>4, <2>1, <2>2, <2>4, <2>5, <2>6, <2>7, <2>8, <2>9 DEF SendPacket
  <2>11. Alike(c, StateCheck(c2).conn)
    BY <2>6, StateCheckAlike, AlikeTrans DEF Alike
  <2>12. CASE nxt.ok # "yes" \/ out.err # "nil"
    <3>1. nxt.ok \in {"panic", "no", "yes"}
      BY <2>7 DEF PendingSegment, MakeSegment
    <3>2. QED
      BY <2>6, <2>10, <2>11, <2>12, <3>1 DEF SendResult
  <2>13. CASE nxt.ok = "yes" /\ out.err = "nil"
    <3>1. PICK seg : seg = nxt.seg
      OBVIOUS
    <3>2. Fitting(t1) /\ Fitting(t2) /\ InFlight(t2) = InFlight(c.scb)
      BY <2>3 DEF Fitting, InFlight
    <3>3. Proposes(t1, n, seg)
      BY <1>0, <2>3, <2>7, <2>13, <3>1, <3>2, PendingProposes
    <3>4. Proposes(t2, n, seg)
      BY <2>3, <3>3 DEF Proposes, InFlight
    <3>5. PICK data : data = SubSeq(c.tx, 1, seg.DATALEN)
      OBVIOUS
    <3>6. seg.DATALEN \in 0 .. Len(c.tx) /\ n \in Nat
      BY <1>0, <3>4 DEF Proposes
    <3>7. /\ data \in Seq(Int) /\ Len(data) = seg.DATALEN
          /\ TxRead(c.tx, seg.DATALEN) \in Seq(Int) /\ Len(TxRead(c.tx, seg.DATALEN)) <= TxCap
          /\ \/ seg.DATALEN = 0 /\ Len(c.tx) = TxCap
             \/ TxRead(c.tx, seg.DATALEN) = SubSeq(c.tx, seg.DATALEN + 1, Len(c.tx))
          /\ c.tx = <<>> => SubSeq(c.tx, seg.DATALEN + 1, Len(c.tx)) = c.tx
      BY <3>5, <3>6, TxLeft DEF IsConn
    <3>8. PICK p : p = Packet(seg, data)
      OBVIOUS
    <3>9. p.seg = seg /\ p.data = data
      BY <3>8 DEF Packet
    <3>11. seg \in Segment /\ IsPkt(p)
      BY <2>3, <3>2, <3>4, <3>6, <3>7, <3>8, ProposedIsPkt
    <3>12. out.tcb = Sent(t2, seg)
      BY <2>8, <2>13, <3>1 DEF Send, Outcome
    <3>13. PICK u : u = Sent(t2, seg)
      OBVIOUS
    <3>14. Leaves(t2, seg, u)
      BY <2>3, <3>4, <3>6, <3>11, <3>13, SentLeaves
    <3>15. Leaves(c.scb, seg, u)
      BY <2>3, <3>14 DEF Leaves, FinDue, StateAfterSend
    <3>16. PICK c4 : c4 = IF n > 0 THEN [c3 EXCEPT !.tx = TxRead(c3.tx, seg.DATALEN)] ELSE c3
      OBVIOUS
    <3>17. /\ DOMAIN c3 = DOMAIN c /\ c3.scb = u /\ c3.tx = c.tx /\ c3.rx = c.rx
           /\ c3.closing = c.closing
      BY <2>6, <2>9, <3>12, <3>13 DEF IsConn
    <3>18. /\ IsConn(c4) /\ c4.scb = u /\ c4.rx = c.rx /\ c4.closing = c.closing
           /\ c4.tx = IF n > 0 THEN TxRead(c.tx, seg.DATALEN) ELSE c.tx
      <4>1. IsBlock(u) /\ Queued(u)
        BY <3>15 DEF Leaves
      <4>2. ~OwesFin(u)
        BY <3>15 DEF Leaves
      <4>3. u.state \in {"FinWait1", "FinWait2", "Closing", "TimeWait"} => c.closing
        <5>1. \/ u.state = c.scb.state
              \/ u.state = "FinWait1" /\ c.scb.state \in {"SynRcvd", "Established"} /\ "FIN" \in seg.Flags
              \/ c.scb.state = "Closing"
              \/ u.state = "LastAck"
          BY <3>15 DEF Leaves, StateAfterSend, Has
        <5>2. "FIN" \in seg.Flags => "FIN" \in c.scb.p0
          BY <2>3, <3>4 DEF Proposes
        <5>3. QED
          BY <5>1, <5>2 DEF IsConn, Sealed, OwesFin
      <4>4. DOMAIN c4 = DOMAIN c /\ c4.scb = u /\ c4.rx = c.rx /\ c4.closing = c.closing
            /\ c4.tx = IF n > 0 THEN TxRead(c.tx, seg.DATALEN) ELSE c.tx
        BY <3>16, <3>17 DEF IsConn
      <4>5. Sealed(c4)
        BY <4>2, <4>3, <4>4 DEF Sealed
      <4>6. QED
        BY <3>7, <4>1, <4>4, <4>5 DEF IsConn
    <3>19. PICK d : d = [StateCheck(c4).conn EXCEPT !.late = FALSE]
      OBVIOUS
    <3>20. res.conn = d /\ res.pkts = <<p>>
      <4>1. res = SendAccepted(c3, seg, n)
        BY <2>10, <2>13, <3>1
      <4>2. Packet(seg, SubSeq(c3.tx, 1, seg.DATALEN)) = p
        BY <3>5, <3>8, <3>17
      <4>3. SendAccepted(c3, seg, n) = SendResult(d, <<p>>, StateCheck(c4).err)
        BY <3>16, <3>19, <4>2 DEF SendAccepted
      <4>4. QED
        BY <4>1, <4>3 DEF SendResult
    <3>21. Alike(c4, StateCheck(c4).conn)
      BY <3>18, StateCheckAlike
    <3>22. /\ IsConn(d) /\ d.late = FALSE /\ d.rx = c.rx /\ d.tx = c4.tx /\ d.closing = c.closing
           /\ d.scb.state = u.state /\ d.scb.snd = u.snd /\ d.scb.rcv.NXT = u.rcv.NXT
           /\ FinDue(d.scb) => FinDue(u)
           /\ "SYN" \notin d.scb.p0 /\ (d.scb.state = "FinWait2" => d.scb.p0 = {})
      BY <3>15, <3>18, <3>19, <3>21 DEF Alike, IsConn, Leaves, Sealed
    <3>23. d.scb.state \in {"SynRcvd", "Established"}
             => d.tx = SubSeq(c.tx, Len(p.data) + 1, Len(c.tx))
      <4>1. SUFFICES ASSUME d.scb.state \in {"SynRcvd", "Established"}
                     PROVE  c4.tx = SubSeq(c.tx, seg.DATALEN + 1, Len(c.tx))
        BY <3>7, <3>9, <3>22
      <4>2. c.scb.state \in {"SynRcvd", "Established"} /\ "FIN" \notin seg.Flags
        BY <3>15, <3>22, <4>1 DEF Leaves, StateAfterSend, Has, FinDue
      <4>3. CASE n = 0
        <5>1. c.tx = <<>>
          BY <1>0, <4>3, TCPConnAssumption DEF Smaller, IsConn
        <5>2. QED
          BY <3>7, <3>18, <4>3, <5>1
      <4>4. CASE n > 0
        <5>1. c.scb.state = "Established" => seg.DATALEN # 0
          BY <2>3, <3>4, <4>2, <4>4 DEF Proposes
        <5>2. QED
          BY <3>7, <3>18, <4>2, <4>4, <5>1
      <4>5. QED
        BY <1>0, <4>3, <4>4
    <3>24. SendsPkt(c, p, d)
      <4>1. /\ seg.SEQ = c.scb.snd.NXT /\ seg.WND = RxCap - Len(c.rx)
            /\ "ACK" \in seg.Flags => seg.ACK = c.scb.rcv.NXT
            /\ seg.Flags = c.scb.p0 \union (IF c.scb.state = "Established" THEN {"ACK"} ELSE {})
            /\ seg.Flags # {} /\ c.scb.state \notin {"Closed", "Listen", "SynSent"}
            /\ c.scb.state = "Established" => InFlight(c.scb) + seg.DATALEN <= c.scb.snd.WND
            /\ c.scb.state # "Established" => seg.DATALEN = 0
        BY <2>3, <3>2, <3>4 DEF Proposes, MakeSegment
      <4>2. c.scb.state # "Established" => data = <<>>
        BY <3>7, <4>1
      <4>3. p.data = SubSeq(c.tx, 1, Len(p.data)) /\ Len(p.data) <= Len(c.tx)
        BY <3>5, <3>6, <3>7, <3>9
      <4>4. \E v : /\ Leaves(c.scb, p.seg, v)
                   /\ d.scb.state = v.state /\ d.scb.snd = v.snd /\ d.scb.rcv.NXT = v.rcv.NXT
                   /\ FinDue(d.scb) => FinDue(v)
                   /\ "SYN" \notin d.scb.p0
        BY <3>9, <3>15, <3>22
      <4>5. QED
        BY <3>7, <3>9, <3>11, <3>22, <3>23, <4>1, <4>2, <4>3, <4>4 DEF SendsPkt
    <3>25. QED
      BY <3>20, <3>24
  <2>14. QED
    BY <2>12, <2>13
<1>5. QED
  BY <1>1, <1>2, <1>3, <1>4

\* A number n places on is n places away.
LEMMA AddBack ==
  ASSUME NEW v \in Value, NEW n \in Nat, n < SeqMod
  PROVE  /\ Wrap(Add(v, n) - v) = n
         /\ n >= 1 => Wrap(Wrap(Add(v, n) - 1) - v) = n - 1
<1>1. SeqMod \in Nat /\ SeqMod > 1 /\ v \in Nat /\ v < SeqMod
  BY SeqAssumption DEF Value
<1>2. \A k \in Nat : k < SeqMod => Add(v, k) = IF v + k < SeqMod THEN v + k ELSE v + k - SeqMod
  <2>1. \A k \in Nat : Add(v, k) = Wrap(v + k)
    BY DEF Add
  <2>2. QED
    BY <1>1, <2>1, WrapIs
<1>3. \A k \in Nat : k < SeqMod => Wrap(Add(v, k) - v) = k
  <2>1. SUFFICES ASSUME NEW k \in Nat, k < SeqMod PROVE Wrap(Add(v, k) - v) = k
    OBVIOUS
  <2>2. CASE v + k < SeqMod
    <3>1. Add(v, k) - v = k
      BY <1>1, <1>2, <2>1, <2>2
    <3>2. QED
      BY <2>1, <3>1, WrapIs
  <2>3. CASE ~(v + k < SeqMod)
    <3>1. Add(v, k) - v = k - SeqMod /\ k - SeqMod \in Int /\ k - SeqMod < 0 /\ k - SeqMod >= 0 - SeqMod
      BY <1>1, <1>2, <2>1, <2>3
    <3>2. Wrap(k - SeqMod) = (k - SeqMod) + SeqMod
      BY <3>1, WrapIs
    <3>3. QED
      BY <1>1, <2>1, <3>1, <3>2
  <2>4. QED
    BY <2>2, <2>3
<1>4. n >= 1 => Wrap(Add(v, n) - 1) = Add(v, n - 1)
  <2>1. SUFFICES ASSUME n >= 1 PROVE Wrap(Add(v, n) - 1) = Add(v, n - 1)
    OBVIOUS
  <2>2. n - 1 \in Nat /\ n - 1 < SeqMod
    BY <1>1, <2>1
  <2>3. CASE v + n < SeqMod
    <3>1. Add(v, n) = v + n /\ Add(v, n - 1) = v + (n - 1)
      BY <1>1, <1>2, <2>2, <2>3
    <3>2. Wrap((v + n) - 1) = (v + n) - 1
      BY <1>1, <2>1, <2>3, WrapIs
    <3>3. QED
      BY <1>1, <3>1, <3>2
  <2>4. CASE v + n = SeqMod
    <3>1. Add(v, n) = 0 /\ Add(v, n - 1) = SeqMod - 1
      BY <1>1, <1>2, <2>2, <2>4
    <3>2. Wrap(0 - 1) = (0 - 1) + SeqMod
      BY <1>1, WrapIs
    <3>3. QED
      BY <1>1, <3>1, <3>2
  <2>5. CASE v + n > SeqMod
    <3>1. Add(v, n) = v + n - SeqMod /\ Add(v, n - 1) = v + (n - 1) - SeqMod
      BY <1>1, <1>2, <2>2, <2>5
    <3>2. Wrap((v + n - SeqMod) - 1) = (v + n - SeqMod) - 1
      BY <1>1, <2>1, <2>5, WrapIs
    <3>3. QED
      BY <1>1, <3>1, <3>2
  <2>6. QED
    BY <1>1, <2>3, <2>4, <2>5
<1>5. n >= 1 => n - 1 \in Nat /\ n - 1 < SeqMod
  BY <1>1
<1>6. QED
  BY <1>3, <1>4, <1>5

\* validateOutgoingSegment accepts what PendingSegment proposes: no FIN goes with data.
LEMMA SendAccepts ==
  ASSUME NEW t, NEW n \in Nat, NEW seg, IsBlock(t), Queued(t), Fitting(t), Proposes(t, n, seg),
         OwesFin(t) => seg.DATALEN = 0
  PROVE  Send(t, seg).err = "nil"
<1>1. /\ seg.SEQ = t.snd.NXT /\ seg.WND = t.rcv.WND /\ ("ACK" \in seg.Flags => seg.ACK = t.rcv.NXT)
      /\ t.state \notin {"Closed", "Listen", "SynSent"} /\ seg.DATALEN \in 0 .. n
      /\ t.state # "Established" => seg.DATALEN = 0
      /\ seg.Flags = t.p0 \union (IF t.state = "Established" THEN {"ACK"} ELSE {})
  BY DEF Proposes, MakeSegment
<1>2. /\ t.snd.NXT \in Value /\ t.snd.WND \in 0 .. RxCap /\ t.rcv.WND \in 0 .. RxCap
      /\ RxCap \in Nat /\ MaxWnd \in Nat /\ RxCap <= MaxWnd /\ SeqMod \in Nat /\ 2 * MaxWnd < SeqMod
  BY SeqAssumption, TCPConnAssumption DEF IsBlock
<1>3. PICK l, w, f, s \in Nat : /\ l = seg.DATALEN /\ w = t.snd.WND
                                /\ f = (IF Has(seg, "FIN") THEN 1 ELSE 0)
                                /\ s = (IF Has(seg, "SYN") THEN 1 ELSE 0)
  BY <1>1, <1>2
<1>4. l <= w
  <2>1. CASE t.state = "Established"
    <3>1. InFlight(t) \in Nat /\ InFlight(t) + l <= w
      BY <1>3, <2>1, InFlightIn DEF Proposes
    <3>2. QED
      BY <1>3, <3>1
  <2>2. CASE t.state # "Established"
    BY <1>1, <1>3, <2>2
  <2>3. QED
    BY <2>1, <2>2
<1>5. SegLen(seg) = l + f + s
  <2>1. PICK data \in Seq(Int) : Len(data) = l
    <3>1. [i \in 1 .. l |-> 0] \in Seq(Int) /\ Len([i \in 1 .. l |-> 0]) = l
      BY <1>3
    <3>2. QED
      BY <3>1
  <2>2. IsPkt(Packet(seg, data))
    BY <1>3, <2>1, ProposedIsPkt
  <2>3. QED
    BY <1>3, <2>1, <2>2 DEF IsPkt, Packet
<1>6. f + s <= 1 /\ (f + s = 1 => l = 0)
  <2>1. Has(seg, "SYN") => ~Has(seg, "FIN") /\ t.state = "SynRcvd"
    BY <1>1 DEF Queued, Has, synack
  <2>2. Has(seg, "FIN") => l = 0
    BY <1>1, <1>3 DEF Has, OwesFin
  <2>3. QED
    BY <1>1, <1>3, <2>1, <2>2
<1>7. CASE w = 0
  <2>1. t.snd.WND = 0 /\ seg.DATALEN = 0 /\ seg.SEQ = t.snd.NXT /\ ~(seg.WND > MaxWnd)
    BY <1>1, <1>2, <1>3, <1>4, <1>7
  <2>2. ~(seg.DATALEN > 0)
    BY <2>1
  <2>3. OutgoingError(t, seg) = "nil"
    BY <1>1, <2>1, <2>2 DEF OutgoingError, Has
  <2>4. QED
    BY <2>3 DEF Send, Outcome
<1>8. CASE w > 0
  <2>1. w < SeqMod /\ l + f + s <= w
    BY <1>2, <1>3, <1>4, <1>6, <1>8
  <2>2. Wrap(Add(t.snd.NXT, t.snd.WND) - t.snd.NXT) = w
    BY <1>2, <1>3, <2>1, AddBack
  <2>3. InWindow(seg.SEQ, t.snd.NXT, t.snd.WND)
    <3>1. t.snd.NXT - t.snd.NXT = 0 /\ 0 < SeqMod /\ 0 \in Nat
      BY <1>2, SeqAssumption DEF Value
    <3>2. Wrap(t.snd.NXT - t.snd.NXT) = 0
      BY <3>1, WrapIs
    <3>3. QED
      BY <1>1, <1>8, <2>2, <3>2 DEF InWindow, InRange
  <2>4. InWindow(Last(seg), t.snd.NXT, t.snd.WND)
    <3>1. CASE SegLen(seg) = 0
      BY <2>3, <3>1 DEF Last
    <3>2. CASE SegLen(seg) # 0
      <4>1. PICK k \in Nat : k = SegLen(seg) /\ k >= 1 /\ k <= w /\ k < SeqMod
        BY <1>2, <1>3, <1>5, <2>1, <3>2
      <4>2. Last(seg) = Wrap(Add(t.snd.NXT, k) - 1)
        BY <1>1, <3>2, <4>1 DEF Last
      <4>3. Wrap(Last(seg) - t.snd.NXT) = k - 1
        BY <1>2, <4>1, <4>2, AddBack
      <4>4. k - 1 < w
        BY <1>3, <4>1
      <4>5. QED
        BY <2>2, <4>3, <4>4 DEF InWindow, InRange
    <3>3. QED
      BY <3>1, <3>2
  <2>5. ~(seg.WND > MaxWnd) /\ (seg.DATALEN > 0 => t.state = "Established")
    BY <1>1, <1>2, <1>3
  <2>6. OutgoingError(t, seg) = "nil"
    BY <1>1, <2>3, <2>4, <2>5 DEF OutgoingError, Has
  <2>7. QED
    BY <2>6 DEF Send, Outcome
<1>9. QED
  BY <1>3, <1>7, <1>8

\* The "bad calculation" assertion of PendingSegment: what is in flight fits the window
\* wherever data may be sent, and elsewhere no data is asked for.
LEMMA PendingCalculates ==
  ASSUME NEW t, NEW n \in Nat, IsBlock(t), Queued(t), ~Int32,
         t.state \in {"Established", "CloseWait"} => InFlight(t) <= t.snd.WND
  PROVE  PendingSegment(t, n).ok # "panic"
<1>1. PICK room : room = MaxSend(t)
  OBVIOUS
<1>2. PICK len : len = IF t.state \in {"Established", "CloseWait"} THEN n ELSE 0
  OBVIOUS
<1>3. room \in Nat /\ ToInt(room) = room
  <2>1. t.snd.WND - InFlight(t) \in Int
    BY InFlightIn, TCPConnAssumption DEF IsBlock
  <2>2. room \in Value
    BY <1>1, <2>1, WrapIs DEF MaxSend
  <2>3. QED
    BY <2>2, SeqAssumption DEF ToInt, Value
<1>4. ~(len > ToInt(room) /\ room > t.snd.WND)
  <2>1. CASE t.state \in {"Established", "CloseWait"}
    <3>1. /\ t.snd.WND - InFlight(t) \in Int /\ t.snd.WND - InFlight(t) >= 0
          /\ t.snd.WND - InFlight(t) <= t.snd.WND /\ t.snd.WND - InFlight(t) < SeqMod
      BY <2>1, InFlightIn, TCPConnAssumption, SeqAssumption DEF IsBlock
    <3>2. room = t.snd.WND - InFlight(t)
      BY <1>1, <3>1, WrapIs DEF MaxSend
    <3>3. t.snd.WND \in Int
      BY TCPConnAssumption DEF IsBlock
    <3>4. QED
      BY <1>3, <3>1, <3>2, <3>3
  <2>2. CASE t.state \notin {"Established", "CloseWait"}
    BY <1>2, <1>3, <2>2
  <2>3. QED
    BY <2>1, <2>2
<1>5. ~t.challengeAck
  BY DEF Queued
<1>6. QED
  BY <1>1, <1>2, <1>4, <1>5 DEF PendingSegment

\* send comes back with a packet, or with none and the reason for it.
LEMMA SendNeverFails ==
  ASSUME NEW c, IsConn(c), ~Int32,
         c.scb.state \in {"Established", "CloseWait"} => InFlight(c.scb) <= c.scb.snd.WND
  PROVE  SendPacket(c).err \notin {"error", "panic"}
<1> DEFINE res == SendPacket(c)
           n == Smaller(Len(c.tx), MaxSeg)
<1>0. n \in 0 .. Len(c.tx) /\ Len(c.tx) \in Nat /\ Len(c.rx) \in Nat /\ n \in Nat
  <2>1. Len(c.tx) \in Nat /\ Len(c.rx) \in Nat /\ MaxSeg \in Nat
    BY TCPConnAssumption DEF IsConn
  <2>2. n \in 0 .. Len(c.tx)
    BY <2>1, SmallerIn
  <2>3. QED
    BY <2>1, <2>2
<1>1. \A d : StateCheck(d).err \notin {"error", "panic"}
  BY DEF StateCheck
<1>2. CASE ~c.remote \/ MustSendSyn(c) \/ AwaitingSyn(c)
  BY <1>2 DEF SendPacket, SendSyn, SendResult
<1>3. CASE c.remote /\ ~MustSendSyn(c) /\ ~AwaitingSyn(c)
  <2>1. PICK t1 : t1 = SetRecvWindow(c.scb, RxCap - Len(c.rx))
    OBVIOUS
  <2>2. PICK t2 : t2 = AfterPending(t1)
    OBVIOUS
  <2>3. /\ IsBlock(t1) /\ Queued(t1) /\ IsBlock(t2) /\ Queued(t2)
        /\ \A v \in {t1, t2} :
             /\ v.state = c.scb.state /\ v.snd = c.scb.snd /\ v.rcv.NXT = c.scb.rcv.NXT
             /\ v.rcv.WND = RxCap - Len(c.rx) /\ v.p0 = c.scb.p0 /\ v.p1 = c.scb.p1
    <3>1. RxCap - Len(c.rx) \in 0 .. RxCap
      BY <1>0, TCPConnAssumption DEF IsConn
    <3>2. QED
      BY <2>1, <2>2, <3>1, WindowSet DEF IsConn
  <2>4. PICK c1 : c1 = [c EXCEPT !.scb = t1]
    OBVIOUS
  <2>5. PICK c2 : c2 = [c1 EXCEPT !.scb = t2]
    OBVIOUS
  <2>6. c1.scb = t1 /\ c2.scb = t2
    BY <2>4, <2>5 DEF IsConn
  <2>7. PICK nxt : nxt = PendingSegment(t1, n)
    OBVIOUS
  <2>8. PICK out : out = Send(t2, nxt.seg)
    OBVIOUS
  <2>9. PICK c3 : c3 = [c2 EXCEPT !.scb = out.tcb]
    OBVIOUS
  <2>10. res = IF nxt.ok = "panic" THEN SendResult(c1, <<>>, "panic")
               ELSE IF nxt.ok = "no" THEN SendResult(StateCheck(c2).conn, <<>>, StateCheck(c2).err)
               ELSE IF out.err # "nil" THEN SendResult(c2, <<>>, "error")
               ELSE SendAccepted(c3, nxt.seg, n)
    BY <1>3, <2>1, <2>2, <2>4, <2>5, <2>6, <2>7, <2>8, <2>9 DEF SendPacket
  <2>11. /\ InFlight(t1) = InFlight(c.scb) /\ Fitting(t1) /\ Fitting(t2)
         /\ t1.state \in {"Established", "CloseWait"} => InFlight(t1) <= t1.snd.WND
    BY <2>3 DEF InFlight, Fitting
  <2>12. nxt.ok # "panic"
    BY <1>0, <2>3, <2>7, <2>11, PendingCalculates
  <2>13. CASE nxt.ok = "yes"
    <3>1. Proposes(t1, n, nxt.seg)
      BY <1>0, <2>3, <2>7, <2>11, <2>13, PendingProposes
    <3>2. Proposes(t2, n, nxt.seg)
      BY <2>3, <3>1 DEF Proposes, InFlight
    <3>3. OwesFin(t2) => nxt.seg.DATALEN = 0
      <4>1. OwesFin(t2) => c.tx = <<>>
        BY <2>3 DEF OwesFin, IsConn, Sealed
      <4>2. c.tx = <<>> => n = 0
        <5>1. c.tx = <<>> => Len(c.tx) = 0
          OBVIOUS
        <5>2. QED
          BY <1>0, <5>1
      <4>3. nxt.seg.DATALEN \in 0 .. n
        BY <3>2 DEF Proposes
      <4>4. QED
        BY <1>0, <4>1, <4>2, <4>3
    <3>4. out.err = "nil"
      BY <1>0, <2>3, <2>8, <2>11, <3>2, <3>3, SendAccepts
    <3>5. res = SendAccepted(c3, nxt.seg, n)
      BY <2>10, <2>13, <3>4
    <3>6. QED
      BY <1>1, <3>5 DEF SendAccepted, SendResult
  <2>14. CASE nxt.ok = "no"
    BY <1>1, <2>10, <2>14 DEF SendResult
  <2>15. nxt.ok \in {"panic", "no", "yes"}
    BY <2>7 DEF PendingSegment, MakeSegment
  <2>16. QED
    BY <2>12, <2>13, <2>14, <2>15
<1>4. QED
  BY <1>2, <1>3

-----------------------------------------------------------------------------
(* The two ends, in counts *)

\* There are two sides.
LEMMA Sides ==
  ASSUME NEW e \in Peers
  PROVE  /\ Other(e) \in Peers /\ Other(Other(e)) = e /\ Other(e) # e
         /\ \A x \in Peers : x = e \/ x = Other(e)
  BY DEF Peers, Other

St(e) == conn[e].scb.state
S(e) == Num(e, conn[e].scb.snd.NXT)            \* octets sent,
U(e) == Num(e, conn[e].scb.snd.UNA)            \* known acknowledged,
R(e) == Num(Other(e), conn[e].scb.rcv.NXT)     \* and expected next
Wnd(e) == conn[e].scb.snd.WND
Due(e) == FinDue(conn[e].scb)
Owed(e) == conn[e].scb.p0
Late(e) == conn[e].late

Opening == {"Listen", "SynSent", "SynRcvd"}
Unopened(e) == user[e] \in {"new", "opening"}
Ended(e) == ~Unopened(e) /\ St(e) \notin Opening \union {"Established"}
Sync(e) == St(e) \notin {"Closed", "Listen", "SynSent"}

\* How far e lets the other side send.
Room(e) == 1 + Len(got[e]) + RxCap

\* The packets of e that are under way.
Sends(e) == {net[Other(e)][i] : i \in 1 .. Len(net[Other(e)])}

Ack(p) == Has(p.seg, "ACK")
Syn(p) == Has(p.seg, "SYN")
Fin(p) == Has(p.seg, "FIN")
K(e, p) == Num(e, p.seg.SEQ)
End(e, p) == K(e, p) + SegLen(p.seg)
A(e, p) == Num(Other(e), p.seg.ACK)
Edge(e, p) == A(e, p) + p.seg.WND

\* Each end, alone.
Shape(e) ==
  /\ IsConn(conn[e])
  /\ wrote[e] \in Nat /\ wrote[e] <= ByteLimit(e) /\ got[e] \in Seq(Int)
  /\ user[e] = "writing" => wrote[e] + Chunk <= ByteLimit(e) /\ ~conn[e].closing
  /\ St(e) = "SynSent" => e = "client"
  /\ St(e) \in {"Listen", "SynRcvd"} => e = "server"
  /\ Unopened(e) => conn[e] = FreshConn /\ got[e] = <<>> /\ wrote[e] = 0

Numbers(e) ==
  /\ St(e) \in {"Listen", "SynSent"} => conn[e].scb.snd.ISS = Iss(e)
  /\ St(e) = "Listen" => S(e) = 0
  /\ St(e) = "SynSent" => S(e) = 1 /\ U(e) = 0
  /\ St(e) = "SynRcvd" => U(e) = 0 /\ S(e) \in {0, 1} /\ ("SYN" \in Owed(e) => S(e) = 0)
  /\ St(e) \in Opening => Len(conn[e].tx) = wrote[e] /\ conn[e].rx = <<>> /\ got[e] = <<>>
  /\ St(e) = "Established" => S(e) = 1 + wrote[e] - Len(conn[e].tx)
  /\ St(e) \in Opening \union {"Established"} =>
       \A i \in 1 .. Len(conn[e].tx) : conn[e].tx[i] = wrote[e] - Len(conn[e].tx) + i
  /\ Sync(e) => S(e) <= 2 + wrote[e]
  /\ Due(e) => S(e) <= 1 + wrote[e]

\* A packet p of e.
Flagged(e, p) ==
  /\ IsPkt(p) /\ ~Unopened(e)
  /\ Syn(p) => K(e, p) = 0 /\ p.data = <<>> /\ ~Fin(p) /\ (Ack(p) <=> e = "server")
  /\ ~Syn(p) /\ ~Ack(p) => Fin(p) /\ (e = "server" \/ Ended(Other(e)))
  /\ Fin(p) => Ended(e)

Carries(e, p) ==
  /\ p.data # <<>> => /\ K(e, p) >= 1 /\ K(e, p) + Len(p.data) <= 1 + wrote[e]
                      /\ K(e, p) + Len(p.data) <= Room(Other(e))
  /\ \A j \in 1 .. Len(p.data) : p.data[j] = K(e, p) - 1 + j
  /\ End(e, p) <= 2 + wrote[e]
  /\ Sync(e) => End(e, p) <= S(e)

Acknowledges(e, p) ==
  Ack(p) =>
    /\ A(e, p) >= 1 /\ A(e, p) <= 2 + wrote[Other(e)]
    /\ Sync(Other(e)) \/ St(Other(e)) = "SynSent" => A(e, p) <= S(Other(e))
    /\ Sync(e) => A(e, p) <= R(e) /\ Edge(e, p) <= R(e) + RxCap - Len(conn[e].rx)
    /\ ~Ended(Other(e)) => Edge(e, p) <= Room(e)

\* Two packets of e: one acknowledges and offers no less than the other, the one
\* that carries later data if there is one, and no data follows a FIN.
Newer(e, p, q) == A(e, q) <= A(e, p) /\ Edge(e, q) <= Edge(e, p)

Paired(e, p, q) ==
  /\ Ack(p) /\ Ack(q) => Newer(e, p, q) \/ Newer(e, q, p)
  /\ Ack(p) /\ Ack(q) /\ p.data # <<>> /\ End(e, q) <= K(e, p) => Newer(e, p, q)
  /\ Fin(q) /\ p.data # <<>> => K(e, p) < End(e, q)

\* What e has received: the octets up to R, unless a FIN was among them.
Received(e) ==
  /\ Sync(e) =>
       /\ R(e) >= 1 /\ R(e) <= 2 + wrote[Other(e)] /\ ~Unopened(Other(e))
       /\ Sync(Other(e)) \/ St(Other(e)) = "SynSent" => R(e) <= S(Other(e))
       /\ R(e) # 1 + Len(got[e]) + Len(conn[e].rx)
            => /\ Ended(Other(e))
               /\ \A p \in Sends(Other(e)) : p.data # <<>> => K(Other(e), p) < R(e)
  /\ Sync(e) /\ Sync(Other(e)) => U(Other(e)) <= R(e)
  /\ St(e) \in {"CloseWait", "LastAck"} => Ended(Other(e))

Prefix(e) ==
  /\ Len(Stream(e)) <= wrote[Other(e)]
  /\ \A i \in 1 .. Len(Stream(e)) : Stream(e)[i] = i

\* e stays in the window that the other side offers, and no packet under way can
\* take any of it back.
Widens(e, q) ==
  Ack(q) => IF q.data # <<>>
            THEN \/ K(Other(e), q) < R(e)
                 \/ A(Other(e), q) >= U(e) /\ Edge(Other(e), q) >= U(e) + Wnd(e)
            ELSE A(Other(e), q) <= U(e) \/ Edge(Other(e), q) >= U(e) + Wnd(e)

Windowed(e) ==
  St(e) = "Established" =>
    /\ U(e) >= 1 /\ U(e) <= S(e)
    /\ S(e) <= U(e) + Wnd(e) /\ U(e) + Wnd(e) <= Room(Other(e))
    /\ \A q \in Sends(Other(e)) : Widens(e, q)

\* The handshake: the server has not answered a SYN, the client has not had the
\* answer, and there is one SYN each way.
Unanswered ==
  \/ Unopened("server") \/ St("server") = "Listen"
  \/ St("server") = "SynRcvd" /\ "SYN" \in Owed("server")

Undialled == Unopened("client") \/ (St("client") = "SynSent" /\ Late("client"))

Shaking ==
  /\ Unanswered => /\ Sends("server") = {} /\ \A p \in Sends("client") : Syn(p)
                   /\ Unopened("client") \/ St("client") \in {"Closed", "SynSent"}
  /\ Undialled => /\ Sends("client") = {} /\ Sends("server") = {}
                  /\ St("server") \in {"Closed", "Listen"}
  /\ St("client") = "SynSent" =>
       /\ \A p \in Sends("client") : Syn(p)
       /\ Sync("server") => R("server") = 1 /\ U("server") = 0
       /\ St("server") \in {"Closed", "Listen", "SynRcvd", "FinWait1"}
  /\ \A p \in Sends("client") : Syn(p) => St("server") \in {"Closed", "Listen"}
  /\ \A p \in Sends("server") : Syn(p) => St("client") \in {"Closed", "SynSent"}

\* One SYN at most in each direction.
Lone(q) == \A i, j \in 1 .. Len(q) : Syn(q[i]) /\ Syn(q[j]) => i = j

Queue(q) == \E T : q \in Seq(T)

Domains ==
  /\ DOMAIN conn = Peers /\ DOMAIN net = Peers /\ DOMAIN user = Peers
  /\ DOMAIN wrote = Peers /\ DOMAIN got = Peers /\ DOMAIN port = Peers
  /\ \A e \in Peers : Queue(net[e]) /\ Lone(net[e])

IInv ==
  /\ Domains /\ Shaking
  /\ \A e \in Peers : Shape(e) /\ Numbers(e) /\ Received(e) /\ Prefix(e) /\ Windowed(e)
  /\ \A e \in Peers : \A p \in Sends(e) : Flagged(e, p) /\ Carries(e, p) /\ Acknowledges(e, p)
  /\ \A e \in Peers : \A p, q \in Sends(e) : Paired(e, p, q)

-----------------------------------------------------------------------------
(* The end of a stream *)

\* The octets that e has received.
Taken(e) == Len(got[e]) + Len(conn[e].rx)

\* The user of e writes no more, ...
Stopped(e) == ~Unopened(e) /\ (~port[e] \/ conn[e].closing)

\* ... e is closed or waits for the last ACK, ...
Gone(e) == ~Unopened(e) /\ St(e) \in {"Closed", "LastAck"}

\* ... e may still be about to send its FIN, ...
Unfinished(e) == ~Ended(e) \/ St(e) = "CloseWait"

\* ... e has taken a FIN.
Took(e) == Sync(e) /\ R(e) # 1 + Taken(e)

\* All that the user of the other side wrote has arrived, and it writes no more.
Complete(e) == Stopped(Other(e)) /\ wrote[Other(e)] = Taken(e)

\* An end that has sent its FIN and not acknowledged anything since.
Closes(e) ==
  /\ Sync(e) => conn[e].scb.snd.ISS = Iss(e)
  /\ conn[e].closing => e \in Closers
  /\ St(e) = "FinWait1" \/ (St(e) = "FinWait2" /\ Owed(e) # {})
       => \A p \in Sends(e) : K(e, p) < S(e)

\* Where a FIN of e lies: after all that was written, unless e answers the FIN of
\* an end that is itself through or never completed the handshake.
Finishes(e, p) ==
  Fin(p) => /\ ~Unfinished(e)
            /\ \/ K(e, p) = 0
               \/ End(e, p) = 2 + wrote[e] /\ Stopped(e)
               \/ Gone(e) /\ Ended(Other(e))

\* What e knows once it has taken a FIN.
Heard(e) ==
  /\ Sync(e) => R(e) >= 1 + Taken(e)
  /\ St(e) \in {"CloseWait", "LastAck", "Closing", "TimeWait"} => Took(e)
  /\ Took(e) => ~Unfinished(Other(e)) /\ (Gone(Other(e)) \/ Complete(e))
  /\ Took(e) /\ (Unfinished(e) \/ St(e) = "LastAck")
       => Complete(e) /\ R(e) = 2 + wrote[Other(e)]

\* An acknowledgement of e's octets up to n is one of octets received.
Holds(e, n) == n <= 1 + Taken(Other(e)) \/ Complete(Other(e))

Buffered(e) ==
  port[Other(e)] =>
    /\ Sync(e) => Holds(e, U(e))
    /\ \A p \in Sends(Other(e)) : Ack(p) => Holds(e, A(Other(e), p)) \/ Gone(e)

\* What a packet acknowledges and how far it lets the other side send; a FIN
\* without an ACK counts as one of the SYN.
Tells(p) == Ack(p) \/ Fin(p)
Told(e, p) == IF Ack(p) THEN A(e, p) ELSE 1
Reach(e, p) == Told(e, p) + p.seg.WND

\* p was sent after q.
Follows(e, p, q) ==
  K(e, q) < K(e, p) \/ ((p.data # <<>> \/ Fin(p)) /\ End(e, q) <= K(e, p))

\* The packets of e, while the other side may still send its FIN.
Ordered(e) ==
  Unfinished(Other(e)) =>
    /\ \A p \in Sends(e) : Tells(p) => Reach(e, p) <= Room(e)
    /\ \A p, q \in Sends(e) : Tells(p) /\ Tells(q) /\ Follows(e, p, q)
         => Told(e, q) <= Told(e, p) /\ Reach(e, q) <= Reach(e, p)
    /\ \A p, q \in Sends(e) : /\ Ack(p) /\ K(e, p) = 2 + wrote[e]
                              /\ Ack(q) /\ K(e, q) = 2 + wrote[e]
         => A(e, q) = A(e, p) /\ Edge(e, q) = Edge(e, p)

\* No FIN, and nothing after it, takes back any of the window of e.
Lasting(e) ==
  /\ St(e) = "Established" =>
       \A p \in Sends(Other(e)) : Fin(p) =>
         \/ K(Other(e), p) < R(e)
         \/ Told(Other(e), p) >= U(e) /\ Reach(Other(e), p) >= U(e) + Wnd(e)
  /\ St(e) = "CloseWait" =>
       /\ U(e) <= S(e) /\ S(e) <= U(e) + Wnd(e) /\ U(e) + Wnd(e) <= Room(Other(e))
       /\ \A p \in Sends(Other(e)) :
            Ack(p) /\ K(Other(e), p) = 2 + wrote[Other(e)]
              => A(Other(e), p) >= U(e) /\ Edge(Other(e), p) >= U(e) + Wnd(e)

Ends(e) == Closes(e) /\ Heard(e) /\ \A p \in Sends(e) : Finishes(e, p)

JInv == \A e \in Peers : Ends(e) /\ Buffered(e) /\ Ordered(e) /\ Lasting(e)

\* What the steps are shown to do: the second invariant rests on the first.
Kept == IInv' /\ (JInv => JInv')

-----------------------------------------------------------------------------
(* Steps *)

\* Before the handshake the second invariant says nothing.
Silent ==
  \A x \in Peers :
    /\ St(x) \in {"Closed", "Listen", "SynSent"} /\ (conn[x].closing => x \in Closers)
    /\ \A p \in Sends(x) : ~Ack(p) /\ ~Fin(p)

\* An end that has only dialled or listened has no FIN, ACK or window to account for.
LEMMA SilentHolds == Silent => JInv
<1> SUFFICES ASSUME Silent, NEW e \in Peers
             PROVE  Ends(e) /\ Buffered(e) /\ Ordered(e) /\ Lasting(e)
  BY DEF JInv
<1>1. /\ St(e) \in {"Closed", "Listen", "SynSent"} /\ (conn[e].closing => e \in Closers) /\ ~Sync(e)
      /\ \A p \in Sends(e) : ~Ack(p) /\ ~Fin(p)
      /\ \A p \in Sends(Other(e)) : ~Ack(p) /\ ~Fin(p)
  BY Sides DEF Silent, Sync
<1>2. Ends(e)
  BY <1>1 DEF Ends, Closes, Heard, Took, Finishes
<1>3. Buffered(e) /\ Ordered(e)
  BY <1>1 DEF Buffered, Ordered, Tells
<1>4. Lasting(e)
  BY <1>1 DEF Lasting
<1>5. QED
  BY <1>2, <1>3, <1>4

\* Nor does it after a step that leads to such a state.
LEMMA SilentKept == Silent' => JInv'
  BY SilentHolds, PTL

\* The length and the elements of two sequences joined.
LEMMA JoinedIs ==
  ASSUME NEW s \in Seq(Int), NEW t \in Seq(Int)
  PROVE  /\ s \o t \in Seq(Int) /\ Len(s \o t) = Len(s) + Len(t)
         /\ Len(s) \in Nat /\ Len(t) \in Nat /\ Len(s \o t) \in Nat /\ Len(s) <= Len(s \o t)
         /\ s \o <<>> = s
         /\ \A i \in 1 .. Len(s) : i \in 1 .. Len(s \o t) /\ (s \o t)[i] = s[i]
         /\ \A i \in 1 .. Len(s \o t) : i > Len(s) => i - Len(s) \in 1 .. Len(t) /\ (s \o t)[i] = t[i - Len(s)]
<1>1. s \o t \in Seq(Int) /\ Len(s \o t) = Len(s) + Len(t) /\ Len(s) \in Nat /\ Len(t) \in Nat
  OBVIOUS
<1>2. \A i \in 1 .. Len(s) : (s \o t)[i] = s[i]
  OBVIOUS
<1>0. s \o <<>> = s
  OBVIOUS
<1>3. \A i \in 1 .. Len(s) + Len(t) : i > Len(s) => (s \o t)[i] = t[i - Len(s)]
  BY <1>1
<1>4. QED
  BY <1>0, <1>1, <1>2, <1>3

\* Joining sequences is associative.
LEMMA JoinedThrice ==
  ASSUME NEW s \in Seq(Int), NEW t \in Seq(Int), NEW u \in Seq(Int)
  PROVE  s \o (t \o u) = (s \o t) \o u
<1>1. (s \o t) \o u = s \o (t \o u)
  BY ConcatAssociative, SMTT(20)
<1>2. QED
  BY <1>1, Zenon

\* The counts of an end are numbers.
LEMMA CountsIn ==
  ASSUME NEW e \in Peers, IsConn(conn[e])
  PROVE  /\ S(e) \in Nat /\ U(e) \in Nat /\ R(e) \in Nat /\ Wnd(e) \in Nat /\ St(e) \in States
         /\ S(e) < SeqMod /\ Wnd(e) <= RxCap
         /\ Len(conn[e].tx) \in Nat /\ Len(conn[e].rx) \in Nat
<1>1. /\ conn[e].scb.snd.NXT \in Value /\ conn[e].scb.snd.UNA \in Value
      /\ conn[e].scb.rcv.NXT \in Value
  BY DEF IsConn, IsBlock
<1>2. S(e) \in Value /\ U(e) \in Value /\ R(e) \in Value
  BY <1>1, NumIs DEF S, U, R
<1>3. S(e) \in Nat /\ U(e) \in Nat /\ R(e) \in Nat /\ S(e) < SeqMod
  BY <1>2, SeqAssumption DEF Value
<1>4. Wnd(e) \in 0 .. RxCap /\ RxCap \in Nat /\ St(e) \in States
  BY TCPConnAssumption DEF IsConn, IsBlock, St, Wnd
<1>5. Wnd(e) \in Nat /\ Wnd(e) <= RxCap
  BY <1>4
<1>6. Len(conn[e].tx) \in Nat /\ Len(conn[e].rx) \in Nat
  BY DEF IsConn
<1>7. QED
  BY <1>3, <1>4, <1>5, <1>6

\* The counts of a packet are numbers.
LEMMA PacketCountsIn ==
  ASSUME NEW e, NEW p, IsPkt(p)
  PROVE  /\ K(e, p) \in Nat /\ A(e, p) \in Nat /\ SegLen(p.seg) \in Nat
         /\ End(e, p) \in Nat /\ Edge(e, p) \in Nat /\ Len(p.data) \in Nat
         /\ Len(p.data) <= SegLen(p.seg)
         /\ p.data # <<>> => Len(p.data) > 0
         /\ Fin(p) => SegLen(p.seg) >= 1 + Len(p.data)
<1>1. p.seg \in Segment /\ p.seg.SEQ \in Value /\ p.seg.ACK \in Value /\ p.seg.WND \in Nat
  BY SeqAssumption DEF IsPkt, IsSeg, Segment, Value
<1>2. K(e, p) \in Nat /\ A(e, p) \in Nat
  BY <1>1, NumIs, SeqAssumption DEF K, A, Value
<1>3. /\ SegLen(p.seg) \in Nat /\ Len(p.data) \in Nat
      /\ p.data # <<>> => Len(p.data) > 0
      /\ Len(p.data) <= SegLen(p.seg)
      /\ Fin(p) => SegLen(p.seg) >= 1 + Len(p.data)
  <2>1. SegLen(p.seg) \in Nat /\ p.data \in Seq(Int)
    BY <1>1, SegLenIs DEF IsPkt
  <2>2. Len(p.data) \in Nat /\ (p.data # <<>> => Len(p.data) > 0)
    BY <2>1
  <2>3. PICK f, g \in Nat : /\ f = (IF Has(p.seg, "FIN") THEN 1 ELSE 0)
                           /\ g = (IF Has(p.seg, "SYN") THEN 1 ELSE 0)
    OBVIOUS
  <2>4. SegLen(p.seg) = Len(p.data) + f + g
    BY <2>3 DEF IsPkt
  <2>5. Fin(p) => f = 1
    BY <2>3 DEF Fin
  <2>6. \A n, m \in Nat : m = n + f + g => n <= m /\ (f = 1 => m >= 1 + n)
    OBVIOUS
  <2>7. QED
    BY <2>1, <2>2, <2>4, <2>5, <2>6
<1>4. QED
  BY <1>1, <1>2, <1>3 DEF End, Edge

\* The views of an end that a step leaves alone.
Rests(x) ==
  /\ conn'[x] = conn[x] /\ wrote'[x] = wrote[x] /\ got'[x] = got[x]
  /\ user'[x] = user[x] /\ port'[x] = port[x]

Unmoved(x) ==
  /\ St(x)' = St(x) /\ S(x)' = S(x) /\ U(x)' = U(x) /\ R(x)' = R(x) /\ Wnd(x)' = Wnd(x)
  /\ Due(x)' = Due(x) /\ Owed(x)' = Owed(x) /\ Late(x)' = Late(x)
  /\ Unopened(x)' = Unopened(x) /\ Ended(x)' = Ended(x) /\ Sync(x)' = Sync(x)
  /\ Room(x)' = Room(x) /\ Stream(x)' = Stream(x)

\* An end whose variables do not change has not moved.
LEMMA RestsUnmoved == ASSUME NEW x, Rests(x) PROVE Unmoved(x)
  BY DEF Rests, Unmoved, St, S, U, R, Wnd, Due, Owed, Late, Unopened, Ended, Sync, Room, Stream

\* An end that does nothing but close or change what it owes.
Calms(e) ==
  /\ IsConn(conn'[e])
  /\ \/ St(e)' = St(e) \/ St(e)' = "Closed"
     \/ St(e) = "CloseWait" /\ St(e)' = "LastAck"
  /\ St(e)' # "Closed" =>
       /\ S(e)' = S(e) /\ U(e)' = U(e) /\ R(e)' = R(e) /\ Wnd(e)' = Wnd(e)
       /\ conn'[e].scb.snd.ISS = conn[e].scb.snd.ISS
       /\ conn'[e].tx = conn[e].tx /\ conn'[e].rx = conn[e].rx
       /\ Due(e)' => Due(e)
       /\ "SYN" \in Owed(e)' => "SYN" \in Owed(e)
       /\ Late(e)' => Late(e)
  /\ conn'[e].rx = conn[e].rx \/ conn'[e].rx = <<>>
  /\ Unopened(e)' = Unopened(e) /\ (Unopened(e) => conn'[e] = FreshConn)
  /\ user'[e] = "writing" => wrote[e] + Chunk <= ByteLimit(e) /\ ~conn'[e].closing
  /\ wrote'[e] = wrote[e] /\ got'[e] = got[e]
  /\ port'[e] => Unopened(e) \/ (port[e] /\ conn'[e].rx = conn[e].rx)
  /\ ~Unopened(e) /\ port'[e] /\ conn[e].closing => conn'[e].closing
  /\ conn'[e].closing => conn[e].closing \/ e \in Closers
  /\ St(e)' = "FinWait2" => Owed(e)' = Owed(e)

\* No packet is new.
NoneNew == \A x \in Peers : Sends(x)' \subseteq Sends(x)

\* An end that rests is calm.
LEMMA RestsCalms == ASSUME IInv, NEW e \in Peers, Rests(e) PROVE Calms(e)
  BY RestsUnmoved DEF IInv, Shape, Rests, Unmoved, Calms

\* What only closes or changes what it owes keeps the numbers of its own end.
LEMMA CalmEnd ==
  ASSUME IInv, NEW e \in Peers, Calms(e)
  PROVE  /\ Shape(e)' /\ Numbers(e)'
         /\ (Sync(e)' => Sync(e)) /\ (Ended(e) => Ended(e)') /\ Room(e)' = Room(e)
<1>1. /\ Ended(e)' = (~Unopened(e) /\ St(e)' \notin Opening \union {"Established"})
      /\ Sync(e)' = (St(e)' \notin {"Closed", "Listen", "SynSent"})
      /\ Ended(e) = (~Unopened(e) /\ St(e) \notin Opening \union {"Established"})
      /\ Sync(e) = (St(e) \notin {"Closed", "Listen", "SynSent"})
  BY DEF Calms, Ended, Sync
<1>2. (Sync(e)' => Sync(e)) /\ (Ended(e) => Ended(e)') /\ Room(e)' = Room(e)
  BY <1>1 DEF Calms, Opening, Room
<1>3. Shape(e) /\ Numbers(e)
  BY DEF IInv
<1>4. Shape(e)'
  BY <1>1, <1>3 DEF Shape, Calms
<1>5. Numbers(e)'
  BY <1>1, <1>2, <1>3 DEF Numbers, Calms, Opening, Due, FinDue, St
<1>6. QED
  BY <1>2, <1>4, <1>5

\* What has been read or waits in rx stays, or is thrown away from the end.
LEMMA KeptPrefix ==
  ASSUME IInv, NEW e \in Peers, Unmoved(Other(e)), wrote'[e] = wrote[e],
         wrote'[Other(e)] = wrote[Other(e)], got'[e] = got[e],
         conn'[e].rx = conn[e].rx \/ conn'[e].rx = <<>>
  PROVE  Prefix(e)' /\ Prefix(Other(e))'
<1> DEFINE o == Other(e)
<1>1. /\ o \in Peers /\ Other(o) = e
  BY Sides
<1>2. Prefix(e) /\ Prefix(o) /\ Shape(e) /\ Shape(o)
  BY <1>1 DEF IInv
<1>3. Prefix(o)'
  BY <1>1, <1>2 DEF Prefix, Unmoved
<1>4. got[e] \in Seq(Int) /\ conn[e].rx \in Seq(Int) /\ wrote[o] \in Nat
  BY <1>2 DEF Shape, IsConn
<1>5. Stream(e)' = Stream(e) \/ Stream(e)' = got[e]
  <2>1. Stream(e)' = got[e] \o conn'[e].rx
    BY DEF Stream
  <2>2. got[e] \o <<>> = got[e]
    BY <1>4, JoinedIs
  <2>3. QED
    BY <2>1, <2>2 DEF Stream
<1>6. /\ Len(got[e]) \in Nat /\ Len(Stream(e)) \in Nat /\ Len(got[e]) <= Len(Stream(e))
      /\ \A i \in 1 .. Len(got[e]) : i \in 1 .. Len(Stream(e)) /\ got[e][i] = Stream(e)[i]
  BY <1>4, JoinedIs DEF Stream
<1>7. CASE Stream(e)' = Stream(e)
  BY <1>2, <1>3, <1>7 DEF Prefix
<1>8. CASE Stream(e)' = got[e]
  <2>1. PICK n, m \in Nat : n = Len(got[e]) /\ m = Len(Stream(e))
    BY <1>6
  <2>2. n <= m /\ m <= wrote[o]
    BY <1>2, <1>6, <2>1 DEF Prefix
  <2>3. n \in Nat /\ m \in Nat /\ wrote[o] \in Nat
    BY <1>4, <2>1
  <2>4. n <= wrote[o]
    BY ONLY <2>2, <2>3
  <2>5. \A i \in 1 .. Len(got[e]) : got[e][i] = i
    BY <1>2, <1>6 DEF Prefix
  <2>6. QED
    BY <1>3, <1>8, <2>1, <2>4, <2>5 DEF Prefix
<1>9. QED
  BY <1>5, <1>7, <1>8

\* A step of one end that only closes or changes what it owes keeps the invariant.
LEMMA CalmStep ==
  ASSUME IInv, NEW e \in Peers, Calms(e), Rests(Other(e)), NoneNew, Domains'
  PROVE  IInv'
<1> DEFINE o == Other(e)
<1>1. /\ o \in Peers /\ Other(o) = e /\ o # e /\ \A x \in Peers : x = e \/ x = o
  BY Sides
<1>2. Unmoved(o) /\ wrote'[o] = wrote[o] /\ got'[o] = got[o] /\ conn'[o] = conn[o]
  BY <1>1, RestsUnmoved DEF Rests
<1>3. /\ Ended(e)' = (~Unopened(e) /\ St(e)' \notin Opening \union {"Established"})
      /\ Sync(e)' = (St(e)' \notin {"Closed", "Listen", "SynSent"})
      /\ Ended(e) = (~Unopened(e) /\ St(e) \notin Opening \union {"Established"})
      /\ Sync(e) = (St(e) \notin {"Closed", "Listen", "SynSent"})
  BY DEF Calms, Ended, Sync
<1>4. (Sync(e)' => Sync(e)) /\ (Ended(e) => Ended(e)') /\ Room(e)' = Room(e)
  BY CalmEnd
<1>5. \A x \in Peers : Received(x) /\ Prefix(x) /\ Windowed(x)
  BY DEF IInv
<1>6. \A x \in Peers : Shape(x)' /\ Numbers(x)'
  BY <1>1, CalmEnd, RestsCalms
<1>7. \A x \in Peers : Received(x)'
  <2>1. Received(o)'
    BY <1>1, <1>2, <1>3, <1>4, <1>5 DEF Received, Unmoved, Calms, NoneNew
  <2>2. Received(e)'
    BY <1>1, <1>2, <1>3, <1>4, <1>5 DEF Received, Unmoved, Calms, NoneNew
  <2>3. QED
    BY <1>1, <2>1, <2>2
<1>8. \A x \in Peers : Prefix(x)'
  BY <1>1, <1>2, KeptPrefix DEF Calms
<1>9. \A x \in Peers : Windowed(x)'
  <2>1. Windowed(o)'
    BY <1>1, <1>2, <1>4, <1>5 DEF Windowed, Widens, Unmoved, NoneNew
  <2>2. Windowed(e)'
    BY <1>1, <1>2, <1>5 DEF Windowed, Widens, Unmoved, NoneNew, Calms
  <2>3. QED
    BY <1>1, <2>1, <2>2
<1>10. ASSUME NEW x \in Peers, NEW p \in Sends(x)'
       PROVE  Flagged(x, p)' /\ Carries(x, p)' /\ Acknowledges(x, p)'
  <2>1. p \in Sends(x) /\ Flagged(x, p) /\ Carries(x, p) /\ Acknowledges(x, p)
    BY <1>10 DEF IInv, NoneNew
  <2>2. Unopened(x)' = Unopened(x) /\ wrote'[x] = wrote[x] /\ wrote'[Other(x)] = wrote[Other(x)]
    BY <1>1, <1>2 DEF Calms, Unmoved
  <2>3. Flagged(x, p)'
    BY <1>1, <1>2, <1>4, <2>1, <2>2 DEF Flagged, Unmoved
  <2>4. Carries(x, p)'
    BY <1>1, <1>2, <1>3, <1>4, <2>1, <2>2 DEF Carries, Unmoved, Calms
  <2>5. Acknowledges(x, p)'
    BY <1>1, <1>2, <1>3, <1>4, <2>1, <2>2 DEF Acknowledges, Unmoved, Calms
  <2>6. QED
    BY <2>3, <2>4, <2>5
<1>11. \A x \in Peers : \A p, q \in Sends(x)' : Paired(x, p, q)'
  BY DEF IInv, NoneNew, Paired, Newer
<1>12. Shaking'
  <2>1. Shaking /\ "client" \in Peers /\ "server" \in Peers
    BY DEF IInv, Peers
  <2>2. CASE e = "client" /\ o = "server"
    BY <1>2, <1>3, <1>4, <2>1, <2>2 DEF Shaking, Unanswered, Undialled, Unmoved, Calms, NoneNew
  <2>3. CASE e = "server" /\ o = "client"
    BY <1>2, <1>3, <1>4, <2>1, <2>3 DEF Shaking, Unanswered, Undialled, Unmoved, Calms, NoneNew
  <2>4. QED
    BY <2>2, <2>3 DEF Peers, Other
<1>13. QED
  BY <1>6, <1>7, <1>8, <1>9, <1>10, <1>11, <1>12 DEF IInv

\* The octets received are those of the stream.
LEMMA TakenIn ==
  ASSUME NEW e \in Peers, Shape(e)
  PROVE  Taken(e) \in Nat /\ Taken(e) = Len(Stream(e)) /\ Len(got[e]) \in Nat /\ Len(conn[e].rx) \in Nat
<1>1. got[e] \in Seq(Int) /\ conn[e].rx \in Seq(Int)
  BY DEF Shape, IsConn
<1>2. QED
  BY <1>1, JoinedIs DEF Taken, Stream

\* What has ended stays so.
Firm(x) ==
  /\ Stopped(x) => Stopped(x)'
  /\ Gone(x) => Gone(x)'
  /\ Ended(x) => Ended(x)'
  /\ Unfinished(x)' => Unfinished(x)
  /\ wrote'[x] = wrote[x] \/ ~Stopped(x)

\* An end that rests has ended as much as before.
LEMMA RestsFirm ==
  ASSUME NEW x \in Peers, Rests(x)
  PROVE  /\ Firm(x) /\ Unmoved(x) /\ wrote'[x] = wrote[x] /\ port'[x] = port[x]
         /\ conn'[x].closing = conn[x].closing /\ conn'[x].scb.snd.ISS = conn[x].scb.snd.ISS
         /\ Taken(x)' = Taken(x) /\ Took(x)' = Took(x) /\ Unfinished(x)' = Unfinished(x)
         /\ Gone(x)' = Gone(x) /\ Stopped(x)' = Stopped(x)
<1>1. /\ Unmoved(x) /\ wrote'[x] = wrote[x] /\ port'[x] = port[x] /\ conn'[x] = conn[x] /\ got'[x] = got[x]
  BY RestsUnmoved DEF Rests
<1>2. Taken(x)' = Taken(x)
  BY <1>1 DEF Taken
<1>3. /\ Took(x)' = Took(x) /\ Unfinished(x)' = Unfinished(x)
      /\ Gone(x)' = Gone(x) /\ Stopped(x)' = Stopped(x)
  BY <1>1, <1>2 DEF Took, Unfinished, Gone, Stopped, Unmoved
<1>4. Firm(x)
  BY <1>1, <1>3 DEF Firm, Unmoved
<1>5. QED
  BY <1>1, <1>2, <1>3, <1>4

\* An end that has everything still has it, if it has received no more.
LEMMA CompleteKept ==
  ASSUME NEW e \in Peers, Firm(Other(e)), Taken(e)' = Taken(e), Complete(e)
  PROVE  Complete(e)' /\ wrote'[Other(e)] = wrote[Other(e)]
  BY DEF Complete, Firm

\* A FIN stays where it is.
LEMMA FinishesKept ==
  ASSUME NEW e \in Peers, NEW p, Firm(e), Firm(Other(e)), Finishes(e, p)
  PROVE  Finishes(e, p)'
  BY DEF Finishes, Firm

\* So do the packets of an end among each other.
LEMMA OrderedKept ==
  ASSUME NEW e \in Peers, Ordered(e), Sends(e)' \subseteq Sends(e), Firm(Other(e)),
         Room(e)' = Room(e), wrote'[e] = wrote[e]
  PROVE  Ordered(e)'
<1>1. SUFFICES ASSUME Unfinished(Other(e))' PROVE Ordered(e)'
  BY DEF Ordered
<1>2. Unfinished(Other(e))
  BY <1>1 DEF Firm
<1>3. /\ \A p \in Sends(e) : Tells(p) => Reach(e, p) <= Room(e)
      /\ \A p, q \in Sends(e) : Tells(p) /\ Tells(q) /\ Follows(e, p, q)
           => Told(e, q) <= Told(e, p) /\ Reach(e, q) <= Reach(e, p)
      /\ \A p, q \in Sends(e) : /\ Ack(p) /\ K(e, p) = 2 + wrote[e]
                                /\ Ack(q) /\ K(e, q) = 2 + wrote[e]
           => A(e, q) = A(e, p) /\ Edge(e, q) = Edge(e, p)
  BY <1>2 DEF Ordered
<1>4. QED
  BY <1>3 DEF Ordered

\* The end that rests, in a step of the other.
LEMMA RestEnds ==
  ASSUME JInv, NEW e \in Peers, Rests(Other(e)), Firm(e), Sends(Other(e))' \subseteq Sends(Other(e))
  PROVE  Ends(Other(e))' /\ Ordered(Other(e))'
<1> DEFINE o == Other(e)
<1>1. o \in Peers /\ Other(o) = e
  BY Sides
<1>2. /\ Ends(o) /\ Ordered(o) /\ Closes(o) /\ Heard(o)
  BY <1>1 DEF JInv, Ends
<1>3. /\ Firm(o) /\ Unmoved(o) /\ wrote'[o] = wrote[o] /\ port'[o] = port[o]
      /\ conn'[o].closing = conn[o].closing /\ conn'[o].scb.snd.ISS = conn[o].scb.snd.ISS
      /\ Taken(o)' = Taken(o) /\ Took(o)' = Took(o) /\ Unfinished(o)' = Unfinished(o)
      /\ Gone(o)' = Gone(o)
  BY <1>1, RestsFirm
<1>4. Ordered(o)'
  BY <1>1, <1>2, <1>3, OrderedKept DEF Unmoved
<1>5. Closes(o)'
  BY <1>2, <1>3 DEF Closes, Unmoved
<1>6. Heard(o)'
  <2>1. Complete(o) => Complete(o)' /\ wrote'[e] = wrote[e]
    BY <1>1, <1>3, CompleteKept
  <2>2. QED
    BY <1>1, <1>2, <1>3, <2>1 DEF Heard, Unmoved, Firm
<1>7. \A p \in Sends(o)' : Finishes(o, p)'
  BY <1>1, <1>2, <1>3, FinishesKept DEF Ends
<1>8. QED
  BY <1>4, <1>5, <1>6, <1>7 DEF Ends

\* What e knows acknowledged, while the other side rests.
LEMMA BufferedKept ==
  ASSUME NEW e \in Peers, Buffered(e), Rests(Other(e)), Firm(e),
         Sends(Other(e))' \subseteq Sends(Other(e)),
         Sync(e)' => Sync(e) /\ U(e)' = U(e)
  PROVE  Buffered(e)'
<1> DEFINE o == Other(e)
<1>1. o \in Peers /\ Other(o) = e
  BY Sides
<1>2. Taken(o)' = Taken(o) /\ port'[o] = port[o]
  BY <1>1, RestsFirm
<1>3. Complete(o) => Complete(o)'
  BY <1>1, <1>2, CompleteKept
<1>4. \A n : Holds(e, n) => n <= 1 + Taken(o)' \/ Complete(o)'
  BY <1>2, <1>3 DEF Holds
<1>5. SUFFICES ASSUME port[o] PROVE Buffered(e)'
  BY <1>2 DEF Buffered
<1>6. Sync(e)' => Holds(e, U(e))'
  <2>1. Sync(e) => Holds(e, U(e))
    BY <1>5 DEF Buffered
  <2>2. QED
    BY <1>4, <2>1 DEF Holds
<1>7. ASSUME NEW p \in Sends(o)', Ack(p) PROVE (Holds(e, A(o, p)) \/ Gone(e))'
  <2>1. Holds(e, A(o, p)) \/ Gone(e)
    BY <1>5, <1>7 DEF Buffered
  <2>2. A(o, p)' = A(o, p)
    BY DEF A
  <2>3. QED
    BY <1>4, <2>1, <2>2 DEF Holds, Firm
<1>8. QED
  BY <1>6, <1>7 DEF Buffered

\* The window of an end that rests.
LEMMA RestLasting ==
  ASSUME NEW e \in Peers, Lasting(Other(e)), Rests(Other(e)), Sends(e)' \subseteq Sends(e),
         Room(e)' = Room(e), wrote'[e] = wrote[e]
  PROVE  Lasting(Other(e))'
<1> DEFINE o == Other(e)
<1>1. o \in Peers /\ Other(o) = e
  BY Sides
<1>2. Unmoved(o)
  BY RestsUnmoved
<1>3. St(o)' = "Established" => \A p \in Sends(e)' : Fin(p) =>
        K(e, p) < R(o)' \/ (Told(e, p) >= U(o)' /\ Reach(e, p) >= U(o)' + Wnd(o)')
  BY <1>1, <1>2 DEF Lasting, Unmoved
<1>4. St(o)' = "CloseWait" =>
        /\ U(o)' <= S(o)' /\ S(o)' <= U(o)' + Wnd(o)' /\ U(o)' + Wnd(o)' <= Room(e)'
        /\ \A p \in Sends(e)' : Ack(p) /\ K(e, p) = 2 + wrote'[e]
             => A(e, p) >= U(o)' /\ Edge(e, p) >= U(o)' + Wnd(o)'
  BY <1>1, <1>2 DEF Lasting, Unmoved
<1>5. QED
  BY <1>1, <1>3, <1>4 DEF Lasting

\* A step of one end that only closes or changes what it owes keeps both invariants.
LEMMA CalmKeeps ==
  ASSUME IInv, NEW e \in Peers, Calms(e), Rests(Other(e)), NoneNew, Domains'
  PROVE  Kept
<1> DEFINE o == Other(e)
<1> SUFFICES ASSUME JInv PROVE JInv'
  BY CalmStep DEF Kept
<1>1. /\ o \in Peers /\ Other(o) = e /\ o # e /\ \A x \in Peers : x = e \/ x = o
  BY Sides
<1>2. /\ Firm(o) /\ Unmoved(o) /\ wrote'[o] = wrote[o] /\ port'[o] = port[o]
      /\ Unfinished(o)' = Unfinished(o) /\ Gone(o)' = Gone(o) /\ Stopped(o)' = Stopped(o)
  BY <1>1, RestsFirm
<1>3. /\ (Sync(e)' => Sync(e)) /\ (Ended(e) => Ended(e)') /\ Room(e)' = Room(e)
      /\ Unopened(e)' = Unopened(e) /\ wrote'[e] = wrote[e] /\ got'[e] = got[e]
      /\ Sends(e)' \subseteq Sends(e) /\ Sends(o)' \subseteq Sends(o)
  BY <1>1, CalmEnd DEF Calms, NoneNew
<1>4. Firm(e)
  <2>1. Stopped(e) => Stopped(e)'
    BY <1>3 DEF Stopped, Calms
  <2>2. Gone(e) => Gone(e)'
    BY <1>3 DEF Gone, Calms
  <2>3. Unfinished(e)' => Unfinished(e)
    BY <1>3 DEF Unfinished, Calms
  <2>4. QED
    BY <1>3, <2>1, <2>2, <2>3 DEF Firm
<1>5. /\ Sync(e)' => /\ S(e)' = S(e) /\ U(e)' = U(e) /\ R(e)' = R(e) /\ Wnd(e)' = Wnd(e)
                     /\ conn'[e].scb.snd.ISS = conn[e].scb.snd.ISS /\ Taken(e)' = Taken(e)
                     /\ Took(e)' = Took(e) /\ Complete(e)' = Complete(e)
      /\ port'[e] => Unopened(e) \/ (port[e] /\ Taken(e)' = Taken(e))
  <2>1. Sync(e)' => /\ S(e)' = S(e) /\ U(e)' = U(e) /\ R(e)' = R(e) /\ Wnd(e)' = Wnd(e)
                    /\ conn'[e].scb.snd.ISS = conn[e].scb.snd.ISS /\ conn'[e].rx = conn[e].rx
    BY DEF Sync, Calms
  <2>2. conn'[e].rx = conn[e].rx => Taken(e)' = Taken(e)
    BY <1>3 DEF Taken
  <2>3. Sync(e)' => Took(e)' = Took(e)
    BY <1>3, <2>1, <2>2 DEF Took
  <2>4. Sync(e)' => Complete(e)' = Complete(e)
    BY <1>2, <2>1, <2>2 DEF Complete
  <2>5. QED
    BY <2>1, <2>2, <2>3, <2>4 DEF Calms
<1>6. Ends(o)' /\ Ordered(o)'
  BY <1>3, <1>4, RestEnds
<1>7. Ordered(e)'
  BY <1>2, <1>3, OrderedKept DEF JInv
<1>8. /\ Closes(e) /\ Heard(e) /\ Buffered(e) /\ Buffered(o) /\ Lasting(e) /\ Lasting(o)
      /\ \A p \in Sends(e) : Finishes(e, p)
  BY <1>1 DEF JInv, Ends
<1>9. Closes(e)'
  <2>1. St(e)' \in {"FinWait1", "FinWait2"} => St(e)' = St(e) /\ Sync(e)'
    BY DEF Calms, Sync
  <2>2. St(e)' = "FinWait2" => Owed(e)' = Owed(e)
    BY DEF Calms
  <2>3. conn'[e].closing => e \in Closers
    BY <1>8 DEF Calms, Closes
  <2>4. QED
    BY <1>3, <1>5, <1>8, <2>1, <2>2, <2>3 DEF Closes
<1>10. Heard(e)'
  <2>1. Took(e)' => Sync(e)'
    BY DEF Took
  <2>2. St(e)' \in {"CloseWait", "LastAck", "Closing", "TimeWait"}
          => /\ Sync(e)' /\ St(e) \in {"CloseWait", "LastAck", "Closing", "TimeWait"}
             /\ St(e)' = "LastAck" => St(e) = "LastAck" \/ Unfinished(e)
    BY DEF Calms, Sync, Unfinished
  <2>3. Unfinished(e)' => Unfinished(e)
    BY <1>4 DEF Firm
  <2>4. QED
    BY <1>2, <1>3, <1>5, <1>8, <2>1, <2>2, <2>3 DEF Heard
<1>11. \A p \in Sends(e)' : Finishes(e, p)'
  BY <1>2, <1>3, <1>4, <1>8, FinishesKept
<1>12. Buffered(e)'
  BY <1>3, <1>4, <1>5, <1>8, BufferedKept
<1>13. Buffered(o)'
  <2>1. SUFFICES ASSUME port'[e] PROVE Buffered(o)'
    BY <1>1 DEF Buffered
  <2>2. CASE Unopened(e)
    <3>1. ~Sync(o) /\ Sends(e) = {}
      BY <1>1, <2>2 DEF IInv, Received, Flagged
    <3>2. QED
      BY <1>1, <1>2, <1>3, <3>1 DEF Buffered, Unmoved
  <2>3. CASE port[e] /\ Taken(e)' = Taken(e)
    <3>1. Complete(e) => Complete(e)'
      BY <1>2, <2>3, CompleteKept
    <3>2. \A n : Holds(o, n) => n <= 1 + Taken(e)' \/ Complete(e)'
      BY <1>1, <2>3, <3>1 DEF Holds
    <3>3. Sync(o)' => Holds(o, U(o))'
      BY <1>1, <1>2, <1>8, <2>3, <3>2 DEF Buffered, Unmoved, Holds
    <3>4. ASSUME NEW p \in Sends(e)', Ack(p) PROVE (Holds(o, A(e, p)) \/ Gone(o))'
      <4>1. Holds(o, A(e, p)) \/ Gone(o)
        BY <1>1, <1>3, <1>8, <2>3, <3>4 DEF Buffered
      <4>2. A(e, p)' = A(e, p)
        BY DEF A
      <4>3. QED
        BY <1>1, <1>2, <3>2, <4>1, <4>2 DEF Holds
    <3>5. QED
      BY <1>1, <3>3, <3>4 DEF Buffered
  <2>4. QED
    BY <1>5, <2>1, <2>2, <2>3
<1>14. Lasting(o)'
  BY <1>3, <1>8, RestLasting
<1>15. Lasting(e)'
  <2>1. St(e)' \in {"Established", "CloseWait"} => St(e)' = St(e) /\ Sync(e)'
    BY DEF Calms, Sync
  <2>2. St(e)' = "Established" => \A p \in Sends(o)' : Fin(p) =>
          K(o, p) < R(e)' \/ (Told(o, p) >= U(e)' /\ Reach(o, p) >= U(e)' + Wnd(e)')
    BY <1>3, <1>5, <1>8, <2>1 DEF Lasting
  <2>3. St(e)' = "CloseWait" =>
          /\ U(e)' <= S(e)' /\ S(e)' <= U(e)' + Wnd(e)' /\ U(e)' + Wnd(e)' <= Room(o)'
          /\ \A p \in Sends(o)' : Ack(p) /\ K(o, p) = 2 + wrote'[o]
               => A(o, p) >= U(e)' /\ Edge(o, p) >= U(e)' + Wnd(e)'
    BY <1>2, <1>3, <1>5, <1>8, <2>1 DEF Lasting, Unmoved
  <2>4. QED
    BY <2>2, <2>3 DEF Lasting
<1>16. QED
  BY <1>1, <1>6, <1>7, <1>9, <1>10, <1>11, <1>12, <1>13, <1>14, <1>15 DEF JInv, Ends

\* No stream takes half a lap around the sequence space.
HalfLap == \A e \in Peers : 2 * (ByteLimit(e) + 2) < SeqMod

\* What taking the packet p does to the counts of e.
TakesIn(e, p) ==
  /\ Leads(conn[e].scb, p.seg, St(e)')
  /\ Syn(p) \/ K(Other(e), p) = R(e)
  /\ Due(e)' => Due(e) \/ St(e) \in {"Listen", "SynSent"}
  /\ St(e) = "Established" /\ Ack(p)
       => A(Other(e), p) <= S(e) /\ (U(e) < A(Other(e), p) \/ p.data # <<>> \/ Fin(p))
  /\ St(e)' # "Closed" =>
       /\ S(e)' = S(e) /\ R(e)' = End(Other(e), p) /\ Wnd(e)' = p.seg.WND
       /\ U(e)' = IF Ack(p) THEN A(Other(e), p) ELSE IF St(e) = "Listen" THEN 0 ELSE U(e)
       /\ conn'[e].scb.snd.ISS = conn[e].scb.snd.ISS
  /\ conn'[e].tx = conn[e].tx /\ conn'[e].rx = conn[e].rx \o p.data /\ (Late(e)' => Late(e))
  /\ conn'[e].closing = conn[e].closing

\* What a received packet does to an end, in counts.
LEMMA TakeViews ==
  ASSUME IInv, HalfLap, NEW e \in Peers, NEW p \in Sends(Other(e)),
         St(e) # "Closed", TakesPkt(conn[e], p, conn'[e])
  PROVE  TakesIn(e, p)
<1> DEFINE o == Other(e)
<1>1. o \in Peers /\ Other(o) = e
  BY Sides
<1>2. /\ Shape(e) /\ Shape(o) /\ Numbers(e) /\ Windowed(e)
      /\ Flagged(o, p) /\ Carries(o, p) /\ Acknowledges(o, p)
  BY <1>1 DEF IInv
<1>3. /\ IsPkt(p) /\ p.seg.SEQ \in Value /\ p.seg.ACK \in Value /\ p.seg.DATALEN = Len(p.data)
  BY <1>2, SeqAssumption DEF Flagged, IsPkt, IsSeg, Segment
<1>4. PICK u : /\ Takes(conn[e].scb, p.seg, u)
               /\ conn'[e].scb.state = u.state /\ conn'[e].scb.snd = u.snd
               /\ conn'[e].scb.rcv.NXT = u.rcv.NXT
               /\ FinDue(conn'[e].scb) => FinDue(u)
  BY DEF TakesPkt
<1>5. /\ S(e) \in Nat /\ U(e) \in Nat /\ R(e) \in Nat /\ S(e) < SeqMod /\ IsConn(conn[e])
      /\ conn[e].scb.snd.NXT \in Value /\ conn[e].scb.snd.UNA \in Value /\ conn[e].scb.rcv.NXT \in Value
  BY <1>2, CountsIn DEF Shape, IsConn, IsBlock
<1>6. /\ K(o, p) \in Nat /\ A(o, p) \in Nat /\ SegLen(p.seg) \in Nat /\ End(o, p) \in Nat
      /\ Len(p.data) \in Nat /\ (Len(p.data) > 0 => p.data # <<>>)
  <2>1. /\ K(o, p) \in Nat /\ A(o, p) \in Nat /\ SegLen(p.seg) \in Nat /\ End(o, p) \in Nat
        /\ Len(p.data) \in Nat
    BY <1>3, PacketCountsIn
  <2>2. Len(p.data) > 0 => p.data # <<>>
    OBVIOUS
  <2>3. QED
    BY <2>1, <2>2
<1>7. /\ wrote[e] \in Nat /\ wrote[o] \in Nat /\ SeqMod \in Nat
      /\ 2 * (wrote[e] + 2) < SeqMod /\ 2 * (wrote[o] + 2) < SeqMod
  <2>1. ByteLimit(e) \in Nat /\ ByteLimit(o) \in Nat /\ SeqMod \in Nat
    BY SeqAssumption, TCPLinkAssumption DEF ByteLimit
  <2>2. 2 * (ByteLimit(e) + 2) < SeqMod /\ 2 * (ByteLimit(o) + 2) < SeqMod
    BY <1>1 DEF HalfLap
  <2>3. /\ wrote[e] \in Nat /\ wrote[e] <= ByteLimit(e)
        /\ wrote[o] \in Nat /\ wrote[o] <= ByteLimit(o)
    BY <1>2 DEF Shape
  <2>4. QED
    BY <2>1, <2>2, <2>3
<1>8. Leads(conn[e].scb, p.seg, St(e)')
  BY <1>4 DEF Takes, St
<1>9. Syn(p) \/ K(o, p) = R(e)
  BY <1>4 DEF Takes, Syn, K, R
<1>10. Due(e)' => Due(e) \/ St(e) \in {"Listen", "SynSent"}
  BY <1>4 DEF Takes, Due, St
<1>11. St(e) = "Established" /\ Ack(p)
         => A(o, p) <= S(e) /\ (U(e) < A(o, p) \/ p.data # <<>> \/ Fin(p))
  <2>1. SUFFICES ASSUME St(e) = "Established", Ack(p)
                 PROVE  A(o, p) <= S(e) /\ (U(e) < A(o, p) \/ p.data # <<>> \/ Fin(p))
    OBVIOUS
  <2>2. /\ LessThanEq(p.seg.ACK, conn[e].scb.snd.NXT)
        /\ LessThan(conn[e].scb.snd.UNA, p.seg.ACK) \/ p.seg.DATALEN > 0 \/ Fin(p)
    BY <1>4, <2>1 DEF Takes, Ack, Fin, St
  <2>3. A(o, p) <= 2 + wrote[e] /\ S(e) <= 2 + wrote[e] /\ U(e) <= S(e)
    BY <1>1, <1>2, <2>1 DEF Acknowledges, Numbers, Sync, Windowed
  <2>4. 2 * A(o, p) < SeqMod /\ 2 * S(e) < SeqMod /\ 2 * U(e) < SeqMod
    <3>1. PICK a, t, v, w \in Nat : a = A(o, p) /\ t = S(e) /\ v = U(e) /\ w = wrote[e]
      BY <1>5, <1>6, <1>7
    <3>2. /\ a \in Nat /\ t \in Nat /\ v \in Nat /\ w \in Nat /\ SeqMod \in Nat
          /\ a <= 2 + w /\ t <= 2 + w /\ v <= t /\ 2 * (w + 2) < SeqMod
      BY <1>7, <2>3, <3>1
    <3>3. 2 * a < SeqMod /\ 2 * t < SeqMod /\ 2 * v < SeqMod
      BY ONLY <3>2
    <3>4. QED
      BY <3>1, <3>3
  <2>5. A(o, p) = Num(e, p.seg.ACK)
    BY <1>1 DEF A
  <2>6. /\ LessThanEq(p.seg.ACK, conn[e].scb.snd.NXT) <=> A(o, p) <= S(e)
        /\ LessThan(conn[e].scb.snd.UNA, p.seg.ACK) <=> U(e) < A(o, p)
    BY <1>3, <1>5, <2>4, <2>5, NumLess DEF S, U
  <2>7. QED
    BY <1>3, <1>6, <2>2, <2>6
<1>12. ASSUME St(e)' # "Closed"
       PROVE  /\ S(e)' = S(e) /\ R(e)' = End(o, p) /\ Wnd(e)' = p.seg.WND
              /\ conn'[e].scb.snd.ISS = conn[e].scb.snd.ISS
              /\ U(e)' = IF Ack(p) THEN A(o, p) ELSE IF St(e) = "Listen" THEN 0 ELSE U(e)
  <2>1. /\ conn'[e].scb.snd.NXT = IF St(e) = "Listen" THEN conn[e].scb.snd.ISS ELSE conn[e].scb.snd.NXT
        /\ conn'[e].scb.snd.UNA = IF Has(p.seg, "ACK") THEN p.seg.ACK
                       ELSE IF St(e) = "Listen" THEN conn[e].scb.snd.ISS ELSE conn[e].scb.snd.UNA
        /\ conn'[e].scb.snd.WND = p.seg.WND /\ conn'[e].scb.snd.ISS = conn[e].scb.snd.ISS
        /\ conn'[e].scb.rcv.NXT = Add(IF St(e) \in {"Listen", "SynSent"} THEN p.seg.SEQ ELSE conn[e].scb.rcv.NXT,
                           SegLen(p.seg))
    BY <1>4, <1>12 DEF Takes, St
  <2>2. St(e) = "Listen" => conn[e].scb.snd.ISS = Iss(e) /\ S(e) = 0
    BY <1>2 DEF Numbers
  <2>3. Num(e, Iss(e)) = 0
    BY NumIs, <1>3, SeqAssumption DEF Value
  <2>4. S(e)' = S(e) /\ Wnd(e)' = p.seg.WND
    BY <2>1, <2>2, <2>3 DEF S, Wnd
  <2>5. U(e)' = IF Ack(p) THEN A(o, p) ELSE IF St(e) = "Listen" THEN 0 ELSE U(e)
    BY <1>1, <2>1, <2>2, <2>3 DEF U, A, Ack
  <2>6. conn'[e].scb.rcv.NXT = Add(p.seg.SEQ, SegLen(p.seg))
    <3>1. St(e) \notin {"Listen", "SynSent"} => ~Syn(p)
      <4>1. Shaking
        BY DEF IInv
      <4>2. (e = "client" /\ o = "server") \/ (e = "server" /\ o = "client")
        BY DEF Peers, Other
      <4>3. CASE e = "client" /\ o = "server"
        <5>1. p \in Sends("server")
          BY <4>3
        <5>2. QED
          BY <4>1, <4>3, <5>1 DEF Shaking
      <4>4. CASE e = "server" /\ o = "client"
        <5>1. p \in Sends("client")
          BY <4>4
        <5>2. QED
          BY <4>1, <4>4, <5>1 DEF Shaking
      <4>5. QED
        BY <4>2, <4>3, <4>4
    <3>2. St(e) \notin {"Listen", "SynSent"} => p.seg.SEQ = conn[e].scb.rcv.NXT
      BY <1>4, <3>1 DEF Takes, Syn
    <3>3. QED
      BY <2>1, <3>2
  <2>7. R(e)' = End(o, p)
    <3>1. End(o, p) <= 2 + wrote[o] /\ End(o, p) = Num(o, p.seg.SEQ) + SegLen(p.seg)
      BY <1>2 DEF Carries, End, K
    <3>2. End(o, p) < SeqMod
      BY <1>6, <1>7, <3>1
    <3>3. Num(o, Add(p.seg.SEQ, SegLen(p.seg))) = End(o, p)
      BY <1>3, <1>6, <3>1, <3>2, NumAdd
    <3>4. QED
      BY <2>6, <3>3 DEF R
  <2>8. QED
    BY <2>1, <2>4, <2>5, <2>7
<1>13. /\ conn'[e].tx = conn[e].tx /\ conn'[e].rx = conn[e].rx \o p.data /\ (Late(e)' => Late(e))
       /\ conn'[e].closing = conn[e].closing
  BY DEF TakesPkt, Late
<1>14. QED
  BY <1>8, <1>9, <1>10, <1>11, <1>12, <1>13 DEF TakesIn


\* A SYN takes one number.
LEMMA SynEnds ==
  ASSUME NEW e \in Peers, NEW p, Flagged(e, p), Syn(p)
  PROVE  K(e, p) = 0 /\ p.data = <<>> /\ ~Fin(p) /\ End(e, p) = 1
<1>1. K(e, p) = 0 /\ p.data = <<>> /\ ~Fin(p) /\ IsPkt(p)
  BY DEF Flagged
<1>2. SegLen(p.seg) = 0 + 0 + 1
  BY <1>1 DEF IsPkt, Fin, Syn
<1>3. QED
  BY <1>1, <1>2 DEF End

\* A packet without a SYN ends past its data, by one if it has a FIN.
LEMMA PlainEnds ==
  ASSUME NEW e \in Peers, NEW p, IsPkt(p), ~Syn(p)
  PROVE  End(e, p) = K(e, p) + Len(p.data) + (IF Fin(p) THEN 1 ELSE 0)
<1>1. K(e, p) \in Nat /\ Len(p.data) \in Nat
  BY PacketCountsIn
<1>2. PICK f \in Nat : f = IF Fin(p) THEN 1 ELSE 0
  OBVIOUS
<1>3. SegLen(p.seg) = Len(p.data) + f + 0
  BY <1>2 DEF IsPkt, Fin, Syn
<1>4. \A k, n \in Nat : k + (n + f + 0) = k + n + f
  OBVIOUS
<1>5. End(e, p) = K(e, p) + (Len(p.data) + f + 0)
  BY <1>3 DEF End
<1>6. QED
  BY <1>1, <1>2, <1>4, <1>5

\* An end in the handshake takes a SYN and no other does.
LEMMA SynTaken ==
  ASSUME IInv, NEW e \in Peers, NEW p \in Sends(Other(e)), St(e) # "Closed", TakesIn(e, p)
  PROVE  /\ Syn(p) <=> St(e) \in {"Listen", "SynSent"}
         /\ ~Syn(p) => K(Other(e), p) = R(e) /\ Sync(e)
<1> DEFINE o == Other(e)
<1>1. Shaking /\ Shape(e)
  BY DEF IInv
<1>2. (e = "client" /\ o = "server") \/ (e = "server" /\ o = "client")
  BY DEF Peers, Other
<1>3. CASE e = "client" /\ o = "server"
  <2>1. p \in Sends("server")
    BY <1>3
  <2>2. St(e) # "Listen"
    BY <1>1, <1>3 DEF Shape
  <2>3. Syn(p) => St(e) = "SynSent"
    BY <1>1, <1>3, <2>1 DEF Shaking
  <2>4. St(e) = "SynSent" => Syn(p)
    BY DEF TakesIn, Leads, St, Syn, Ending
  <2>5. QED
    BY <2>2, <2>3, <2>4 DEF TakesIn, Sync
<1>4. CASE e = "server" /\ o = "client"
  <2>1. p \in Sends("client")
    BY <1>4
  <2>2. St(e) # "SynSent"
    BY <1>1, <1>4 DEF Shape
  <2>3. Syn(p) => St(e) = "Listen"
    BY <1>1, <1>4, <2>1 DEF Shaking
  <2>4. St(e) = "Listen" => Syn(p)
    BY <1>1, <1>4, <2>1 DEF Shaking, Unanswered
  <2>5. QED
    BY <2>2, <2>3, <2>4 DEF TakesIn, Sync
<1>5. QED
  BY <1>2, <1>3, <1>4


\* A step in which e takes the packet p.
Taking(e, p) ==
  /\ ~Unopened(e) /\ St(e) # "Closed" /\ TakesPkt(conn[e], p, conn'[e])
  /\ user'[e] = user[e] /\ wrote'[e] = wrote[e] /\ got'[e] = got[e] /\ port'[e] = port[e]
  /\ Rests(Other(e)) /\ NoneNew
  /\ Syn(p) => \A q \in Sends(Other(e))' : ~Syn(q)

\* What holds of the counts then, whatever the state.
TakenIs(e, p) ==
  LET o == Other(e)
  IN  /\ Unmoved(o) /\ wrote'[o] = wrote[o] /\ got'[o] = got[o] /\ conn'[o] = conn[o] /\ user'[o] = user[o]
      /\ wrote'[e] = wrote[e] /\ got'[e] = got[e] /\ user'[e] = user[e] /\ Room(e)' = Room(e)
      /\ ~Unopened(e) /\ ~Unopened(e)' /\ IsConn(conn'[e]) /\ TakesIn(e, p)
      /\ St(e) # "Closed" /\ St(e)' \notin {"Listen", "SynSent"}
      /\ St(e)' = "SynRcvd" <=> St(e) = "Listen"
      /\ St(e) \in {"SynSent", "SynRcvd"} => St(e)' = "Established"
      /\ St(e)' = "Established" => St(e) \in {"SynSent", "SynRcvd", "Established"}
      /\ St(e) = "Established" => St(e)' = IF Fin(p) THEN "CloseWait" ELSE "Established"
      /\ St(e)' \in {"CloseWait", "LastAck"} => St(e)' = St(e) \/ Fin(p)
      /\ Ended(e) => Ended(e)'
      /\ Syn(p) <=> St(e) \in {"Listen", "SynSent"}
      /\ Syn(p) => K(o, p) = 0 /\ p.data = <<>> /\ ~Fin(p) /\ End(o, p) = 1
      /\ ~Syn(p) => /\ K(o, p) = R(e) /\ Sync(e)
                    /\ End(o, p) = R(e) + Len(p.data) + (IF Fin(p) THEN 1 ELSE 0)
      /\ St(e)' \notin {"Closed", "SynRcvd"} => St(e) \in {"SynSent"} \/ Sync(e)

\* What the invariant adds to that: how the packet's counts lie to those of both ends.
LEMMA TakenFacts ==
  ASSUME IInv, HalfLap, NEW e \in Peers, NEW p \in Sends(Other(e)), Taking(e, p)
  PROVE  TakenIs(e, p)
<1> DEFINE o == Other(e)
<1>1. /\ o \in Peers /\ Other(o) = e
  BY Sides
<1>2. /\ Unmoved(o) /\ wrote'[o] = wrote[o] /\ got'[o] = got[o] /\ conn'[o] = conn[o] /\ user'[o] = user[o]
      /\ wrote'[e] = wrote[e] /\ got'[e] = got[e] /\ user'[e] = user[e] /\ Room(e)' = Room(e)
      /\ ~Unopened(e) /\ ~Unopened(e)' /\ IsConn(conn'[e]) /\ St(e) # "Closed"
  BY RestsUnmoved DEF Taking, Rests, Room, Unopened, TakesPkt
<1>3. TakesIn(e, p)
  BY TakeViews DEF Taking
<1>4. Flagged(o, p) /\ IsPkt(p)
  BY <1>1 DEF IInv, Flagged
<1>5. IsConn(conn[e]) /\ St(e) \in States
  BY CountsIn DEF IInv, Shape
<1>6. /\ Syn(p) <=> St(e) \in {"Listen", "SynSent"}
      /\ ~Syn(p) => K(o, p) = R(e) /\ Sync(e)
  BY <1>2, <1>3, SynTaken
<1>7. Syn(p) => K(o, p) = 0 /\ p.data = <<>> /\ ~Fin(p) /\ End(o, p) = 1
  BY <1>1, <1>4, SynEnds
<1>8. ~Syn(p) => End(o, p) = R(e) + Len(p.data) + (IF Fin(p) THEN 1 ELSE 0)
  BY <1>1, <1>4, <1>6, PlainEnds
<1>9. /\ St(e)' \notin {"Listen", "SynSent"}
      /\ St(e)' = "SynRcvd" <=> St(e) = "Listen"
      /\ St(e) \in {"SynSent", "SynRcvd"} => St(e)' = "Established"
      /\ St(e)' = "Established" => St(e) \in {"SynSent", "SynRcvd", "Established"}
      /\ St(e) = "Established" => St(e)' = IF Fin(p) THEN "CloseWait" ELSE "Established"
      /\ St(e)' \in {"CloseWait", "LastAck"} => St(e)' = St(e) \/ Fin(p)
      /\ St(e) \in Ending => St(e)' \in Ending \union {"Closed"}
      /\ St(e) \in Ending \union {"Listen", "SynSent", "SynRcvd", "Established"}
  <2>1. Leads(conn[e].scb, p.seg, St(e)') /\ St(e) = conn[e].scb.state
    BY <1>3 DEF TakesIn, St
  <2>2. QED
    BY <2>1 DEF Leads, Ending, Fin
<1>10. Ended(e) => Ended(e)'
  BY <1>2, <1>5, <1>9 DEF Ended, Opening, Ending
<1>11. St(e)' \notin {"Closed", "SynRcvd"} => St(e) \in {"SynSent"} \/ Sync(e)
  BY <1>2, <1>9 DEF Sync
<1>12. QED
  BY <1>2, <1>3, <1>6, <1>7, <1>8, <1>9, <1>10, <1>11 DEF TakenIs


\* The two ends of a step, and what the invariant says of each.
LEMMA TakeOwn ==
  ASSUME IInv, NEW e \in Peers, NEW p \in Sends(Other(e)), TakenIs(e, p)
  PROVE  Shape(e)' /\ Numbers(e)'
<1> DEFINE o == Other(e)
<1>1. /\ o \in Peers /\ Other(o) = e
  BY Sides
<1>2. Shape(e) /\ Numbers(e) /\ Flagged(o, p) /\ Acknowledges(o, p)
  BY <1>1 DEF IInv
<1>3. Shape(e)'
  BY <1>2 DEF Shape, TakenIs, TakesIn
<1>4. /\ S(e) \in Nat /\ U(e) \in Nat /\ Len(conn[e].tx) \in Nat /\ wrote[e] \in Nat
      /\ A(o, p) \in Nat /\ conn[e].rx \in Seq(Int)
  BY <1>2, CountsIn, PacketCountsIn DEF Shape, Flagged, IsConn
<1>5. /\ conn'[e].tx = conn[e].tx /\ conn'[e].rx = conn[e].rx \o p.data
      /\ St(e)' # "Closed" =>
           /\ S(e)' = S(e)
           /\ U(e)' = IF Ack(p) THEN A(o, p) ELSE IF St(e) = "Listen" THEN 0 ELSE U(e)
      /\ Due(e)' => Due(e) \/ St(e) \in {"Listen", "SynSent"}
  BY DEF TakenIs, TakesIn
<1>6. St(e) = "Listen" => ~Ack(p) /\ p.data = <<>>
  <2>1. St(e) = "Listen" => e = "server" /\ o = "client"
    BY <1>2 DEF Shape, Other
  <2>2. QED
    BY <1>2, <2>1 DEF Flagged, TakenIs
<1>7. St(e)' = "SynRcvd" => /\ U(e)' = 0 /\ S(e)' = 0 /\ Len(conn'[e].tx) = wrote[e]
                            /\ conn'[e].rx = <<>> /\ got[e] = <<>>
  <2>1. SUFFICES ASSUME St(e)' = "SynRcvd"
                 PROVE  /\ U(e)' = 0 /\ S(e)' = 0 /\ Len(conn'[e].tx) = wrote[e]
                        /\ conn'[e].rx = <<>> /\ got[e] = <<>>
    OBVIOUS
  <2>2. St(e) = "Listen"
    BY <2>1 DEF TakenIs
  <2>3. /\ S(e) = 0 /\ Len(conn[e].tx) = wrote[e] /\ conn[e].rx = <<>> /\ got[e] = <<>>
    BY <1>2, <2>2 DEF Numbers, Opening
  <2>4. <<>> \o <<>> = <<>>
    OBVIOUS
  <2>5. QED
    BY <1>5, <1>6, <2>1, <2>2, <2>3, <2>4
<1>8. St(e)' = "Established" => S(e) = 1 + wrote[e] - Len(conn[e].tx)
  <2>1. CASE St(e) = "SynSent"
    BY <1>2, <1>4, <2>1 DEF Numbers, Opening
  <2>2. CASE St(e) = "SynRcvd"
    <3>1. Ack(p)
      <4>1. e = "server" /\ o = "client" /\ ~Ended(e) /\ ~Syn(p)
        BY <1>2, <2>2 DEF Shape, Other, Ended, Opening, TakenIs
      <4>2. QED
        BY <1>1, <1>2, <4>1 DEF Flagged
    <3>2. A(o, p) >= 1 /\ A(o, p) <= S(e)
      BY <1>1, <1>2, <2>2, <3>1 DEF Acknowledges, Sync
    <3>3. S(e) \in {0, 1} /\ Len(conn[e].tx) = wrote[e]
      BY <1>2, <2>2 DEF Numbers, Opening
    <3>4. S(e) = 1
      BY <1>4, <3>2, <3>3
    <3>5. QED
      BY <1>4, <3>3, <3>4
  <2>3. CASE St(e) = "Established"
    BY <1>2, <2>3 DEF Numbers
  <2>4. QED
    BY <2>1, <2>2, <2>3 DEF TakenIs
<1>9. St(e)' \in {"SynRcvd", "Established"} =>
        \A i \in 1 .. Len(conn[e].tx) : conn[e].tx[i] = wrote[e] - Len(conn[e].tx) + i
  BY <1>2 DEF Numbers, TakenIs, Opening
<1>10. /\ Sync(e)' => S(e)' <= 2 + wrote[e]
       /\ Due(e)' => S(e)' <= 1 + wrote[e]
  <2>1. Due(e)' => Sync(e)'
    BY DEF Due, FinDue, Sync, St
  <2>2. St(e) \in {"Listen", "SynSent"} => S(e) <= 1
    BY <1>2, <1>4 DEF Numbers
  <2>3. St(e) \notin {"Listen", "SynSent"} => S(e) <= 2 + wrote[e] /\ (Due(e) => S(e) <= 1 + wrote[e])
    BY <1>2 DEF Numbers, Sync, TakenIs
  <2>4. Sync(e)' => S(e)' = S(e)
    BY <1>5 DEF Sync
  <2>5. CASE St(e) \in {"Listen", "SynSent"}
    BY <1>4, <2>1, <2>2, <2>4, <2>5
  <2>6. CASE St(e) \notin {"Listen", "SynSent"}
    BY <1>5, <2>1, <2>3, <2>4, <2>6
  <2>7. QED
    BY <2>5, <2>6
<1>11. /\ St(e)' \notin {"Listen", "SynSent"} /\ wrote'[e] = wrote[e] /\ got'[e] = got[e]
  BY DEF TakenIs
<1>12. Numbers(e)'
  BY <1>5, <1>7, <1>8, <1>9, <1>10, <1>11 DEF Numbers, Opening
<1>13. QED
  BY <1>3, <1>12


\* Taking a packet keeps what both ends have received.
LEMMA TakeReceived ==
  ASSUME IInv, NoneNew, NEW e \in Peers, NEW p \in Sends(Other(e)), TakenIs(e, p)
  PROVE  Received(e)' /\ Received(Other(e))'
<1> DEFINE o == Other(e)
<1>1. /\ o \in Peers /\ Other(o) = e
  BY Sides
<1>2. /\ Shape(e) /\ Shape(o) /\ Numbers(e) /\ Numbers(o) /\ Received(e) /\ Received(o) /\ Shaking
      /\ Flagged(o, p) /\ Carries(o, p) /\ Acknowledges(o, p)
  BY <1>1 DEF IInv
<1>3. /\ S(e) \in Nat /\ U(e) \in Nat /\ R(e) \in Nat /\ R(o) \in Nat /\ S(o) \in Nat /\ U(o) \in Nat
      /\ A(o, p) \in Nat /\ End(o, p) \in Nat /\ K(o, p) \in Nat /\ Len(p.data) \in Nat
      /\ Len(conn[e].rx) \in Nat /\ Len(got[e]) \in Nat /\ wrote[o] \in Nat
  <2>1. IsConn(conn[e]) /\ IsConn(conn[o]) /\ got[e] \in Seq(Int) /\ wrote[o] \in Nat /\ IsPkt(p)
    BY <1>2 DEF Shape, Flagged
  <2>2. /\ S(e) \in Nat /\ U(e) \in Nat /\ R(e) \in Nat /\ Len(conn[e].rx) \in Nat
        /\ R(o) \in Nat /\ S(o) \in Nat /\ U(o) \in Nat
    BY <1>1, <2>1, CountsIn
  <2>3. A(o, p) \in Nat /\ End(o, p) \in Nat /\ K(o, p) \in Nat /\ Len(p.data) \in Nat
    BY <2>1, PacketCountsIn
  <2>4. QED
    BY <2>1, <2>2, <2>3
<1>4. /\ conn'[e].rx = conn[e].rx \o p.data
      /\ Len(conn'[e].rx) = Len(conn[e].rx) + Len(p.data)
  <2>1. conn[e].rx \in Seq(Int) /\ p.data \in Seq(Int)
    BY <1>2 DEF Shape, IsConn, Flagged, IsPkt
  <2>2. conn'[e].rx = conn[e].rx \o p.data
    BY DEF TakenIs, TakesIn
  <2>3. QED
    BY <2>1, <2>2, JoinedIs
<1>5. St(e)' # "Closed" =>
        /\ S(e)' = S(e) /\ R(e)' = End(o, p)
        /\ U(e)' = IF Ack(p) THEN A(o, p) ELSE IF St(e) = "Listen" THEN 0 ELSE U(e)
  BY DEF TakenIs, TakesIn
<1>6. /\ Unmoved(o) /\ wrote'[o] = wrote[o] /\ got'[o] = got[o] /\ conn'[o] = conn[o]
      /\ wrote'[e] = wrote[e] /\ got'[e] = got[e] /\ ~Unopened(e)'
      /\ (Ended(e) => Ended(e)') /\ St(e) # "Closed"
      /\ Syn(p) <=> St(e) \in {"Listen", "SynSent"}
      /\ Syn(p) => p.data = <<>> /\ ~Fin(p) /\ End(o, p) = 1
      /\ ~Syn(p) => K(o, p) = R(e) /\ Sync(e)
  BY DEF TakenIs
<1>7. PICK f \in Nat : f = IF Fin(p) THEN 1 ELSE 0
  OBVIOUS
<1>8. ~Syn(p) => End(o, p) = R(e) + Len(p.data) + f
  BY <1>7 DEF TakenIs
<1>9. ~Syn(p) => R(e) <= End(o, p)
  BY <1>3, <1>8
\* The client, when the server has not answered, and the server, when the client
\* has not been answered, have nothing acknowledged.
<1>10. /\ St(e) = "Listen" => ~Sync(o)
       /\ St(e) = "SynSent" => (Sync(o) => U(o) = 0)
       /\ St(o) = "SynSent" => S(o) = 1 /\ Syn(p)
  <2>1. (e = "client" /\ o = "server") \/ (e = "server" /\ o = "client")
    BY DEF Peers, Other
  <2>2. Unopened(o) => St(o) = "Closed"
    BY <1>2 DEF Shape, FreshConn, St, ZeroTCB
  <2>3. St(e) = "Listen" => ~Sync(o)
    BY <1>2, <2>1, <2>2 DEF Shape, Shaking, Unanswered, Sync
  <2>4. St(e) = "SynSent" => (Sync(o) => U(o) = 0)
    BY <1>2, <2>1 DEF Shape, Shaking
  <2>5. St(o) = "SynSent" => S(o) = 1 /\ Syn(p)
    BY <1>2, <2>1 DEF Shape, Shaking, Numbers
  <2>6. QED
    BY <2>3, <2>4, <2>5
<1>11. ASSUME Sync(e)'
       PROVE  /\ R(e)' >= 1 /\ R(e)' <= 2 + wrote'[o] /\ ~Unopened(o)'
              /\ (Sync(o)' \/ St(o)' = "SynSent" => R(e)' <= S(o)')
              /\ (Sync(o)' => U(o)' <= R(e)')
  <2>1. R(e)' = End(o, p)
    BY <1>5, <1>11 DEF Sync
  <2>2. End(o, p) >= 1
    <3>1. Sync(e) => R(e) >= 1
      BY <1>2 DEF Received
    <3>2. QED
      BY <1>3, <1>6, <1>9, <3>1
  <2>3. End(o, p) <= 2 + wrote[o] /\ (Sync(o) => End(o, p) <= S(o)) /\ ~Unopened(o)
    BY <1>2 DEF Carries, Flagged
  <2>4. St(o) = "SynSent" => End(o, p) <= S(o)
    BY <1>3, <1>6, <1>10
  <2>5. Sync(o) => U(o) <= End(o, p)
    <3>1. Sync(e) /\ Sync(o) => U(o) <= R(e)
      BY <1>1, <1>2 DEF Received
    <3>2. ~Syn(p) /\ Sync(o) => U(o) <= End(o, p)
      BY <1>3, <1>6, <1>9, <3>1
    <3>3. Syn(p) /\ Sync(o) => U(o) = 0
      BY <1>6, <1>10
    <3>4. QED
      BY <1>3, <3>2, <3>3
  <2>6. QED
    BY <1>6, <2>1, <2>2, <2>3, <2>4, <2>5 DEF Unmoved
<1>12. ASSUME Sync(e)', R(e)' # 1 + Len(got'[e]) + Len(conn'[e].rx)
       PROVE  Ended(o)' /\ \A q \in Sends(o)' : q.data # <<>> => K(o, q) < R(e)'
  <2>1. R(e)' = End(o, p)
    BY <1>5, <1>12 DEF Sync
  <2>2. ~Syn(p)
    <3>1. St(e) \in {"Listen", "SynSent"} => conn[e].rx = <<>> /\ got[e] = <<>>
      BY <1>2 DEF Numbers, Opening
    <3>2. Syn(p) => Len(conn'[e].rx) = 0 + 0 /\ Len(got'[e]) = 0 /\ R(e)' = 1
      <4>1. Len(<<>>) = 0
        OBVIOUS
      <4>2. Syn(p) => Len(conn[e].rx) = 0 /\ Len(p.data) = 0 /\ Len(got'[e]) = 0
        BY <1>6, <3>1, <4>1
      <4>3. QED
        BY <1>4, <1>6, <2>1, <4>2
    <3>3. 1 = 1 + 0 + (0 + 0)
      OBVIOUS
    <3>4. Syn(p) => R(e)' = 1 + Len(got'[e]) + Len(conn'[e].rx)
      BY <3>2, <3>3
    <3>5. QED
      BY <1>12, <3>4
  <2>3. CASE R(e) # 1 + Len(got[e]) + Len(conn[e].rx)
    <3>1. Ended(o) /\ \A q \in Sends(o) : q.data # <<>> => K(o, q) < R(e)
      BY <1>2, <1>6, <2>2, <2>3 DEF Received
    <3>2. \A q \in Sends(o) : K(o, q) \in Nat
      BY <1>1, PacketCountsIn DEF IInv, Flagged
    <3>3. R(e) <= End(o, p) /\ \A k \in Nat : k < R(e) => k < End(o, p)
      BY <1>3, <1>9, <2>2
    <3>5. \A q \in Sends(o) : q.data # <<>> => K(o, q) < End(o, p)
      BY <3>1, <3>2, <3>3
    <3>6. QED
      BY <1>1, <1>6, <2>1, <3>1, <3>5 DEF Unmoved, NoneNew
  <2>4. CASE R(e) = 1 + Len(got[e]) + Len(conn[e].rx)
    <3>1. f # 0
      <4>1. End(o, p) # 1 + Len(got[e]) + (Len(conn[e].rx) + Len(p.data))
        BY <1>4, <1>6, <1>12, <2>1
      <4>2. End(o, p) = 1 + Len(got[e]) + Len(conn[e].rx) + Len(p.data) + f
        BY <1>8, <2>2, <2>4
      <4>3. PICK g, x, n \in Nat : g = Len(got[e]) /\ x = Len(conn[e].rx) /\ n = Len(p.data)
        BY <1>3
      <4>4. 1 + g + x + n + f # 1 + g + (x + n)
        BY <4>1, <4>2, <4>3
      <4>5. QED
        BY <1>7, <4>4
    <3>2. Fin(p)
      BY <1>7, <3>1
    <3>3. Ended(o)
      BY <1>2, <3>2 DEF Flagged
    <3>4. \A q \in Sends(o) : q.data # <<>> => K(o, q) < End(o, p)
      BY <1>1, <3>2 DEF IInv, Paired
    <3>5. QED
      BY <1>1, <1>6, <2>1, <3>3, <3>4 DEF Unmoved, NoneNew
  <2>5. QED
    BY <2>3, <2>4
<1>13. St(e)' \in {"CloseWait", "LastAck"} => Ended(o)'
  <2>1. Fin(p) => Ended(o)
    BY <1>2 DEF Flagged
  <2>2. St(e) \in {"CloseWait", "LastAck"} => Ended(o)
    BY <1>2 DEF Received
  <2>3. QED
    BY <1>6, <2>1, <2>2 DEF TakenIs, Unmoved
<1>14. Received(e)'
  BY <1>11, <1>12, <1>13 DEF Received
<1>15. /\ Sync(o) /\ Sync(e)' => U(e)' <= R(o)
       /\ Sync(o) /\ (Sync(e)' \/ St(e)' = "SynSent") => R(o) <= S(e)'
  <2>1. SUFFICES ASSUME Sync(o), Sync(e)' PROVE U(e)' <= R(o) /\ R(o) <= S(e)'
    BY DEF TakenIs
  <2>2. /\ S(e)' = S(e) /\ St(e) # "Listen"
        /\ U(e)' = IF Ack(p) THEN A(o, p) ELSE U(e)
    BY <1>5, <1>10, <2>1 DEF Sync
  <2>3. Ack(p) => A(o, p) <= R(o)
    BY <1>2, <2>1 DEF Acknowledges
  <2>4. ~Ack(p) => Sync(e)
    <3>1. St(e) = "SynSent" => Ack(p)
      BY DEF TakenIs, TakesIn, Leads, Ending, St, Ack
    <3>2. QED
      BY <1>6, <2>2, <3>1
  <2>5. Sync(e) => U(e) <= R(o)
    BY <1>1, <1>2, <2>1 DEF Received
  <2>6. R(o) <= S(e)
    <3>1. Sync(e) \/ St(e) = "SynSent"
      BY <1>6, <2>2
    <3>2. QED
      BY <1>1, <1>2, <2>1, <3>1 DEF Received
  <2>7. QED
    BY <2>2, <2>3, <2>4, <2>5, <2>6
<1>16. Received(o)'
  BY <1>1, <1>2, <1>6, <1>15 DEF Received, Unmoved, NoneNew
<1>17. QED
  BY <1>14, <1>16


\* Taking a packet appends to the stream the octets that come next in it.
LEMMA TakePrefix ==
  ASSUME IInv, NEW e \in Peers, NEW p \in Sends(Other(e)), TakenIs(e, p)
  PROVE  Prefix(e)' /\ Prefix(Other(e))'
<1> DEFINE o == Other(e)
<1>1. /\ o \in Peers /\ Other(o) = e
  BY Sides
<1>2. /\ Shape(e) /\ Shape(o) /\ Received(e) /\ Prefix(e) /\ Prefix(o) /\ Flagged(o, p) /\ Carries(o, p)
  BY <1>1 DEF IInv
<1>3. /\ Unmoved(o) /\ wrote'[o] = wrote[o] /\ wrote'[e] = wrote[e] /\ got'[e] = got[e]
  BY DEF TakenIs
<1>4. Prefix(o)'
  BY <1>1, <1>2, <1>3 DEF Prefix, Unmoved
<1>5. /\ got[e] \in Seq(Int) /\ conn[e].rx \in Seq(Int) /\ p.data \in Seq(Int)
      /\ wrote[o] \in Nat /\ IsPkt(p)
  BY <1>2 DEF Shape, IsConn, Flagged, IsPkt
<1>6. Stream(e)' = Stream(e) \o p.data /\ Stream(e) \in Seq(Int)
  <2>1. Stream(e)' = got[e] \o (conn[e].rx \o p.data)
    BY <1>3 DEF TakenIs, TakesIn, Stream
  <2>2. got[e] \o (conn[e].rx \o p.data) = (got[e] \o conn[e].rx) \o p.data
    BY <1>5, JoinedThrice
  <2>3. QED
    BY <1>5, <2>1, <2>2, JoinedIs DEF Stream
<1>7. CASE p.data = <<>>
  <2>1. Stream(e)' = Stream(e)
    BY <1>6, <1>7, JoinedIs
  <2>2. QED
    BY <1>2, <1>3, <1>4, <2>1 DEF Prefix
<1>8. CASE p.data # <<>>
  <2>1. /\ K(o, p) = R(e) /\ Sync(e)
    BY <1>8 DEF TakenIs
  <2>2. /\ K(o, p) \in Nat /\ Len(p.data) \in Nat
        /\ Len(got[e]) \in Nat /\ Len(conn[e].rx) \in Nat
    BY <1>5, PacketCountsIn
  <2>3. R(e) = 1 + Len(got[e]) + Len(conn[e].rx)
    <3>1. ~(K(o, p) < R(e))
      BY <2>1, <2>2
    <3>2. QED
      BY <1>2, <1>8, <2>1, <3>1 DEF Received
  <2>4. Len(Stream(e)) = Len(got[e]) + Len(conn[e].rx)
    BY <1>5, JoinedIs DEF Stream
  <2>5. K(o, p) - 1 = Len(Stream(e)) /\ Len(Stream(e)) \in Nat
    <3>1. PICK g, x \in Nat : g = Len(got[e]) /\ x = Len(conn[e].rx)
      BY <2>2
    <3>2. K(o, p) = 1 + g + x /\ Len(Stream(e)) = g + x
      BY <2>1, <2>3, <2>4, <3>1
    <3>3. K(o, p) = 1 + g + x
      BY <3>2
    <3>4. K(o, p) - 1 = g + x /\ g + x \in Nat
      BY <3>3
    <3>5. QED
      BY <3>2, <3>4
  <2>6. /\ Len(Stream(e)') = Len(Stream(e)) + Len(p.data)
        /\ \A i \in 1 .. Len(Stream(e)) : Stream(e)'[i] = Stream(e)[i]
        /\ \A i \in 1 .. Len(Stream(e)') : i > Len(Stream(e))
             => i - Len(Stream(e)) \in 1 .. Len(p.data) /\ Stream(e)'[i] = p.data[i - Len(Stream(e))]
    BY <1>5, <1>6, JoinedIs
  <2>7. /\ K(o, p) + Len(p.data) <= 1 + wrote[o]
        /\ \A j \in 1 .. Len(p.data) : p.data[j] = K(o, p) - 1 + j
    BY <1>2, <1>8 DEF Carries
  <2>8. Len(Stream(e)') <= wrote[o]
    BY <1>5, <2>2, <2>5, <2>6, <2>7
  <2>9. ASSUME NEW i \in 1 .. Len(Stream(e)')
        PROVE  Stream(e)'[i] = i
    <3>1. i \in Int /\ Len(Stream(e)') \in Nat
      BY <2>2, <2>5, <2>6, <2>9
    <3>2. CASE i <= Len(Stream(e))
      <4>1. i \in 1 .. Len(Stream(e))
        BY <2>5, <2>9, <3>1, <3>2
      <4>2. QED
        BY <1>2, <2>6, <4>1 DEF Prefix
    <3>3. CASE i > Len(Stream(e))
      <4>1. i - Len(Stream(e)) \in 1 .. Len(p.data) /\ Stream(e)'[i] = p.data[i - Len(Stream(e))]
        BY <2>6, <2>9, <3>3
      <4>2. p.data[i - Len(Stream(e))] = Len(Stream(e)) + (i - Len(Stream(e)))
        BY <2>5, <2>7, <4>1
      <4>3. QED
        BY <2>5, <3>1, <4>1, <4>2
    <3>4. QED
      BY <2>5, <3>1, <3>2, <3>3
  <2>10. QED
    BY <1>3, <1>4, <2>8, <2>9 DEF Prefix
<1>9. QED
  BY <1>7, <1>8

\* Taking a packet leaves both ends within the windows offered to them.
LEMMA TakeWindowed ==
  ASSUME IInv, NoneNew, NEW e \in Peers, NEW p \in Sends(Other(e)), TakenIs(e, p)
  PROVE  Windowed(e)' /\ Windowed(Other(e))'
<1> DEFINE o == Other(e)
<1>1. /\ o \in Peers /\ Other(o) = e
  BY Sides
<1>2. /\ Shape(e) /\ Shape(o) /\ Numbers(e) /\ Windowed(e) /\ Windowed(o)
      /\ Flagged(o, p) /\ Carries(o, p) /\ Acknowledges(o, p)
  BY <1>1 DEF IInv
<1>3. /\ Unmoved(o) /\ Room(e)' = Room(e)
  BY DEF TakenIs
<1>4. Windowed(o)'
  BY <1>1, <1>2, <1>3 DEF Windowed, Widens, Unmoved, NoneNew
<1>5. SUFFICES ASSUME St(e)' = "Established"
               PROVE  /\ U(e)' >= 1 /\ U(e)' <= S(e)'
                      /\ S(e)' <= U(e)' + Wnd(e)' /\ U(e)' + Wnd(e)' <= Room(o)'
                      /\ \A q \in Sends(o)' : Widens(e, q)'
  BY <1>4 DEF Windowed
<1>6. /\ St(e) \in {"SynSent", "SynRcvd", "Established"} /\ ~Ended(e) /\ (St(e) = "Established" => ~Fin(p))
  BY <1>5 DEF TakenIs, Ended, Opening
\* A packet without an ACK is the client's SYN or has a FIN.
<1>7. Ack(p)
  <2>1. St(e) = "SynSent" => Ack(p)
    BY DEF TakenIs, TakesIn, Leads, Ending, St, Ack
  <2>2. CASE St(e) = "SynRcvd"
    <3>1. o = "client" /\ ~Syn(p)
      BY <1>2, <2>2 DEF Shape, Other, TakenIs
    <3>2. QED
      BY <1>1, <1>2, <1>6, <3>1 DEF Flagged
  <2>3. CASE St(e) = "Established"
    <3>1. ~Syn(p) /\ ~Fin(p)
      BY <1>6, <2>3 DEF TakenIs
    <3>2. QED
      BY <1>2, <3>1 DEF Flagged
  <2>4. QED
    BY <1>6, <2>1, <2>2, <2>3
<1>8. /\ S(e) \in Nat /\ U(e) \in Nat /\ R(e) \in Nat /\ Wnd(e) \in Nat /\ IsPkt(p)
      /\ A(o, p) \in Nat /\ Edge(o, p) \in Nat /\ p.seg.WND \in Nat /\ End(o, p) \in Nat
  <2>1. IsPkt(p) /\ p.seg.WND \in Nat
    BY <1>2, SeqAssumption DEF Flagged, IsPkt, IsSeg, Segment, Value
  <2>2. QED
    BY <1>2, <2>1, CountsIn, PacketCountsIn DEF Shape
<1>9. /\ S(e)' = S(e) /\ U(e)' = A(o, p) /\ Wnd(e)' = p.seg.WND /\ R(e)' = End(o, p)
      /\ Edge(o, p) = U(e)' + Wnd(e)' /\ Room(o)' = Room(o)
  BY <1>3, <1>5, <1>7 DEF TakenIs, TakesIn, Edge, Unmoved
<1>10. A(o, p) >= 1 /\ A(o, p) <= S(e)
  BY <1>1, <1>2, <1>6, <1>7 DEF Acknowledges, Sync
<1>11. Edge(o, p) <= Room(o)
  BY <1>1, <1>2, <1>6, <1>7 DEF Acknowledges
<1>12. S(e) <= Edge(o, p)
  <2>1. CASE St(e) \in {"SynSent", "SynRcvd"}
    <3>1. S(e) <= 1
      BY <1>2, <1>8, <2>1 DEF Numbers
    <3>2. QED
      BY <1>8, <1>10, <3>1 DEF Edge
  <2>2. CASE St(e) = "Established"
    <3>1. Widens(e, p) /\ S(e) <= U(e) + Wnd(e)
      BY <1>2, <2>2 DEF Windowed
    <3>2. K(o, p) = R(e) /\ (U(e) < A(o, p) \/ p.data # <<>>)
      BY <1>6, <1>7, <2>2 DEF TakenIs, TakesIn
    <3>3. Edge(o, p) >= U(e) + Wnd(e)
      <4>1. ~(K(o, p) < R(e)) /\ (U(e) < A(o, p) => ~(A(o, p) <= U(e)))
        BY <1>8, <3>2
      <4>2. QED
        BY <1>7, <3>1, <3>2, <4>1 DEF Widens
    <3>4. QED
      BY <1>8, <3>1, <3>3
  <2>3. QED
    BY <1>6, <2>1, <2>2
<1>13. ASSUME NEW q \in Sends(o)' PROVE Widens(e, q)'
  <2>1. /\ q \in Sends(o) /\ Flagged(o, q) /\ Acknowledges(o, q) /\ Paired(o, p, q) /\ Paired(o, q, p)
    BY <1>1, <1>13 DEF IInv, NoneNew
  <2>2. K(o, q) \in Nat /\ A(o, q) \in Nat /\ Edge(o, q) \in Nat
    BY <2>1, PacketCountsIn DEF Flagged
  <2>3. SUFFICES ASSUME Ack(q)
                 PROVE  IF q.data # <<>>
                        THEN \/ K(o, q) < End(o, p)
                             \/ A(o, q) >= A(o, p) /\ Edge(o, q) >= Edge(o, p)
                        ELSE A(o, q) <= A(o, p) \/ Edge(o, q) >= Edge(o, p)
    BY <1>9 DEF Widens
  <2>4. CASE q.data # <<>>
    <3>1. ~(K(o, q) < End(o, p)) => End(o, p) <= K(o, q)
      BY <1>8, <2>2
    <3>2. End(o, p) <= K(o, q) => Newer(o, q, p)
      BY <1>7, <2>1, <2>3, <2>4 DEF Paired
    <3>3. QED
      BY <1>8, <2>2, <2>4, <3>1, <3>2 DEF Newer
  <2>5. CASE q.data = <<>>
    <3>1. Newer(o, p, q) \/ Newer(o, q, p)
      BY <1>7, <2>1, <2>3 DEF Paired
    <3>2. QED
      BY <1>8, <2>2, <2>5, <3>1 DEF Newer
  <2>6. QED
    BY <2>4, <2>5
<1>14. QED
  BY <1>9, <1>10, <1>11, <1>12, <1>13


\* Taking a packet keeps what is known of each packet under way.
LEMMA TakePackets ==
  ASSUME IInv, NoneNew, NEW e \in Peers, NEW p \in Sends(Other(e)), TakenIs(e, p),
         NEW x \in Peers, NEW q \in Sends(x)'
  PROVE  Flagged(x, q)' /\ Carries(x, q)' /\ Acknowledges(x, q)'
<1> DEFINE o == Other(e)
<1>1. /\ o \in Peers /\ Other(o) = e /\ (x = e \/ x = o)
  BY Sides
<1>2. /\ Shape(e) /\ Shape(o) /\ Numbers(e) /\ Shaking /\ Flagged(o, p) /\ Carries(o, p)
      /\ q \in Sends(x) /\ Flagged(x, q) /\ Carries(x, q) /\ Acknowledges(x, q)
  BY <1>1 DEF IInv, NoneNew
<1>3. /\ Unmoved(o) /\ conn'[o] = conn[o] /\ wrote'[o] = wrote[o] /\ wrote'[e] = wrote[e] /\ Room(e)' = Room(e)
      /\ ~Unopened(e) /\ ~Unopened(e)' /\ (Ended(e) => Ended(e)')
      /\ Syn(p) <=> St(e) \in {"Listen", "SynSent"}
      /\ ~Syn(p) => K(o, p) = R(e) /\ Sync(e)
  BY DEF TakenIs
<1>4. Sync(e)' => S(e)' = S(e) /\ R(e)' = End(o, p)
  BY DEF TakenIs, TakesIn, Sync
\* What is under way while the handshake lasts.
<1>5. /\ St(e) = "Listen" => Sends(e) = {} /\ (x = o => ~Ack(q))
      /\ St(e) = "SynSent" => (x = e => Syn(q) /\ ~Ack(q)) /\ S(e) = 1
  <2>1. CASE St(e) = "Listen"
    <3>1. e = "server" /\ o = "client" /\ Unanswered
      BY <1>2, <2>1 DEF Shape, Other, Unanswered
    <3>2. QED
      BY <1>1, <1>2, <2>1, <3>1 DEF Shaking, Flagged
  <2>2. CASE St(e) = "SynSent"
    <3>1. e = "client" /\ o = "server"
      BY <1>2, <2>2 DEF Shape, Other
    <3>2. QED
      BY <1>1, <1>2, <2>2, <3>1 DEF Shaking, Flagged, Numbers
  <2>3. QED
    BY <2>1, <2>2
<1>6. Flagged(x, q)'
  BY <1>1, <1>2, <1>3 DEF Flagged, Unmoved
<1>7. Carries(x, q)'
  <2>1. CASE x = o
    BY <1>1, <1>2, <1>3, <2>1 DEF Carries, Unmoved
  <2>2. CASE x = e
    <3>1. Sync(e)' => End(e, q) <= S(e)
      <4>1. Sync(e) => End(e, q) <= S(e)
        BY <1>2, <2>2 DEF Carries
      <4>2. St(e) # "Listen"
        BY <1>2, <1>5, <2>2
      <4>3. St(e) = "SynSent" => End(e, q) = 1 /\ S(e) = 1
        BY <1>2, <1>5, <2>2, SynEnds
      <4>4. QED
        BY <1>3, <4>1, <4>2, <4>3
    <3>2. QED
      BY <1>1, <1>2, <1>3, <1>4, <2>2, <3>1 DEF Carries, Unmoved
  <2>3. QED
    BY <1>1, <2>1, <2>2
<1>8. Acknowledges(x, q)'
  <2>1. SUFFICES ASSUME Ack(q) PROVE Acknowledges(x, q)'
    BY DEF Acknowledges
  <2>2. CASE x = o
    <3>1. St(e) # "Listen"
      BY <1>5, <2>1, <2>2
    <3>2. Sync(e)' \/ St(e)' = "SynSent" => A(o, q) <= S(e)'
      <4>1. Sync(e) \/ St(e) = "SynSent" => A(o, q) <= S(e)
        BY <1>1, <1>2, <2>1, <2>2 DEF Acknowledges
      <4>2. QED
        BY <1>3, <1>4, <3>1, <4>1 DEF TakenIs
    <3>3. QED
      BY <1>1, <1>2, <1>3, <2>1, <2>2, <3>2 DEF Acknowledges, Unmoved
  <2>3. CASE x = e
    <3>1. St(e) \notin {"Listen", "SynSent"} /\ ~Syn(p)
      BY <1>2, <1>3, <1>5, <2>1, <2>3
    <3>2. Sync(e) /\ K(o, p) = R(e) /\ R(e) \in Nat /\ A(e, q) \in Nat /\ Edge(e, q) \in Nat
      BY <1>2, <1>3, <2>3, <3>1, CountsIn, PacketCountsIn DEF Shape, Flagged
    <3>3. PICK n, r, m, a, g, f \in Nat : /\ n = Len(p.data) /\ r = Len(conn[e].rx) /\ m = R(e)
                                 /\ a = A(e, q) /\ g = Edge(e, q) /\ f = IF Fin(p) THEN 1 ELSE 0
      <4>1. Len(p.data) \in Nat /\ Len(conn[e].rx) \in Nat
        BY <1>2, CountsIn, PacketCountsIn DEF Shape, Flagged
      <4>2. (IF Fin(p) THEN 1 ELSE 0) \in Nat
        OBVIOUS
      <4>3. QED
        BY <3>2, <4>1, <4>2
    <3>4. End(o, p) = m + n + f /\ Len(conn'[e].rx) = r + n
      <4>1. conn'[e].rx = conn[e].rx \o p.data /\ conn[e].rx \in Seq(Int) /\ p.data \in Seq(Int)
        BY <1>2 DEF TakenIs, TakesIn, Shape, IsConn, Flagged, IsPkt
      <4>2. Len(conn'[e].rx) = r + n
        BY <3>3, <4>1, JoinedIs
      <4>3. QED
        BY <3>1, <3>3, <4>2 DEF TakenIs
    <3>5. a <= m /\ g <= m + RxCap - r
      BY <1>2, <2>1, <2>3, <3>2, <3>3 DEF Acknowledges
    <3>6. a <= m + n + f /\ g <= m + n + f + RxCap - (r + n)
      BY <3>5, TCPConnAssumption
    <3>7. Sync(e)' => A(e, q) <= R(e)' /\ Edge(e, q) <= R(e)' + RxCap - Len(conn'[e].rx)
      BY <1>4, <3>3, <3>4, <3>6
    <3>8. QED
      BY <1>1, <1>2, <1>3, <2>1, <2>3, <3>7 DEF Acknowledges, Unmoved
  <2>4. QED
    BY <1>1, <2>2, <2>3
<1>9. QED
  BY <1>6, <1>7, <1>8

\* Taking a packet keeps the handshake in step.
LEMMA TakeShaking ==
  ASSUME IInv, NEW e \in Peers, NEW p \in Sends(Other(e)), Taking(e, p), TakenIs(e, p)
  PROVE  Shaking'
<1> DEFINE o == Other(e)
<1>1. /\ o \in Peers /\ Other(o) = e
  BY Sides
<1>2. /\ Shape(e) /\ Numbers(e) /\ Shaking /\ NoneNew /\ Flagged(o, p)
  BY <1>1 DEF IInv, Taking
<1>3. /\ Unmoved(o) /\ ~Unopened(e) /\ ~Unopened(e)'
      /\ St(e) # "Closed" /\ St(e)' \notin {"Listen", "SynSent"}
      /\ St(e)' = "SynRcvd" <=> St(e) = "Listen"
      /\ Syn(p) <=> St(e) \in {"Listen", "SynSent"}
      /\ Syn(p) => \A q \in Sends(o)' : ~Syn(q)
      /\ "client" \in Peers /\ "server" \in Peers
  BY DEF TakenIs, Taking, Peers
<1>4. CASE e = "server" /\ o = "client"
  <2>1. /\ Sends("client")' \subseteq Sends("client") /\ Sends("server")' \subseteq Sends("server")
        /\ p \in Sends("client")
    BY <1>2, <1>3, <1>4 DEF NoneNew
  <2>2. ~Undialled
    BY <1>2, <2>1 DEF Shaking
  <2>3. ~Undialled'
    BY <1>3, <1>4, <2>2 DEF Undialled, Unmoved
  <2>4. Unanswered' => St("server") = "Listen"
    BY <1>3, <1>4 DEF Unanswered
  <2>5. /\ \A q \in Sends("client")' : ~Syn(q)
    BY <1>2, <1>3, <1>4, <2>1 DEF Shaking
  <2>6. St("client") = "SynSent" =>
           /\ Syn(p)
           /\ Sync("server")' => R("server")' = 1 /\ U("server")' = 0
           /\ St("server")' = "SynRcvd"
    <3>1. SUFFICES ASSUME St("client") = "SynSent"
                   PROVE  /\ Syn(p)
                          /\ Sync("server")' => R("server")' = 1 /\ U("server")' = 0
                          /\ St("server")' = "SynRcvd"
      OBVIOUS
    <3>2. Syn(p)
      BY <1>2, <2>1, <3>1 DEF Shaking
    <3>3. St(e) = "Listen"
      BY <1>2, <1>3, <1>4, <3>2 DEF Shape
    <3>4. ~Ack(p) /\ End(o, p) = 1
      BY <1>2, <1>4, <3>2 DEF Flagged, TakenIs
    <3>5. QED
      BY <1>3, <1>4, <3>2, <3>3, <3>4 DEF TakenIs, TakesIn
  <2>7. QED
    BY <1>2, <1>3, <1>4, <2>1, <2>3, <2>4, <2>5, <2>6 DEF Shaking, Unmoved, Unanswered
<1>5. CASE e = "client" /\ o = "server"
  <2>1. /\ Sends("client")' \subseteq Sends("client") /\ Sends("server")' \subseteq Sends("server")
        /\ p \in Sends("server")
    BY <1>2, <1>3, <1>5 DEF NoneNew
  <2>2. ~Unanswered
    BY <1>2, <2>1 DEF Shaking
  <2>3. ~Unanswered' /\ ~Undialled'
    BY <1>3, <1>5, <2>2 DEF Unanswered, Undialled, Unmoved
  <2>4. \A q \in Sends("server")' : ~Syn(q)
    BY <1>2, <1>3, <1>5, <2>1 DEF Shaking
  <2>5. QED
    BY <1>2, <1>3, <1>5, <2>1, <2>3, <2>4 DEF Shaking, Unmoved
<1>6. QED
  BY <1>4, <1>5 DEF Peers, Other

\* recv keeps the invariant.
LEMMA TakeStep ==
  ASSUME IInv, HalfLap, NEW e \in Peers, NEW p \in Sends(Other(e)), Taking(e, p), Domains'
  PROVE  IInv'
<1> DEFINE o == Other(e)
<1>1. o \in Peers /\ Other(o) = e /\ \A x \in Peers : x = e \/ x = o
  BY Sides
<1>2. TakenIs(e, p) /\ NoneNew
  BY TakenFacts DEF Taking
<1>3. Shape(o)' /\ Numbers(o)'
  <2>1. Shape(o) /\ Numbers(o)
    BY <1>1 DEF IInv
  <2>2. Shape(o)'
    BY <1>2, <2>1 DEF Shape, TakenIs, Unmoved
  <2>3. Numbers(o)'
    BY <1>2, <2>1 DEF Numbers, TakenIs, Unmoved
  <2>4. QED
    BY <2>2, <2>3
<1>4. \A x \in Peers : Shape(x)' /\ Numbers(x)' /\ Received(x)' /\ Prefix(x)' /\ Windowed(x)'
  BY <1>1, <1>2, <1>3, TakeOwn, TakeReceived, TakePrefix, TakeWindowed
<1>5. \A x \in Peers : \A q \in Sends(x)' : Flagged(x, q)' /\ Carries(x, q)' /\ Acknowledges(x, q)'
  BY <1>2, TakePackets
<1>6. \A x \in Peers : \A q, r \in Sends(x)' : Paired(x, q, r)'
  BY <1>2 DEF IInv, NoneNew, Paired, Newer
<1>7. Shaking'
  BY <1>2, TakeShaking
<1>8. QED
  BY <1>4, <1>5, <1>6, <1>7 DEF IInv

\* What an end has received, once it has taken a packet.
LEMMA TakenMore ==
  ASSUME IInv, HalfLap, NEW e \in Peers, NEW p \in Sends(Other(e)), Taking(e, p), IInv'
  PROVE  /\ Firm(e) /\ Stopped(e)' = Stopped(e) /\ TakenIs(e, p) /\ NoneNew
         /\ Taken(e) \in Nat /\ Taken(e)' = Taken(e) + Len(p.data) /\ Len(p.data) \in Nat
         /\ Complete(e) => Complete(e)' /\ p.data = <<>>
<1> DEFINE o == Other(e)
<1>1. /\ o \in Peers /\ Other(o) = e
  BY Sides
<1>2. TakenIs(e, p) /\ NoneNew /\ TakesIn(e, p)
  BY TakenFacts DEF Taking, TakenIs
<1>3. /\ wrote'[e] = wrote[e] /\ got'[e] = got[e] /\ ~Unopened(e) /\ ~Unopened(e)'
      /\ conn'[e].rx = conn[e].rx \o p.data /\ conn'[e].closing = conn[e].closing
      /\ port'[e] = port[e]
  BY <1>2 DEF TakenIs, TakesIn, Taking
<1>4. Stopped(e)' = Stopped(e)
  BY <1>3 DEF Stopped
<1>5. /\ St(e) \in {"Closed", "LastAck"} => St(e)' \in {"Closed", "LastAck"}
      /\ St(e)' = "CloseWait" => St(e) \in {"CloseWait", "Established"}
  BY <1>2 DEF TakesIn, TakenIs, Leads, St
<1>6. Firm(e)
  <2>1. Gone(e) => Gone(e)'
    BY <1>3, <1>5 DEF Gone
  <2>2. Ended(e) => Ended(e)'
    BY <1>2 DEF TakenIs
  <2>3. Unfinished(e)' => Unfinished(e)
    BY <1>5, <2>2 DEF Unfinished, Ended, Opening
  <2>4. QED
    BY <1>3, <1>4, <2>1, <2>2, <2>3 DEF Firm
<1>7. /\ p.data \in Seq(Int) /\ conn[e].rx \in Seq(Int) /\ Shape(e) /\ Shape(e)'
  BY <1>1 DEF IInv, Flagged, IsPkt, Shape, IsConn
<1>8. Taken(e)' = Taken(e) + Len(p.data) /\ Len(p.data) \in Nat /\ Taken(e) \in Nat
  <2>1. PICK g, r, n \in Nat : g = Len(got[e]) /\ r = Len(conn[e].rx) /\ n = Len(p.data)
    <3>1. Len(got[e]) \in Nat /\ Len(conn[e].rx) \in Nat
      BY <1>7, TakenIn
    <3>2. Len(p.data) \in Nat
      BY <1>7
    <3>3. QED
      BY <3>1, <3>2
  <2>2. Len(conn'[e].rx) = r + n
    BY <1>3, <1>7, <2>1, JoinedIs
  <2>3. Taken(e)' = g + (r + n) /\ Taken(e) = g + r
    BY <1>3, <2>1, <2>2 DEF Taken
  <2>4. \A i, j, k \in Nat : i + (j + k) = (i + j) + k /\ i + j \in Nat
    OBVIOUS
  <2>5. Taken(e)' = Taken(e) + n /\ Taken(e) \in Nat
    BY <2>3, <2>4
  <2>6. QED
    BY <2>1, <2>5
<1>9. ASSUME Complete(e) PROVE Complete(e)' /\ p.data = <<>>
  <2>1. Taken(e)' <= wrote'[o] /\ wrote'[o] = wrote[o] /\ Stopped(o)' = Stopped(o)
    <3>1. Shape(e)' => Taken(e)' = Len(Stream(e))'
      <4>1. Shape(e)' => got'[e] \in Seq(Int) /\ conn'[e].rx \in Seq(Int)
        BY DEF Shape, IsConn
      <4>2. QED
        BY <4>1, JoinedIs DEF Taken, Stream
    <3>2. QED
      BY <1>1, <1>7, <3>1, RestsFirm DEF IInv, Prefix, Taking
  <2>2. wrote[o] = Taken(e) /\ Stopped(o)
    BY <1>9 DEF Complete
  <2>3. PICK t, n \in Nat : t = Taken(e) /\ n = Len(p.data)
    BY <1>8
  <2>4. t + n <= t
    BY <1>8, <2>1, <2>2, <2>3
  <2>5. n = 0
    BY <2>3, <2>4
  <2>6. p.data = <<>>
    <3>1. IsPkt(p)
      BY <1>1 DEF IInv, Flagged
    <3>2. p.data # <<>> => n > 0
      BY <2>3, <3>1, PacketCountsIn
    <3>3. QED
      BY <2>5, <3>2
  <2>7. Taken(e)' = Taken(e)
    BY <1>8, <2>3, <2>5
  <2>8. QED
    BY <2>1, <2>2, <2>6, <2>7 DEF Complete
<1>10. QED
  BY <1>2, <1>4, <1>6, <1>8, <1>9

\* The FIN that an end takes.
LEMMA TakeHeard ==
  ASSUME IInv, IInv', JInv, HalfLap, NEW e \in Peers, NEW p \in Sends(Other(e)), Taking(e, p)
  PROVE  Heard(e)'
<1> DEFINE o == Other(e)
<1>1. /\ o \in Peers /\ Other(o) = e
  BY Sides
<1>2. /\ Firm(e) /\ TakenIs(e, p) /\ TakesIn(e, p)
      /\ Complete(e) => Complete(e)' /\ p.data = <<>>
  BY TakenMore DEF TakenIs
<1>3. /\ Gone(o)' = Gone(o) /\ Unfinished(o)' = Unfinished(o) /\ Stopped(o)' = Stopped(o)
      /\ wrote'[o] = wrote[o] /\ Ended(o)' = Ended(o)
  BY <1>1, RestsFirm DEF Taking, Unmoved
<1>4. /\ Heard(e) /\ Finishes(o, p) /\ Flagged(o, p) /\ Carries(o, p) /\ Received(e)
      /\ Numbers(e) /\ IsPkt(p) /\ wrote[o] \in Nat
  BY <1>1 DEF JInv, Ends, IInv, Flagged, Shape
<1>5. PICK t, n, f, r, w \in Nat : /\ t = Taken(e) /\ n = Len(p.data) /\ f = (IF Fin(p) THEN 1 ELSE 0)
                                   /\ r = R(e) /\ w = wrote[o]
  <2>1. R(e) \in Nat
    BY CountsIn DEF IInv, Shape
  <2>2. (IF Fin(p) THEN 1 ELSE 0) \in Nat
    OBVIOUS
  <2>3. Taken(e) \in Nat /\ Len(p.data) \in Nat
    BY TakenMore
  <2>4. QED
    BY <1>4, <2>1, <2>2, <2>3
<1>6. Taken(e)' = t + n
  BY <1>5, TakenMore
<1>7. /\ Sync(e)' => St(e)' # "Closed" /\ R(e)' = End(o, p)
      /\ End(o, p) <= 2 + w
  BY <1>2, <1>4, <1>5 DEF Sync, TakesIn, Carries
<1>8. CASE Syn(p)
  <2>1. /\ St(e) \in {"Listen", "SynSent"} /\ p.data = <<>> /\ End(o, p) = 1
        /\ St(e)' \in {"SynRcvd", "Established"}
    BY <1>2, <1>8 DEF TakenIs
  <2>2. got[e] = <<>> /\ conn[e].rx = <<>>
    BY <1>4, <2>1 DEF Numbers, Opening
  <2>3. t = 0 /\ n = 0
    BY <1>5, <2>1, <2>2 DEF Taken
  <2>4. Taken(e)' = 0 /\ R(e)' = 1 /\ Sync(e)'
    BY <1>6, <1>7, <2>1, <2>3 DEF Sync
  <2>5. R(e)' >= 1 + Taken(e)' /\ ~Took(e)'
    BY <2>4 DEF Took
  <2>6. QED
    BY <2>1, <2>5 DEF Heard
<1>9. CASE ~Syn(p)
  <2>1. Sync(e) /\ K(o, p) = r /\ End(o, p) = r + n + f
    BY <1>2, <1>5, <1>9 DEF TakenIs
  <2>2. r >= 1 + t /\ r >= 1
    BY <1>4, <1>5, <2>1 DEF Heard, Received
  <2>3. Sync(e)' => R(e)' = r + n + f
    BY <1>7, <2>1
  <2>4. Sync(e)' => R(e)' >= 1 + Taken(e)'
    <3>1. r + n + f >= 1 + (t + n)
      BY <1>5, <2>2
    <3>2. QED
      BY <1>6, <2>3, <3>1
  <2>5. /\ Took(e) <=> r # 1 + t
        /\ Took(e)' <=> Sync(e)' /\ r + n + f # 1 + (t + n)
    BY <1>5, <1>6, <2>1, <2>3 DEF Took
  <2>6. Took(e)' <=> Sync(e)' /\ (Took(e) \/ Fin(p))
    <3>1. r + n + f # 1 + (t + n) <=> (r # 1 + t \/ f = 1)
      <4>1. f \in {0, 1}
        BY <1>5
      <4>2. QED
        BY <1>5, <2>2, <4>1
    <3>2. f = 1 <=> Fin(p)
      BY <1>5
    <3>3. QED
      BY <2>5, <3>1, <3>2
  <2>7. St(e)' \in {"CloseWait", "LastAck", "Closing", "TimeWait"} => Took(e)'
    <3>1. ASSUME St(e)' \in {"CloseWait", "LastAck", "Closing", "TimeWait"}
          PROVE  St(e) \in {"CloseWait", "LastAck", "Closing", "TimeWait"} \/ Fin(p)
      BY <1>2, <3>1 DEF TakesIn, Leads, Fin, St
    <3>2. St(e)' \in {"CloseWait", "LastAck", "Closing", "TimeWait"} => Sync(e)'
      BY DEF Sync
    <3>3. QED
      BY <1>4, <2>6, <3>1, <3>2 DEF Heard
  <2>8. ASSUME Fin(p), ~Took(e)
        PROVE  /\ ~Unfinished(o)
               /\ (Gone(o) /\ Ended(e)) \/ (Complete(e)' /\ End(o, p) = 2 + w)
    <3>1. /\ ~Unfinished(o)
          /\ \/ K(o, p) = 0
             \/ End(o, p) = 2 + w /\ Stopped(o)
             \/ Gone(o) /\ Ended(e)
      BY <1>1, <1>4, <1>5, <2>8 DEF Finishes
    <3>2. K(o, p) # 0
      BY <1>5, <2>1, <2>2
    <3>3. CASE End(o, p) = 2 + w /\ Stopped(o)
      <4>1. r = 1 + t /\ f = 1
        BY <1>5, <2>5, <2>8
      <4>2. r + n + f = 2 + w
        BY <2>1, <3>3
      <4>3. w = t + n
        BY <1>5, <4>1, <4>2
      <4>4. Complete(e)'
        BY <1>3, <1>5, <1>6, <3>3, <4>3 DEF Complete
      <4>5. QED
        BY <3>1, <3>3, <4>4
    <3>4. QED
      BY <1>5, <3>1, <3>2, <3>3
  <2>9. Took(e)' => ~Unfinished(o)' /\ (Gone(o)' \/ Complete(e)')
    BY <1>2, <1>3, <1>4, <2>6, <2>8 DEF Heard
  <2>10. ASSUME Took(e)', Unfinished(e)' \/ St(e)' = "LastAck"
         PROVE  Complete(e)' /\ R(e)' = 2 + wrote'[o]
    <3>1. Unfinished(e) \/ St(e) = "LastAck"
      <4>1. St(e)' = "LastAck" => St(e) = "LastAck"
        BY <1>2 DEF TakesIn, Leads, St
      <4>2. QED
        BY <1>2, <2>10, <4>1 DEF Firm
    <3>2. R(e)' = r + n + f
      BY <2>3, <2>6, <2>10
    <3>3. CASE Took(e)
      <4>1. Complete(e)' /\ r = 2 + w
        BY <1>2, <1>4, <1>5, <3>1, <3>3 DEF Heard
      <4>2. r + n + f <= 2 + w
        BY <1>7, <2>1
      <4>3. r + n + f = 2 + w
        BY <1>5, <4>1, <4>2
      <4>4. QED
        BY <1>3, <1>5, <3>2, <4>1, <4>3
    <3>4. CASE ~Took(e)
      <4>1. Fin(p) /\ St(e) \notin {"CloseWait", "LastAck"}
        BY <1>4, <2>6, <2>10, <3>4 DEF Heard
      <4>2. ~Ended(e)
        BY <3>1, <4>1 DEF Unfinished
      <4>3. QED
        BY <1>3, <1>5, <2>1, <2>8, <3>2, <3>4, <4>1, <4>2
    <3>5. QED
      BY <3>3, <3>4
  <2>11. QED
    BY <2>4, <2>7, <2>9, <2>10 DEF Heard
<1>10. QED
  BY <1>8, <1>9

\* What a packet tells, in numbers.
LEMMA TellsIn ==
  ASSUME NEW e, NEW p, IsPkt(p)
  PROVE  /\ Told(e, p) \in Nat /\ Reach(e, p) \in Nat /\ p.seg.WND \in Nat
         /\ Ack(p) => Told(e, p) = A(e, p) /\ Reach(e, p) = Edge(e, p)
<1>0. A(e, p) \in Nat
  BY PacketCountsIn
<1>1. A(e, p) \in Nat /\ p.seg.WND \in Nat
  BY <1>0, SeqAssumption DEF IsPkt, IsSeg, Segment, Value
<1>2. Told(e, p) \in Nat /\ (Ack(p) => Told(e, p) = A(e, p))
  BY <1>1 DEF Told
<1>3. QED
  BY <1>1, <1>2 DEF Reach, Edge

\* The window of an end that takes a packet.
LEMMA TakeLasting ==
  ASSUME IInv, IInv', JInv, HalfLap, NEW e \in Peers, NEW p \in Sends(Other(e)), Taking(e, p)
  PROVE  Lasting(e)'
<1> DEFINE o == Other(e)
<1>1. /\ o \in Peers /\ Other(o) = e
  BY Sides
<1>2. /\ TakenIs(e, p) /\ TakesIn(e, p) /\ Sends(o)' \subseteq Sends(o)
  BY <1>1, TakenMore DEF TakenIs, NoneNew
<1>3. /\ wrote'[o] = wrote[o] /\ Room(o)' = Room(o)
  BY <1>2 DEF TakenIs, Unmoved
<1>4. /\ Heard(e) /\ Lasting(e) /\ Ordered(o) /\ Windowed(e) /\ Flagged(o, p) /\ Carries(o, p)
      /\ Acknowledges(o, p) /\ IsPkt(p)
  BY <1>1 DEF JInv, Ends, IInv, Flagged
<1>5. PICK k, l, t, h, m, s, u, v, r, w \in Nat :
        /\ k = K(o, p) /\ l = End(o, p) /\ t = Told(o, p) /\ h = Reach(o, p) /\ m = p.seg.WND
        /\ s = S(e) /\ u = U(e) /\ v = Wnd(e) /\ r = R(e) /\ w = wrote[o]
  <2>1. K(o, p) \in Nat /\ End(o, p) \in Nat /\ Told(o, p) \in Nat /\ Reach(o, p) \in Nat /\ p.seg.WND \in Nat
    BY <1>4, PacketCountsIn, TellsIn
  <2>2. S(e) \in Nat /\ U(e) \in Nat /\ Wnd(e) \in Nat /\ R(e) \in Nat /\ wrote[o] \in Nat
    BY <1>1, CountsIn DEF IInv, Shape
  <2>3. QED
    BY <2>1, <2>2
<1>6. /\ St(e)' # "Closed" => /\ S(e)' = s /\ R(e)' = l /\ Wnd(e)' = m
                              /\ U(e)' = IF Ack(p) THEN t ELSE IF St(e) = "Listen" THEN 0 ELSE u
      /\ h = t + m /\ l <= 2 + w
      /\ Ack(p) \/ t = 1
  BY <1>2, <1>4, <1>5 DEF TakesIn, Told, Reach, Carries
<1>7. ASSUME St(e) \in {"SynSent", "SynRcvd", "Established", "CloseWait"}
      PROVE  /\ Unfinished(e)
             /\ \A q \in Sends(o) : Tells(q) => Reach(o, q) <= Room(o)
             /\ \A q \in Sends(o) : Tells(q) /\ Tells(p) /\ Follows(o, q, p)
                                      => Told(o, q) >= t /\ Reach(o, q) >= h
             /\ \A q \in Sends(o) : /\ Ack(p) /\ K(o, p) = 2 + wrote[o]
                                    /\ Ack(q) /\ K(o, q) = 2 + wrote[o]
                                    => A(o, q) = A(o, p) /\ Edge(o, q) = Edge(o, p)
  <2>1. Unfinished(e)
    BY <1>7 DEF Unfinished, Ended, Opening
  <2>2. \A q \in Sends(o) : Tells(q) => Reach(o, q) <= Room(o)
    BY <1>1, <1>4, <2>1 DEF Ordered
  <2>3. ASSUME NEW q \in Sends(o), Tells(q), Tells(p), Follows(o, q, p)
        PROVE  Told(o, q) >= t /\ Reach(o, q) >= h
    <3>1. Told(o, p) <= Told(o, q) /\ Reach(o, p) <= Reach(o, q)
      BY <1>1, <1>4, <2>1, <2>3 DEF Ordered
    <3>2. IsPkt(q)
      BY <1>1 DEF IInv, Flagged
    <3>3. Told(o, q) \in Nat /\ Reach(o, q) \in Nat
      BY <3>2, TellsIn
    <3>4. QED
      BY <1>5, <3>1, <3>3
  <2>4. \A q \in Sends(o) : /\ Ack(p) /\ K(o, p) = 2 + wrote[o]
                            /\ Ack(q) /\ K(o, q) = 2 + wrote[o]
                            => A(o, q) = A(o, p) /\ Edge(o, q) = Edge(o, p)
    BY <1>1, <1>4, <2>1 DEF Ordered
  <2>5. QED
    BY <2>1, <2>2, <2>3, <2>4
<1>8. ASSUME St(e)' = "Established", NEW q \in Sends(o)', Fin(q)
      PROVE  K(o, q) < R(e)' \/ (Told(o, q) >= U(e)' /\ Reach(o, q) >= U(e)' + Wnd(e)')
  <2>1. St(e) \in {"SynSent", "SynRcvd", "Established"}
    BY <1>2, <1>8 DEF TakenIs
  <2>2. Ack(p)
    <3>1. CASE St(e) = "SynSent"
      BY <1>2, <1>8, <3>1 DEF TakesIn, Leads, Ack, St
    <3>2. CASE St(e) = "SynRcvd"
      <4>1. e = "server" /\ o # "server" /\ ~Ended(e) /\ ~Syn(p)
        BY <1>1, <1>2, <3>2 DEF IInv, Shape, Ended, Opening, TakenIs, Other
      <4>2. QED
        BY <1>1, <1>4, <4>1 DEF Flagged
    <3>3. CASE St(e) = "Established"
      <4>1. ~Fin(p) /\ ~Syn(p)
        BY <1>2, <1>8, <3>3 DEF TakenIs
      <4>2. QED
        BY <1>4, <4>1 DEF Flagged
    <3>4. QED
      BY <2>1, <3>1, <3>2, <3>3
  <2>3. q \in Sends(o) /\ Tells(q) /\ Tells(p)
    BY <1>2, <1>8, <2>2 DEF Tells
  <2>4. R(e)' = l /\ U(e)' = t /\ Wnd(e)' = m
    BY <1>6, <1>8, <2>2
  <2>5. PICK j \in Nat : j = K(o, q)
    <3>1. IsPkt(q)
      BY <1>1, <2>3 DEF IInv, Flagged
    <3>2. QED
      BY <3>1, PacketCountsIn
  <2>6. CASE j < l
    BY <2>4, <2>5, <2>6
  <2>7. CASE l <= j
    <3>1. Follows(o, q, p)
      BY <1>5, <1>8, <2>5, <2>7 DEF Follows
    <3>2. QED
      BY <1>6, <1>7, <2>1, <2>3, <2>4, <3>1
  <2>8. QED
    BY <2>5, <2>6, <2>7
<1>9. ASSUME St(e)' = "CloseWait"
      PROVE  /\ U(e)' <= S(e)' /\ S(e)' <= U(e)' + Wnd(e)' /\ U(e)' + Wnd(e)' <= Room(o)'
             /\ \A q \in Sends(o)' : Ack(q) /\ K(o, q) = 2 + wrote'[o]
                  => A(o, q) >= U(e)' /\ Edge(o, q) >= U(e)' + Wnd(e)'
  <2>1. St(e) \in {"Established", "CloseWait"} /\ (St(e) = "Established" => Fin(p))
    BY <1>2, <1>9 DEF TakesIn, Leads, Fin, St
  <2>2. ~Syn(p) /\ k = r
    BY <1>2, <1>5, <2>1 DEF TakenIs
  <2>3. Tells(p)
    BY <1>4, <2>2 DEF Flagged, Tells
  <2>4. h <= Room(o)
    BY <1>5, <1>7, <2>1, <2>3
  <2>5. /\ S(e)' = s /\ Wnd(e)' = m /\ (Ack(p) => U(e)' = t) /\ (~Ack(p) => U(e)' = u)
    BY <1>6, <1>9, <2>1
  <2>6. CASE St(e) = "Established"
    <3>1. /\ u >= 1 /\ u <= s /\ s <= u + v /\ Fin(p)
      BY <1>4, <1>5, <2>1, <2>6 DEF Windowed
    <3>2. t >= u /\ h >= u + v
      <4>1. ~(k < r)
        BY <1>5, <2>2
      <4>2. QED
        BY <1>4, <1>5, <2>6, <3>1, <4>1 DEF Lasting
    <3>3. Ack(p) => t <= s
      <4>1. Ack(p) => A(o, p) <= S(e)
        BY <1>2, <2>6 DEF TakesIn
      <4>2. QED
        BY <1>5, <4>1 DEF Told
    <3>4. U(e)' = t /\ t <= s
      <4>1. CASE Ack(p)
        BY <2>5, <3>3, <4>1
      <4>2. CASE ~Ack(p)
        <5>1. t = 1
          BY <1>6, <4>2
        <5>2. u = 1
          BY <1>5, <3>1, <3>2, <5>1
        <5>3. QED
          BY <2>5, <3>1, <4>2, <5>1, <5>2
      <4>3. QED
        BY <4>1, <4>2
    <3>5. s <= t + m
      BY <1>5, <1>6, <3>1, <3>2
    <3>6. ASSUME NEW q \in Sends(o)', Ack(q), K(o, q) = 2 + wrote'[o]
          PROVE  A(o, q) >= t /\ Edge(o, q) >= t + m
      <4>1. q \in Sends(o) /\ Tells(q)
        BY <1>2, <3>6 DEF Tells
      <4>2. IsPkt(q)
        BY <1>1, <4>1 DEF IInv, Flagged
      <4>3. K(o, p) < K(o, q)
        <5>1. K(o, q) = 2 + w
          BY <1>3, <1>5, <3>6
        <5>2. PICK g \in Nat : g = SegLen(p.seg) /\ g >= 1
          <6>1. SegLen(p.seg) \in Nat /\ SegLen(p.seg) >= 1 + Len(p.data) /\ Len(p.data) \in Nat
            BY <1>4, <3>1, PacketCountsIn
          <6>2. PICK i, j \in Nat : i = SegLen(p.seg) /\ j = Len(p.data)
            BY <6>1
          <6>3. i >= 1 + j
            BY <6>1, <6>2
          <6>4. i >= 1
            BY <6>2, <6>3
          <6>5. QED
            BY <6>2, <6>4
        <5>3. l = k + g
          BY <1>5, <5>2 DEF End
        <5>4. k < 2 + w
          BY <1>5, <1>6, <5>2, <5>3
        <5>5. QED
          BY <1>5, <5>1, <5>4
      <4>4. Follows(o, q, p)
        BY <4>3 DEF Follows
      <4>5. Told(o, q) >= t /\ Reach(o, q) >= h
        BY <1>7, <2>3, <2>6, <4>1, <4>4
      <4>6. Told(o, q) = A(o, q) /\ Reach(o, q) = Edge(o, q)
        BY <3>6, <4>2, TellsIn
      <4>7. QED
        BY <1>6, <4>5, <4>6
    <3>7. QED
      BY <1>3, <1>6, <2>4, <2>5, <3>4, <3>5, <3>6
  <2>7. CASE St(e) = "CloseWait"
    <3>1. r = 2 + w
      BY <1>1, <1>4, <1>5, <1>7, <2>7 DEF Heard
    <3>2. ~Fin(p) /\ p.data = <<>> /\ Ack(p)
      <4>1. PICK n, f \in Nat : n = Len(p.data) /\ f = IF Fin(p) THEN 1 ELSE 0
        <5>1. (IF Fin(p) THEN 1 ELSE 0) \in Nat /\ Len(p.data) \in Nat
          BY <1>4, PacketCountsIn
        <5>2. QED
          BY <5>1
      <4>2. l = k + n + f
        BY <1>1, <1>4, <1>5, <2>2, <4>1, PlainEnds
      <4>3. n = 0 /\ f = 0
        <5>1. \A i, j, x, y, z \in Nat :
                i = 2 + z /\ j <= 2 + z /\ j = i + x + y => x = 0 /\ y = 0
          OBVIOUS
        <5>2. k = 2 + w /\ l <= 2 + w
          BY <1>6, <2>2, <3>1
        <5>3. QED
          BY <4>2, <5>1, <5>2
      <4>4. ~Fin(p)
        BY <4>1, <4>3
      <4>5. p.data = <<>>
        <5>1. p.data # <<>> => Len(p.data) > 0
          BY <1>4, PacketCountsIn
        <5>2. QED
          BY <4>1, <4>3, <5>1
      <4>6. QED
        BY <1>4, <2>2, <4>4, <4>5 DEF Flagged
    <3>3. A(o, p) = t /\ Edge(o, p) = h /\ K(o, p) = 2 + wrote[o]
      BY <1>4, <1>5, <2>2, <3>1, <3>2, TellsIn
    <3>4. /\ u <= s /\ s <= u + v /\ t >= u /\ h >= u + v
      BY <1>1, <1>4, <1>5, <2>7, <3>2, <3>3 DEF Lasting
    <3>5. t <= s
      <4>1. Sync(e)
        BY <2>7 DEF Sync
      <4>2. QED
        BY <1>1, <1>4, <1>5, <3>2, <3>3, <4>1 DEF Acknowledges
    <3>6. s <= t + m
      BY <1>5, <1>6, <3>4
    <3>7. ASSUME NEW q \in Sends(o)', Ack(q), K(o, q) = 2 + wrote'[o]
          PROVE  A(o, q) >= t /\ Edge(o, q) >= t + m
      <4>1. A(o, q) = t /\ Edge(o, q) = h
        BY <1>2, <1>3, <1>7, <2>7, <3>2, <3>3, <3>7
      <4>2. QED
        BY <1>5, <1>6, <4>1
    <3>8. QED
      BY <1>3, <1>6, <2>4, <2>5, <3>2, <3>5, <3>6, <3>7
  <2>8. QED
    BY <2>1, <2>6, <2>7
<1>10. QED
  BY <1>8, <1>9 DEF Lasting

\* recv keeps both invariants.
LEMMA TakeKeeps ==
  ASSUME IInv, HalfLap, NEW e \in Peers, NEW p \in Sends(Other(e)), Taking(e, p), Domains'
  PROVE  Kept
<1> DEFINE o == Other(e)
<1>0. IInv'
  BY TakeStep
<1> SUFFICES ASSUME JInv PROVE JInv'
  BY <1>0 DEF Kept
<1>1. /\ o \in Peers /\ Other(o) = e /\ o # e /\ \A x \in Peers : x = e \/ x = o
  BY Sides
<1>2. /\ TakenIs(e, p) /\ TakesIn(e, p) /\ Sends(o)' \subseteq Sends(o) /\ Sends(e)' \subseteq Sends(e)
      /\ Firm(e) /\ Stopped(e)' = Stopped(e) /\ (Complete(e) => Complete(e)')
  BY <1>0, <1>1, TakenMore DEF TakenIs, NoneNew
<1>3. /\ Firm(o) /\ Unmoved(o) /\ Taken(o)' = Taken(o) /\ port'[o] = port[o] /\ Rests(o)
      /\ Gone(o)' = Gone(o)
  BY <1>1, RestsFirm DEF Taking
<1>4. /\ wrote'[e] = wrote[e] /\ Room(e)' = Room(e) /\ port'[e] = port[e]
  BY <1>2 DEF TakenIs, Taking
<1>5. /\ Closes(e) /\ Heard(e) /\ Buffered(e) /\ Buffered(o) /\ Lasting(o)
      /\ \A q \in Sends(e) : Finishes(e, q)
  BY <1>1 DEF JInv, Ends
<1>6. Ends(o)' /\ Ordered(o)' /\ Lasting(o)'
  BY <1>2, <1>3, <1>4, <1>5, RestEnds, RestLasting
<1>7. Ordered(e)'
  BY <1>2, <1>3, <1>4, OrderedKept DEF JInv
<1>8. Lasting(e)' /\ Heard(e)'
  BY <1>0, TakeLasting, TakeHeard
<1>9. Closes(e)'
  <2>1. Sync(e)' => conn'[e].scb.snd.ISS = conn[e].scb.snd.ISS /\ S(e)' = S(e)
    BY <1>2 DEF TakesIn, Sync
  <2>2. conn[e].scb.snd.ISS = Iss(e)
    <3>1. St(e) \in {"Listen", "SynSent"} \/ Sync(e)
      BY <1>2 DEF TakenIs, Sync
    <3>2. QED
      BY <1>5, <3>1 DEF IInv, Numbers, Closes
  <2>3. conn'[e].closing = conn[e].closing
    BY <1>2 DEF TakesIn
  <2>4. /\ St(e)' # "FinWait1"
        /\ St(e)' = "FinWait2" => St(e) = "FinWait1" /\ Sync(e)'
    BY <1>2 DEF TakesIn, Leads, St, Sync
  <2>5. QED
    BY <1>2, <1>5, <2>1, <2>2, <2>3, <2>4 DEF Closes
<1>10. \A q \in Sends(e)' : Finishes(e, q)'
  BY <1>2, <1>3, <1>5, FinishesKept
<1>11. Buffered(e)'
  <2>1. Complete(o)' = Complete(o)
    BY <1>1, <1>2, <1>3, <1>4 DEF Complete
  <2>2. SUFFICES ASSUME port[o] PROVE Buffered(e)'
    BY <1>3 DEF Buffered
  <2>3. /\ Sync(e) => Holds(e, U(e))
        /\ \A q \in Sends(o) : Ack(q) => Holds(e, A(o, q)) \/ Gone(e)
    BY <1>5, <2>2 DEF Buffered
  <2>4. ASSUME Sync(e)' PROVE Holds(e, U(e)')
    <3>1. St(e)' # "Closed"
      BY <2>4 DEF Sync
    <3>2. CASE Ack(p)
      <4>1. U(e)' = A(o, p)
        BY <1>2, <3>1, <3>2 DEF TakesIn
      <4>2. ~Gone(e)
        <5>1. St(e) = "LastAck" /\ Ack(p) => St(e)' = "Closed"
          BY <1>2 DEF TakesIn, Leads, Ack, St
        <5>2. QED
          BY <1>2, <3>1, <3>2, <5>1 DEF Gone, TakenIs
      <4>3. QED
        BY <2>3, <3>2, <4>1, <4>2
    <3>3. CASE ~Ack(p) /\ St(e) = "Listen"
      <4>1. U(e)' = 0
        BY <1>2, <3>1, <3>3 DEF TakesIn
      <4>2. Taken(o) \in Nat
        BY <1>1, TakenIn DEF IInv
      <4>3. 0 <= 1 + Taken(o)
        BY <4>2
      <4>4. QED
        BY <4>1, <4>3 DEF Holds
    <3>4. CASE ~Ack(p) /\ St(e) # "Listen"
      <4>1. U(e)' = U(e)
        BY <1>2, <3>1, <3>4 DEF TakesIn
      <4>2. Sync(e)
        BY <1>2, <3>4 DEF TakesIn, TakenIs, Leads, Ack, St, Sync
      <4>3. QED
        BY <2>3, <4>1, <4>2
    <3>5. QED
      BY <3>2, <3>3, <3>4
  <2>5. \A n : Holds(e, n) => n <= 1 + Taken(o)' \/ Complete(o)'
    BY <1>3, <2>1 DEF Holds
  <2>6. Sync(e)' => Holds(e, U(e))'
    BY <2>4, <2>5 DEF Holds
  <2>7. ASSUME NEW q \in Sends(o)', Ack(q) PROVE (Holds(e, A(o, q)) \/ Gone(e))'
    <3>1. Holds(e, A(o, q)) \/ Gone(e)
      BY <1>2, <2>3, <2>7
    <3>2. A(o, q)' = A(o, q)
      BY DEF A
    <3>3. QED
      BY <1>2, <2>5, <3>1, <3>2 DEF Holds, Firm
  <2>8. QED
    BY <2>6, <2>7 DEF Buffered
<1>12. Buffered(o)'
  <2>1. \A n \in Nat : Holds(o, n) => n <= 1 + Taken(e)' \/ Complete(e)'
    <3>1. PICK t, d \in Nat : t = Taken(e) /\ d = Len(p.data)
      BY <1>0, TakenMore
    <3>2. Taken(e)' = t + d
      BY <1>0, <3>1, TakenMore
    <3>3. \A n \in Nat : n <= 1 + t => n <= 1 + (t + d)
      BY <3>1
    <3>4. QED
      BY <1>1, <1>2, <3>1, <3>2, <3>3 DEF Holds
  <2>2. SUFFICES ASSUME port[e] PROVE Buffered(o)'
    BY <1>1, <1>4 DEF Buffered
  <2>3. Sync(o)' => Holds(o, U(o))'
    <3>1. U(o) \in Nat
      BY <1>1, CountsIn DEF IInv, Shape
    <3>2. Sync(o) => Holds(o, U(o))
      BY <1>1, <1>5, <2>2 DEF Buffered
    <3>3. QED
      BY <1>1, <1>3, <2>1, <3>1, <3>2 DEF Holds, Unmoved
  <2>4. ASSUME NEW q \in Sends(e)', Ack(q) PROVE (Holds(o, A(e, q)) \/ Gone(o))'
    <3>1. Holds(o, A(e, q)) \/ Gone(o)
      BY <1>1, <1>2, <1>5, <2>2, <2>4 DEF Buffered
    <3>2. A(e, q)' = A(e, q) /\ A(e, q) \in Nat
      <4>1. IsPkt(q)
        BY <1>2, <2>4 DEF IInv, Flagged
      <4>2. QED
        BY <4>1, PacketCountsIn DEF A
    <3>3. QED
      BY <1>1, <1>3, <2>1, <3>1, <3>2 DEF Holds
  <2>5. QED
    BY <1>1, <2>3, <2>4 DEF Buffered
<1>13. QED
  BY <1>1, <1>6, <1>7, <1>8, <1>9, <1>10, <1>11, <1>12 DEF JInv, Ends


-----------------------------------------------------------------------------
(* The actions *)

\* A connection before it is opened.
LEMMA FreshIs ==
  /\ IsConn(FreshConn) /\ FreshConn.scb.state = "Closed" /\ FreshConn.rx = <<>>
  /\ ~FreshConn.closing
<1>1. 0 \in Value /\ 0 \in 0 .. RxCap /\ RxCap \in Nat /\ TxCap \in Nat
  BY SeqAssumption, TCPConnAssumption DEF Value
<1>2. <<>> \in Seq(Int) /\ Len(<<>>) = 0
  OBVIOUS
<1>3. IsBlock(ZeroTCB) /\ Queued(ZeroTCB) /\ ZeroTCB.state = "Closed"
  BY <1>1 DEF ZeroTCB, IsBlock, Queued, ResetSnd, ResetRcv, States, synack
<1>4. QED
  BY <1>1, <1>2, <1>3 DEF FreshConn, IsConn, Sealed, OwesFin

\* An unopened connection is closed.
LEMMA UnopenedClosed ==
  ASSUME IInv, NEW e \in Peers, Unopened(e) PROVE St(e) = "Closed" /\ conn[e] = FreshConn
  BY FreshIs DEF IInv, Shape, St

\* What an end does that does not count.
LEMMA AlikeCalms ==
  ASSUME IInv, NEW e \in Peers, Alike(conn[e], conn'[e]), ~Unopened(e), ~Unopened(e)',
         user'[e] = "writing" => user[e] = "writing",
         wrote'[e] = wrote[e], got'[e] = got[e], port'[e] => port[e]
  PROVE  Calms(e)
<1>1. /\ IsConn(conn'[e]) /\ St(e)' = St(e) /\ S(e)' = S(e) /\ U(e)' = U(e) /\ R(e)' = R(e)
      /\ Wnd(e)' = Wnd(e) /\ conn'[e].scb.snd.ISS = conn[e].scb.snd.ISS
      /\ conn'[e].tx = conn[e].tx /\ conn'[e].rx = conn[e].rx /\ conn'[e].closing = conn[e].closing
      /\ (Due(e)' => Due(e)) /\ ("SYN" \in Owed(e)' => "SYN" \in Owed(e)) /\ (Late(e)' => Late(e))
      /\ St(e)' = "FinWait2" => Owed(e)' = Owed(e)
  BY DEF Alike, St, S, U, R, Wnd, Due, Owed, Late
<1>2. user[e] = "writing" => wrote[e] + Chunk <= ByteLimit(e) /\ ~conn[e].closing
  BY DEF IInv, Shape
<1>3. Unopened(e)' = Unopened(e)
  BY DEF Unopened
<1>4. QED
  BY <1>1, <1>2, <1>3 DEF Calms

\* A connection that is deleted under a Write.
LEMMA DroppedCalms ==
  ASSUME IInv, NEW e \in Peers, conn'[e] = FreshConn, user'[e] = user[e],
         wrote'[e] = wrote[e], got'[e] = got[e], ~port'[e]
  PROVE  Calms(e)
<1>1. IsConn(conn'[e]) /\ St(e)' = "Closed" /\ conn'[e].rx = <<>> /\ ~conn'[e].closing
  BY FreshIs DEF St
<1>2. user[e] = "writing" => wrote[e] + Chunk <= ByteLimit(e)
  BY DEF IInv, Shape
<1>3. Unopened(e)' = Unopened(e)
  BY DEF Unopened
<1>4. QED
  BY <1>1, <1>2, <1>3 DEF Calms

\* The packets a queue loses its first of.
LEMMA TailIs ==
  ASSUME NEW q, Queue(q), q # <<>>
  PROVE  /\ Queue(Tail(q)) /\ Len(Tail(q)) = Len(q) - 1 /\ Len(q) \in Nat /\ Len(q) >= 1
         /\ Head(q) = q[1]
         /\ \A i \in 1 .. Len(Tail(q)) : i + 1 \in 1 .. Len(q) /\ Tail(q)[i] = q[i + 1]
<1>1. PICK T : q \in Seq(T)
  BY DEF Queue
<1>2. Tail(q) \in Seq(T) /\ Len(Tail(q)) = Len(q) - 1 /\ Len(q) \in Nat /\ Len(q) >= 1 /\ Head(q) = q[1]
  BY <1>1
<1>3. \A i \in 1 .. Len(Tail(q)) : i + 1 \in 1 .. Len(q) /\ Tail(q)[i] = q[i + 1]
  BY <1>1, <1>2
<1>4. QED
  BY <1>2, <1>3 DEF Queue

\* A packet taken off the link leaves the others there, and no second SYN.
LEMMA TailNet ==
  ASSUME IInv, NEW e \in Peers, net[e] # <<>>, net' = [net EXCEPT ![e] = Tail(@)],
         DOMAIN conn' = Peers, DOMAIN user' = Peers, DOMAIN wrote' = Peers, DOMAIN got' = Peers,
         DOMAIN port' = Peers
  PROVE  /\ Domains' /\ NoneNew /\ Head(net[e]) \in Sends(Other(e))
         /\ Syn(Head(net[e])) => \A q \in Sends(Other(e))' : ~Syn(q)
<1> DEFINE o == Other(e)
<1>1. o \in Peers /\ Other(o) = e /\ o # e /\ \A x \in Peers : x = e \/ x = o
  BY Sides
<1>2. /\ DOMAIN net = Peers /\ Queue(net[e]) /\ Lone(net[e]) /\ Queue(net[o]) /\ Lone(net[o])
  BY <1>1 DEF IInv, Domains
<1>3. net'[e] = Tail(net[e]) /\ net'[o] = net[o] /\ DOMAIN net' = Peers
  BY <1>1, <1>2
<1>4. /\ Queue(net'[e]) /\ Head(net[e]) = net[e][1] /\ 1 \in 1 .. Len(net[e])
      /\ Len(net'[e]) \in Nat
      /\ \A i \in 1 .. Len(net'[e]) : i + 1 \in 1 .. Len(net[e]) /\ net'[e][i] = net[e][i + 1]
  <2>1. Len(net[e]) \in Nat /\ Len(net[e]) >= 1 /\ Len(net'[e]) = Len(net[e]) - 1
    BY <1>2, <1>3, TailIs
  <2>2. 1 \in 1 .. Len(net[e]) /\ Len(net'[e]) \in Nat
    BY <2>1
  <2>3. QED
    BY <1>2, <1>3, <2>2, TailIs
<1>5. Lone(net'[e])
  <2>1. SUFFICES ASSUME NEW i \in 1 .. Len(net'[e]), NEW j \in 1 .. Len(net'[e]),
                        Syn(net'[e][i]), Syn(net'[e][j])
                 PROVE  i = j
    BY DEF Lone
  <2>2. i + 1 = j + 1
    BY <1>2, <1>4, <2>1 DEF Lone
  <2>3. QED
    BY <1>4, <2>1, <2>2
<1>6. Domains'
  BY <1>1, <1>2, <1>3, <1>4, <1>5 DEF Domains
<1>7. Sends(o) = {net[e][i] : i \in 1 .. Len(net[e])} /\ Sends(o)' = {net'[e][i] : i \in 1 .. Len(net'[e])}
  BY <1>1 DEF Sends
<1>8. Sends(e)' = Sends(e)
  BY <1>3 DEF Sends
<1>9. Sends(o)' \subseteq Sends(o)
  BY <1>4, <1>7
<1>10. Head(net[e]) \in Sends(o)
  BY <1>4, <1>7
<1>11. ASSUME Syn(Head(net[e])), NEW q \in Sends(o)' PROVE ~Syn(q)
  <2>1. PICK i \in 1 .. Len(net'[e]) : q = net'[e][i]
    BY <1>7, <1>11
  <2>2. i + 1 \in 1 .. Len(net[e]) /\ q = net[e][i + 1] /\ i + 1 # 1
    BY <1>4, <2>1
  <2>3. QED
    BY <1>2, <1>4, <1>11, <2>2 DEF Lone
<1>12. QED
  BY <1>1, <1>6, <1>8, <1>9, <1>10, <1>11 DEF NoneNew


\* The control block expects the packets that the link brings, and has room for
\* the data that come next.
LEMMA PacketExpected ==
  ASSUME IInv, HalfLap, NEW e \in Peers, NEW p \in Sends(Other(e)), St(e) # "Closed"
  PROVE  Expected(conn[e].scb, p.seg)
<1> DEFINE o == Other(e)
<1>1. /\ o \in Peers /\ Other(o) = e
  BY Sides
<1>2. /\ Shape(e) /\ Shape(o) /\ Numbers(e) /\ Shaking /\ Flagged(o, p) /\ Acknowledges(o, p)
  BY <1>1 DEF IInv
<1>3. (e = "client" /\ o = "server") \/ (e = "server" /\ o = "client")
  BY DEF Peers, Other
<1>4. Syn(p) => St(e) \in {"Listen", "SynSent"}
  BY <1>2, <1>3 DEF Shaking
<1>5. St(e) = "Listen" => Syn(p) /\ ~Ack(p)
  BY <1>2, <1>3 DEF Shape, Shaking, Unanswered, Flagged
<1>6. St(e) = "SynSent" /\ Syn(p) => Ack(p)
  BY <1>2, <1>3 DEF Shape, Flagged
<1>7. St(e) = "SynRcvd" => Ack(p) /\ "SYN" \notin Owed(e)
  <2>1. SUFFICES ASSUME St(e) = "SynRcvd" PROVE Ack(p) /\ "SYN" \notin Owed(e)
    OBVIOUS
  <2>2. e = "server" /\ o = "client" /\ ~Syn(p) /\ ~Ended(e)
    BY <1>2, <1>3, <1>4, <2>1 DEF Shape, Ended, Opening
  <2>3. Ack(p)
    BY <1>1, <1>2, <2>2 DEF Flagged
  <2>4. ~Unanswered
    BY <1>2, <2>2 DEF Shaking
  <2>5. QED
    BY <1>2, <2>1, <2>2, <2>3, <2>4 DEF Numbers, Unanswered
<1>8. ASSUME St(e) \in {"SynSent", "SynRcvd"}, Ack(p)
      PROVE  LessThan(conn[e].scb.snd.UNA, p.seg.ACK) /\ LessThanEq(p.seg.ACK, conn[e].scb.snd.NXT)
  <2>1. /\ S(e) \in Nat /\ A(o, p) \in Nat /\ SeqMod \in Nat /\ p.seg.ACK \in Value
        /\ conn[e].scb.snd.UNA \in Value /\ conn[e].scb.snd.NXT \in Value
    BY <1>2, CountsIn, PacketCountsIn, SeqAssumption
       DEF Shape, Flagged, IsPkt, IsSeg, Segment, IsConn, IsBlock
  <2>2. U(e) = 0 /\ S(e) <= 1 /\ A(o, p) >= 1 /\ A(o, p) <= S(e)
    BY <1>1, <1>2, <1>8, <2>1 DEF Numbers, Acknowledges, Sync
  <2>3. 2 < SeqMod
    BY SeqAssumption, TCPLinkAssumption DEF HalfLap, ByteLimit
  <2>4. /\ 2 * U(e) < SeqMod /\ 2 * A(o, p) < SeqMod /\ 2 * S(e) < SeqMod
    BY <2>1, <2>2, <2>3
  <2>5. /\ S(e) = Num(e, conn[e].scb.snd.NXT) /\ U(e) = Num(e, conn[e].scb.snd.UNA)
        /\ A(o, p) = Num(e, p.seg.ACK)
    BY <1>1 DEF S, U, A
  <2>6. QED
    BY <2>1, <2>2, <2>4, <2>5, NumLess
<1>9. QED
  BY <1>4, <1>5, <1>6, <1>7, <1>8 DEF Expected, Syn, Ack, St, Owed

\* What arrives in order has room in the receive buffer, so rx.Write does not refuse it.
LEMMA DataFits ==
  ASSUME IInv, NEW e \in Peers, NEW p \in Sends(Other(e)), St(e) # "Closed",
         Syn(p) \/ p.seg.SEQ = conn[e].scb.rcv.NXT
  PROVE  Len(conn[e].rx) + Len(p.data) <= RxCap
<1> DEFINE o == Other(e)
<1>1. /\ o \in Peers /\ Other(o) = e
  BY Sides
<1>2. /\ Shape(e) /\ Shape(o) /\ Numbers(e) /\ Received(e) /\ Shaking /\ Flagged(o, p) /\ Carries(o, p)
  BY <1>1 DEF IInv
<1>3. PICK r, n, g, k \in Nat : /\ r = Len(conn[e].rx) /\ n = Len(p.data) /\ g = Len(got[e])
                                /\ k = K(o, p)
  <2>1. Len(conn[e].rx) \in Nat /\ Len(p.data) \in Nat /\ K(o, p) \in Nat
    BY <1>2, CountsIn, PacketCountsIn DEF Shape, Flagged
  <2>2. Len(got[e]) \in Nat
    BY <1>2 DEF Shape
  <2>3. QED
    BY <2>1, <2>2
<1>4. r <= RxCap /\ RxCap \in Nat
  <2>1. Len(conn[e].rx) <= RxCap
    BY <1>2 DEF Shape, IsConn
  <2>2. RxCap \in Nat
    BY TCPConnAssumption, SeqAssumption
  <2>3. QED
    BY <1>3, <2>1, <2>2
<1>5. CASE p.data = <<>>
  <2>1. n = 0
    BY <1>3, <1>5
  <2>2. r + n <= RxCap
    BY <1>4, <2>1
  <2>3. QED
    BY <1>3, <2>2
<1>6. CASE p.data # <<>>
  <2>1. ~Syn(p) /\ p.seg.SEQ = conn[e].scb.rcv.NXT
    BY <1>2, <1>6 DEF Flagged
  <2>2. k = R(e)
    BY <1>3, <2>1 DEF K, R
  <2>3. k >= 1 /\ k + n <= 1 + g + RxCap
    BY <1>1, <1>2, <1>3, <1>6 DEF Carries, Room
  <2>4. CASE Sync(e)
    <3>1. ~(K(o, p) < R(e))
      BY <1>3, <2>2
    <3>2. k = 1 + g + r
      BY <1>2, <1>3, <1>6, <2>2, <2>4, <3>1 DEF Received
    <3>3. r + n <= RxCap
      BY <1>4, <2>3, <3>2
    <3>4. QED
      BY <1>3, <3>3
  <2>5. CASE ~Sync(e)
    <3>1. St(e) \in {"Listen", "SynSent"}
      BY <2>5 DEF Sync
    <3>2. conn[e].rx = <<>> /\ got[e] = <<>>
      BY <1>2, <3>1 DEF Numbers, Opening
    <3>3. r = 0 /\ g = 0
      BY <1>3, <3>2
    <3>4. r + n <= RxCap
      BY <1>4, <2>3, <3>3
    <3>5. QED
      BY <1>3, <3>4
  <2>6. QED
    BY <2>4, <2>5
<1>7. QED
  BY <1>5, <1>6

\* RecvEth keeps both invariants.
LEMMA RecvEthKeeps ==
  ASSUME IInv, HalfLap, NEW e \in Peers, RecvEth(e) PROVE Kept
<1> DEFINE o == Other(e)
<1>1. o \in Peers /\ Other(o) = e /\ o # e
  BY Sides
<1>2. PICK p, res : p = Head(net[e]) /\ res = RecvPacket(conn[e], p)
  OBVIOUS
<1>3. /\ net[e] # <<>> /\ net' = [net EXCEPT ![e] = Tail(@)]
      /\ conn' = IF port[e] THEN [conn EXCEPT ![e] = IF res.err = "EOF" THEN FreshConn ELSE res.conn]
                 ELSE conn
      /\ port' = IF port[e] THEN [port EXCEPT ![e] = ~(res.err = "EOF")] ELSE port
      /\ user' = user /\ wrote' = wrote /\ got' = got
  BY <1>2 DEF RecvEth, CanRecv
<1>4. /\ DOMAIN conn = Peers /\ DOMAIN user = Peers /\ DOMAIN wrote = Peers /\ DOMAIN got = Peers
      /\ DOMAIN port = Peers
  BY DEF IInv, Domains
<1>5. /\ Domains' /\ NoneNew /\ p \in Sends(o)
      /\ Syn(p) => \A q \in Sends(o)' : ~Syn(q)
  BY <1>2, <1>3, <1>4, TailNet
<1>6. Rests(o)
  BY <1>1, <1>3, <1>4 DEF Rests
<1>7. CASE ~port[e]
  <2>1. Rests(e)
    BY <1>3, <1>7 DEF Rests
  <2>2. QED
    BY <1>5, <1>6, <2>1, RestsCalms, CalmKeeps
<1>8. CASE port[e] /\ res.err = "EOF"
  <2>1. conn'[e] = FreshConn /\ ~port'[e]
    BY <1>3, <1>4, <1>8
  <2>2. QED
    BY <1>3, <1>5, <1>6, <2>1, DroppedCalms, CalmKeeps
<1>9. CASE port[e] /\ res.err # "EOF"
  <2>1. conn'[e] = res.conn /\ port'[e] /\ port'[e] = port[e]
    BY <1>3, <1>4, <1>9
  <2>2. St(e) # "Closed"
    BY <1>2, <1>9 DEF RecvPacket, RecvResult, St, IsClosed
  <2>3. ~Unopened(e) /\ ~Unopened(e)'
    BY <1>3, <2>2, UnopenedClosed DEF Unopened
  <2>4. IsConn(conn[e]) /\ IsPkt(p)
    BY <1>1, <1>5 DEF IInv, Shape, Flagged
  <2>5. Expected(conn[e].scb, p.seg)
    BY <1>5, <2>2, PacketExpected
  <2>6. Has(p.seg, "SYN") \/ p.seg.SEQ = conn[e].scb.rcv.NXT => Len(conn[e].rx) + Len(p.data) <= RxCap
    BY <1>5, <2>2, DataFits DEF Syn
  <2>7. Alike(conn[e], conn'[e]) \/ TakesPkt(conn[e], p, conn'[e])
    BY <1>2, <1>9, <2>1, <2>4, <2>5, <2>6, RecvPacketTakes
  <2>8. CASE Alike(conn[e], conn'[e])
    BY <1>3, <1>5, <1>6, <1>9, <2>3, <2>8, AlikeCalms, CalmKeeps
  <2>9. CASE TakesPkt(conn[e], p, conn'[e])
    <3>1. Taking(e, p)
      BY <1>3, <1>5, <1>6, <2>1, <2>2, <2>3, <2>9 DEF Taking
    <3>2. QED
      BY <1>5, <3>1, TakeKeeps
  <2>10. QED
    BY <2>7, <2>8, <2>9
<1>10. QED
  BY <1>7, <1>8, <1>9


\* What sending the packet p does to the counts of e, ...
Moves(s, t) ==
  \/ t \in {s, "Closed"}
  \/ s \in {"SynRcvd", "Established"} /\ t = "FinWait1"
  \/ s = "Closing" /\ t = "TimeWait"
  \/ s = "CloseWait" /\ t = "LastAck"

SendsIn(e, p) ==
  /\ Sync(e) /\ IsPkt(p) /\ Moves(St(e), St(e)')
  /\ K(e, p) = S(e) /\ End(e, p) <= 2 + wrote[e]
  /\ Syn(p) => /\ St(e) = "SynRcvd" /\ "SYN" \in Owed(e) /\ Ack(p) /\ ~Fin(p)
  /\ ~Syn(p) /\ ~Ack(p) => Fin(p) /\ St(e) # "Established"
  /\ Fin(p) => /\ Due(e) /\ St(e)' \notin {"SynRcvd", "Established", "CloseWait"}
               /\ \/ St(e) \in {"CloseWait", "LastAck"}
                  \/ conn[e].closing /\ conn[e].tx = <<>>
  /\ St(e) # "FinWait1" /\ p.seg.WND = RxCap - Len(conn[e].rx)
  /\ St(e)' = "FinWait1" => Fin(p)
  /\ St(e) = "FinWait2" => Owed(e) # {}
  /\ Ack(p) => A(e, p) = R(e) /\ Edge(e, p) = R(e) + RxCap - Len(conn[e].rx)
  /\ St(e) # "Established" => p.data = <<>>
  /\ St(e) = "Established" => S(e) + Len(p.data) <= U(e) + Wnd(e)
  /\ p.data = SubSeq(conn[e].tx, 1, Len(p.data)) /\ Len(p.data) <= Len(conn[e].tx)
  /\ St(e)' # "Closed" =>
       /\ S(e)' = End(e, p) /\ U(e)' = U(e) /\ R(e)' = R(e) /\ Wnd(e)' = Wnd(e)
       /\ conn'[e].rx = conn[e].rx /\ "SYN" \notin Owed(e)'
       /\ conn'[e].scb.snd.ISS = conn[e].scb.snd.ISS
  /\ St(e)' = "FinWait2" => Owed(e)' = {}
  /\ conn'[e].closing => conn[e].closing
  /\ Due(e)' => Due(e) /\ ~Fin(p)
  /\ St(e)' \in {"SynRcvd", "Established"}
       => conn'[e].tx = SubSeq(conn[e].tx, Len(p.data) + 1, Len(conn[e].tx))
  /\ IsConn(conn'[e]) /\ (conn'[e].rx = conn[e].rx \/ conn'[e].rx = <<>>)

\* What sending a packet does to an end, in counts.
LEMMA SendViews ==
  ASSUME IInv, HalfLap, NEW e \in Peers, NEW p, NEW d, SendsPkt(conn[e], p, d),
         conn'[e] \in {d, FreshConn}
  PROVE  SendsIn(e, p)
<1> DEFINE o == Other(e)
           c == conn[e]
<1>1. /\ Shape(e) /\ Numbers(e) /\ Windowed(e) /\ IsConn(c) /\ IsConn(d) /\ IsPkt(p)
  BY DEF IInv, Shape, SendsPkt
<1>2. PICK u : /\ Leaves(c.scb, p.seg, u)
               /\ d.scb.state = u.state /\ d.scb.snd = u.snd /\ d.scb.rcv.NXT = u.rcv.NXT
               /\ FinDue(d.scb) => FinDue(u)
               /\ "SYN" \notin d.scb.p0
  BY DEF SendsPkt
<1>3. /\ p.seg.SEQ = c.scb.snd.NXT /\ p.seg.WND = RxCap - Len(c.rx)
      /\ p.seg.Flags = c.scb.p0 \union (IF c.scb.state = "Established" THEN {"ACK"} ELSE {})
      /\ p.seg.Flags # {} /\ c.scb.state \notin {"Closed", "Listen", "SynSent"}
      /\ "ACK" \in p.seg.Flags => p.seg.ACK = c.scb.rcv.NXT
      /\ p.data = SubSeq(c.tx, 1, Len(p.data)) /\ Len(p.data) <= Len(c.tx)
      /\ c.scb.state # "Established" => p.data = <<>>
      /\ c.scb.state = "Established" => InFlight(c.scb) + Len(p.data) <= c.scb.snd.WND
      /\ d.rx = c.rx
      /\ d.scb.state \in {"SynRcvd", "Established"}
           => d.tx = SubSeq(c.tx, Len(p.data) + 1, Len(c.tx))
  BY DEF SendsPkt
<1>4. Sync(e) /\ K(e, p) = S(e)
  BY <1>3 DEF Sync, St, K, S
<1>5. /\ S(e) \in Nat /\ U(e) \in Nat /\ R(e) \in Nat /\ Wnd(e) \in Nat
      /\ c.scb.snd.NXT \in Value /\ c.scb.snd.UNA \in Value
      /\ Len(c.tx) \in Nat /\ Len(c.rx) \in Nat /\ wrote[e] \in Nat
      /\ SegLen(p.seg) \in Nat /\ Len(p.data) \in Nat /\ RxCap \in Nat
  <2>1. SegLen(p.seg) \in Nat /\ Len(p.data) \in Nat
    BY <1>1, PacketCountsIn
  <2>2. c.scb.snd.NXT \in Value /\ c.scb.snd.UNA \in Value /\ wrote[e] \in Nat
    BY <1>1 DEF Shape, IsConn, IsBlock
  <2>3. QED
    BY <1>1, <2>1, <2>2, CountsIn, TCPConnAssumption
<1>6. c.scb.p0 \subseteq {"SYN", "ACK", "FIN"} /\ ("SYN" \in c.scb.p0 => c.scb.p0 = synack /\ St(e) = "SynRcvd")
  BY <1>1 DEF IsConn, Queued, St
<1>7. /\ Syn(p) => St(e) = "SynRcvd" /\ "SYN" \in Owed(e) /\ Ack(p) /\ ~Fin(p)
      /\ ~Syn(p) /\ ~Ack(p) => Fin(p) /\ St(e) # "Established"
  BY <1>3, <1>6 DEF Syn, Ack, Fin, Has, synack, Owed, St
<1>8. /\ Fin(p) => Due(e)
      /\ Fin(p) => St(e) \in {"CloseWait", "LastAck"} \/ (c.closing /\ c.tx = <<>>)
      /\ St(e) # "FinWait1" /\ (St(e) = "FinWait2" => Owed(e) # {})
  <2>1. Fin(p) => Due(e)
    BY <1>2 DEF Leaves, Fin, Has, Due
  <2>2. Fin(p) => "FIN" \in c.scb.p0
    BY <1>3 DEF Fin, Has
  <2>3. Fin(p) => St(e) \in {"CloseWait", "LastAck"} \/ (c.closing /\ c.tx = <<>>)
    BY <1>1, <2>1, <2>2 DEF Due, FinDue, IsConn, Sealed, OwesFin, St
  <2>4. St(e) # "FinWait1" /\ (St(e) = "FinWait2" => Owed(e) # {})
    BY <1>1, <1>3 DEF IsConn, Queued, St, Owed
  <2>5. QED
    BY <2>1, <2>3, <2>4
<1>9. St(e) = "Established" => S(e) + Len(p.data) <= U(e) + Wnd(e)
  <2>1. SUFFICES ASSUME St(e) = "Established" PROVE S(e) + Len(p.data) <= U(e) + Wnd(e)
    OBVIOUS
  <2>2. U(e) <= S(e)
    BY <1>1, <2>1 DEF Windowed
  <2>3. InFlight(c.scb) = S(e) - U(e)
    BY <1>5, <2>2, NumSize DEF InFlight, S, U
  <2>4. PICK n \in Nat : n = Len(p.data)
    BY <1>5
  <2>5. InFlight(c.scb) + n <= Wnd(e)
    BY <1>3, <2>1, <2>4 DEF St, Wnd
  <2>6. S(e) + n <= U(e) + Wnd(e)
    BY <1>5, <2>3, <2>5
  <2>7. QED
    BY <2>4, <2>6
<1>10. St(e) = "Established" => S(e) + Len(p.data) <= 1 + wrote[e]
  <2>1. PICK n, m \in Nat : n = Len(p.data) /\ m = Len(c.tx)
    BY <1>5
  <2>2. St(e) = "Established" => S(e) = 1 + wrote[e] - m /\ n <= m
    BY <1>1, <1>3, <2>1 DEF Numbers
  <2>3. St(e) = "Established" => S(e) + n <= 1 + wrote[e]
    BY <1>5, <2>2
  <2>4. QED
    BY <2>1, <2>3
<1>11. /\ End(e, p) <= 2 + wrote[e]
       /\ Due(e) /\ ~Fin(p) => End(e, p) <= 1 + wrote[e]
  <2>1. PICK n, f \in Nat : n = Len(p.data) /\ f = IF Fin(p) THEN 1 ELSE 0
    <3>1. (IF Fin(p) THEN 1 ELSE 0) \in Nat
      OBVIOUS
    <3>2. QED
      BY <1>5, <3>1
  <2>2. CASE Syn(p)
    <3>1. S(e) = 0 /\ p.data = <<>> /\ ~Fin(p)
      BY <1>1, <1>3, <1>7, <2>2 DEF Numbers, St
    <3>2. Len(p.data) = 0
      BY <3>1
    <3>3. SegLen(p.seg) = 0 + 0 + 1
      BY <1>1, <2>2, <3>1, <3>2 DEF IsPkt, Syn, Fin
    <3>4. End(e, p) = 0 + (0 + 0 + 1)
      BY <1>4, <3>1, <3>3 DEF End
    <3>5. QED
      BY <1>5, <3>4
  <2>3. CASE ~Syn(p)
    <3>1. End(e, p) = S(e) + n + f
      BY <1>1, <1>4, <2>1, <2>3, PlainEnds
    <3>2. CASE St(e) = "Established"
      <4>1. S(e) + n <= 1 + wrote[e]
        BY <1>10, <2>1, <3>2
      <4>2. f <= 1 /\ (~Fin(p) => f = 0)
        BY <2>1
      <4>3. QED
        BY <1>5, <3>1, <4>1, <4>2
    <3>3. CASE St(e) # "Established"
      <4>1. p.data = <<>>
        BY <1>3, <3>3 DEF St
      <4>2. n = 0
        BY <2>1, <4>1
      <4>3. S(e) <= 2 + wrote[e] /\ (Due(e) => S(e) <= 1 + wrote[e])
        BY <1>1, <1>4 DEF Numbers
      <4>4. f <= 1 /\ (~Fin(p) => f = 0) /\ (Fin(p) => Due(e))
        BY <1>8, <2>1
      <4>5. CASE Fin(p)
        BY <1>5, <3>1, <4>2, <4>3, <4>4, <4>5
      <4>6. CASE ~Fin(p)
        BY <1>5, <3>1, <4>2, <4>3, <4>4, <4>6
      <4>7. QED
        BY <4>5, <4>6
    <3>4. QED
      BY <3>2, <3>3
  <2>4. QED
    BY <2>2, <2>3
<1>12. Ack(p) => A(e, p) = R(e) /\ Edge(e, p) = R(e) + RxCap - Len(c.rx)
  <2>1. Ack(p) => A(e, p) = R(e)
    BY <1>3 DEF Ack, Has, A, R
  <2>2. PICK n \in Nat : n = Len(c.rx)
    BY <1>5
  <2>3. R(e) + (RxCap - n) = R(e) + RxCap - n
    BY <1>5
  <2>4. Edge(e, p) = A(e, p) + (RxCap - n)
    BY <1>3, <2>2 DEF Edge
  <2>5. QED
    BY <2>1, <2>2, <2>3, <2>4
<1>13. CASE conn'[e] = FreshConn
  <2>1. St(e)' = "Closed" /\ conn'[e].rx = <<>> /\ IsConn(conn'[e]) /\ ~Due(e)' /\ ~conn'[e].closing
    BY <1>13, FreshIs DEF St, Due, FinDue
  <2>2. QED
    BY <1>1, <1>3, <1>4, <1>7, <1>8, <1>9, <1>11, <1>12, <2>1 DEF SendsIn, Moves, St
<1>14. CASE conn'[e] = d
  <2>1. u.state = StateAfterSend(c.scb, p.seg) /\ St(e)' = u.state /\ IsBlock(u)
    BY <1>2, <1>14 DEF Leaves, St
  <2>2. Moves(St(e), St(e)')
    BY <2>1 DEF StateAfterSend, Moves, St
  <2>3. /\ Fin(p) => St(e)' \notin {"SynRcvd", "Established", "CloseWait"}
        /\ St(e)' = "FinWait1" => Fin(p)
    BY <1>8, <2>1 DEF StateAfterSend, Fin, St
  <2>4. /\ S(e)' = Num(e, Add(c.scb.snd.NXT, SegLen(p.seg)))
        /\ U(e)' = U(e) /\ R(e)' = R(e) /\ Wnd(e)' = Wnd(e)
        /\ conn'[e].scb.snd.ISS = c.scb.snd.ISS
    BY <1>2, <1>14 DEF Leaves, S, U, R, Wnd
  <2>5. S(e)' = End(e, p)
    <3>1. 2 * (ByteLimit(e) + 2) < SeqMod /\ ByteLimit(e) \in Nat /\ SeqMod \in Nat
      BY SeqAssumption, TCPLinkAssumption DEF HalfLap, ByteLimit
    <3>2. wrote[e] <= ByteLimit(e)
      BY <1>1 DEF Shape
    <3>3. End(e, p) = Num(e, c.scb.snd.NXT) + SegLen(p.seg) /\ Num(e, c.scb.snd.NXT) = S(e)
      BY <1>4 DEF End, S
    <3>4. Num(e, c.scb.snd.NXT) + SegLen(p.seg) < SeqMod
      BY <1>5, <1>11, <3>1, <3>2, <3>3
    <3>5. QED
      BY <1>5, <2>4, <3>3, <3>4, NumAdd
  <2>6. /\ conn'[e].rx = c.rx /\ "SYN" \notin Owed(e)' /\ conn'[e].closing = c.closing
        /\ St(e)' = "FinWait2" => Owed(e)' = {}
    BY <1>2, <1>3, <1>14 DEF Owed, St, SendsPkt
  <2>7. Due(e)' => Due(e) /\ ~Fin(p)
    BY <1>2, <1>14 DEF Due, Leaves, Fin, Has
  <2>8. St(e)' \in {"SynRcvd", "Established"}
          => conn'[e].tx = SubSeq(c.tx, Len(p.data) + 1, Len(c.tx))
    BY <1>3, <1>14 DEF St
  <2>9. IsConn(conn'[e])
    BY <1>1, <1>14
  <2>10. QED
    BY <1>1, <1>3, <1>4, <1>7, <1>8, <1>9, <1>11, <1>12, <2>2, <2>3, <2>4, <2>5, <2>6, <2>7, <2>8, <2>9
       DEF SendsIn, St
<1>15. QED
  BY <1>13, <1>14


\* ... a step in which it does so, ...
Sending(e, p) ==
  /\ ~Unopened(e) /\ ~Unopened(e)' /\ (user'[e] = "writing" => user[e] = "writing")
  /\ wrote'[e] = wrote[e] /\ got'[e] = got[e] /\ Rests(Other(e))
  /\ port[e]
  /\ port'[e] => conn'[e].rx = conn[e].rx /\ conn'[e].closing = conn[e].closing
  /\ Sends(e)' \subseteq Sends(e) \union {p} /\ Sends(Other(e))' \subseteq Sends(Other(e))

\* ... and what holds then, whatever the state.
SentIs(e, p) ==
  LET o == Other(e)
  IN  /\ Unmoved(o) /\ wrote'[o] = wrote[o] /\ got'[o] = got[o] /\ conn'[o] = conn[o] /\ user'[o] = user[o]
      /\ wrote'[e] = wrote[e] /\ got'[e] = got[e] /\ (user'[e] = "writing" => user[e] = "writing")
      /\ Room(e)' = Room(e) /\ ~Unopened(e) /\ ~Unopened(e)'
      /\ Sends(e)' \subseteq Sends(e) \union {p} /\ Sends(o)' \subseteq Sends(o)
      /\ SendsIn(e, p)
      /\ Ended(e) => Ended(e)' /\ p.data = <<>>
      /\ Fin(p) => Ended(e)'
      /\ Sync(e)' => S(e) <= S(e)'
      /\ St(e) \notin {"Closed", "Listen", "SynSent"} /\ St(e)' \notin {"Listen", "SynSent"}
      /\ St(e)' = "SynRcvd" => St(e) = "SynRcvd"
      /\ St(e)' = "Established" => St(e) = "Established"
      /\ St(e)' \in {"CloseWait", "LastAck"} => St(e) \in {"CloseWait", "LastAck"}
      /\ S(e) \in Nat /\ U(e) \in Nat /\ R(e) \in Nat /\ Wnd(e) \in Nat
      /\ K(e, p) \in Nat /\ End(e, p) \in Nat /\ K(e, p) <= End(e, p)
      /\ p.data # <<>> => K(e, p) < End(e, p)
      /\ p.data # <<>> => S(e) >= 1

\* What the invariant adds to that: how the new packet lies to both ends.
LEMMA SentFacts ==
  ASSUME IInv, NEW e \in Peers, NEW p, Sending(e, p), SendsIn(e, p)
  PROVE  SentIs(e, p)
<1> DEFINE o == Other(e)
<1>1. /\ Unmoved(o) /\ wrote'[o] = wrote[o] /\ got'[o] = got[o] /\ conn'[o] = conn[o] /\ user'[o] = user[o]
      /\ Room(e)' = Room(e)
  BY RestsUnmoved DEF Sending, Rests, Room
<1>2. /\ S(e) \in Nat /\ U(e) \in Nat /\ R(e) \in Nat /\ Wnd(e) \in Nat /\ Windowed(e)
  BY CountsIn DEF IInv, Shape
<1>3. /\ K(e, p) \in Nat /\ End(e, p) \in Nat /\ K(e, p) <= End(e, p)
      /\ p.data # <<>> => K(e, p) < End(e, p)
  <2>1. IsPkt(p)
    BY DEF SendsIn
  <2>2. PICK n, l, k \in Nat : n = Len(p.data) /\ l = SegLen(p.seg) /\ k = K(e, p)
    BY <2>1, PacketCountsIn
  <2>3. n <= l /\ (p.data # <<>> => n > 0)
    BY <2>1, <2>2, PacketCountsIn
  <2>4. End(e, p) = k + l
    BY <2>2 DEF End
  <2>5. QED
    BY <2>2, <2>3, <2>4
<1>4. /\ Moves(St(e), St(e)') /\ Sync(e)
      /\ Fin(p) => Due(e) /\ St(e)' \notin {"SynRcvd", "Established"}
      /\ St(e) # "Established" => p.data = <<>>
      /\ K(e, p) = S(e)
  BY DEF SendsIn
<1>5. /\ St(e) \notin {"Closed", "Listen", "SynSent"} /\ St(e)' \notin {"Listen", "SynSent"}
      /\ St(e)' = "SynRcvd" => St(e) = "SynRcvd"
      /\ St(e)' = "Established" => St(e) = "Established"
      /\ St(e)' \in {"CloseWait", "LastAck"} => St(e) \in {"CloseWait", "LastAck"}
  BY <1>4 DEF Moves, Sync
<1>6. /\ Ended(e) => Ended(e)' /\ p.data = <<>>
      /\ Fin(p) => Ended(e)'
  BY <1>4, <1>5 DEF Sending, Ended, Opening, Moves
<1>7. Sync(e)' => S(e) <= S(e)'
  BY <1>3, <1>4 DEF SendsIn, Sync
<1>8. p.data # <<>> => S(e) >= 1
  <2>1. p.data # <<>> => U(e) >= 1 /\ U(e) <= S(e)
    BY <1>2, <1>4 DEF Windowed
  <2>2. QED
    BY <1>2, <2>1
<1>9. QED
  BY <1>1, <1>2, <1>3, <1>4, <1>5, <1>6, <1>7, <1>8 DEF SentIs, Sending

\* The new packet: it carries what comes next, acknowledges all there is to
\* acknowledge and is later than every other.
LEMMA SentPacket ==
  ASSUME IInv, NEW e \in Peers, NEW p, SentIs(e, p)
  PROVE  Flagged(e, p)' /\ Carries(e, p)' /\ Acknowledges(e, p)'
<1> DEFINE o == Other(e)
<1>1. /\ o \in Peers /\ Other(o) = e
  BY Sides
<1>2. /\ Shape(e) /\ Shape(o) /\ Numbers(e) /\ Received(e) /\ Windowed(e)
  BY <1>1 DEF IInv
<1>3. /\ SendsIn(e, p) /\ Unmoved(o) /\ wrote'[o] = wrote[o] /\ wrote'[e] = wrote[e] /\ Sync(e)
      /\ IsPkt(p) /\ Room(e)' = Room(e)
  BY DEF SentIs, SendsIn
<1>4. Flagged(e, p)'
  <2>1. Syn(p) => K(e, p) = 0 /\ p.data = <<>> /\ ~Fin(p) /\ Ack(p) /\ e = "server"
    BY <1>2, <1>3 DEF SendsIn, Numbers, Shape
  <2>2. ASSUME ~Syn(p), ~Ack(p) PROVE Fin(p) /\ (e = "server" \/ Ended(o))
    <3>1. Fin(p) /\ Due(e) /\ St(e) # "Established"
      <4>1. Fin(p) /\ Due(e)
        BY <1>3, <2>2 DEF SendsIn
      <4>2. QED
        BY <1>3, <2>2, <4>1 DEF SendsIn
    <3>2. St(e) \in {"SynRcvd", "CloseWait", "LastAck"}
      BY <3>1 DEF Due, FinDue, St
    <3>3. QED
      BY <1>2, <3>1, <3>2 DEF Shape, Received, Peers
  <2>3. (Fin(p) => Ended(e)') /\ ~Unopened(e)' /\ Ended(o)' = Ended(o)
    BY <1>3 DEF SentIs, Unmoved
  <2>4. QED
    BY <1>3, <2>1, <2>2, <2>3 DEF Flagged
<1>5. Carries(e, p)'
  <2>1. PICK n, m, w, s \in Nat : /\ n = Len(p.data) /\ m = Len(conn[e].tx) /\ w = wrote[e] /\ s = S(e)
    <3>1. Len(p.data) \in Nat /\ Len(conn[e].tx) \in Nat /\ wrote[e] \in Nat /\ S(e) \in Nat
      BY <1>2, <1>3, CountsIn, PacketCountsIn DEF Shape
    <3>2. QED
      BY <3>1
  <2>2. K(e, p) = s /\ n <= m
    BY <1>3, <2>1 DEF SendsIn
  <2>3. p.data # <<>> =>
          /\ s >= 1 /\ s = 1 + w - m /\ s + n <= U(e) + Wnd(e) /\ U(e) + Wnd(e) <= Room(o)
          /\ St(e) = "Established"
    <3>1. p.data # <<>> => St(e) = "Established" /\ s >= 1
      BY <1>3, <2>1 DEF SendsIn, SentIs
    <3>2. QED
      BY <1>2, <1>3, <2>1, <3>1 DEF SendsIn, Numbers, Windowed
  <2>4. p.data # <<>> => s >= 1 /\ s + n <= 1 + w /\ s + n <= Room(o)
    <3>1. U(e) \in Nat /\ Wnd(e) \in Nat
      BY DEF SentIs
    <3>2. Room(o) \in Int
      <4>1. PICK g \in Nat : g = Len(got[o])
        BY <1>2 DEF Shape
      <4>2. Room(o) = 1 + g + RxCap /\ RxCap \in Nat
        BY <4>1, TCPConnAssumption DEF Room
      <4>3. QED
        BY <4>1, <4>2
    <3>3. PICK r, v \in Int : r = Room(o) /\ v = U(e) + Wnd(e)
      BY <3>1, <3>2
    <3>4. p.data # <<>> => s >= 1 /\ s = 1 + w - m /\ s + n <= v /\ v <= r
      BY <2>3, <3>3
    <3>5. p.data # <<>> => s >= 1 /\ s + n <= 1 + w /\ s + n <= r
      BY <2>2, <3>4
    <3>6. QED
      BY <3>3, <3>5
  <2>5. ASSUME NEW j \in 1 .. Len(p.data) PROVE p.data[j] = K(e, p) - 1 + j
    <3>1. p.data # <<>> /\ j \in 1 .. n
      BY <2>1, <2>5
    <3>2. j \in 1 .. m /\ j \in Int
      BY <2>1, <2>2, <3>1
    <3>3. conn[e].tx[j] = w - m + j
      BY <1>2, <2>1, <2>3, <3>1, <3>2 DEF Numbers
    <3>4. p.data[j] = conn[e].tx[j]
      <4>1. p.data = SubSeq(conn[e].tx, 1, n) /\ conn[e].tx \in Seq(Int) /\ m = Len(conn[e].tx)
        BY <1>2, <1>3, <2>1 DEF SendsIn, Shape, IsConn
      <4>2. n \in 0 .. Len(conn[e].tx)
        BY <2>1, <2>2
      <4>3. QED
        BY <2>1, <3>1, <4>1, <4>2
    <3>5. s - 1 + j = w - m + j
      BY <2>1, <2>3, <3>1, <3>2
    <3>6. QED
      BY <2>2, <3>3, <3>4, <3>5
  <2>6. End(e, p) <= 2 + wrote[e] /\ (Sync(e)' => End(e, p) <= S(e)')
    <3>1. Sync(e)' => S(e)' = End(e, p)
      BY <1>3 DEF SendsIn, Sync
    <3>2. QED
      BY <1>3, <3>1 DEF SendsIn, SentIs
  <2>7. Room(o)' = Room(o)
    BY <1>3 DEF Unmoved
  <2>8. QED
    BY <1>3, <2>1, <2>2, <2>4, <2>5, <2>6, <2>7 DEF Carries
<1>6. Acknowledges(e, p)'
  <2>1. SUFFICES ASSUME Ack(p) PROVE Acknowledges(e, p)'
    BY DEF Acknowledges
  <2>2. PICK r, n, g \in Nat : r = R(e) /\ n = Len(conn[e].rx) /\ g = Len(got[e])
    <3>1. R(e) \in Nat /\ Len(conn[e].rx) \in Nat
      BY <1>2, CountsIn DEF Shape
    <3>2. Len(got[e]) \in Nat
      BY <1>2 DEF Shape
    <3>3. QED
      BY <3>1, <3>2
  <2>3. A(e, p) = r /\ Edge(e, p) = r + RxCap - n
    BY <1>3, <2>1, <2>2 DEF SendsIn
  <2>4. /\ r >= 1 /\ r <= 2 + wrote[o] /\ (Sync(o) \/ St(o) = "SynSent" => r <= S(o))
        /\ ~Ended(o) => r = 1 + g + n
    BY <1>2, <1>3, <2>2 DEF Received
  <2>5. ~Ended(o) => r + RxCap - n <= 1 + g + RxCap
    BY <2>2, <2>4, TCPConnAssumption
  <2>6. Sync(e)' => R(e)' = r /\ Len(conn'[e].rx) = n
    BY <1>3, <2>2 DEF SendsIn, Sync
  <2>7. Room(e)' = 1 + g + RxCap
    BY <1>3, <2>2 DEF Room
  <2>8. r <= r /\ r + RxCap - n <= r + RxCap - n
    BY <2>2, TCPConnAssumption
  <2>9. QED
    BY <1>3, <2>3, <2>4, <2>5, <2>6, <2>7, <2>8 DEF Acknowledges, Unmoved
<1>7. QED
  BY <1>4, <1>5, <1>6

\* A new packet is paired with each that its end sent before.
LEMMA SentPairs ==
  ASSUME IInv, NEW e \in Peers, NEW p, SentIs(e, p)
  PROVE  /\ Paired(e, p, p)
         /\ \A q \in Sends(e) : Paired(e, p, q) /\ Paired(e, q, p)
<1>1. /\ K(e, p) = S(e) /\ Sync(e) /\ IsPkt(p)
      /\ Ack(p) => A(e, p) = R(e) /\ Edge(e, p) = R(e) + RxCap - Len(conn[e].rx)
      /\ p.data # <<>> => St(e) = "Established"
      /\ K(e, p) \in Nat /\ End(e, p) \in Nat /\ K(e, p) <= End(e, p)
      /\ p.data # <<>> => K(e, p) < End(e, p)
  BY DEF SentIs, SendsIn
<1>2. Paired(e, p, p)
  <2>1. A(e, p) \in Nat /\ Edge(e, p) \in Nat
    BY <1>1, PacketCountsIn
  <2>2. QED
    BY <1>1, <2>1 DEF Paired, Newer
<1>3. ASSUME NEW q \in Sends(e) PROVE Paired(e, p, q) /\ Paired(e, q, p)
  <2>1. Flagged(e, q) /\ Carries(e, q) /\ Acknowledges(e, q)
    BY <1>3 DEF IInv
  <2>2. End(e, q) <= K(e, p)
    BY <1>1, <2>1 DEF Carries
  <2>3. Ack(p) /\ Ack(q) => Newer(e, p, q)
    BY <1>1, <2>1 DEF Acknowledges, Newer
  <2>4. q.data # <<>> => K(e, q) < End(e, p) /\ ~(End(e, p) <= K(e, q))
    <3>1. PICK k, l, n \in Nat : k = K(e, q) /\ l = SegLen(q.seg) /\ n = Len(q.data)
      BY <2>1, PacketCountsIn DEF Flagged
    <3>2. q.data # <<>> => l > 0
      <4>1. n <= l /\ (q.data # <<>> => n > 0)
        BY <2>1, <3>1, PacketCountsIn DEF Flagged
      <4>2. QED
        BY <3>1, <4>1
    <3>3. k + l <= K(e, p)
      BY <2>2, <3>1 DEF End
    <3>4. q.data # <<>> => k < End(e, p) /\ ~(End(e, p) <= k)
      BY <1>1, <3>1, <3>2, <3>3
    <3>5. QED
      BY <3>1, <3>4
  <2>5. p.data # <<>> => ~Fin(q)
    BY <1>1, <2>1 DEF Flagged, Ended
  <2>6. QED
    BY <2>3, <2>4, <2>5 DEF Paired
<1>4. QED
  BY <1>2, <1>3


\* The sender: what is left in tx follows what was sent.
LEMMA SentOwn ==
  ASSUME IInv, NEW e \in Peers, NEW p, SentIs(e, p)
  PROVE  Shape(e)' /\ Numbers(e)'
<1>1. Shape(e) /\ Numbers(e) /\ SendsIn(e, p)
  BY DEF IInv, SentIs
<1>2. Shape(e)'
  BY <1>1 DEF Shape, SentIs, SendsIn
<1>3. /\ wrote'[e] = wrote[e] /\ got'[e] = got[e]
      /\ St(e)' \notin {"Listen", "SynSent"}
      /\ St(e)' = "SynRcvd" => St(e) = "SynRcvd"
      /\ St(e)' = "Established" => St(e) = "Established"
  BY DEF SentIs
<1>4. /\ St(e)' # "Closed" =>
           /\ S(e)' = End(e, p) /\ U(e)' = U(e) /\ conn'[e].rx = conn[e].rx /\ "SYN" \notin Owed(e)'
      /\ Due(e)' => Due(e) /\ ~Fin(p)
      /\ K(e, p) = S(e) /\ End(e, p) <= 2 + wrote[e]
      /\ St(e)' \in {"SynRcvd", "Established"} => ~Fin(p)
      /\ St(e) # "Established" => p.data = <<>>
  BY <1>1 DEF SendsIn
<1>5. PICK n, m, w, s \in Nat : n = Len(p.data) /\ m = Len(conn[e].tx) /\ w = wrote[e] /\ s = S(e)
  <2>1. Len(p.data) \in Nat /\ Len(conn[e].tx) \in Nat /\ wrote[e] \in Nat /\ S(e) \in Nat
    BY <1>1, CountsIn, PacketCountsIn DEF Shape, SendsIn
  <2>2. QED
    BY <2>1
<1>6. conn[e].tx \in Seq(Int) /\ n <= m
  BY <1>1, <1>5 DEF Shape, IsConn, SendsIn
<1>7. p.data = <<>> => n = 0
  BY <1>5
\* Without a FIN the number of octets sent grows by those of the data, or by the SYN.
<1>8. /\ ~Fin(p) /\ ~Syn(p) => End(e, p) = s + n
      /\ Syn(p) => End(e, p) = 1 /\ s = 0
  <2>1. Syn(p) => St(e) = "SynRcvd" /\ "SYN" \in Owed(e) /\ ~Fin(p) /\ p.data = <<>>
    BY <1>1 DEF SendsIn
  <2>2. Syn(p) => S(e) = 0
    BY <1>1, <2>1 DEF Numbers
  <2>3. Syn(p) => End(e, p) = 1
    <3>1. Syn(p) => SegLen(p.seg) = 0 + 0 + 1
      <4>1. Syn(p) => Len(p.data) = 0
        BY <1>5, <1>7, <2>1
      <4>2. QED
        BY <1>1, <2>1, <4>1 DEF SendsIn, IsPkt, Syn, Fin
    <3>2. Syn(p) => End(e, p) = 0 + (0 + 0 + 1)
      BY <1>4, <2>2, <3>1 DEF End
    <3>3. QED
      BY <3>2
  <2>4. ~Fin(p) /\ ~Syn(p) => End(e, p) = s + n + 0
    BY <1>1, <1>4, <1>5, PlainEnds DEF SendsIn
  <2>5. QED
    BY <1>5, <2>2, <2>3, <2>4
<1>9. CASE St(e)' = "SynRcvd"
  <2>1. /\ St(e) = "SynRcvd" /\ ~Fin(p) /\ p.data = <<>> /\ n = 0
    BY <1>3, <1>4, <1>7, <1>9
  <2>2. /\ U(e) = 0 /\ s \in {0, 1} /\ m = w /\ conn[e].rx = <<>> /\ got[e] = <<>>
        /\ \A i \in 1 .. Len(conn[e].tx) : conn[e].tx[i] = wrote[e] - Len(conn[e].tx) + i
    BY <1>1, <1>5, <2>1 DEF Numbers, Opening
  <2>3. S(e)' \in {0, 1}
    <3>1. S(e)' = End(e, p)
      BY <1>4, <1>9
    <3>2. QED
      BY <1>5, <1>8, <2>1, <2>2, <3>1
  <2>4. conn'[e].tx = conn[e].tx
    <3>1. conn'[e].tx = SubSeq(conn[e].tx, n + 1, Len(conn[e].tx))
      BY <1>1, <1>5, <1>9 DEF SendsIn
    <3>2. SubSeq(conn[e].tx, 1, Len(conn[e].tx)) = conn[e].tx
      BY <1>6
    <3>3. n + 1 = 1
      BY <2>1
    <3>4. QED
      BY <3>1, <3>2, <3>3
  <2>5. Len(conn'[e].tx) = wrote[e]
    BY <1>5, <2>2, <2>4
  <2>6. /\ U(e)' = 0 /\ conn'[e].rx = <<>> /\ "SYN" \notin Owed(e)'
    BY <1>4, <1>9, <2>2
  <2>7. S(e)' <= 1 + wrote[e]
    BY <1>5, <2>3
  <2>8. S(e)' <= 2 + wrote[e]
    BY <1>5, <2>3
  <2>9. QED
    BY <1>2, <1>3, <1>9, <2>2, <2>3, <2>4, <2>5, <2>6, <2>7, <2>8 DEF Numbers, Opening
<1>10. CASE St(e)' = "Established"
  <2>1. St(e) = "Established" /\ ~Fin(p) /\ ~Syn(p) /\ S(e)' = s + n
    BY <1>1, <1>3, <1>4, <1>8, <1>10 DEF SendsIn
  <2>2. /\ s = 1 + w - m
        /\ \A i \in 1 .. Len(conn[e].tx) : conn[e].tx[i] = w - m + i
    BY <1>1, <1>5, <2>1 DEF Numbers
  <2>3. conn'[e].tx = SubSeq(conn[e].tx, n + 1, Len(conn[e].tx))
    BY <1>1, <1>5, <1>10 DEF SendsIn
  <2>4. /\ Len(conn'[e].tx) = m - n
        /\ \A i \in 1 .. m - n : conn'[e].tx[i] = conn[e].tx[n + i]
    <3>1. n \in 0 .. Len(conn[e].tx)
      BY <1>5, <1>6
    <3>2. /\ Len(SubSeq(conn[e].tx, n + 1, Len(conn[e].tx))) = Len(conn[e].tx) - n
          /\ \A i \in 1 .. Len(conn[e].tx) - n :
               SubSeq(conn[e].tx, n + 1, Len(conn[e].tx))[i] = conn[e].tx[n + i]
      BY <1>6, <3>1
    <3>3. QED
      BY <1>5, <2>3, <3>2
  <2>5. S(e)' = 1 + wrote[e] - Len(conn'[e].tx)
    <3>1. s + n = 1 + w - (m - n)
      BY <1>6, <2>2
    <3>2. QED
      BY <1>5, <2>1, <2>4, <3>1
  <2>6. ASSUME NEW i \in 1 .. Len(conn'[e].tx)
        PROVE  conn'[e].tx[i] = wrote[e] - Len(conn'[e].tx) + i
    <3>1. i \in 1 .. m - n /\ i \in Int
      BY <2>4, <2>6
    <3>2. n + i \in 1 .. m
      BY <1>6, <3>1
    <3>3. conn'[e].tx[i] = w - m + (n + i)
      BY <1>5, <2>2, <2>4, <3>1, <3>2
    <3>4. w - m + (n + i) = w - (m - n) + i
      BY <3>1
    <3>5. QED
      BY <1>5, <2>4, <3>3, <3>4
  <2>7. S(e)' <= 1 + wrote[e] /\ S(e)' <= 2 + wrote[e]
    <3>1. s + n <= 1 + w /\ s + n <= 2 + w
      BY <1>6, <2>2
    <3>2. QED
      BY <1>5, <2>1, <3>1
  <2>8. QED
    BY <1>2, <1>3, <1>10, <2>5, <2>6, <2>7 DEF Numbers, Opening
<1>11. CASE St(e)' \notin {"SynRcvd", "Established"}
  <2>1. Sync(e)' => S(e)' <= 2 + wrote[e]
    BY <1>4 DEF Sync
  <2>2. Due(e)' => S(e)' <= 1 + wrote[e]
    <3>1. SUFFICES ASSUME Due(e)' PROVE S(e)' <= 1 + wrote[e]
      OBVIOUS
    <3>2. St(e)' # "Closed"
      BY <3>1 DEF Due, FinDue, St
    <3>3. S(e)' = End(e, p) /\ Due(e) /\ ~Fin(p) /\ s <= 1 + w
      BY <1>1, <1>4, <1>5, <3>1, <3>2 DEF Numbers
    <3>4. CASE St(e) = "Established"
      <4>1. s = 1 + w - m
        BY <1>1, <1>5, <3>4 DEF Numbers
      <4>2. ~Syn(p)
        BY <1>1, <3>4 DEF SendsIn
      <4>3. s + n <= 1 + w
        BY <1>6, <4>1
      <4>4. QED
        BY <1>5, <1>8, <3>3, <4>2, <4>3
    <3>5. CASE St(e) # "Established"
      <4>1. n = 0
        BY <1>4, <1>7, <3>5
      <4>2. End(e, p) \in {s + n, 1}
        BY <1>8, <3>3
      <4>3. End(e, p) <= 1 + w
        BY <3>3, <4>1, <4>2
      <4>4. QED
        BY <1>5, <3>3, <4>3
    <3>6. QED
      BY <3>4, <3>5
  <2>3. QED
    BY <1>2, <1>3, <1>11, <2>1, <2>2 DEF Numbers, Opening
<1>12. QED
  BY <1>9, <1>10, <1>11

\* Sending a packet keeps what both ends have received.
LEMMA SentReceived ==
  ASSUME IInv, NEW e \in Peers, NEW p, SentIs(e, p)
  PROVE  Received(e)' /\ Received(Other(e))'
<1> DEFINE o == Other(e)
<1>1. /\ o \in Peers /\ Other(o) = e
  BY Sides
<1>2. Received(e) /\ Received(o) /\ Shape(o)
  BY <1>1 DEF IInv
<1>3. /\ Unmoved(o) /\ wrote'[o] = wrote[o] /\ wrote'[e] = wrote[e] /\ got'[e] = got[e] /\ got'[o] = got[o]
      /\ conn'[o] = conn[o] /\ Sends(o)' \subseteq Sends(o) /\ Sends(e)' \subseteq Sends(e) \union {p}
      /\ (Ended(e) => Ended(e)' /\ p.data = <<>>) /\ ~Unopened(e)'
      /\ (Sync(e)' => S(e) <= S(e)') /\ S(e) \in Nat /\ Sync(e)
      /\ St(e)' # "SynSent"
      /\ St(e)' \in {"CloseWait", "LastAck"} => St(e) \in {"CloseWait", "LastAck"}
      /\ Sync(e)' => U(e)' = U(e) /\ R(e)' = R(e) /\ conn'[e].rx = conn[e].rx
  BY DEF SentIs, SendsIn, Sync
<1>4. Received(e)'
  BY <1>1, <1>2, <1>3 DEF Received, Unmoved
<1>5. Sync(o) /\ Sync(e)' => R(o) <= S(e)'
  <2>1. Sync(o) => R(o) <= S(e) /\ R(o) \in Nat
    BY <1>1, <1>2, <1>3, CountsIn DEF Received, Shape
  <2>2. Sync(e)' => S(e)' \in Nat
    <3>1. Sync(e)' => S(e)' = End(e, p)
      BY DEF SentIs, SendsIn, Sync
    <3>2. QED
      BY <3>1 DEF SentIs
  <2>3. QED
    BY <1>3, <2>1, <2>2
<1>6. ASSUME Sync(o), R(o) # 1 + Len(got[o]) + Len(conn[o].rx)
      PROVE  Ended(e)' /\ \A q \in Sends(e)' : q.data # <<>> => K(e, q) < R(o)
  <2>1. Ended(e) /\ \A q \in Sends(e) : q.data # <<>> => K(e, q) < R(o)
    BY <1>1, <1>2, <1>6 DEF Received
  <2>2. QED
    BY <1>3, <2>1
<1>7. Received(o)'
  BY <1>1, <1>2, <1>3, <1>5, <1>6 DEF Received, Unmoved
<1>8. QED
  BY <1>4, <1>7

\* Sending a packet leaves both ends within the windows offered to them.
LEMMA SentWindowed ==
  ASSUME IInv, NEW e \in Peers, NEW p, SentIs(e, p)
  PROVE  Windowed(e)' /\ Windowed(Other(e))'
<1> DEFINE o == Other(e)
<1>1. /\ o \in Peers /\ Other(o) = e
  BY Sides
<1>2. Windowed(e) /\ Windowed(o) /\ Received(e) /\ Shape(e) /\ Shape(o)
  BY <1>1 DEF IInv
<1>3. /\ Unmoved(o) /\ Room(e)' = Room(e) /\ got'[e] = got[e] /\ Sync(e)
      /\ Sends(o)' \subseteq Sends(o) /\ Sends(e)' \subseteq Sends(e) \union {p}
      /\ St(e)' = "Established" => St(e) = "Established"
  BY DEF SentIs, SendsIn
<1>4. Windowed(e)'
  <2>1. SUFFICES ASSUME St(e)' = "Established"
                 PROVE  Windowed(e)'
    BY DEF Windowed
  <2>2. /\ St(e) = "Established" /\ U(e)' = U(e) /\ R(e)' = R(e) /\ Wnd(e)' = Wnd(e)
        /\ S(e)' = End(e, p) /\ ~Fin(p) /\ ~Syn(p) /\ IsPkt(p) /\ K(e, p) = S(e)
        /\ S(e) + Len(p.data) <= U(e) + Wnd(e)
    BY <1>3, <2>1 DEF SentIs, SendsIn
  <2>3. PICK n, s \in Nat : n = Len(p.data) /\ s = S(e)
    BY <2>2, PacketCountsIn DEF SentIs
  <2>4. End(e, p) = s + n + 0
    BY <2>2, <2>3, PlainEnds
  <2>5. U(e) <= s /\ U(e) \in Nat /\ s + n <= U(e) + Wnd(e)
    BY <1>2, <2>2, <2>3 DEF Windowed, SentIs
  <2>6. U(e) <= S(e)' /\ S(e)' <= U(e) + Wnd(e)
    <3>1. U(e) <= s + n + 0 /\ s + n + 0 <= U(e) + Wnd(e)
      BY <2>5 DEF SentIs
    <3>2. QED
      BY <2>2, <2>4, <3>1
  <2>7. \A q \in Sends(o)' : Widens(e, q)'
    BY <1>2, <1>3, <2>2 DEF Windowed, Widens
  <2>8. Room(o)' = Room(o) /\ U(e) >= 1 /\ U(e) + Wnd(e) <= Room(o)
    BY <1>2, <1>3, <2>2 DEF Windowed, Unmoved
  <2>9. QED
    BY <2>2, <2>6, <2>7, <2>8 DEF Windowed
<1>5. Windowed(o)'
  <2>1. SUFFICES ASSUME St(o) = "Established" PROVE Windowed(o)'
    BY <1>3 DEF Windowed, Unmoved
  <2>2. Sync(o) /\ ~Ended(o)
    BY <2>1 DEF Sync, Ended, Opening
  <2>3. /\ U(o) >= 1 /\ U(o) <= S(o)
        /\ S(o) <= U(o) + Wnd(o) /\ U(o) + Wnd(o) <= Room(e)
        /\ \A q \in Sends(e) : Widens(o, q)
    BY <1>1, <1>2, <2>1 DEF Windowed
  <2>4. Widens(o, p)
    <3>1. SUFFICES ASSUME Ack(p)
                   PROVE  A(e, p) >= U(o) /\ Edge(e, p) >= U(o) + Wnd(o)
      BY <1>1 DEF Widens
    <3>2. PICK r, n, g \in Nat : r = R(e) /\ n = Len(conn[e].rx) /\ g = Len(got[e])
      <4>1. R(e) \in Nat /\ Len(conn[e].rx) \in Nat
        BY <1>2, CountsIn DEF Shape
      <4>2. Len(got[e]) \in Nat
        BY <1>2 DEF Shape
      <4>3. QED
        BY <4>1, <4>2
    <3>3. A(e, p) = r /\ Edge(e, p) = r + RxCap - n
      BY <3>1, <3>2 DEF SentIs, SendsIn
    <3>4. r = 1 + g + n /\ U(o) <= r
      BY <1>2, <1>3, <2>2, <3>2 DEF Received
    <3>5. Room(e) = r + RxCap - n
      <4>1. Room(e) = 1 + g + RxCap
        BY <3>2 DEF Room
      <4>2. QED
        BY <3>4, <4>1, TCPConnAssumption
    <3>6. U(o) \in Nat /\ Wnd(o) \in Nat /\ RxCap \in Nat
      BY <1>1, <1>2, CountsIn, TCPConnAssumption DEF Shape
    <3>7. QED
      BY <2>3, <3>2, <3>3, <3>4, <3>5, <3>6
  <2>5. \A q \in Sends(e)' : Widens(o, q)'
    <3>1. \A q \in Sends(e)' : Widens(o, q)
      BY <1>3, <2>3, <2>4
    <3>2. U(o)' = U(o) /\ R(o)' = R(o) /\ Wnd(o)' = Wnd(o)
      BY <1>3 DEF Unmoved
    <3>3. QED
      BY <3>1, <3>2 DEF Widens
  <2>6. QED
    BY <1>1, <1>3, <2>3, <2>5 DEF Windowed, Unmoved
<1>6. QED
  BY <1>4, <1>5

\* The packets that were under way before.
LEMMA SentOld ==
  ASSUME IInv, NEW e \in Peers, NEW p, SentIs(e, p), NEW x \in Peers, NEW q \in Sends(x)
  PROVE  Flagged(x, q)' /\ Carries(x, q)' /\ Acknowledges(x, q)'
<1> DEFINE o == Other(e)
<1>1. /\ o \in Peers /\ Other(o) = e /\ (x = e \/ x = o)
  BY Sides
<1>2. /\ Flagged(x, q) /\ Carries(x, q) /\ Acknowledges(x, q)
  BY DEF IInv
<1>3. /\ Unmoved(o) /\ wrote'[o] = wrote[o] /\ wrote'[e] = wrote[e] /\ Room(e)' = Room(e)
      /\ ~Unopened(e) /\ ~Unopened(e)' /\ (Ended(e) => Ended(e)') /\ Sync(e) /\ conn'[o] = conn[o]
      /\ S(e) \in Nat /\ End(e, p) \in Nat /\ St(e)' # "SynSent"
      /\ Sync(e)' => /\ S(e)' = End(e, p) /\ S(e) <= S(e)' /\ R(e)' = R(e)
                     /\ conn'[e].rx = conn[e].rx
  BY DEF SentIs, SendsIn, Sync
<1>4. Flagged(x, q)'
  BY <1>1, <1>2, <1>3 DEF Flagged, Unmoved
<1>5. End(x, q) \in Nat /\ A(x, q) \in Nat
  BY <1>2, PacketCountsIn DEF Flagged
<1>6. Carries(x, q)'
  <2>1. CASE x = o
    BY <1>1, <1>2, <1>3, <2>1 DEF Carries, Unmoved
  <2>2. CASE x = e
    <3>1. Sync(e)' => End(e, q) <= S(e)'
      <4>1. End(e, q) <= S(e)
        BY <1>2, <1>3, <2>2 DEF Carries
      <4>2. QED
        BY <1>3, <1>5, <2>2, <4>1
    <3>2. QED
      BY <1>1, <1>2, <1>3, <2>2, <3>1 DEF Carries, Unmoved
  <2>3. QED
    BY <1>1, <2>1, <2>2
<1>7. Acknowledges(x, q)'
  <2>1. CASE x = e
    BY <1>1, <1>2, <1>3, <2>1 DEF Acknowledges, Unmoved
  <2>2. CASE x = o
    <3>1. Ack(q) => (Sync(e)' => A(o, q) <= S(e)')
      <4>1. Ack(q) => A(o, q) <= S(e)
        BY <1>1, <1>2, <1>3, <2>2 DEF Acknowledges
      <4>2. QED
        BY <1>3, <1>5, <2>2, <4>1
    <3>2. QED
      BY <1>1, <1>2, <1>3, <2>2, <3>1 DEF Acknowledges, Unmoved
  <2>3. QED
    BY <1>1, <2>1, <2>2
<1>8. QED
  BY <1>4, <1>6, <1>7

\* Sending a packet keeps the handshake in step.
LEMMA SentShaking ==
  ASSUME IInv, NEW e \in Peers, NEW p, SentIs(e, p)
  PROVE  Shaking'
<1> DEFINE o == Other(e)
<1>1. Shaking /\ Shape(e) /\ Shape("client")
  BY DEF IInv, Peers
<1>2. /\ Unmoved(o) /\ ~Unopened(e) /\ ~Unopened(e)' /\ Sync(e) /\ Moves(St(e), St(e)')
      /\ St(e) \notin {"Closed", "Listen", "SynSent"} /\ St(e)' \notin {"Listen", "SynSent"}
      /\ Sends(o)' \subseteq Sends(o) /\ Sends(e)' \subseteq Sends(e) \union {p}
      /\ St(e)' # "Closed" => U(e)' = U(e) /\ R(e)' = R(e) /\ "SYN" \notin Owed(e)'
      /\ Syn(p) => St(e) = "SynRcvd" /\ "SYN" \in Owed(e)
  BY DEF SentIs, SendsIn
<1>3. CASE e = "server" /\ o = "client"
  <2>1. ~Undialled /\ ~Undialled'
    BY <1>1, <1>2, <1>3 DEF Shaking, Undialled, Unmoved
  <2>2. ~Unanswered'
    BY <1>2, <1>3 DEF Unanswered
  <2>3. \A q \in Sends("client")' : ~Syn(q)
    BY <1>1, <1>2, <1>3 DEF Shaking
  <2>4. Syn(p) => St("client") \in {"Closed", "SynSent"}
    <3>1. Syn(p) => Unanswered
      BY <1>2, <1>3 DEF Unanswered
    <3>2. Unopened("client") => St("client") = "Closed"
      BY UnopenedClosed DEF Peers
    <3>3. QED
      BY <1>1, <3>1, <3>2 DEF Shaking
  <2>5. St("client") = "SynSent" => St("server")' \in {"Closed", "SynRcvd", "FinWait1"}
    BY <1>1, <1>2, <1>3 DEF Shaking, Moves
  <2>6. QED
    BY <1>1, <1>2, <1>3, <2>1, <2>2, <2>3, <2>4, <2>5 DEF Shaking, Unmoved, Sync
<1>4. CASE e = "client" /\ o = "server"
  <2>1. ~Unanswered /\ ~Unanswered'
    BY <1>1, <1>2, <1>4 DEF Shaking, Unanswered, Unmoved
  <2>2. ~Undialled'
    BY <1>2, <1>4 DEF Undialled
  <2>3. ~Syn(p)
    BY <1>1, <1>2, <1>4 DEF Shape
  <2>4. \A q \in Sends("server")' : ~Syn(q)
    BY <1>1, <1>2, <1>4 DEF Shaking
  <2>5. QED
    BY <1>1, <1>2, <1>4, <2>1, <2>2, <2>3, <2>4 DEF Shaking, Unmoved
<1>5. QED
  BY <1>3, <1>4 DEF Peers, Other

\* send keeps the invariant.
LEMMA SendStep ==
  ASSUME IInv, NEW e \in Peers, NEW p, Sending(e, p), SendsIn(e, p), Domains'
  PROVE  IInv'
<1> DEFINE o == Other(e)
<1>1. o \in Peers /\ Other(o) = e /\ \A x \in Peers : x = e \/ x = o
  BY Sides
<1>2. SentIs(e, p)
  BY SentFacts
<1>3. Shape(o)' /\ Numbers(o)'
  <2>1. Shape(o) /\ Numbers(o)
    BY <1>1 DEF IInv
  <2>2. Shape(o)'
    BY <1>2, <2>1 DEF Shape, SentIs, Unmoved
  <2>3. Numbers(o)'
    BY <1>2, <2>1 DEF Numbers, SentIs, Unmoved
  <2>4. QED
    BY <2>2, <2>3
<1>4. Prefix(e)' /\ Prefix(o)'
  BY <1>2, KeptPrefix DEF SentIs, SendsIn
<1>5. \A x \in Peers : Shape(x)' /\ Numbers(x)' /\ Received(x)' /\ Prefix(x)' /\ Windowed(x)'
  BY <1>1, <1>2, <1>3, <1>4, SentOwn, SentReceived, SentWindowed
<1>6. /\ Sends(e)' \subseteq Sends(e) \union {p} /\ Sends(o)' \subseteq Sends(o)
  BY <1>2 DEF SentIs
<1>7. \A x \in Peers : \A q \in Sends(x)' : Flagged(x, q)' /\ Carries(x, q)' /\ Acknowledges(x, q)'
  <2>1. \A q \in Sends(o)' : Flagged(o, q)' /\ Carries(o, q)' /\ Acknowledges(o, q)'
    BY <1>1, <1>2, <1>6, SentOld
  <2>2. \A q \in Sends(e)' : Flagged(e, q)' /\ Carries(e, q)' /\ Acknowledges(e, q)'
    BY <1>2, <1>6, SentOld, SentPacket
  <2>3. QED
    BY <1>1, <2>1, <2>2
<1>8. \A x \in Peers : \A q, r \in Sends(x)' : Paired(x, q, r)'
  <2>1. \A q, r \in Sends(o)' : Paired(o, q, r)'
    BY <1>1, <1>6 DEF IInv, Paired, Newer
  <2>2. \A q, r \in Sends(e)' : Paired(e, q, r)
    BY <1>2, <1>6, SentPairs DEF IInv
  <2>3. \A q, r \in Sends(e)' : Paired(e, q, r)'
    BY <2>2 DEF Paired, Newer
  <2>4. QED
    BY <1>1, <2>1, <2>3
<1>9. Shaking'
  BY <1>2, SentShaking
<1>10. QED
  BY <1>5, <1>7, <1>8, <1>9 DEF IInv

\* Sending ends nothing that is not ended for good.
LEMMA SentMore ==
  ASSUME IInv, NEW e \in Peers, NEW p, Sending(e, p), SendsIn(e, p)
  PROVE  /\ SentIs(e, p) /\ Firm(e) /\ wrote'[e] = wrote[e] /\ Room(e)' = Room(e)
         /\ Sync(e)' => /\ S(e)' = End(e, p) /\ U(e)' = U(e) /\ R(e)' = R(e) /\ Wnd(e)' = Wnd(e)
                        /\ conn'[e].scb.snd.ISS = conn[e].scb.snd.ISS
                        /\ Taken(e)' = Taken(e) /\ Took(e)' = Took(e) /\ Complete(e)' = Complete(e)
         /\ port'[e] => port[e] /\ Taken(e)' = Taken(e)
<1> DEFINE o == Other(e)
<1>1. /\ o \in Peers /\ Other(o) = e
  BY Sides
<1>2. SentIs(e, p) /\ wrote'[e] = wrote[e] /\ Room(e)' = Room(e) /\ got'[e] = got[e]
  BY SentFacts DEF SentIs, Sending
<1>3. Sync(e)' => /\ S(e)' = End(e, p) /\ U(e)' = U(e) /\ R(e)' = R(e) /\ Wnd(e)' = Wnd(e)
                  /\ conn'[e].scb.snd.ISS = conn[e].scb.snd.ISS /\ conn'[e].rx = conn[e].rx
  BY DEF SendsIn, Sync
<1>4. conn'[e].rx = conn[e].rx => Taken(e)' = Taken(e)
  BY <1>2 DEF Taken
<1>5. Sync(e)' => Took(e)' = Took(e) /\ Complete(e)' = Complete(e)
  <2>1. Stopped(o)' = Stopped(o) /\ wrote'[o] = wrote[o] /\ Sync(e)
    BY <1>1, RestsFirm DEF Sending, SendsIn
  <2>2. Sync(e)' => Took(e)' = Took(e)
    BY <1>3, <1>4, <2>1 DEF Took
  <2>3. QED
    BY <1>3, <1>4, <2>1, <2>2 DEF Complete
<1>6. Firm(e)
  <2>1. Stopped(e) => Stopped(e)'
    BY DEF Stopped, Sending
  <2>2. Moves(St(e), St(e)')
    BY DEF SendsIn
  <2>3. Gone(e) => Gone(e)'
    BY <2>2 DEF Gone, Sending, Moves
  <2>4. Ended(e) => Ended(e)'
    BY <1>2 DEF SentIs
  <2>5. Unfinished(e)' => Unfinished(e)
    BY <2>2, <2>4 DEF Unfinished, Moves
  <2>6. QED
    BY <1>2, <2>1, <2>3, <2>4, <2>5 DEF Firm
<1>7. port'[e] => port[e] /\ Taken(e)' = Taken(e)
  BY <1>4 DEF Sending
<1>8. QED
  BY <1>2, <1>3, <1>4, <1>5, <1>6, <1>7

\* What a new packet tells an end that may still send its FIN: all there is to
\* tell.
LEMMA SentTells ==
  ASSUME IInv, JInv, NEW e \in Peers, NEW p, SentIs(e, p), Unfinished(Other(e))
  PROVE  /\ St(e) \in {"SynRcvd", "Established", "FinWait1", "FinWait2"}
         /\ Tells(p) => Told(e, p) = R(e) /\ Reach(e, p) = Room(e)
<1> DEFINE o == Other(e)
<1>1. /\ o \in Peers /\ Other(o) = e
  BY Sides
<1>2. SendsIn(e, p) /\ Heard(e) /\ Sync(e) /\ Shape(e) /\ IsPkt(p) /\ Numbers(e)
  BY DEF SentIs, SendsIn, JInv, Ends, IInv
<1>3. ~Took(e) /\ R(e) = 1 + Taken(e)
  BY <1>1, <1>2 DEF Heard, Took
<1>4. St(e) \in {"SynRcvd", "Established", "FinWait1", "FinWait2"}
  <2>1. St(e) \notin {"CloseWait", "LastAck", "Closing", "TimeWait"}
    BY <1>2, <1>3 DEF Heard
  <2>2. St(e) \in States
    BY <1>2, CountsIn DEF Shape
  <2>3. QED
    BY <1>2, <2>1, <2>2 DEF Sync, States
<1>5. Tells(p) => Told(e, p) = R(e)
  <2>1. Ack(p) => Told(e, p) = R(e)
    BY <1>2 DEF SendsIn, Told
  <2>2. ASSUME ~Ack(p), Fin(p) PROVE Told(e, p) = R(e)
    <3>1. St(e) = "SynRcvd"
      <4>1. Due(e) /\ St(e) # "Established"
        BY <1>2, <2>2 DEF SendsIn
      <4>2. QED
        BY <1>4, <4>1 DEF Due, FinDue, St
    <3>2. got[e] = <<>> /\ conn[e].rx = <<>>
      BY <1>2, <3>1 DEF Numbers, Opening
    <3>3. Taken(e) = 0 + 0
      BY <3>2 DEF Taken
    <3>4. R(e) = 1
      BY <1>3, <3>3
    <3>5. QED
      BY <2>2, <3>4 DEF Told
  <2>3. QED
    BY <2>1, <2>2 DEF Tells
<1>6. Tells(p) => Reach(e, p) = Room(e)
  <2>1. PICK g, x \in Nat : g = Len(got[e]) /\ x = Len(conn[e].rx)
    BY <1>2, TakenIn
  <2>2. R(e) = 1 + (g + x)
    BY <1>3, <2>1 DEF Taken
  <2>3. p.seg.WND = RxCap - x /\ RxCap \in Nat
    BY <1>2, <2>1, TCPConnAssumption DEF SendsIn
  <2>4. 1 + (g + x) + (RxCap - x) = 1 + g + RxCap
    <3>1. \A i, j, k \in Nat : 1 + (i + j) + (k - j) = 1 + i + k
      OBVIOUS
    <3>2. QED
      BY <2>3, <3>1
  <2>5. QED
    BY <1>5, <2>1, <2>2, <2>3, <2>4 DEF Reach, Room
<1>7. QED
  BY <1>4, <1>5, <1>6

\* The packets of an end and its new one.
LEMMA SentOrdered ==
  ASSUME IInv, JInv, NEW e \in Peers, NEW p, Sending(e, p), SendsIn(e, p)
  PROVE  Ordered(e)'
<1> DEFINE o == Other(e)
<1>1. /\ o \in Peers /\ Other(o) = e
  BY Sides
<1>2. /\ SentIs(e, p) /\ wrote'[e] = wrote[e] /\ Room(e)' = Room(e)
      /\ Sends(e)' \subseteq Sends(e) \union {p} /\ K(e, p) = S(e) /\ Sync(e) /\ IsPkt(p)
  BY SentMore DEF Sending, SendsIn
<1>3. SUFFICES ASSUME Unfinished(o) PROVE Ordered(e)'
  BY <1>1, RestsFirm DEF Sending, Ordered
<1>4. /\ St(e) \in {"SynRcvd", "Established", "FinWait1", "FinWait2"}
      /\ Tells(p) => Told(e, p) = R(e) /\ Reach(e, p) = Room(e)
  BY <1>2, <1>3, SentTells
<1>5. /\ Ordered(e) /\ Closes(e) /\ Numbers(e) /\ Received(e) /\ Shape(e)
  BY DEF JInv, Ends, IInv
<1>6. PICK k, l, s, r, w \in Nat : /\ k = K(e, p) /\ l = End(e, p) /\ s = S(e) /\ r = R(e)
                                   /\ w = wrote[e] /\ k <= l
  <2>1. K(e, p) \in Nat /\ End(e, p) \in Nat /\ K(e, p) <= End(e, p) /\ S(e) \in Nat /\ R(e) \in Nat
    BY <1>2 DEF SentIs
  <2>2. QED
    BY <1>5, <2>1 DEF Shape
<1>7. ASSUME NEW q \in Sends(e)
      PROVE  /\ ~Follows(e, q, p) /\ K(e, q) <= s /\ IsPkt(q)
             /\ Tells(q) => Told(e, q) <= R(e) /\ Reach(e, q) <= Room(e)
  <2>1. /\ Flagged(e, q) /\ Carries(e, q) /\ Acknowledges(e, q) /\ IsPkt(q)
    BY <1>7 DEF IInv, Flagged
  <2>2. PICK i, j, n \in Nat : i = K(e, q) /\ j = End(e, q) /\ n = SegLen(q.seg)
    BY <2>1, PacketCountsIn
  <2>3. j = i + n /\ (q.data # <<>> \/ Fin(q) => n >= 1)
    <3>1. j = i + n
      BY <2>2 DEF End
    <3>2. PICK d \in Nat : d = Len(q.data)
      BY <2>1, PacketCountsIn
    <3>3. d <= n /\ (q.data # <<>> => d > 0) /\ (Fin(q) => n >= 1 + d)
      BY <2>1, <2>2, <3>2, PacketCountsIn
    <3>4. q.data # <<>> \/ Fin(q) => n >= 1
      BY <2>2, <3>2, <3>3
    <3>5. QED
      BY <3>1, <3>4
  <2>4. j <= s
    BY <1>2, <1>6, <2>1, <2>2 DEF Carries
  <2>5. i <= s /\ ~(k < i) /\ (q.data # <<>> \/ Fin(q) => ~(l <= i))
    BY <1>2, <1>6, <2>2, <2>3, <2>4
  <2>6. ~Follows(e, q, p) /\ K(e, q) <= s
    BY <1>6, <2>2, <2>5 DEF Follows
  <2>7. Tells(q) => Told(e, q) <= R(e)
    <3>1. Ack(q) => A(e, q) <= R(e)
      BY <1>2, <2>1 DEF Acknowledges
    <3>2. 1 <= R(e)
      BY <1>2, <1>5, <1>6 DEF Received
    <3>3. QED
      BY <3>1, <3>2 DEF Told
  <2>8. Tells(q) => Reach(e, q) <= Room(e)
    BY <1>3, <1>5 DEF Ordered
  <2>9. QED
    BY <2>1, <2>6, <2>7, <2>8
<1>8. Told(e, p) \in Nat /\ Reach(e, p) \in Nat
  BY <1>2, TellsIn
<1>9. \A q \in Sends(e)' : Tells(q) => Reach(e, q) <= Room(e)'
  <2>1. Tells(p) => Reach(e, p) <= Room(e)
    BY <1>4, <1>8
  <2>2. QED
    BY <1>2, <1>7, <2>1
<1>10. ASSUME NEW q \in Sends(e)', NEW x \in Sends(e)', Tells(q), Tells(x), Follows(e, q, x)
       PROVE  Told(e, x) <= Told(e, q) /\ Reach(e, x) <= Reach(e, q)
  <2>1. CASE q \in Sends(e) /\ x \in Sends(e)
    BY <1>3, <1>5, <1>10, <2>1 DEF Ordered
  <2>2. CASE q = p /\ x \in Sends(e)
    BY <1>4, <1>7, <1>10, <2>2
  <2>3. CASE q \in Sends(e) /\ x = p
    BY <1>7, <1>10, <2>3
  <2>4. CASE q = p /\ x = p
    BY <1>8, <2>4
  <2>5. QED
    BY <1>2, <1>10, <2>1, <2>2, <2>3, <2>4
<1>11. ASSUME NEW q \in Sends(e)', NEW x \in Sends(e)', Ack(q), Ack(x),
              K(e, q) = 2 + wrote'[e], K(e, x) = 2 + wrote'[e]
       PROVE  A(e, x) = A(e, q) /\ Edge(e, x) = Edge(e, q)
  <2>1. CASE q \in Sends(e) /\ x \in Sends(e)
    BY <1>2, <1>3, <1>5, <1>11, <2>1 DEF Ordered
  <2>2. K(e, p) = 2 + w => \A y \in Sends(e) : K(e, y) < S(e)
    <3>1. SUFFICES ASSUME s = 2 + w PROVE \A y \in Sends(e) : K(e, y) < S(e)
      BY <1>2, <1>6
    <3>2. St(e) # "SynRcvd"
      <4>1. St(e) = "SynRcvd" => s \in {0, 1}
        BY <1>5, <1>6 DEF Numbers
      <4>2. QED
        BY <1>6, <3>1, <4>1
    <3>3. St(e) # "Established"
      <4>1. PICK m \in Nat : m = Len(conn[e].tx)
        BY <1>5, CountsIn DEF Shape
      <4>2. St(e) = "Established" => s = 1 + w - m
        BY <1>5, <1>6, <4>1 DEF Numbers
      <4>3. \A a, b, c \in Nat : ~(a = 2 + b /\ a = 1 + b - c)
        OBVIOUS
      <4>4. QED
        BY <3>1, <4>2, <4>3
    <3>4. St(e) = "FinWait2" /\ Owed(e) # {}
      BY <1>4, <3>2, <3>3 DEF SendsIn
    <3>5. QED
      BY <1>5, <3>4 DEF Closes
  <2>3. \A y \in Sends(e) : K(e, y) < S(e) => K(e, y) # K(e, p)
    <3>1. \A y \in Sends(e) : K(e, y) \in Nat
      BY <1>7, PacketCountsIn
    <3>2. QED
      BY <1>2, <1>6, <3>1
  <2>4. CASE q = p \/ x = p
    <3>1. q = p /\ x = p
      BY <1>2, <1>6, <1>11, <2>2, <2>3, <2>4
    <3>2. QED
      BY <3>1
  <2>5. QED
    BY <1>2, <1>11, <2>1, <2>4
<1>12. QED
  BY <1>9, <1>10, <1>11 DEF Ordered

\* What both ends may send still lasts when one of them sends.
LEMMA SentLasting ==
  ASSUME IInv, JInv, NEW e \in Peers, NEW p, Sending(e, p), SendsIn(e, p)
  PROVE  Lasting(e)' /\ Lasting(Other(e))'
<1> DEFINE o == Other(e)
<1>1. /\ o \in Peers /\ Other(o) = e
  BY Sides
<1>2. /\ SentIs(e, p) /\ wrote'[e] = wrote[e] /\ Room(e)' = Room(e) /\ Sync(e) /\ IsPkt(p)
      /\ Sends(e)' \subseteq Sends(e) \union {p} /\ Sends(o)' \subseteq Sends(o)
  BY SentMore DEF Sending, SendsIn
<1>3. /\ Sync(e)' => S(e)' = End(e, p) /\ U(e)' = U(e) /\ R(e)' = R(e) /\ Wnd(e)' = Wnd(e)
      /\ Unmoved(o) /\ wrote'[o] = wrote[o] /\ Room(o)' = Room(o)
  BY SentMore DEF SentIs, Unmoved
<1>4. /\ Lasting(e) /\ Lasting(o) /\ Windowed(o) /\ Received(e)
  BY <1>1 DEF JInv, IInv
<1>5. Lasting(e)'
  <2>1. CASE St(e)' = "Established"
    <3>1. Sync(e)' /\ St(e) = "Established"
      BY <1>2, <2>1 DEF Sync, SentIs
    <3>2. \A q \in Sends(o)' : Fin(q) =>
            K(o, q) < R(e)' \/ (Told(o, q) >= U(e)' /\ Reach(o, q) >= U(e)' + Wnd(e)')
      BY <1>2, <1>3, <1>4, <3>1 DEF Lasting
    <3>3. QED
      BY <2>1, <3>2 DEF Lasting
  <2>2. CASE St(e)' = "CloseWait"
    <3>1. Sync(e)' /\ St(e) = "CloseWait" /\ ~Fin(p) /\ ~Syn(p) /\ p.data = <<>> /\ K(e, p) = S(e)
      BY <2>2 DEF SendsIn, Moves, Sync
    <3>2. S(e)' = S(e)
      <4>1. PICK k \in Nat : k = K(e, p)
        BY <1>2, PacketCountsIn
      <4>2. Len(p.data) = 0 /\ k + 0 + 0 = k
        BY <3>1, <4>1
      <4>3. End(e, p) = k
        BY <1>2, <3>1, <4>1, <4>2, PlainEnds
      <4>4. QED
        BY <1>3, <3>1, <4>1, <4>3
    <3>3. /\ U(e)' <= S(e)' /\ S(e)' <= U(e)' + Wnd(e)' /\ U(e)' + Wnd(e)' <= Room(o)'
          /\ \A q \in Sends(o)' : Ack(q) /\ K(o, q) = 2 + wrote'[o]
               => A(o, q) >= U(e)' /\ Edge(o, q) >= U(e)' + Wnd(e)'
      BY <1>2, <1>3, <1>4, <3>1, <3>2 DEF Lasting
    <3>4. QED
      BY <2>2, <3>3 DEF Lasting
  <2>3. QED
    BY <2>1, <2>2 DEF Lasting
<1>6. ASSUME St(o) \in {"Established", "CloseWait"}, Tells(p)
      PROVE  Told(e, p) >= U(o) /\ Reach(e, p) >= U(o) + Wnd(o)
  <2>1. Unfinished(o) /\ Sync(o)
    BY <1>6 DEF Unfinished, Ended, Sync
  <2>2. Told(e, p) = R(e) /\ Reach(e, p) = Room(e)
    BY <1>2, <1>6, <2>1, SentTells
  <2>3. U(o) <= R(e)
    BY <1>1, <1>2, <1>4, <2>1 DEF Received
  <2>4. U(o) + Wnd(o) <= Room(e)
    BY <1>1, <1>4, <1>6 DEF Windowed, Lasting
  <2>5. U(o) \in Nat /\ Wnd(o) \in Nat /\ R(e) \in Nat
    BY <1>1, CountsIn DEF IInv, Shape
  <2>6. Room(e) \in Nat
    <3>1. Reach(e, p) \in Nat
      BY <1>2, TellsIn
    <3>2. QED
      BY <2>2, <3>1
  <2>7. QED
    BY <2>2, <2>3, <2>4, <2>5, <2>6
<1>7. Lasting(o)'
  <2>1. ASSUME St(o) = "Established", NEW q \in Sends(e)', Fin(q)
        PROVE  K(e, q) < R(o) \/ (Told(e, q) >= U(o) /\ Reach(e, q) >= U(o) + Wnd(o))
    <3>1. CASE q \in Sends(e)
      BY <1>1, <1>4, <2>1, <3>1 DEF Lasting
    <3>2. CASE q = p
      BY <1>6, <2>1, <3>2 DEF Tells
    <3>3. QED
      BY <1>2, <3>1, <3>2
  <2>2. ASSUME St(o) = "CloseWait", NEW q \in Sends(e)', Ack(q), K(e, q) = 2 + wrote[e]
        PROVE  A(e, q) >= U(o) /\ Edge(e, q) >= U(o) + Wnd(o)
    <3>1. CASE q \in Sends(e)
      BY <1>1, <1>4, <2>2, <3>1 DEF Lasting
    <3>2. CASE q = p
      BY <1>6, <2>2, <3>2 DEF Tells, Told, Reach, Edge
    <3>3. QED
      BY <1>2, <3>1, <3>2
  <2>3. St(o) = "CloseWait" => U(o) <= S(o) /\ S(o) <= U(o) + Wnd(o) /\ U(o) + Wnd(o) <= Room(e)
    BY <1>1, <1>4 DEF Lasting
  <2>4. St(o)' = St(o) /\ U(o)' = U(o) /\ S(o)' = S(o) /\ Wnd(o)' = Wnd(o) /\ R(o)' = R(o)
    BY <1>3 DEF Unmoved
  <2>5. QED
    BY <1>1, <1>2, <2>1, <2>2, <2>3, <2>4 DEF Lasting
<1>8. QED
  BY <1>5, <1>7

\* A FIN that is sent lies after all that was written.
LEMMA SentFinishes ==
  ASSUME IInv, NEW e \in Peers, NEW p, Sending(e, p), SendsIn(e, p)
  PROVE  Finishes(e, p)'
<1> DEFINE o == Other(e)
<1>1. /\ o \in Peers /\ Other(o) = e
  BY Sides
<1>2. SUFFICES ASSUME Fin(p) PROVE Finishes(e, p)'
  BY DEF Finishes
<1>3. /\ SentIs(e, p) /\ Firm(e) /\ wrote'[e] = wrote[e] /\ Ended(e)' /\ ~Unopened(e)' /\ ~Unopened(e)
      /\ Moves(St(e), St(e)') /\ K(e, p) = S(e) /\ IsPkt(p) /\ ~Syn(p)
      /\ St(e)' \notin {"SynRcvd", "Established", "CloseWait"}
      /\ Due(e)
  BY <1>2, SentMore DEF SentIs, SendsIn
<1>4. ~Unfinished(e)'
  BY <1>3 DEF Unfinished
<1>5. CASE St(e) \in {"CloseWait", "LastAck"}
  <2>1. Gone(e)'
    BY <1>3, <1>5 DEF Gone, Moves
  <2>2. Ended(o)
    BY <1>5 DEF IInv, Received
  <2>3. Ended(o)'
    BY <1>3, <2>2 DEF SentIs, Unmoved
  <2>4. QED
    BY <1>4, <2>1, <2>3 DEF Finishes
<1>6. CASE St(e) \notin {"CloseWait", "LastAck"}
  <2>1. conn[e].closing /\ conn[e].tx = <<>> /\ St(e) \in {"SynRcvd", "Established"}
    BY <1>2, <1>3, <1>6 DEF SendsIn, Due, FinDue, St
  <2>2. Stopped(e)'
    BY <1>3, <2>1 DEF Stopped, Firm
  <2>3. /\ Numbers(e) /\ wrote[e] \in Nat /\ Len(conn[e].tx) = 0
    BY <2>1 DEF IInv, Shape
  <2>4. Len(p.data) = 0
    <3>1. Len(p.data) \in Nat
      BY <1>3, PacketCountsIn
    <3>2. Len(p.data) <= 0
      BY <2>3 DEF SendsIn
    <3>3. QED
      BY <3>1, <3>2
  <2>5. K(e, p) = 0 \/ K(e, p) = 1 + wrote[e]
    <3>1. CASE St(e) = "SynRcvd"
      <4>1. wrote[e] = 0 /\ S(e) \in {0, 1}
        BY <2>3, <3>1 DEF Numbers, Opening
      <4>2. QED
        BY <1>3, <4>1
    <3>2. CASE St(e) = "Established"
      <4>1. S(e) = 1 + wrote[e] - 0
        BY <2>3, <3>2 DEF Numbers
      <4>2. QED
        BY <1>3, <2>3, <4>1
    <3>3. QED
      BY <2>1, <3>1, <3>2
  <2>6. K(e, p) = 1 + wrote[e] => End(e, p) = 2 + wrote[e]
    <3>1. End(e, p) = K(e, p) + 0 + 1
      BY <1>2, <1>3, <2>4, PlainEnds
    <3>2. QED
      BY <2>3, <3>1
  <2>7. QED
    BY <1>3, <1>4, <2>2, <2>5, <2>6 DEF Finishes
<1>7. QED
  BY <1>5, <1>6

\* send keeps both invariants.
LEMMA SendKeeps ==
  ASSUME IInv, NEW e \in Peers, NEW p, Sending(e, p), SendsIn(e, p), Domains'
  PROVE  Kept
<1> DEFINE o == Other(e)
<1>0. IInv'
  BY SendStep
<1> SUFFICES ASSUME JInv PROVE JInv'
  BY <1>0 DEF Kept
<1>1. /\ o \in Peers /\ Other(o) = e /\ o # e /\ \A x \in Peers : x = e \/ x = o
  BY Sides
<1>2. /\ SentIs(e, p) /\ Firm(e) /\ wrote'[e] = wrote[e] /\ Room(e)' = Room(e)
      /\ Sync(e)' => /\ S(e)' = End(e, p) /\ U(e)' = U(e) /\ R(e)' = R(e) /\ Wnd(e)' = Wnd(e)
                     /\ conn'[e].scb.snd.ISS = conn[e].scb.snd.ISS
                     /\ Taken(e)' = Taken(e) /\ Took(e)' = Took(e) /\ Complete(e)' = Complete(e)
      /\ port'[e] => port[e] /\ Taken(e)' = Taken(e)
  BY SentMore
<1>3. /\ Firm(o) /\ Unmoved(o) /\ Taken(o)' = Taken(o) /\ port'[o] = port[o] /\ Rests(o)
      /\ Gone(o)' = Gone(o) /\ wrote'[o] = wrote[o]
  BY <1>1, RestsFirm DEF Sending
<1>4. /\ Sync(e) /\ Moves(St(e), St(e)') /\ IsPkt(p) /\ K(e, p) = S(e)
      /\ Sends(e)' \subseteq Sends(e) \union {p} /\ Sends(o)' \subseteq Sends(o)
  BY DEF SendsIn, Sending
<1>5. /\ Closes(e) /\ Heard(e) /\ Buffered(e) /\ Buffered(o) /\ Lasting(o)
      /\ \A q \in Sends(e) : Finishes(e, q)
  BY <1>1 DEF JInv, Ends
<1>6. Ends(o)' /\ Ordered(o)'
  BY <1>2, <1>3, <1>4, RestEnds
<1>7. Ordered(e)' /\ Lasting(e)' /\ Lasting(o)'
  BY SentOrdered, SentLasting
<1>8. Buffered(e)'
  BY <1>2, <1>3, <1>4, <1>5, BufferedKept
<1>9. Closes(e)'
  <2>1. St(e)' = "FinWait1" => \A q \in Sends(e)' : K(e, q) < S(e)'
    <3>1. SUFFICES ASSUME St(e)' = "FinWait1", NEW q \in Sends(e)' PROVE K(e, q) < S(e)'
      OBVIOUS
    <3>2. Fin(p) /\ Sync(e)' /\ S(e)' = End(e, p)
      BY <1>2, <3>1 DEF SendsIn, Sync
    <3>3. PICK k, l, n \in Nat : k = K(e, p) /\ l = End(e, p) /\ n = Len(p.data)
      BY <1>4, PacketCountsIn
    <3>4. k < l
      <4>1. SegLen(p.seg) \in Nat /\ SegLen(p.seg) >= 1 + n
        BY <1>4, <3>2, <3>3, PacketCountsIn
      <4>2. l = k + SegLen(p.seg)
        BY <3>3 DEF End
      <4>3. QED
        BY <3>3, <4>1, <4>2
    <3>5. CASE q = p
      BY <3>2, <3>3, <3>4, <3>5
    <3>6. CASE q \in Sends(e)
      <4>1. IsPkt(q) /\ Carries(e, q)
        BY <3>6 DEF IInv, Flagged
      <4>2. PICK i, j, m \in Nat : i = K(e, q) /\ j = End(e, q) /\ m = SegLen(q.seg)
        BY <4>1, PacketCountsIn
      <4>3. j = i + m
        BY <4>2 DEF End
      <4>4. j <= k
        BY <1>4, <3>3, <4>1, <4>2 DEF Carries
      <4>5. i < l
        BY <3>3, <3>4, <4>2, <4>3, <4>4
      <4>6. QED
        BY <3>2, <3>3, <4>2, <4>5
    <3>7. QED
      BY <1>4, <3>5, <3>6
  <2>2. St(e)' = "FinWait2" => Owed(e)' = {}
    BY DEF SendsIn
  <2>3. Sync(e)' => conn'[e].scb.snd.ISS = Iss(e)
    BY <1>2, <1>4, <1>5 DEF Closes
  <2>4. conn'[e].closing => e \in Closers
    BY <1>5 DEF Closes, SendsIn
  <2>5. QED
    BY <2>1, <2>2, <2>3, <2>4 DEF Closes
<1>10. Heard(e)'
  <2>1. /\ St(e)' \in {"CloseWait", "LastAck", "Closing", "TimeWait"}
             => Sync(e)' /\ St(e) \in {"CloseWait", "LastAck", "Closing", "TimeWait"}
        /\ St(e)' = "LastAck" => St(e) \in {"CloseWait", "LastAck"}
    BY <1>4 DEF Moves, Sync
  <2>2. Sync(e)' => R(e)' >= 1 + Taken(e)'
    BY <1>2, <1>4, <1>5 DEF Heard
  <2>3. St(e)' \in {"CloseWait", "LastAck", "Closing", "TimeWait"} => Took(e)'
    BY <1>2, <1>5, <2>1 DEF Heard
  <2>4. ASSUME Took(e)'
        PROVE  /\ ~Unfinished(o)' /\ (Gone(o)' \/ Complete(e)')
               /\ Unfinished(e)' \/ St(e)' = "LastAck" => Complete(e)' /\ R(e)' = 2 + wrote'[o]
    <3>1. Sync(e)' /\ Took(e)
      BY <1>2, <2>4 DEF Took
    <3>2. ~Unfinished(o) /\ (Gone(o) \/ Complete(e))
      BY <1>5, <3>1 DEF Heard
    <3>3. Unfinished(e)' \/ St(e)' = "LastAck" => Unfinished(e) \/ St(e) = "LastAck"
      BY <1>2, <2>1 DEF Firm, Unfinished
    <3>4. Unfinished(e) \/ St(e) = "LastAck" => Complete(e) /\ R(e) = 2 + wrote[o]
      BY <1>5, <3>1 DEF Heard
    <3>5. QED
      BY <1>2, <1>3, <3>1, <3>2, <3>3, <3>4 DEF Firm
  <2>5. QED
    BY <2>2, <2>3, <2>4 DEF Heard
<1>11. \A q \in Sends(e)' : Finishes(e, q)'
  BY <1>2, <1>3, <1>4, <1>5, FinishesKept, SentFinishes
<1>12. Buffered(o)'
  <2>1. SUFFICES ASSUME port'[e] PROVE Buffered(o)'
    BY <1>1 DEF Buffered
  <2>2. port[e] /\ Taken(e)' = Taken(e) /\ Complete(e)' = Complete(e)
    <3>1. port[e] /\ Taken(e)' = Taken(e)
      BY <1>2, <2>1
    <3>2. QED
      BY <1>1, <1>3, <3>1, RestsFirm DEF Complete
  <2>3. \A n : Holds(o, n) => n <= 1 + Taken(e)' \/ Complete(e)'
    BY <1>1, <2>2 DEF Holds
  <2>4. Sync(o)' => Holds(o, U(o))'
    <3>1. Sync(o) => Holds(o, U(o))
      BY <1>1, <1>5, <2>2 DEF Buffered
    <3>2. QED
      BY <1>1, <1>3, <2>3, <3>1 DEF Holds, Unmoved
  <2>5. ASSUME NEW q \in Sends(e)', Ack(q) PROVE (Holds(o, A(e, q)) \/ Gone(o))'
    <3>1. Holds(o, A(e, q)) \/ Gone(o)
      <4>1. CASE q \in Sends(e)
        BY <1>1, <1>5, <2>2, <2>5, <4>1 DEF Buffered
      <4>2. CASE q = p
        <5>1. A(e, q) = R(e)
          BY <2>5, <4>2 DEF SendsIn
        <5>2. CASE Took(e)
          BY <1>1, <1>5, <5>2 DEF Heard, Holds
        <5>3. CASE ~Took(e)
          <6>1. R(e) = 1 + Taken(e) /\ Taken(e) \in Nat
            BY <1>4, <5>3, TakenIn DEF Took, IInv
          <6>2. A(e, q) <= 1 + Taken(e)
            BY <5>1, <6>1
          <6>3. QED
            BY <1>1, <6>2 DEF Holds
        <5>4. QED
          BY <5>2, <5>3
      <4>3. QED
        BY <1>4, <2>5, <4>1, <4>2
    <3>2. A(e, q)' = A(e, q)
      BY DEF A
    <3>3. QED
      BY <1>1, <1>3, <2>3, <3>1, <3>2 DEF Holds
  <2>6. QED
    BY <1>1, <2>4, <2>5 DEF Buffered
<1>13. QED
  BY <1>1, <1>6, <1>7, <1>8, <1>9, <1>10, <1>11, <1>12 DEF JInv, Ends

\* The first SYN of the client goes out to a server that has not been reached yet.
Dials(p) ==
  /\ IsPkt(p) /\ Syn(p) /\ ~Ack(p) /\ ~Fin(p) /\ p.data = <<>>
  /\ K("client", p) = 0 /\ End("client", p) = 1

\* The first SYN of a client that dialled keeps the invariant.
LEMMA DialStep ==
  ASSUME IInv, NEW p, Dials(p), Calms("client"), Rests("server"), ~Unopened("client"),
         St("client") = "SynSent", Late("client"), ~Late("client")' \/ St("client")' = "Closed",
         Sends("client")' \subseteq Sends("client") \union {p},
         Sends("server")' \subseteq Sends("server"), Domains'
  PROVE  IInv'
<1>1. /\ "client" \in Peers /\ "server" \in Peers /\ \A x \in Peers : x = "client" \/ x = "server"
      /\ Other("client") = "server" /\ Other("server") = "client"
  BY DEF Peers, Other
<1>2. /\ Unmoved("server") /\ wrote'["server"] = wrote["server"] /\ wrote'["client"] = wrote["client"]
      /\ wrote["client"] \in Nat
  BY <1>1, RestsUnmoved DEF Rests, Calms, IInv, Shape
<1>3. /\ Undialled /\ Shaking
  BY DEF IInv, Undialled
<1>4. Sends("client") = {} /\ St("server") \in {"Closed", "Listen"} /\ St("server")' = St("server")
  BY <1>2, <1>3 DEF Shaking, Unmoved
<1>5. /\ Sends("client")' \subseteq {p} /\ St("client")' \in {"SynSent", "Closed"}
      /\ ~Unopened("client")' /\ Room("client")' = Room("client")
      /\ Ended("client") => Ended("client")'
  BY <1>1, <1>4, CalmEnd DEF Calms
<1>6. \A x \in Peers : Shape(x)' /\ Numbers(x)'
  BY <1>1, CalmEnd, RestsCalms
<1>7. \A x \in Peers : ~Sync(x) /\ ~Sync(x)'
  BY <1>1, <1>4, <1>5 DEF Sync
<1>8. \A x \in Peers : Received(x)' /\ Windowed(x)'
  <2>1. \A x \in Peers : St(x)' \in {"Closed", "Listen", "SynSent"}
    BY <1>1, <1>4, <1>5
  <2>2. QED
    BY <1>7, <2>1 DEF Received, Windowed
<1>9. \A x \in Peers : Prefix(x)'
  BY <1>1, <1>2, KeptPrefix DEF Calms
<1>10. ASSUME NEW q \in Sends("server")'
       PROVE  Flagged("server", q)' /\ Carries("server", q)' /\ Acknowledges("server", q)'
  <2>1. Flagged("server", q) /\ Carries("server", q) /\ Acknowledges("server", q)
    BY <1>1, <1>10 DEF IInv
  <2>2. Flagged("server", q)'
    BY <1>1, <1>2, <1>5, <2>1 DEF Flagged, Unmoved
  <2>3. Carries("server", q)'
    BY <1>1, <1>2, <1>5, <1>7, <2>1 DEF Carries, Unmoved
  <2>4. Acknowledges("server", q)'
    BY <1>1, <1>2, <1>5, <1>7, <2>1 DEF Acknowledges, Unmoved, Calms
  <2>5. QED
    BY <2>2, <2>3, <2>4
<1>11. Flagged("client", p)' /\ Carries("client", p)' /\ Acknowledges("client", p)'
  <2>1. Flagged("client", p)' /\ Acknowledges("client", p)'
    BY <1>5 DEF Flagged, Acknowledges, Dials
  <2>2. 1 <= 2 + wrote'["client"] /\ Len(<<>>) = 0
    BY <1>2
  <2>3. Carries("client", p)'
    BY <1>1, <1>7, <2>2 DEF Carries, Dials
  <2>4. QED
    BY <2>1, <2>3
<1>12. \A x \in Peers : \A q, r \in Sends(x)' : Paired(x, q, r)'
  <2>1. \A q, r \in Sends("server")' : Paired("server", q, r)'
    BY <1>1 DEF IInv, Paired, Newer
  <2>2. \A q, r \in Sends("client")' : Paired("client", q, r)'
    BY <1>5 DEF Paired, Dials
  <2>3. QED
    BY <1>1, <2>1, <2>2
<1>13. Shaking'
  BY <1>2, <1>3, <1>4, <1>5, <1>7 DEF Shaking, Unanswered, Undialled, Unmoved, Calms, Dials
<1>14. QED
  BY <1>1, <1>5, <1>6, <1>8, <1>9, <1>10, <1>11, <1>12, <1>13 DEF IInv


\* It keeps the second as well.
LEMMA DialKeeps ==
  ASSUME IInv, NEW p, Dials(p), Calms("client"), Rests("server"), ~Unopened("client"),
         St("client") = "SynSent", Late("client"), ~Late("client")' \/ St("client")' = "Closed",
         Sends("client")' \subseteq Sends("client") \union {p},
         Sends("server")' \subseteq Sends("server"), Domains'
  PROVE  Kept
<1>0. IInv'
  BY DialStep
<1> SUFFICES ASSUME JInv PROVE JInv'
  BY <1>0 DEF Kept
<1>1. /\ "client" \in Peers /\ "server" \in Peers /\ \A x \in Peers : x = "client" \/ x = "server"
  BY DEF Peers
<1>2. Sends("client") = {} /\ Sends("server") = {} /\ St("server") \in {"Closed", "Listen"}
  BY DEF IInv, Undialled, Shaking
<1>3. St("server")' = St("server") /\ conn'["server"] = conn["server"]
  BY RestsUnmoved DEF Unmoved, Rests
<1>4. St("client")' \in {"SynSent", "Closed"} /\ (conn'["client"].closing => conn["client"].closing \/ "client" \in Closers)
  BY DEF Calms
<1>5. \A x \in Peers : conn[x].closing => x \in Closers
  BY DEF JInv, Ends, Closes
<1>6. \A x \in Peers : \A q \in Sends(x)' : ~Ack(q) /\ ~Fin(q)
  BY <1>1, <1>2 DEF Dials
<1>7. Silent'
  <2>1. \A x \in Peers : /\ St(x)' \in {"Closed", "Listen", "SynSent"}
                         /\ conn'[x].closing => x \in Closers
    BY <1>1, <1>2, <1>3, <1>4, <1>5
  <2>2. QED
    BY <1>6, <2>1 DEF Silent
<1>8. QED
  BY <1>7, SilentKept

\* A packet that is put on the link.
LEMMA AppendNet ==
  ASSUME IInv, NEW e \in Peers, NEW p, net' = [net EXCEPT ![Other(e)] = @ \o <<p>>],
         Syn(p) => \A q \in Sends(e) : ~Syn(q),
         DOMAIN conn' = Peers, DOMAIN user' = Peers, DOMAIN wrote' = Peers, DOMAIN got' = Peers,
         DOMAIN port' = Peers
  PROVE  /\ Domains' /\ Sends(e)' \subseteq Sends(e) \union {p}
         /\ Sends(Other(e))' \subseteq Sends(Other(e))
<1> DEFINE o == Other(e)
           q == net[o]
<1>1. o \in Peers /\ Other(o) = e /\ o # e /\ \A x \in Peers : x = e \/ x = o
  BY Sides
<1>2. /\ DOMAIN net = Peers /\ Queue(net[e]) /\ Lone(net[e]) /\ Queue(q) /\ Lone(q)
  BY <1>1 DEF IInv, Domains
<1>3. net'[o] = q \o <<p>> /\ net'[e] = net[e] /\ DOMAIN net' = Peers
  BY <1>1, <1>2
<1>4. PICK T : q \in Seq(T)
  BY <1>2 DEF Queue
<1>5. PICK V : V = T \union {p}
  OBVIOUS
<1>6. q \in Seq(V) /\ <<p>> \in Seq(V)
  BY <1>4, <1>5
<1>7. /\ q \o <<p>> \in Seq(V) /\ Len(q) \in Nat /\ Len(q \o <<p>>) = Len(q) + 1
      /\ \A i \in 1 .. Len(q) : (q \o <<p>>)[i] = q[i]
      /\ (q \o <<p>>)[Len(q) + 1] = p
  BY <1>6
<1>8. PICK n \in Nat : n = Len(q)
  BY <1>7
<1>9. /\ Queue(net'[o]) /\ Len(net'[o]) = n + 1
      /\ \A i \in 1 .. n : net'[o][i] = q[i]
      /\ net'[o][n + 1] = p
      /\ \A i \in 1 .. n + 1 : i \in 1 .. n \/ i = n + 1
  BY <1>3, <1>7, <1>8 DEF Queue
<1>10. /\ Sends(e) = {q[i] : i \in 1 .. n} /\ Sends(e)' = {net'[o][i] : i \in 1 .. n + 1}
       /\ Sends(o)' = Sends(o)
  <2>1. Sends(e) = {q[i] : i \in 1 .. n}
    BY <1>8, Zenon DEF Sends
  <2>2. Len(net'[o]) = n + 1
    BY <1>9
  <2>3. Sends(e)' = {net'[o][i] : i \in 1 .. n + 1}
    BY <2>2, Zenon DEF Sends
  <2>4. Sends(o)' = Sends(o)
    BY <1>1, <1>3, Zenon DEF Sends
  <2>5. QED
    BY <2>1, <2>3, <2>4
<1>11. Sends(e)' \subseteq Sends(e) \union {p}
  BY <1>9, <1>10
<1>12. Lone(net'[o])
  <2>1. SUFFICES ASSUME NEW i \in 1 .. n + 1, NEW j \in 1 .. n + 1,
                        Syn(net'[o][i]), Syn(net'[o][j])
                 PROVE  i = j
    BY <1>9 DEF Lone
  <2>2. CASE i \in 1 .. n /\ j \in 1 .. n
    BY <1>2, <1>8, <1>9, <2>1, <2>2 DEF Lone
  <2>3. CASE i = n + 1 /\ j \in 1 .. n
    BY <1>9, <1>10, <2>1, <2>3
  <2>4. CASE j = n + 1 /\ i \in 1 .. n
    BY <1>9, <1>10, <2>1, <2>4
  <2>5. QED
    BY <1>9, <2>1, <2>2, <2>3, <2>4
<1>13. QED
  BY <1>1, <1>2, <1>3, <1>9, <1>10, <1>11, <1>12 DEF Domains

\* What send may rely on.
LEMMA SendReady ==
  ASSUME IInv, ServerBytes < TxCap, NEW e \in Peers, HandlerPending(e)
  PROVE  /\ ~Unopened(e) /\ IsConn(conn[e]) /\ Fitting(conn[e].scb)
         /\ conn[e].scb.state = "SynRcvd" => Len(conn[e].tx) < TxCap
<1>1. Shape(e) /\ Numbers(e) /\ Windowed(e) /\ IsConn(conn[e])
  BY DEF IInv, Shape
<1>2. ~Unopened(e)
  <2>1. ~IsPendingHandling(FreshConn)
    <3>1. Len(<<>>) = 0
      OBVIOUS
    <3>2. QED
      BY <3>1 DEF IsPendingHandling, FreshConn, ZeroTCB, HasPending, MustSendSyn, AwaitingSyn
  <2>2. QED
    BY <2>1, UnopenedClosed DEF HandlerPending
<1>3. Fitting(conn[e].scb)
  <2>1. SUFFICES ASSUME St(e) = "Established" PROVE InFlight(conn[e].scb) <= Wnd(e)
    BY DEF Fitting, St, Wnd
  <2>2. U(e) <= S(e) /\ S(e) <= U(e) + Wnd(e)
    BY <1>1, <2>1 DEF Windowed
  <2>3. conn[e].scb.snd.NXT \in Value /\ conn[e].scb.snd.UNA \in Value
    BY <1>1 DEF IsConn, IsBlock
  <2>4. InFlight(conn[e].scb) = S(e) - U(e)
    BY <2>2, <2>3, NumSize DEF InFlight, S, U
  <2>5. S(e) \in Nat /\ U(e) \in Nat /\ Wnd(e) \in Nat
    BY <1>1, CountsIn
  <2>6. QED
    BY <2>2, <2>4, <2>5
<1>4. conn[e].scb.state = "SynRcvd" => Len(conn[e].tx) < TxCap
  <2>1. SUFFICES ASSUME St(e) = "SynRcvd" PROVE Len(conn[e].tx) < TxCap
    BY DEF St
  <2>2. e = "server" /\ Len(conn[e].tx) = wrote[e] /\ wrote[e] \in Nat /\ wrote[e] <= ServerBytes
    BY <1>1, <2>1 DEF Shape, Numbers, Opening, ByteLimit
  <2>3. QED
    BY <2>2, TCPLinkAssumption, TCPConnAssumption
<1>5. QED
  BY <1>1, <1>2, <1>3, <1>4

\* The segment of the first SYN.
LEMMA SynDials ==
  ASSUME IInv, St("client") = "SynSent"
  PROVE  Dials(Packet(SynsentSegment(conn["client"]), <<>>))
<1> DEFINE c == conn["client"]
           p == Packet(SynsentSegment(c), <<>>)
<1>1. "client" \in Peers /\ IsConn(c) /\ c.scb.snd.ISS = Iss("client")
  BY DEF IInv, Shape, Numbers, Peers
<1>2. /\ c.scb.snd.ISS \in Value /\ c.scb.rcv.WND \in 0 .. RxCap /\ 0 \in Value
      /\ RxCap \in Nat /\ MaxWnd \in Nat /\ RxCap <= MaxWnd
  BY <1>1, SeqAssumption, TCPConnAssumption DEF IsConn, IsBlock, Value
<1>3. PICK g : g = MakeSegment(c.scb.snd.ISS, 0, c.scb.rcv.WND, {"SYN"}, 0)
  OBVIOUS
<1>4. /\ g.WND = c.scb.rcv.WND /\ g.Flags = {"SYN"} /\ g.DATALEN = 0 /\ g.SEQ = c.scb.snd.ISS
      /\ p.seg = g /\ p.data = <<>>
  BY <1>3 DEF MakeSegment, Packet, SynsentSegment
<1>5. g \in Segment
  <2>1. c.scb.rcv.WND \in Value /\ {"SYN"} \in SUBSET FlagNames
    BY <1>2, SeqAssumption DEF Value, FlagNames
  <2>2. QED
    BY <1>2, <1>3, <2>1 DEF MakeSegment, Segment
<1>6. SegLen(g) = 1
  <2>1. SegLen(g) = Wrap(0 + 0 + 1)
    BY <1>4 DEF SegLen, Has
  <2>2. QED
    BY <2>1, WrapIs, SeqAssumption
<1>7. IsPkt(p) /\ Syn(p) /\ ~Ack(p) /\ ~Fin(p)
  <2>1. <<>> \in Seq(Int) /\ Len(<<>>) = 0
    OBVIOUS
  <2>2. IsSeg(g) /\ Has(g, "SYN") /\ ~Has(g, "FIN") /\ ~Has(g, "ACK")
    BY <1>2, <1>4, <1>5 DEF IsSeg, Has
  <2>3. /\ (IF Has(g, "FIN") THEN 1 ELSE 0) = 0 /\ (IF Has(g, "SYN") THEN 1 ELSE 0) = 1
        /\ 1 = 0 + 0 + 1
    BY <2>2
  <2>4. IsPkt(p)
    BY <1>4, <1>6, <2>1, <2>2, <2>3 DEF IsPkt
  <2>5. QED
    BY <1>4, <2>2, <2>4 DEF Syn, Ack, Fin
<1>8. K("client", p) = 0
  <2>1. PICK i \in Value : i = Iss("client")
    BY <1>1, <1>2
  <2>2. Num("client", i) = i - i
    BY <2>1, NumIs, SeqAssumption DEF Value
  <2>3. i - i = 0
    BY SeqAssumption DEF Value
  <2>4. QED
    BY <1>1, <1>4, <2>1, <2>2, <2>3 DEF K
<1>9. QED
  BY <1>4, <1>6, <1>7, <1>8 DEF Dials, End


\* HandleEth keeps both invariants.
LEMMA HandleEthKeeps ==
  ASSUME IInv, HalfLap, ServerBytes < TxCap, NEW e \in Peers, HandleEth(e) PROVE Kept
<1> DEFINE o == Other(e)
           c == conn[e]
<1>1. o \in Peers /\ Other(o) = e /\ o # e
  BY Sides
<1>2. PICK res : res = SendPacket(c)
  OBVIOUS
<1> DEFINE shut == res.err \in {"EOF", "error"}
<1>4. /\ HandlerPending(e) /\ net' = [net EXCEPT ![o] = @ \o res.pkts]
      /\ conn' = [conn EXCEPT ![e] = IF shut THEN FreshConn ELSE res.conn]
      /\ user' = [user EXCEPT ![e] = IF res.err = "panic" THEN "dead" ELSE @]
      /\ wrote' = wrote /\ got' = got /\ port' = [port EXCEPT ![e] = ~shut] /\ port[e]
  BY <1>2 DEF HandleEth, HandlerPending
<1>5. /\ DOMAIN conn = Peers /\ DOMAIN user = Peers /\ DOMAIN wrote = Peers /\ DOMAIN got = Peers
      /\ DOMAIN port = Peers
      /\ DOMAIN net = Peers /\ Queue(net[o]) /\ Lone(net[o]) /\ Queue(net[e]) /\ Lone(net[e])
  BY <1>1 DEF IInv, Domains
<1>6. /\ conn'[e] = (IF shut THEN FreshConn ELSE res.conn)
      /\ user'[e] = (IF res.err = "panic" THEN "dead" ELSE user[e])
      /\ DOMAIN conn' = Peers /\ DOMAIN user' = Peers /\ DOMAIN wrote' = Peers /\ DOMAIN got' = Peers
      /\ DOMAIN port' = Peers
      /\ wrote'[e] = wrote[e] /\ got'[e] = got[e] /\ (port'[e] <=> ~shut)
  BY <1>4, <1>5
<1>7. Rests(o)
  BY <1>1, <1>4, <1>5 DEF Rests
<1>8. /\ ~Unopened(e) /\ IsConn(c) /\ Fitting(c.scb) /\ (c.scb.state = "SynRcvd" => Len(c.tx) < TxCap)
  BY <1>4, SendReady
<1>9. ~Unopened(e)' /\ (user'[e] = "writing" => user[e] = "writing") /\ (shut => user'[e] = user[e])
  BY <1>6, <1>8 DEF Unopened
<1>10. Alike(c, res.conn) => Calms(e)
  <2>1. CASE shut
    BY <1>6, <1>9, <2>1, DroppedCalms
  <2>2. CASE ~shut
    BY <1>4, <1>6, <1>8, <1>9, <2>2, AlikeCalms
  <2>3. QED
    BY <2>1, <2>2
<1>11. \/ res.pkts = <<>> /\ Alike(c, res.conn)
       \/ /\ c.scb.state = "SynSent" /\ c.late
          /\ res.pkts = <<Packet(SynsentSegment(c), <<>>)>>
          /\ Alike(c, res.conn) /\ ~res.conn.late
       \/ \E p : res.pkts = <<p>> /\ SendsPkt(c, p, res.conn)
  BY <1>2, <1>8, SendPacketSends
<1>12. CASE res.pkts = <<>> /\ Alike(c, res.conn)
  <2>1. PICK T : net[o] \in Seq(T)
    BY <1>5 DEF Queue
  <2>2. net[o] \o <<>> = net[o]
    BY <2>1
  <2>3. net'[o] = net[o] /\ net'[e] = net[e] /\ DOMAIN net' = Peers
    BY <1>1, <1>4, <1>5, <1>12, <2>2
  <2>4. NoneNew
    BY <1>1, <2>3, Sides DEF NoneNew, Sends, Peers
  <2>5. Domains'
    BY <1>1, <1>5, <1>6, <2>3, Sides DEF Domains
  <2>6. QED
    BY <1>7, <1>10, <1>12, <2>4, <2>5, CalmKeeps
<1>13. CASE /\ c.scb.state = "SynSent" /\ c.late
            /\ res.pkts = <<Packet(SynsentSegment(c), <<>>)>>
            /\ Alike(c, res.conn) /\ ~res.conn.late
  <2>1. e = "client" /\ o = "server" /\ St(e) = "SynSent" /\ Late(e)
    BY <1>13 DEF IInv, Shape, St, Late, Other
  <2>2. PICK p : p = Packet(SynsentSegment(c), <<>>)
    OBVIOUS
  <2>3. Dials(p)
    BY <2>1, <2>2, SynDials
  <2>4. Sends(e) = {}
    BY <2>1 DEF IInv, Shaking, Undialled
  <2>5. /\ Domains' /\ Sends(e)' \subseteq Sends(e) \union {p} /\ Sends(o)' \subseteq Sends(o)
    BY <1>4, <1>6, <1>13, <2>2, <2>4, AppendNet
  <2>6. ~Late(e)' \/ St(e)' = "Closed"
    BY <1>6, <1>13, FreshIs DEF Late, St
  <2>7. Calms(e)
    BY <1>10, <1>13
  <2>8. QED
    BY <1>7, <1>8, <2>1, <2>3, <2>5, <2>6, <2>7, DialKeeps
<1>14. CASE \E p : res.pkts = <<p>> /\ SendsPkt(c, p, res.conn)
  <2>1. PICK p : res.pkts = <<p>> /\ SendsPkt(c, p, res.conn)
    BY <1>14
  <2>2. SendsIn(e, p)
    BY <1>6, <2>1, SendViews
  <2>3. Syn(p) => Sends(e) = {}
    <3>1. Syn(p) => St(e) = "SynRcvd" /\ "SYN" \in Owed(e)
      BY <2>2 DEF SendsIn
    <3>2. St(e) = "SynRcvd" => e = "server"
      BY DEF IInv, Shape
    <3>3. Syn(p) => Unanswered
      BY <3>1, <3>2 DEF Unanswered
    <3>4. QED
      BY <3>1, <3>2, <3>3 DEF IInv, Shaking
  <2>4. /\ Domains' /\ Sends(e)' \subseteq Sends(e) \union {p} /\ Sends(o)' \subseteq Sends(o)
    BY <1>4, <1>6, <2>1, <2>3, AppendNet
  <2>5. Sending(e, p)
    BY <1>4, <1>6, <1>7, <1>8, <1>9, <2>1, <2>4 DEF Sending, SendsPkt
  <2>6. QED
    BY <2>2, <2>4, <2>5, SendKeeps
<1>15. QED
  BY <1>11, <1>12, <1>13, <1>14


\* An end whose connection stays.
LEMMA StillCalms ==
  ASSUME IInv, NEW e \in Peers, conn'[e] = conn[e], wrote'[e] = wrote[e], got'[e] = got[e],
         Unopened(e)' <=> Unopened(e), port'[e] => port[e] \/ Unopened(e),
         user'[e] = "writing" => wrote[e] + Chunk <= ByteLimit(e) /\ ~conn[e].closing
  PROVE  Calms(e)
<1>1. /\ IsConn(conn[e]) /\ (Unopened(e) => conn[e] = FreshConn)
  BY DEF IInv, Shape
<1>2. /\ St(e)' = St(e) /\ S(e)' = S(e) /\ U(e)' = U(e) /\ R(e)' = R(e) /\ Wnd(e)' = Wnd(e)
      /\ Due(e)' = Due(e) /\ Owed(e)' = Owed(e) /\ Late(e)' = Late(e)
  BY DEF St, S, U, R, Wnd, Due, Owed, Late
<1>3. Unopened(e)' = Unopened(e)
  BY DEF Unopened
<1>4. QED
  BY <1>1, <1>2, <1>3 DEF Calms

\* A step that does not touch the link.
LEMMA SameNet ==
  ASSUME IInv, net' = net,
         DOMAIN conn' = Peers, DOMAIN user' = Peers, DOMAIN wrote' = Peers, DOMAIN got' = Peers,
         DOMAIN port' = Peers
  PROVE  NoneNew /\ Domains'
  BY DEF IInv, Domains, NoneNew, Sends

\* The steps of a user that leave the connection alone.
LEMMA QuietKeeps ==
  ASSUME IInv, NEW e \in Peers,
         \/ HandleEthIdle(e) \/ OpenStack(e) \/ BeginWrite(e) \/ RetryWrite(e) \/ AbortWrite(e)
  PROVE  Kept
<1>1. /\ DOMAIN conn = Peers /\ DOMAIN user = Peers /\ DOMAIN wrote = Peers /\ DOMAIN got = Peers
      /\ DOMAIN port = Peers
  BY DEF IInv, Domains
<1>2. /\ DOMAIN user' = Peers /\ user'[Other(e)] = user[Other(e)]
      /\ Unopened(e)' <=> Unopened(e)
      /\ DOMAIN port' = Peers /\ port'[Other(e)] = port[Other(e)] /\ (port'[e] => port[e] \/ Unopened(e))
      /\ user'[e] = "writing" => wrote[e] + Chunk <= ByteLimit(e) /\ ~conn[e].closing
  <2>1. /\ user[e] = "writing" => wrote[e] + Chunk <= ByteLimit(e) /\ ~conn[e].closing
        /\ Other(e) \in Peers /\ Other(e) # e
    BY Sides DEF IInv, Shape
  <2>2. CASE HandleEthIdle(e) \/ RetryWrite(e)
    BY <1>1, <2>1, <2>2 DEF HandleEthIdle, RetryWrite, Unopened
  <2>3. CASE OpenStack(e)
    BY <1>1, <2>1, <2>3 DEF OpenStack, MayOpen, Unopened
  <2>4. CASE BeginWrite(e)
    BY <1>1, <2>1, <2>4 DEF BeginWrite, MayWrite, Unopened, PipeOpen
  <2>5. CASE AbortWrite(e)
    BY <1>1, <2>1, <2>5 DEF AbortWrite, Unopened
  <2>6. QED
    BY <2>2, <2>3, <2>4, <2>5
<1>3. conn' = conn /\ net' = net /\ wrote' = wrote /\ got' = got
  BY DEF HandleEthIdle, OpenStack, BeginWrite, RetryWrite, AbortWrite
<1>4. Calms(e) /\ Rests(Other(e))
  BY <1>2, <1>3, StillCalms DEF Rests
<1>5. QED
  BY <1>1, <1>2, <1>3, <1>4, SameNet, CalmKeeps

\* Close on the control block: it goes from CloseWait to LastAck, gives up a
\* handshake that has not begun, or owes a FIN.
LEMMA CloseIs ==
  ASSUME NEW t, IsBlock(t), Queued(t), Close(t).err = "nil"
  PROVE  LET u == Close(t).tcb
         IN  /\ IsBlock(u) /\ Queued(u)
             /\ \/ u.state = "Closed"
                \/ /\ u.state = t.state \/ (t.state = "CloseWait" /\ u.state = "LastAck")
                   /\ u.snd = t.snd /\ u.rcv = t.rcv
                   /\ FinDue(u) => FinDue(t)
                   /\ "SYN" \notin u.p0
                   /\ u.state \notin {"FinWait1", "FinWait2", "Closing", "TimeWait"}
<1> DEFINE u == Close(t).tcb
<1>1. 0 \in Value /\ 0 \in 0 .. RxCap
  BY SeqAssumption, TCPConnAssumption DEF Value
<1>2. CASE t.state = "CloseWait"
  <2>1. u = [t EXCEPT !.state = "LastAck", !.p0 = {"FIN"}, !.p1 = {"ACK"}]
    BY <1>2 DEF Close, Outcome
  <2>2. /\ u.state = "LastAck" /\ u.p0 = {"FIN"} /\ u.p1 = {"ACK"} /\ u.snd = t.snd /\ u.rcv = t.rcv
        /\ u.challengeAck = t.challengeAck /\ DOMAIN u = DOMAIN t
    BY <2>1 DEF IsBlock
  <2>3. QED
    BY <1>2, <2>2 DEF IsBlock, Queued, FinDue, States, synack
<1>3. CASE t.state \in {"Listen", "SynSent"}
  <2>1. u = Shut(t)
    BY <1>3 DEF Close, Outcome
  <2>2. /\ u.state = "Closed" /\ u.p0 = {} /\ u.p1 = {} /\ u.snd = ResetSnd(0, 0) /\ u.rcv = ResetRcv(0, 0)
        /\ u.challengeAck = t.challengeAck /\ DOMAIN u = DOMAIN t
    BY <2>1 DEF IsBlock, Shut
  <2>3. QED
    BY <1>1, <2>2 DEF IsBlock, Queued, States, synack, ResetSnd, ResetRcv
<1>4. CASE t.state \in {"SynRcvd", "Established"}
  <2>1. u = [t EXCEPT !.p0 = (t.p0 \intersect {"ACK"}) \union {"FIN"}]
    BY <1>4 DEF Close, Outcome
  <2>2. /\ u.state = t.state /\ u.p0 = (t.p0 \intersect {"ACK"}) \union {"FIN"} /\ u.p1 = t.p1
        /\ u.snd = t.snd /\ u.rcv = t.rcv /\ u.challengeAck = t.challengeAck /\ DOMAIN u = DOMAIN t
    BY <2>1 DEF IsBlock
  <2>3. QED
    BY <1>4, <2>2 DEF IsBlock, Queued, FinDue, synack
<1>5. t.state \in {"CloseWait", "Listen", "SynSent", "SynRcvd", "Established"}
  BY DEF Close, Outcome
<1>6. QED
  BY <1>2, <1>3, <1>4, <1>5

\* Close keeps both invariants.
LEMMA UserCloseKeeps ==
  ASSUME IInv, NEW e \in Peers, UserClose(e) PROVE Kept
<1> DEFINE c == conn[e]
           d == CloseConn(c).conn
<1>1. /\ DOMAIN conn = Peers /\ DOMAIN user = Peers /\ DOMAIN wrote = Peers /\ DOMAIN got = Peers
      /\ DOMAIN port = Peers
  BY DEF IInv, Domains
<1>2. /\ conn' = [conn EXCEPT ![e] = d] /\ net' = net /\ user' = user /\ wrote' = wrote /\ got' = got
      /\ port' = port /\ ~Unopened(e) /\ e \in Closers /\ user[e] # "writing"
  BY DEF UserClose, MayClose, Unopened
<1>3. /\ conn'[e] = d /\ DOMAIN conn' = Peers /\ Rests(Other(e))
  BY <1>1, <1>2, Sides DEF Rests
<1>4. IsConn(c)
  BY DEF IInv, Shape
<1>5. ~Unopened(e)' /\ Unopened(e)' = Unopened(e) /\ (user[e] = "writing" => wrote[e] + Chunk <= ByteLimit(e))
  BY <1>2 DEF IInv, Shape, Unopened
<1>6. CASE c.tx # <<>> \/ Close(c.scb).err # "nil"
  <2>1. PICK f : d = [c EXCEPT !.closing = f] /\ (c.closing => f)
    BY <1>6 DEF CloseConn
  <2>2. /\ d.scb = c.scb /\ d.tx = c.tx /\ d.rx = c.rx /\ d.late = c.late /\ DOMAIN d = DOMAIN c
        /\ c.closing => d.closing
    BY <1>4, <2>1 DEF IsConn
  <2>3. IsConn(d)
    BY <1>4, <2>2 DEF IsConn, Sealed
  <2>4. /\ St(e)' = St(e) /\ S(e)' = S(e) /\ U(e)' = U(e) /\ R(e)' = R(e) /\ Wnd(e)' = Wnd(e)
        /\ conn'[e].scb.snd.ISS = conn[e].scb.snd.ISS
        /\ Due(e)' = Due(e) /\ Owed(e)' = Owed(e) /\ Late(e)' = Late(e)
    BY <1>3, <2>2 DEF St, S, U, R, Wnd, Due, Owed, Late
  <2>5. Calms(e)
    BY <1>2, <1>3, <1>5, <2>2, <2>3, <2>4 DEF Calms
  <2>6. QED
    BY <1>1, <1>2, <1>3, <2>5, SameNet, CalmKeeps
<1>7. CASE c.tx = <<>> /\ Close(c.scb).err = "nil"
  <2>1. PICK u : u = Close(c.scb).tcb
    OBVIOUS
  <2>2. d = [c EXCEPT !.closing = TRUE, !.scb = u]
    BY <1>7, <2>1 DEF CloseConn
  <2>3. /\ d.scb = u /\ d.tx = c.tx /\ d.rx = c.rx /\ d.late = c.late /\ DOMAIN d = DOMAIN c
        /\ d.closing
    BY <1>4, <2>2 DEF IsConn
  <2>4. /\ IsBlock(u) /\ Queued(u)
        /\ \/ u.state = "Closed"
           \/ /\ u.state = c.scb.state \/ (c.scb.state = "CloseWait" /\ u.state = "LastAck")
              /\ u.snd = c.scb.snd /\ u.rcv = c.scb.rcv
              /\ FinDue(u) => FinDue(c.scb)
              /\ "SYN" \notin u.p0
              /\ u.state \notin {"FinWait1", "FinWait2", "Closing", "TimeWait"}
    BY <1>4, <1>7, <2>1, CloseIs DEF IsConn
  <2>5. IsConn(d)
    BY <1>4, <1>7, <2>3, <2>4 DEF IsConn, Sealed
  <2>6. CASE u.state = "Closed"
    <3>1. St(e)' = "Closed"
      BY <1>3, <2>3, <2>6 DEF St
    <3>2. Calms(e)
      BY <1>2, <1>3, <1>5, <2>3, <2>5, <3>1 DEF Calms
    <3>3. QED
      BY <1>1, <1>2, <1>3, <3>2, SameNet, CalmKeeps
  <2>7. CASE u.state # "Closed"
    <3>1. /\ St(e)' = St(e) \/ (St(e) = "CloseWait" /\ St(e)' = "LastAck")
          /\ S(e)' = S(e) /\ U(e)' = U(e) /\ R(e)' = R(e) /\ Wnd(e)' = Wnd(e)
          /\ conn'[e].scb.snd.ISS = conn[e].scb.snd.ISS
          /\ (Due(e)' => Due(e)) /\ "SYN" \notin Owed(e)' /\ Late(e)' = Late(e)
          /\ St(e)' # "FinWait2"
      BY <1>3, <2>3, <2>4, <2>7 DEF St, S, U, R, Wnd, Due, Owed, Late
    <3>2. Calms(e)
      BY <1>2, <1>3, <1>5, <2>3, <2>5, <3>1 DEF Calms
    <3>3. QED
      BY <1>1, <1>2, <1>3, <3>2, SameNet, CalmKeeps
  <2>8. QED
    BY <2>6, <2>7
<1>8. QED
  BY <1>6, <1>7


\* A packet twice: the SYNs excepted, every packet may come again.
LEMMA DuplicateNet ==
  ASSUME IInv, NEW e \in Peers, net[e] # <<>>, ~Syn(Head(net[e])),
         net' = [net EXCEPT ![e] = Append(@, Head(@))],
         conn' = conn, user' = user, wrote' = wrote, got' = got, port' = port
  PROVE  NoneNew /\ Domains'
<1> DEFINE o == Other(e)
           q == net[e]
           p == Head(q)
<1>1. o \in Peers /\ Other(o) = e /\ o # e /\ \A x \in Peers : x = e \/ x = o
  BY Sides
<1>2. PICK T : q \in Seq(T)
  BY DEF IInv, Domains, Queue
<1>3. q \o <<p>> = Append(q, p) /\ p = q[1] /\ 1 \in 1 .. Len(q)
  BY <1>2
<1>4. p \in Sends(o)
  BY <1>1, <1>3 DEF Sends
<1>5. net' = [net EXCEPT ![Other(o)] = @ \o <<p>>]
  BY <1>1, <1>3
<1>6. /\ DOMAIN conn' = Peers /\ DOMAIN user' = Peers /\ DOMAIN wrote' = Peers /\ DOMAIN got' = Peers
      /\ DOMAIN port' = Peers
  BY DEF IInv, Domains
<1>7. Domains' /\ Sends(o)' \subseteq Sends(o) \union {p} /\ Sends(e)' \subseteq Sends(e)
  BY <1>1, <1>5, <1>6, AppendNet
<1>8. QED
  BY <1>1, <1>4, <1>7 DEF NoneNew

\* Two packets change places.
LEMMA SwapIs ==
  ASSUME NEW q, Queue(q), Lone(q), Len(q) > 1
  PROVE  LET r == <<q[2], q[1]>> \o SubSeq(q, 3, Len(q))
         IN  /\ Queue(r) /\ Lone(r)
             /\ {r[i] : i \in 1 .. Len(r)} \subseteq {q[i] : i \in 1 .. Len(q)}
<1> DEFINE r == <<q[2], q[1]>> \o SubSeq(q, 3, Len(q))
<1>1. PICK T : q \in Seq(T)
  BY DEF Queue
<1>2. PICK n \in Nat : n = Len(q) /\ n > 1
  BY <1>1
<1>3. q[1] \in T /\ q[2] \in T
  BY <1>1, <1>2
<1>4. /\ SubSeq(q, 3, n) \in Seq(T) /\ Len(SubSeq(q, 3, n)) = n - 2
      /\ \A i \in 1 .. n - 2 : SubSeq(q, 3, n)[i] = q[i + 2]
  BY <1>1, <1>2
<1>5. <<q[2], q[1]>> \in Seq(T) /\ Len(<<q[2], q[1]>>) = 2
  BY <1>3
<1>6. r \in Seq(T) /\ Len(r) = n
  BY <1>2, <1>4, <1>5
<1>7. r[1] = q[2] /\ r[2] = q[1]
  BY <1>2, <1>4, <1>5
<1>8. \A i \in 3 .. n : r[i] = q[i]
  <2>1. SUFFICES ASSUME NEW i \in 3 .. n PROVE r[i] = q[i]
    OBVIOUS
  <2>2. r[i] = SubSeq(q, 3, n)[i - 2]
    BY <1>2, <1>4, <1>5, <2>1
  <2>3. i - 2 \in 1 .. n - 2 /\ (i - 2) + 2 = i
    BY <1>2, <2>1
  <2>4. QED
    BY <1>4, <2>2, <2>3
<1>9. PICK f : f = [i \in 1 .. n |-> IF i = 1 THEN 2 ELSE IF i = 2 THEN 1 ELSE i]
  OBVIOUS
<1>10. \A i \in 1 .. n : f[i] \in 1 .. n /\ r[i] = q[f[i]]
  BY <1>2, <1>7, <1>8, <1>9
<1>11. \A i, j \in 1 .. n : f[i] = f[j] => i = j
  BY <1>9
<1>12. Lone(r)
  BY <1>2, <1>6, <1>10, <1>11 DEF Lone
<1>13. {r[i] : i \in 1 .. Len(r)} \subseteq {q[i] : i \in 1 .. Len(q)}
  BY <1>2, <1>6, <1>10
<1>14. QED
  BY <1>6, <1>12, <1>13 DEF Queue

\* Loss, duplication and reordering keep both invariants.
LEMMA LinkKeeps ==
  ASSUME IInv, "dupsyn" \notin Faults, NEW e \in Peers, Link(e) PROVE Kept
<1> DEFINE o == Other(e)
<1>1. o \in Peers /\ Other(o) = e /\ o # e /\ \A x \in Peers : x = e \/ x = o
  BY Sides
<1>2. conn' = conn /\ user' = user /\ wrote' = wrote /\ got' = got /\ port' = port
  BY DEF Link, Drop, Duplicate, Reorder, Fault
<1>3. /\ DOMAIN conn' = Peers /\ DOMAIN user' = Peers /\ DOMAIN wrote' = Peers /\ DOMAIN got' = Peers
      /\ DOMAIN port' = Peers
  BY <1>2 DEF IInv, Domains
<1>4. NoneNew /\ Domains'
  <2>1. CASE Drop(e)
    BY <1>3, <2>1, TailNet DEF Drop
  <2>2. CASE Duplicate(e)
    <3>1. /\ net[e] # <<>> /\ ~Syn(Head(net[e]))
          /\ net' = [net EXCEPT ![e] = Append(@, Head(@))]
      BY <2>2 DEF Duplicate, Fault, Syn
    <3>2. QED
      BY <1>2, <3>1, DuplicateNet
  <2>3. CASE Reorder(e)
    <3>1. /\ Len(net[e]) > 1 /\ DOMAIN net = Peers
          /\ net' = [net EXCEPT ![e] = <<net[e][2], net[e][1]>> \o SubSeq(net[e], 3, Len(net[e]))]
          /\ Queue(net[e]) /\ Lone(net[e]) /\ Queue(net[o]) /\ Lone(net[o])
      BY <1>1, <2>3 DEF Reorder, IInv, Domains
    <3>2. PICK r : r = <<net[e][2], net[e][1]>> \o SubSeq(net[e], 3, Len(net[e]))
      OBVIOUS
    <3>3. /\ net'[e] = r /\ net'[o] = net[o] /\ DOMAIN net' = Peers
      BY <1>1, <3>1, <3>2
    <3>4. /\ Queue(r) /\ Lone(r)
          /\ {r[i] : i \in 1 .. Len(r)} \subseteq {net[e][i] : i \in 1 .. Len(net[e])}
      BY <3>1, <3>2, SwapIs
    <3>5. Sends(o)' \subseteq Sends(o) /\ Sends(e)' = Sends(e)
      BY <1>1, <3>3, <3>4 DEF Sends
    <3>6. QED
      BY <1>1, <1>3, <3>1, <3>3, <3>4, <3>5 DEF Domains, NoneNew
  <2>4. QED
    BY <2>1, <2>2, <2>3 DEF Link
<1>5. Rests(e) /\ Rests(o)
  BY <1>2 DEF Rests
<1>6. QED
  BY <1>4, <1>5, RestsCalms, CalmKeeps


\* An end that has read or written more.
Grows(e) ==
  /\ ~Unopened(e) /\ ~Unopened(e)' /\ Shape(e)' /\ Numbers(e)'
  /\ St(e)' = St(e) /\ S(e)' = S(e) /\ U(e)' = U(e) /\ R(e)' = R(e) /\ Wnd(e)' = Wnd(e)
  /\ Owed(e)' = Owed(e) /\ Late(e)' = Late(e) /\ Stream(e)' = Stream(e)
  /\ Len(got'[e]) + Len(conn'[e].rx) = Len(got[e]) + Len(conn[e].rx)
  /\ Len(got[e]) <= Len(got'[e]) /\ Len(conn'[e].rx) <= Len(conn[e].rx)
  /\ wrote[e] <= wrote'[e] /\ (wrote'[e] = wrote[e] \/ (port[e] /\ ~conn[e].closing))
  /\ port'[e] = port[e] /\ conn'[e].closing = conn[e].closing
  /\ conn'[e].scb.snd.ISS = conn[e].scb.snd.ISS

\* A step of one end that only moves octets between its user and its buffers keeps
\* the invariant.
LEMMA GrowStep ==
  ASSUME IInv, NEW e \in Peers, Grows(e), Rests(Other(e)), NoneNew, Domains'
  PROVE  IInv'
<1> DEFINE o == Other(e)
<1>1. /\ o \in Peers /\ Other(o) = e /\ o # e /\ \A x \in Peers : x = e \/ x = o
  BY Sides
<1>2. Unmoved(o) /\ wrote'[o] = wrote[o] /\ got'[o] = got[o] /\ conn'[o] = conn[o]
  BY <1>1, RestsUnmoved DEF Rests
<1>3. PICK g, h, n, m \in Nat : /\ g = Len(got[e]) /\ h = Len(got'[e])
                                /\ n = Len(conn[e].rx) /\ m = Len(conn'[e].rx)
  BY DEF IInv, Shape, Grows, IsConn
<1>4. /\ g \in Nat /\ h \in Nat /\ n \in Nat /\ m \in Nat
      /\ h + m = g + n /\ g <= h /\ m <= n
  BY <1>3 DEF Grows
<1>5. /\ Ended(e)' = Ended(e) /\ Sync(e)' = Sync(e) /\ Unopened(e)' = Unopened(e)
      /\ Room(e)' \in Nat /\ Room(e) \in Nat /\ Room(e) <= Room(e)'
      /\ R(e) \in Nat /\ RxCap \in Nat
      /\ wrote[e] \in Nat /\ wrote'[e] \in Nat /\ wrote[e] <= wrote'[e]
  <2>1. Ended(e)' = Ended(e) /\ Sync(e)' = Sync(e) /\ Unopened(e)' = Unopened(e)
    BY DEF Ended, Sync, Unopened, Grows
  <2>2. R(e) \in Nat /\ RxCap \in Nat
    BY CountsIn, TCPConnAssumption DEF IInv, Shape
  <2>3. Room(e) = 1 + g + RxCap /\ Room(e)' = 1 + h + RxCap
    BY <1>3 DEF Room
  <2>4. Room(e)' \in Nat /\ Room(e) \in Nat /\ Room(e) <= Room(e)'
    BY <1>3, <1>4, <2>2, <2>3
  <2>5. QED
    BY <2>1, <2>2, <2>4 DEF IInv, Shape, Grows
<1>6. \A x \in Peers : Received(x) /\ Prefix(x) /\ Windowed(x)
  BY DEF IInv
<1>7. \A x \in Peers : Shape(x)' /\ Numbers(x)'
  BY <1>1, CalmEnd, RestsCalms DEF Grows
<1>8. \A x \in Peers : Received(x)'
  <2>1. Received(o)'
    <3>1. R(o) \in Nat
      BY <1>1, CountsIn DEF IInv, Shape
    <3>2. R(o) <= 2 + wrote[e] => R(o) <= 2 + wrote'[e]
      BY <1>5, <3>1
    <3>3. QED
      BY <1>1, <1>2, <1>5, <1>6, <3>2 DEF Received, Unmoved, Grows, NoneNew
  <2>2. Received(e)'
    <3>1. 1 + g + n = 1 + h + m
      BY <1>4
    <3>2. 1 + Len(got'[e]) + Len(conn'[e].rx) = 1 + Len(got[e]) + Len(conn[e].rx)
      BY <1>3, <3>1
    <3>3. QED
      BY <1>1, <1>2, <1>5, <1>6, <3>2 DEF Received, Unmoved, Grows, NoneNew
  <2>3. QED
    BY <1>1, <2>1, <2>2
<1>9. \A x \in Peers : Prefix(x)'
  <2>1. Prefix(e)'
    BY <1>1, <1>2, <1>6 DEF Prefix, Grows
  <2>2. Prefix(o)'
    <3>1. PICK k \in Nat : k = Len(Stream(o))
      BY <1>1, JoinedIs DEF IInv, Shape, IsConn, Stream
    <3>2. k <= wrote[e]
      BY <1>1, <1>6, <3>1 DEF Prefix
    <3>3. k <= wrote'[e]
      BY <1>5, <3>1, <3>2
    <3>4. QED
      BY <1>1, <1>2, <1>6, <3>1, <3>3 DEF Prefix, Unmoved
  <2>3. QED
    BY <1>1, <2>1, <2>2
<1>10. \A x \in Peers : Windowed(x)'
  <2>1. Windowed(o)'
    <3>1. U(o) \in Nat /\ Wnd(o) \in Nat
      BY <1>1, CountsIn DEF IInv, Shape
    <3>2. U(o) + Wnd(o) <= Room(e) => U(o) + Wnd(o) <= Room(e)'
      BY <1>5, <3>1
    <3>3. QED
      BY <1>1, <1>2, <1>6, <3>2 DEF Windowed, Widens, Unmoved, NoneNew
  <2>2. Windowed(e)'
    BY <1>1, <1>2, <1>6 DEF Windowed, Widens, Unmoved, NoneNew, Grows
  <2>3. QED
    BY <1>1, <2>1, <2>2
<1>11. ASSUME NEW x \in Peers, NEW p \in Sends(x)'
       PROVE  Flagged(x, p)' /\ Carries(x, p)' /\ Acknowledges(x, p)'
  <2>1. p \in Sends(x) /\ Flagged(x, p) /\ Carries(x, p) /\ Acknowledges(x, p)
    BY <1>11 DEF IInv, NoneNew
  <2>2. PICK k, a, d, f, l \in Nat : /\ k = K(x, p) /\ a = A(x, p) /\ d = Edge(x, p)
                                     /\ f = End(x, p) /\ l = Len(p.data)
    BY <2>1, PacketCountsIn DEF Flagged
  <2>3. /\ Flagged(x, p)'
        /\ k \in Nat /\ a \in Nat /\ d \in Nat /\ f \in Nat /\ l \in Nat
    BY <1>1, <1>2, <1>5, <2>1, <2>2 DEF Flagged, Unmoved
  <2>4. /\ k + l <= 1 + wrote[e] => k + l <= 1 + wrote'[e]
        /\ k + l <= Room(e) => k + l <= Room(e)'
        /\ f <= 2 + wrote[e] => f <= 2 + wrote'[e]
        /\ a <= 2 + wrote[e] => a <= 2 + wrote'[e]
        /\ d <= Room(e) => d <= Room(e)'
        /\ d <= R(e) + RxCap - n => d <= R(e) + RxCap - m
    BY <1>4, <1>5, <2>3
  <2>5. Carries(x, p)'
    BY <1>1, <1>2, <1>5, <2>1, <2>2, <2>4 DEF Carries, Unmoved, Grows
  <2>6. Acknowledges(x, p)'
    BY <1>1, <1>2, <1>3, <1>5, <2>1, <2>2, <2>4 DEF Acknowledges, Unmoved, Grows
  <2>7. QED
    BY <2>3, <2>5, <2>6
<1>12. \A x \in Peers : \A p, q \in Sends(x)' : Paired(x, p, q)'
  BY DEF IInv, NoneNew, Paired, Newer
<1>13. Shaking'
  <2>1. Shaking
    BY DEF IInv
  <2>2. CASE e = "client" /\ o = "server"
    BY <1>2, <1>5, <2>1, <2>2 DEF Shaking, Unanswered, Undialled, Unmoved, Grows, NoneNew, Peers
  <2>3. CASE e = "server" /\ o = "client"
    BY <1>2, <1>5, <2>1, <2>3 DEF Shaking, Unanswered, Undialled, Unmoved, Grows, NoneNew, Peers
  <2>4. QED
    BY <2>2, <2>3 DEF Peers, Other
<1>14. QED
  BY <1>7, <1>8, <1>9, <1>10, <1>11, <1>12, <1>13 DEF IInv


\* It keeps the second as well: nobody writes any more to an end that has taken a FIN
\* and may still send.
LEMMA GrowKeeps ==
  ASSUME IInv, NEW e \in Peers, Grows(e), Rests(Other(e)), NoneNew, Domains'
  PROVE  Kept
<1> DEFINE o == Other(e)
<1>0. IInv'
  BY GrowStep
<1> SUFFICES ASSUME JInv PROVE JInv'
  BY <1>0 DEF Kept
<1>1. /\ o \in Peers /\ Other(o) = e /\ o # e /\ \A x \in Peers : x = e \/ x = o
  BY Sides
<1>2. /\ Firm(o) /\ Unmoved(o) /\ wrote'[o] = wrote[o] /\ port'[o] = port[o] /\ Rests(o)
      /\ Taken(o)' = Taken(o) /\ Unfinished(o)' = Unfinished(o)
      /\ Gone(o)' = Gone(o) /\ Stopped(o)' = Stopped(o)
  BY <1>1, RestsFirm
<1>3. /\ St(e)' = St(e) /\ S(e)' = S(e) /\ U(e)' = U(e) /\ R(e)' = R(e) /\ Wnd(e)' = Wnd(e)
      /\ Owed(e)' = Owed(e) /\ ~Unopened(e) /\ ~Unopened(e)'
      /\ port'[e] = port[e] /\ conn'[e].closing = conn[e].closing
      /\ conn'[e].scb.snd.ISS = conn[e].scb.snd.ISS
      /\ wrote[e] <= wrote'[e] /\ (wrote'[e] = wrote[e] \/ (port[e] /\ ~conn[e].closing))
  BY DEF Grows
<1>4. /\ Ended(e)' = Ended(e) /\ Sync(e)' = Sync(e) /\ Taken(e)' = Taken(e)
      /\ Sends(e)' \subseteq Sends(e) /\ Sends(o)' \subseteq Sends(o)
  BY <1>1, <1>3 DEF Ended, Sync, Taken, Grows, NoneNew
<1>5. /\ Stopped(e)' = Stopped(e) /\ Gone(e)' = Gone(e) /\ Unfinished(e)' = Unfinished(e)
      /\ wrote'[e] = wrote[e] \/ ~Stopped(e)
  BY <1>3, <1>4 DEF Stopped, Gone, Unfinished
<1>6. /\ Firm(e) /\ Complete(e)' = Complete(e)
      /\ Complete(o) => Complete(o)' /\ wrote'[e] = wrote[e]
  <2>1. Firm(e)
    BY <1>4, <1>5 DEF Firm
  <2>2. QED
    BY <1>1, <1>2, <1>4, <2>1, CompleteKept DEF Complete
<1>7. Took(e)' = Took(e)
  BY <1>3, <1>4 DEF Took
<1>8. /\ Closes(e) /\ Heard(e) /\ Buffered(e) /\ Buffered(o) /\ Lasting(e) /\ Lasting(o) /\ Heard(o)
      /\ Ordered(e) /\ \A q \in Sends(e) : Finishes(e, q)
  BY <1>1 DEF JInv, Ends
<1>9. Ends(o)' /\ Ordered(o)' /\ Buffered(e)'
  BY <1>2, <1>3, <1>4, <1>6, <1>8, RestEnds, BufferedKept
<1>10. Closes(e)'
  BY <1>3, <1>4, <1>8 DEF Closes
<1>11. Heard(e)'
  BY <1>2, <1>3, <1>4, <1>5, <1>6, <1>7, <1>8 DEF Heard
<1>12. \A q \in Sends(e)' : Finishes(e, q)'
  BY <1>2, <1>4, <1>6, <1>8, FinishesKept
<1>13. /\ Room(e) \in Nat /\ Room(e)' \in Nat /\ Room(e) <= Room(e)'
       /\ wrote[e] \in Nat /\ wrote'[e] \in Nat
  <2>1. /\ wrote[e] \in Nat /\ got[e] \in Seq(Int) /\ wrote'[e] \in Nat /\ got'[e] \in Seq(Int)
        /\ RxCap \in Nat
    BY <1>0, TCPConnAssumption DEF IInv, Shape
  <2>2. PICK g, h \in Nat : g = Len(got[e]) /\ h = Len(got'[e])
    BY <2>1
  <2>3. g <= h /\ Room(e) = 1 + g + RxCap /\ Room(e)' = 1 + h + RxCap
    BY <2>2 DEF Room, Grows
  <2>4. QED
    BY <2>1, <2>2, <2>3
<1>14. Ordered(e)'
  <2>1. SUFFICES ASSUME Unfinished(o) PROVE Ordered(e)'
    BY <1>2 DEF Ordered
  <2>2. /\ \A p \in Sends(e) : Tells(p) => Reach(e, p) <= Room(e)
        /\ \A p, q \in Sends(e) : Tells(p) /\ Tells(q) /\ Follows(e, p, q)
             => Told(e, q) <= Told(e, p) /\ Reach(e, q) <= Reach(e, p)
        /\ \A p, q \in Sends(e) : /\ Ack(p) /\ K(e, p) = 2 + wrote[e]
                                  /\ Ack(q) /\ K(e, q) = 2 + wrote[e]
             => A(e, q) = A(e, p) /\ Edge(e, q) = Edge(e, p)
    BY <1>8, <2>1 DEF Ordered
  <2>3. ASSUME NEW p \in Sends(e), Tells(p) PROVE Reach(e, p) <= Room(e)'
    <3>1. IsPkt(p) /\ Reach(e, p) <= Room(e)
      BY <2>2, <2>3 DEF IInv, Flagged
    <3>2. Reach(e, p) \in Nat
      BY <3>1, TellsIn
    <3>3. QED
      BY <1>13, <3>1, <3>2
  <2>4. ASSUME NEW p \in Sends(e), K(e, p) = 2 + wrote'[e] PROVE wrote'[e] = wrote[e]
    <3>1. IsPkt(p) /\ End(e, p) <= 2 + wrote[e]
      BY <2>4 DEF IInv, Flagged, Carries
    <3>2. PICK k, n \in Nat : k = K(e, p) /\ n = SegLen(p.seg)
      BY <3>1, PacketCountsIn
    <3>3. k + n <= 2 + wrote[e]
      BY <3>1, <3>2 DEF End
    <3>4. QED
      BY <1>3, <1>13, <2>4, <3>2, <3>3
  <2>5. \A p, q \in Sends(e) : /\ Ack(p) /\ K(e, p) = 2 + wrote'[e]
                               /\ Ack(q) /\ K(e, q) = 2 + wrote'[e]
             => A(e, q) = A(e, p) /\ Edge(e, q) = Edge(e, p)
    BY <2>2, <2>4
  <2>6. QED
    BY <1>4, <2>2, <2>3, <2>5 DEF Ordered
<1>15. Buffered(o)'
  <2>1. SUFFICES ASSUME port[e] PROVE Buffered(o)'
    BY <1>1, <1>3 DEF Buffered
  <2>2. \A n : Holds(o, n) => n <= 1 + Taken(e)' \/ Complete(e)'
    BY <1>1, <1>4, <1>6 DEF Holds
  <2>3. Sync(o)' => Holds(o, U(o))'
    <3>1. Sync(o) => Holds(o, U(o))
      BY <1>1, <1>8, <2>1 DEF Buffered
    <3>2. QED
      BY <1>1, <1>2, <2>2, <3>1 DEF Holds, Unmoved
  <2>4. ASSUME NEW q \in Sends(e)', Ack(q) PROVE (Holds(o, A(e, q)) \/ Gone(o))'
    <3>1. Holds(o, A(e, q)) \/ Gone(o)
      BY <1>1, <1>4, <1>8, <2>1, <2>4 DEF Buffered
    <3>2. A(e, q)' = A(e, q)
      BY DEF A
    <3>3. QED
      BY <1>1, <1>2, <2>2, <3>1, <3>2 DEF Holds
  <2>5. QED
    BY <1>1, <2>3, <2>4 DEF Buffered
<1>16. Lasting(e)'
  <2>1. Room(o)' = Room(o)
    BY <1>2 DEF Unmoved
  <2>2. QED
    BY <1>1, <1>2, <1>3, <1>4, <1>8, <2>1 DEF Lasting
<1>17. Lasting(o)'
  <2>1. /\ St(o)' = St(o) /\ U(o)' = U(o) /\ S(o)' = S(o) /\ Wnd(o)' = Wnd(o) /\ R(o)' = R(o)
        /\ U(o) \in Nat /\ Wnd(o) \in Nat
    BY <1>1, <1>2, CountsIn DEF Unmoved, IInv, Shape
  <2>2. ASSUME St(o) = "CloseWait"
        PROVE  /\ U(o) <= S(o) /\ S(o) <= U(o) + Wnd(o) /\ U(o) + Wnd(o) <= Room(e)'
               /\ \A p \in Sends(e) : Ack(p) /\ K(e, p) = 2 + wrote'[e]
                    => A(e, p) >= U(o) /\ Edge(e, p) >= U(o) + Wnd(o)
    <3>1. wrote'[e] = wrote[e]
      BY <1>1, <1>6, <1>8, <2>2 DEF Heard, Unfinished
    <3>2. /\ U(o) <= S(o) /\ S(o) <= U(o) + Wnd(o) /\ U(o) + Wnd(o) <= Room(e)
          /\ \A p \in Sends(e) : Ack(p) /\ K(e, p) = 2 + wrote[e]
               => A(e, p) >= U(o) /\ Edge(e, p) >= U(o) + Wnd(o)
      BY <1>1, <1>8, <2>2 DEF Lasting
    <3>3. U(o) + Wnd(o) <= Room(e)'
      BY <1>13, <2>1, <3>2
    <3>4. QED
      BY <3>1, <3>2, <3>3
  <2>3. St(o) = "Established" => \A p \in Sends(e) : Fin(p) =>
          K(e, p) < R(o) \/ (Told(e, p) >= U(o) /\ Reach(e, p) >= U(o) + Wnd(o))
    BY <1>1, <1>8 DEF Lasting
  <2>4. QED
    BY <1>1, <1>4, <2>1, <2>2, <2>3 DEF Lasting
<1>18. QED
  BY <1>1, <1>9, <1>10, <1>11, <1>12, <1>14, <1>15, <1>16, <1>17 DEF JInv, Ends

\* Read keeps both invariants.
LEMMA ReadAllKeeps ==
  ASSUME IInv, NEW e \in Peers, ReadAll(e) PROVE Kept
<1> DEFINE c == conn[e]
           d == [c EXCEPT !.rx = <<>>]
<1>1. /\ DOMAIN conn = Peers /\ DOMAIN user = Peers /\ DOMAIN wrote = Peers /\ DOMAIN got = Peers
      /\ DOMAIN port = Peers
      /\ Shape(e) /\ Numbers(e) /\ IsConn(c)
  BY DEF IInv, Domains, Shape
<1>2. /\ conn' = [conn EXCEPT ![e] = d] /\ got' = [got EXCEPT ![e] = got[e] \o c.rx]
      /\ net' = net /\ user' = user /\ wrote' = wrote /\ port' = port
      /\ ~Unopened(e) /\ c.rx # <<>>
  BY DEF ReadAll, MayRead, Unopened
<1>3. /\ conn'[e] = d /\ got'[e] = got[e] \o c.rx
      /\ DOMAIN conn' = Peers /\ DOMAIN got' = Peers /\ Rests(Other(e))
  BY <1>1, <1>2, Sides DEF Rests
<1>4. /\ d.scb = c.scb /\ d.tx = c.tx /\ d.rx = <<>> /\ d.late = c.late /\ DOMAIN d = DOMAIN c
      /\ d.closing = c.closing
  BY <1>1 DEF IsConn
<1>5. got[e] \in Seq(Int) /\ c.rx \in Seq(Int) /\ RxCap \in Nat
  BY <1>1, TCPConnAssumption DEF Shape, IsConn
<1>6. /\ got[e] \o c.rx \in Seq(Int) /\ Len(<<>>) = 0 /\ <<>> \in Seq(Int)
      /\ Len(got[e] \o c.rx) = Len(got[e]) + Len(c.rx)
      /\ Len(got[e]) \in Nat /\ Len(c.rx) \in Nat /\ (got[e] \o c.rx) \o <<>> = got[e] \o c.rx
  BY <1>5, JoinedIs
<1>7. /\ Len(got'[e]) + Len(conn'[e].rx) = Len(got[e]) + Len(conn[e].rx)
      /\ Len(got[e]) <= Len(got'[e]) /\ Len(conn'[e].rx) <= Len(conn[e].rx)
  <2>1. PICK g, n \in Nat : g = Len(got[e]) /\ n = Len(c.rx)
    BY <1>6
  <2>2. Len(got'[e]) = g + n /\ Len(conn'[e].rx) = 0
    BY <1>3, <1>4, <1>6, <2>1
  <2>3. \A a, b \in Nat : (a + b) + 0 = a + b /\ a <= a + b /\ 0 <= b
    OBVIOUS
  <2>4. QED
    BY <2>1, <2>2, <2>3
<1>8. /\ St(e)' = St(e) /\ S(e)' = S(e) /\ U(e)' = U(e) /\ R(e)' = R(e) /\ Wnd(e)' = Wnd(e)
      /\ Owed(e)' = Owed(e) /\ Late(e)' = Late(e) /\ Due(e)' = Due(e) /\ Sync(e)' = Sync(e)
      /\ ~Unopened(e)' /\ Stream(e)' = Stream(e)
  BY <1>2, <1>3, <1>4, <1>6 DEF St, S, U, R, Wnd, Owed, Late, Due, Sync, Unopened, Stream
<1>9. IsConn(d)
  BY <1>1, <1>4, <1>5, <1>6 DEF IsConn, Sealed
<1>10. Shape(e)'
  BY <1>1, <1>2, <1>3, <1>4, <1>6, <1>8, <1>9 DEF Shape
<1>11. Numbers(e)'
  BY <1>1, <1>2, <1>3, <1>4, <1>8 DEF Numbers
<1>12. wrote[e] <= wrote'[e]
  BY <1>1, <1>2 DEF Shape
<1>13. Grows(e)
  BY <1>2, <1>3, <1>4, <1>7, <1>8, <1>10, <1>11, <1>12 DEF Grows
<1>14. QED
  BY <1>1, <1>2, <1>3, <1>13, SameNet, GrowKeeps

\* The bytes of one Write, behind those that wait.
LEMMA ChunkIs ==
  ASSUME NEW t \in Seq(Int), NEW w \in Nat, NEW l \in Nat, l = Len(t),
         \A i \in 1 .. l : t[i] = w - l + i
  PROVE  LET s == t \o [i \in 1 .. Chunk |-> w + i]
         IN  /\ s \in Seq(Int) /\ Len(s) = l + Chunk
             /\ \A i \in 1 .. l + Chunk : s[i] = (w + Chunk) - (l + Chunk) + i
<1> DEFINE b == [i \in 1 .. Chunk |-> w + i]
           s == t \o b
<1>1. Chunk \in Nat
  BY TCPLinkAssumption, TCPConnAssumption
<1>2. b \in Seq(Int) /\ Len(b) = Chunk /\ \A i \in 1 .. Chunk : b[i] = w + i
  BY <1>1
<1>3. /\ s \in Seq(Int) /\ Len(s) = l + Chunk
      /\ \A i \in 1 .. l : s[i] = t[i]
      /\ \A i \in 1 .. l + Chunk : i > l => s[i] = b[i - l]
  <2>1. PICK a : a = b
    OBVIOUS
  <2>2. a \in Seq(Int) /\ Len(a) = Chunk
    BY <1>2, <2>1
  <2>3. /\ t \o a \in Seq(Int) /\ Len(t \o a) = l + Chunk
        /\ \A i \in 1 .. l : (t \o a)[i] = t[i]
        /\ \A i \in 1 .. l + Chunk : i > l => (t \o a)[i] = a[i - l]
    <3>1. /\ t \o a \in Seq(Int) /\ Len(t \o a) = Len(t) + Len(a)
          /\ \A i \in 1 .. Len(t) : (t \o a)[i] = t[i]
          /\ \A i \in 1 .. Len(t \o a) : i > Len(t) => (t \o a)[i] = a[i - Len(t)]
      BY <2>2, JoinedIs, Zenon
    <3>2. QED
      BY <2>2, <3>1
  <2>4. QED
    BY <2>1, <2>3
<1>4. ASSUME NEW i \in 1 .. l + Chunk PROVE s[i] = (w + Chunk) - (l + Chunk) + i
  <2>1. /\ i \in Int /\ (w + Chunk) - (l + Chunk) + i = w - l + i
        /\ i <= l \/ i > l
    BY <1>1, <1>4
  <2>2. CASE i <= l
    <3>1. i \in 1 .. l
      BY <1>1, <1>4, <2>2
    <3>2. s[i] = t[i]
      BY <1>3, <3>1
    <3>3. QED
      BY <2>1, <3>1, <3>2
  <2>3. CASE i > l
    <3>1. i - l \in 1 .. Chunk /\ w + (i - l) = w - l + i
      BY <1>1, <1>4, <2>3
    <3>2. s[i] = b[i - l]
      BY <1>3, <1>4, <2>3
    <3>3. QED
      BY <1>2, <2>1, <3>1, <3>2
  <2>4. QED
    BY <2>1, <2>2, <2>3
<1>5. QED
  BY <1>3, <1>4


\* Write keeps both invariants.
LEMMA FinishWriteKeeps ==
  ASSUME IInv, NEW e \in Peers, FinishWrite(e) PROVE Kept
<1> DEFINE c == conn[e]
           s == c.tx \o [i \in 1 .. Chunk |-> wrote[e] + i]
           d == [c EXCEPT !.tx = s]
<1>1. /\ DOMAIN conn = Peers /\ DOMAIN user = Peers /\ DOMAIN wrote = Peers /\ DOMAIN got = Peers
      /\ DOMAIN port = Peers
      /\ Shape(e) /\ Numbers(e) /\ IsConn(c)
  BY DEF IInv, Domains, Shape
<1>2. /\ conn' = [conn EXCEPT ![e] = d] /\ wrote' = [wrote EXCEPT ![e] = wrote[e] + Chunk]
      /\ user' = [user EXCEPT ![e] = "idle"]
      /\ net' = net /\ got' = got /\ user[e] = "writing" /\ Fits(e) /\ port' = port /\ port[e]
  BY DEF FinishWrite
<1>3. /\ conn'[e] = d /\ wrote'[e] = wrote[e] + Chunk /\ user'[e] = "idle" /\ got'[e] = got[e]
      /\ DOMAIN conn' = Peers /\ DOMAIN wrote' = Peers /\ DOMAIN user' = Peers /\ Rests(Other(e))
      /\ DOMAIN got' = Peers
  BY <1>1, <1>2, Sides DEF Rests
<1>4. /\ d.scb = c.scb /\ d.tx = s /\ d.rx = c.rx /\ d.late = c.late /\ DOMAIN d = DOMAIN c
      /\ d.closing = c.closing
  BY <1>1 DEF IsConn
<1>5. /\ c.tx \in Seq(Int) /\ wrote[e] \in Nat /\ Chunk \in Nat /\ TxCap \in Nat
      /\ wrote[e] + Chunk <= ByteLimit(e) /\ ~c.closing
  BY <1>1, <1>2, TCPLinkAssumption, TCPConnAssumption DEF Shape, IsConn
<1>6. PICK l \in Nat : l = Len(c.tx)
  BY <1>5
<1>7. /\ s \in Seq(Int) /\ Len(s) = l + Chunk
  <2>1. [i \in 1 .. Chunk |-> wrote[e] + i] \in Seq(Int) /\ Len([i \in 1 .. Chunk |-> wrote[e] + i]) = Chunk
    BY <1>5
  <2>2. QED
    BY <1>5, <1>6, <2>1, JoinedIs
<1>8. l + Chunk <= TxCap
  <2>1. Chunk <= TxCap - l
    BY <1>2, <1>6 DEF Fits
  <2>2. QED
    BY <1>5, <1>6, <2>1
<1>9. /\ St(e)' = St(e) /\ S(e)' = S(e) /\ U(e)' = U(e) /\ R(e)' = R(e) /\ Wnd(e)' = Wnd(e)
      /\ Owed(e)' = Owed(e) /\ Late(e)' = Late(e) /\ Due(e)' = Due(e) /\ Sync(e)' = Sync(e)
      /\ ~Unopened(e) /\ ~Unopened(e)' /\ Stream(e)' = Stream(e)
  BY <1>2, <1>3, <1>4 DEF St, S, U, R, Wnd, Owed, Late, Due, Sync, Unopened, Stream
<1>10. IsConn(d)
  BY <1>1, <1>4, <1>5, <1>7, <1>8 DEF IsConn, Sealed
<1>11. Shape(e)'
  <2>1. wrote[e] + Chunk \in Nat
    BY <1>5
  <2>2. QED
    BY <1>1, <1>3, <1>5, <1>9, <1>10, <2>1 DEF Shape, ByteLimit
<1>12. Numbers(e)'
  <2>1. S(e) \in Nat /\ wrote[e] \in Nat /\ Chunk \in Nat /\ l \in Nat
    BY <1>1, <1>5, <1>6, CountsIn
  <2>2. /\ St(e) \in Opening => l = wrote[e] /\ l + Chunk = wrote[e] + Chunk
        /\ St(e) = "Established" => S(e) = 1 + wrote[e] - l
        /\ Sync(e) => S(e) <= 2 + wrote[e]
        /\ Due(e) => S(e) <= 1 + wrote[e]
    BY <1>1, <1>6 DEF Numbers
  <2>3. /\ S(e) = 1 + wrote[e] - l => S(e) = 1 + (wrote[e] + Chunk) - (l + Chunk)
        /\ S(e) <= 2 + wrote[e] => S(e) <= 2 + (wrote[e] + Chunk)
        /\ S(e) <= 1 + wrote[e] => S(e) <= 1 + (wrote[e] + Chunk)
    BY <2>1
  <2>4. ASSUME St(e) \in Opening \union {"Established"}
        PROVE  \A i \in 1 .. l + Chunk : s[i] = (wrote[e] + Chunk) - (l + Chunk) + i
    <3>1. \A i \in 1 .. l : c.tx[i] = wrote[e] - l + i
      BY <1>1, <1>6, <2>4 DEF Numbers
    <3>2. QED
      BY <1>5, <1>6, <3>1, ChunkIs
  <2>5. PICK w, m : w = wrote[e] + Chunk /\ m = l + Chunk
    OBVIOUS
  <2>6. /\ wrote'[e] = w /\ conn'[e].tx = s /\ Len(conn'[e].tx) = m /\ conn'[e].rx = c.rx
        /\ got'[e] = got[e] /\ conn'[e].scb.snd.ISS = c.scb.snd.ISS
    BY <1>3, <1>4, <1>7, <2>5
  <2>7. /\ St(e) \in Opening => m = w
        /\ St(e) = "Established" => S(e) = 1 + w - m
        /\ Sync(e) => S(e) <= 2 + w
        /\ Due(e) => S(e) <= 1 + w
        /\ St(e) \in Opening \union {"Established"} => \A i \in 1 .. m : s[i] = w - m + i
    BY <2>2, <2>3, <2>4, <2>5
  <2>8. Numbers(e)
    BY <1>1
  <2>9. QED
    BY <1>9, <2>6, <2>7, <2>8 DEF Numbers
<1>13. wrote[e] <= wrote'[e]
  BY <1>3, <1>5
<1>14. /\ Len(got'[e]) + Len(conn'[e].rx) = Len(got[e]) + Len(conn[e].rx)
       /\ Len(got[e]) <= Len(got'[e]) /\ Len(conn'[e].rx) <= Len(conn[e].rx)
  <2>1. got'[e] = got[e] /\ conn'[e].rx = c.rx
    BY <1>3, <1>4
  <2>2. Len(got[e]) \in Nat /\ Len(c.rx) \in Nat
    BY <1>1 DEF Shape, IsConn
  <2>3. \A n \in Nat : n <= n
    OBVIOUS
  <2>4. QED
    BY <2>1, <2>2, <2>3
<1>15. Grows(e)
  <2>1. /\ port' = port /\ port[e] /\ ~conn[e].closing /\ conn'[e].closing = conn[e].closing
        /\ conn'[e].scb.snd.ISS = conn[e].scb.snd.ISS
    BY <1>2, <1>3, <1>4, <1>5
  <2>2. QED
    BY <1>9, <1>11, <1>12, <1>13, <1>14, <2>1 DEF Grows
<1>16. QED
  BY <1>1, <1>2, <1>3, <1>15, SameNet, GrowKeeps


\* What the first segment of a dial does to the control block.
LEMMA DialledIs ==
  ASSUME NEW t, IsBlock(t), t.state = "SynSent", t.p0 = {"SYN"}, t.p1 = {}, ~t.challengeAck,
         t.snd = ResetSnd(ClientISS, 1), t.rcv.WND = RxCap
  PROVE  LET u == Send(t, MakeSegment(ClientISS, 0, RxCap, {"SYN"}, 0)).tcb
         IN  /\ IsBlock(u) /\ Queued(u) /\ u.state = "SynSent" /\ u.p0 = {}
             /\ u.snd.ISS = ClientISS /\ u.snd.UNA = ClientISS /\ u.snd.NXT = Add(ClientISS, 1)
<1>0. PICK g, u : g = MakeSegment(ClientISS, 0, RxCap, {"SYN"}, 0) /\ u = Send(t, g).tcb
  OBVIOUS
<1>1. /\ ClientISS \in Value /\ 0 \in Value /\ RxCap \in Nat /\ RxCap >= 1 /\ RxCap <= MaxWnd
      /\ MaxWnd \in Nat
  BY SeqAssumption, TCPConnAssumption, TCPLinkAssumption DEF Value
<1>2. /\ g.SEQ = ClientISS /\ g.WND = RxCap /\ g.Flags = {"SYN"} /\ g.DATALEN = 0
  BY <1>0 DEF MakeSegment
<1>3. SegLen(g) = 1
  <2>1. SegLen(g) = Wrap(0 + 0 + 1)
    BY <1>2 DEF SegLen, Has
  <2>2. QED
    BY <2>1, WrapIs, SeqAssumption
<1>4. /\ t.snd.ISS = ClientISS /\ t.snd.UNA = ClientISS /\ t.snd.NXT = ClientISS /\ t.snd.WND = 1
      /\ DOMAIN t.snd = {"ISS", "UNA", "NXT", "WND"}
  BY DEF ResetSnd
<1>5. Last(g) = ClientISS /\ InWindow(ClientISS, ClientISS, 1)
  <2>1. PICK i \in Value : i = ClientISS
    BY <1>1
  <2>2. Last(g) = Wrap(Add(i, 1) - 1)
    BY <1>2, <1>3, <2>1 DEF Last
  <2>3. i \in Nat /\ i < SeqMod /\ SeqMod \in Nat /\ SeqMod > 1
    BY <2>1, SeqAssumption DEF Value
  <2>4. /\ Wrap(Add(i, 1) - 1) = i /\ Wrap(Add(i, 1) - i) = 1
    <3>1. CASE i + 1 < SeqMod
      <4>1. Add(i, 1) = i + 1
        BY <2>3, <3>1, WrapIs DEF Add
      <4>2. (i + 1) - 1 = i /\ (i + 1) - i = 1
        BY <2>3
      <4>3. Wrap(i) = i /\ Wrap(1) = 1
        BY <2>3, WrapIs
      <4>4. QED
        BY <4>1, <4>2, <4>3
    <3>2. CASE i + 1 = SeqMod
      <4>1. Add(i, 1) = 0
        BY <2>3, <3>2, WrapIs DEF Add
      <4>2. Wrap(0 - 1) = SeqMod - 1 /\ Wrap(0 - i) = 0 - i + SeqMod
        BY <2>3, <3>2, WrapIs
      <4>3. SeqMod - 1 = i /\ 0 - i + SeqMod = 1
        BY <2>3, <3>2
      <4>4. QED
        BY <4>1, <4>2, <4>3
    <3>3. QED
      BY <2>3, <3>1, <3>2
  <2>5. i - i = 0 /\ Wrap(0) = 0
    BY <2>3, WrapIs
  <2>6. InWindow(i, i, 1)
    BY <2>4, <2>5 DEF InWindow, InRange
  <2>7. QED
    BY <2>1, <2>2, <2>4, <2>6
<1>6. InWindow(ClientISS, t.snd.NXT, t.snd.WND)
  BY <1>4, <1>5
<1>7. OutgoingError(t, g) = "nil"
  BY <1>1, <1>2, <1>4, <1>5, <1>6 DEF OutgoingError, Has
<1>8. u = Sent(t, g)
  BY <1>0, <1>7 DEF Send, Outcome
<1>9. StateAfterSend(t, g) = "SynSent" /\ QueueAfterSend(t, g).p0 = {} /\ QueueAfterSend(t, g).p1 = {}
  BY <1>2 DEF StateAfterSend, QueueAfterSend, Has
<1>10. Add(ClientISS, 1) \in Value
  BY <1>1, AddIn
<1>11. /\ u.state = StateAfterSend(t, g) /\ u.p0 = QueueAfterSend(t, g).p0
       /\ u.p1 = QueueAfterSend(t, g).p1 /\ u.challengeAck = t.challengeAck /\ DOMAIN u = DOMAIN t
       /\ u.snd.ISS = t.snd.ISS /\ u.snd.UNA = t.snd.UNA /\ u.snd.NXT = Add(t.snd.NXT, SegLen(g))
       /\ u.snd.WND = t.snd.WND /\ DOMAIN u.snd = DOMAIN t.snd
       /\ u.rcv.NXT = t.rcv.NXT /\ u.rcv.WND = g.WND /\ DOMAIN u.rcv = DOMAIN t.rcv
  BY <1>8 DEF Sent, IsBlock
<1>12. /\ u.state = "SynSent" /\ u.p0 = {} /\ u.p1 = {} /\ ~u.challengeAck
       /\ u.snd.ISS = ClientISS /\ u.snd.UNA = ClientISS /\ u.snd.NXT = Add(ClientISS, 1)
       /\ u.snd.WND = 1 /\ u.rcv.WND = RxCap
  BY <1>2, <1>3, <1>4, <1>9, <1>11
<1>13. IsBlock(u)
  BY <1>1, <1>10, <1>11, <1>12 DEF IsBlock, States
<1>14. Queued(u)
  BY <1>12 DEF Queued, synack
<1>15. QED
  BY <1>0, <1>12, <1>13, <1>14

\* open: where a connection begins.
LEMMA OpenedIs ==
  ASSUME NEW e \in Peers
  PROVE  LET d == IF e = "client" THEN OpenConn(FreshConn, "SynSent", ClientISS)
                  ELSE OpenConn(FreshConn, "Listen", ServerISS)
         IN  /\ IsConn(d) /\ d.tx = <<>> /\ d.rx = <<>> /\ d.late /\ ~d.closing
             /\ d.scb.snd.ISS = Iss(e) /\ d.scb.snd.UNA = Iss(e) /\ d.scb.p0 = {}
             /\ e = "client" => d.scb.state = "SynSent" /\ d.scb.snd.NXT = Add(Iss(e), 1)
             /\ e = "server" => d.scb.state = "Listen" /\ d.scb.snd.NXT = Iss(e)
<1>1. /\ Iss(e) \in Value /\ 0 \in Value /\ RxCap \in Nat /\ RxCap >= 1 /\ RxCap <= MaxWnd
      /\ MaxWnd \in Nat /\ TxCap \in Nat
  BY SeqAssumption, TCPConnAssumption, TCPLinkAssumption DEF Value, Iss
<1>2. <<>> \in Seq(Int) /\ Len(<<>>) = 0
  OBVIOUS
<1>3. ZeroTCB.state = "Closed" /\ ~(RxCap > MaxWnd)
  BY <1>1 DEF ZeroTCB
<1>4. CASE e = "server"
  <2>1. PICK t : t = [ZeroTCB EXCEPT !.state = "Listen", !.rcv = ResetRcv(RxCap, 0),
                                     !.snd = ResetSnd(ServerISS, 1), !.p0 = {}, !.p1 = {}]
    OBVIOUS
  <2>2. Open(ZeroTCB, ServerISS, RxCap, "Listen") = Outcome(t, "nil")
    BY <1>3, <2>1 DEF Open
  <2>3. PICK d : d = OpenConn(FreshConn, "Listen", ServerISS)
    OBVIOUS
  <2>4. d = [FreshConn EXCEPT !.scb = t, !.remote = FALSE, !.tx = <<>>, !.rx = <<>>]
    <3>1. /\ Open(FreshConn.scb, ServerISS, RxCap, "Listen").tcb = t
          /\ Open(FreshConn.scb, ServerISS, RxCap, "Listen").err = "nil"
      BY <2>2 DEF Outcome, FreshConn
    <3>2. ("Listen" = "SynSent") = FALSE
      OBVIOUS
    <3>3. QED
      BY <2>3, <3>1, <3>2 DEF OpenConn
  <2>5. /\ d.scb = t /\ d.tx = <<>> /\ d.rx = <<>> /\ d.late /\ DOMAIN d = DOMAIN FreshConn
        /\ ~d.closing
    BY <2>4 DEF FreshConn
  <2>6. /\ IsBlock(t) /\ Queued(t) /\ t.state = "Listen" /\ t.p0 = {}
        /\ t.snd.ISS = Iss(e) /\ t.snd.UNA = Iss(e) /\ t.snd.NXT = Iss(e)
    BY <1>1, <1>4, <2>1 DEF IsBlock, Queued, ZeroTCB, ResetRcv, ResetSnd, States, synack, Iss
  <2>7. IsConn(d)
    BY <1>1, <1>2, <2>5, <2>6, FreshIs DEF IsConn, Sealed, OwesFin
  <2>8. QED
    BY <1>4, <2>3, <2>5, <2>6, <2>7
<1>5. CASE e = "client"
  <2>1. PICK t : t = [ZeroTCB EXCEPT !.state = "SynSent", !.rcv = ResetRcv(RxCap, 0),
                                     !.snd = ResetSnd(ClientISS, 1), !.p0 = {"SYN"}, !.p1 = {}]
    OBVIOUS
  <2>2. Open(ZeroTCB, ClientISS, RxCap, "SynSent") = Outcome(t, "nil")
    BY <1>3, <2>1 DEF Open
  <2>3. PICK c : c = [FreshConn EXCEPT !.scb = t, !.remote = TRUE, !.tx = <<>>, !.rx = <<>>]
    OBVIOUS
  <2>4. /\ IsBlock(t) /\ t.state = "SynSent" /\ t.p0 = {"SYN"} /\ t.p1 = {} /\ ~t.challengeAck
        /\ t.snd = ResetSnd(ClientISS, 1) /\ t.rcv.WND = RxCap
    BY <1>1, <1>5, <2>1 DEF IsBlock, ZeroTCB, ResetRcv, ResetSnd, States, Iss
  <2>5. PICK u : u = Send(t, MakeSegment(ClientISS, 0, RxCap, {"SYN"}, 0)).tcb
    OBVIOUS
  <2>6. c.scb = t /\ SynsentSegment(c) = MakeSegment(ClientISS, 0, RxCap, {"SYN"}, 0)
    BY <2>3, <2>4 DEF FreshConn, SynsentSegment, ResetSnd
  <2>7. PICK d : d = OpenConn(FreshConn, "SynSent", ClientISS)
    OBVIOUS
  <2>8. d = [c EXCEPT !.scb = u]
    <3>1. /\ Open(FreshConn.scb, ClientISS, RxCap, "SynSent").tcb = t
          /\ Open(FreshConn.scb, ClientISS, RxCap, "SynSent").err = "nil"
      BY <2>2 DEF Outcome, FreshConn
    <3>2. ("SynSent" = "SynSent") = TRUE
      OBVIOUS
    <3>3. d = [c EXCEPT !.scb = Send(c.scb, SynsentSegment(c)).tcb]
      BY <2>3, <2>7, <3>1, <3>2 DEF OpenConn
    <3>4. QED
      BY <2>5, <2>6, <3>3
  <2>9. /\ d.scb = u /\ d.tx = <<>> /\ d.rx = <<>> /\ d.late /\ DOMAIN d = DOMAIN FreshConn
        /\ ~d.closing
    BY <2>3, <2>8 DEF FreshConn
  <2>10. /\ IsBlock(u) /\ Queued(u) /\ u.state = "SynSent" /\ u.p0 = {}
         /\ u.snd.ISS = Iss(e) /\ u.snd.UNA = Iss(e) /\ u.snd.NXT = Add(Iss(e), 1)
    BY <1>5, <2>4, <2>5, DialledIs DEF Iss
  <2>11. IsConn(d)
    BY <1>1, <1>2, <2>9, <2>10, FreshIs DEF IsConn, Sealed, OwesFin
  <2>12. QED
    BY <1>5, <2>7, <2>9, <2>10, <2>11
<1>6. QED
  BY <1>4, <1>5 DEF Peers


\* OpenDialTCP and OpenListenTCP keep both invariants.
LEMMA FinishOpenKeeps ==
  ASSUME IInv, NEW e \in Peers, FinishOpen(e) PROVE Kept
<1> DEFINE o == Other(e)
<1>1. /\ o \in Peers /\ Other(o) = e /\ o # e /\ \A x \in Peers : x = e \/ x = o
  BY Sides
<1>2. /\ DOMAIN conn = Peers /\ DOMAIN user = Peers /\ DOMAIN wrote = Peers /\ DOMAIN got = Peers
      /\ DOMAIN port = Peers
      /\ Shape(e) /\ Shaking
  BY DEF IInv, Domains
<1>3. /\ Unopened(e) /\ net' = net /\ wrote' = wrote /\ got' = got /\ port' = port
      /\ user' = [user EXCEPT ![e] = "idle"]
  BY DEF FinishOpen, Unopened
<1>4. conn[e] = FreshConn /\ St(e) = "Closed" /\ got[e] = <<>> /\ wrote[e] = 0
  BY <1>2, <1>3, UnopenedClosed DEF Shape
<1>5. PICK d : d = IF e = "client" THEN OpenConn(FreshConn, "SynSent", ClientISS)
                   ELSE OpenConn(FreshConn, "Listen", ServerISS)
  OBVIOUS
<1>6. conn' = [conn EXCEPT ![e] = d]
  BY <1>4, <1>5 DEF FinishOpen
<1>7. /\ conn'[e] = d /\ user'[e] = "idle" /\ ~Unopened(e)' /\ wrote'[e] = 0 /\ got'[e] = <<>>
      /\ DOMAIN conn' = Peers /\ DOMAIN user' = Peers /\ DOMAIN wrote' = Peers /\ DOMAIN got' = Peers
      /\ DOMAIN port' = Peers
      /\ Rests(o)
  BY <1>1, <1>2, <1>3, <1>4, <1>6 DEF Rests, Unopened
<1>8. NoneNew /\ Domains' /\ Sends(e)' = Sends(e) /\ Sends(o)' = Sends(o)
  BY <1>3, <1>7, SameNet DEF Sends
<1>9. /\ IsConn(d) /\ d.tx = <<>> /\ d.rx = <<>> /\ d.late /\ ~d.closing
      /\ d.scb.snd.ISS = Iss(e) /\ d.scb.snd.UNA = Iss(e) /\ d.scb.p0 = {}
      /\ e = "client" => d.scb.state = "SynSent" /\ d.scb.snd.NXT = Add(Iss(e), 1)
      /\ e = "server" => d.scb.state = "Listen" /\ d.scb.snd.NXT = Iss(e)
  BY <1>5, OpenedIs
<1>10. /\ e = "client" => St(e)' = "SynSent" /\ S(e)' = 1 /\ U(e)' = 0
       /\ e = "server" => St(e)' = "Listen" /\ S(e)' = 0
       /\ Late(e)' /\ Owed(e)' = {}
  <2>1. PICK i \in Value : i = Iss(e)
    BY NumIs, SeqAssumption DEF Value
  <2>2. i \in Nat /\ SeqMod \in Nat /\ SeqMod > 1
    BY <2>1, SeqAssumption DEF Value
  <2>3. Num(e, i) = 0
    <3>1. Num(e, i) = i - i
      BY <2>1, <2>2, NumIs
    <3>2. QED
      BY <2>2, <3>1
  <2>4. Num(e, Add(i, 1)) = 1
    BY <2>1, <2>2, <2>3, NumAdd
  <2>5. QED
    BY <1>7, <1>9, <2>1, <2>3, <2>4 DEF St, S, U, Late, Owed
<1>11. /\ St(e)' \in {"Listen", "SynSent"} /\ ~Ended(e)' /\ ~Ended(e) /\ ~Sync(e)' /\ ~Sync(e) /\ ~Due(e)'
       /\ e \in {"client", "server"}
  <2>1. St(e)' \in {"Listen", "SynSent"} /\ e \in {"client", "server"}
    BY <1>10 DEF Peers
  <2>2. ~Due(e)'
    BY <2>1 DEF Due, FinDue, St
  <2>3. QED
    BY <1>3, <1>4, <2>1, <2>2 DEF Ended, Sync, Opening
<1>12. Shape(e)'
  <2>1. 0 \in Nat /\ 0 <= ByteLimit(e) /\ <<>> \in Seq(Int)
    BY TCPLinkAssumption DEF ByteLimit
  <2>2. QED
    BY <1>7, <1>9, <1>10, <1>11, <2>1 DEF Shape, ByteLimit
<1>13. Numbers(e)'
  <2>1. Len(<<>>) = 0
    OBVIOUS
  <2>2. conn'[e].tx = <<>> /\ Len(conn'[e].tx) = 0 /\ conn'[e].rx = <<>> /\ conn'[e].scb.snd.ISS = Iss(e)
    BY <1>7, <1>9, <2>1
  <2>3. QED
    BY <1>7, <1>10, <1>11, <2>2 DEF Numbers
<1>14. Unmoved(o) /\ wrote'[o] = wrote[o] /\ wrote'[e] = wrote[e] /\ Room(e)' = Room(e) /\ conn'[o] = conn[o]
  BY <1>3, <1>7, RestsUnmoved DEF Rests, Room
<1>15. /\ Sends(e) = {}
       /\ \A p \in Sends(o) : Syn(p) /\ ~Ack(p) /\ p.data = <<>> /\ o = "client" /\ IsPkt(p)
       /\ ~Sync(o) /\ St(o) \in {"Closed", "Listen", "SynSent"}
  <2>1. Sends(e) = {}
    BY <1>3 DEF IInv, Flagged
  <2>2. CASE e = "client" /\ o = "server"
    <3>1. Undialled
      BY <1>3, <2>2 DEF Undialled
    <3>2. Sends(o) = {} /\ St(o) \in {"Closed", "Listen"}
      BY <1>2, <2>2, <3>1 DEF Shaking
    <3>3. QED
      BY <2>1, <3>2 DEF Sync
  <2>3. CASE e = "server" /\ o = "client"
    <3>1. Unanswered
      BY <1>3, <2>3 DEF Unanswered
    <3>2. /\ \A p \in Sends(o) : Syn(p)
          /\ Unopened(o) \/ St(o) \in {"Closed", "SynSent"}
      BY <1>2, <2>3, <3>1 DEF Shaking
    <3>3. St(o) \in {"Closed", "SynSent"}
      BY <1>1, <3>2, UnopenedClosed
    <3>4. \A p \in Sends(o) : Flagged(o, p)
      BY <1>1 DEF IInv
    <3>5. \A p \in Sends(o) : ~Ack(p) /\ p.data = <<>> /\ IsPkt(p)
      BY <2>3, <3>2, <3>4 DEF Flagged
    <3>6. QED
      BY <2>1, <2>3, <3>2, <3>3, <3>5 DEF Sync
  <2>4. QED
    BY <2>2, <2>3 DEF Peers, Other
<1>16. \A x \in Peers : ~Sync(x)' /\ St(x)' \in {"Closed", "Listen", "SynSent"}
  BY <1>1, <1>11, <1>14, <1>15 DEF Unmoved
<1>17. \A x \in Peers : Shape(x)' /\ Numbers(x)' /\ Received(x)' /\ Windowed(x)'
  <2>1. Shape(o)' /\ Numbers(o)'
    BY <1>1, <1>7, CalmEnd, RestsCalms
  <2>2. \A x \in Peers : Received(x)' /\ Windowed(x)'
    BY <1>16 DEF Received, Windowed
  <2>3. QED
    BY <1>1, <1>12, <1>13, <2>1, <2>2
<1>18. \A x \in Peers : Prefix(x)'
  BY <1>1, <1>3, <1>7, <1>9, <1>14, KeptPrefix
<1>19. \A x \in Peers : \A p \in Sends(x)' : Flagged(x, p)' /\ Carries(x, p)' /\ Acknowledges(x, p)'
  <2>1. SUFFICES ASSUME NEW p \in Sends(o)
                 PROVE  Flagged(o, p)' /\ Carries(o, p)' /\ Acknowledges(o, p)'
    BY <1>1, <1>8, <1>15
  <2>2. /\ Flagged(o, p) /\ Carries(o, p) /\ Syn(p) /\ ~Ack(p) /\ p.data = <<>>
    BY <1>1, <1>15 DEF IInv
  <2>3. Flagged(o, p)'
    BY <1>1, <1>11, <1>14, <2>2 DEF Flagged, Unmoved
  <2>4. Carries(o, p)'
    BY <1>1, <1>14, <1>16, <2>2 DEF Carries, Unmoved
  <2>5. QED
    BY <2>2, <2>3, <2>4 DEF Acknowledges
<1>20. \A x \in Peers : \A p, q \in Sends(x)' : Paired(x, p, q)'
  BY <1>8 DEF IInv, NoneNew, Paired, Newer
<1>21. Shaking'
  <2>1. CASE e = "client" /\ o = "server"
    BY <1>2, <1>3, <1>7, <1>8, <1>10, <1>14, <1>15, <1>16, <2>1
       DEF Shaking, Unanswered, Undialled, Unmoved, Peers
  <2>2. CASE e = "server" /\ o = "client"
    BY <1>2, <1>3, <1>7, <1>8, <1>10, <1>14, <1>15, <1>16, <2>2
       DEF Shaking, Unanswered, Undialled, Unmoved, Peers
  <2>3. QED
    BY <2>1, <2>2 DEF Peers, Other
<1>22. IInv'
  BY <1>8, <1>17, <1>18, <1>19, <1>20, <1>21 DEF IInv
<1>23. ASSUME JInv PROVE Silent'
  <2>1. \A x \in Peers : conn'[x].closing => x \in Closers
    BY <1>1, <1>7, <1>9, <1>14, <1>23 DEF JInv, Ends, Closes
  <2>2. \A x \in Peers : \A p \in Sends(x)' : ~Ack(p) /\ ~Fin(p)
    <3>1. \A p \in Sends(o) : ~Ack(p) /\ Syn(p) /\ Flagged(o, p)
      BY <1>1, <1>15 DEF IInv
    <3>2. QED
      BY <1>1, <1>8, <1>15, <3>1 DEF Flagged
  <2>3. QED
    BY <1>16, <2>1, <2>2 DEF Silent
<1>24. QED
  BY <1>22, <1>23, SilentKept DEF Kept


-----------------------------------------------------------------------------
(* Theorems *)

\* Before anything is opened the invariant holds.
LEMMA InitIInv == Init => IInv
<1> SUFFICES ASSUME Init PROVE IInv
  OBVIOUS
<1>1. /\ <<>> \in Seq(Int) /\ Len(<<>>) = 0 /\ 0 \in Nat /\ <<>> \o <<>> = <<>> /\ 1 .. 0 = {}
  OBVIOUS
<1>2. ASSUME NEW e \in Peers
      PROVE  /\ conn[e] = FreshConn /\ net[e] = <<>> /\ user[e] = "new" /\ wrote[e] = 0 /\ got[e] = <<>>
             /\ Unopened(e) /\ St(e) = "Closed" /\ ~Sync(e) /\ ~Due(e) /\ Sends(e) = {}
  <2>1. conn[e] = FreshConn /\ net[e] = <<>> /\ user[e] = "new" /\ wrote[e] = 0 /\ got[e] = <<>>
    BY <1>2 DEF Init
  <2>2. net[Other(e)] = <<>>
    BY <1>2, Sides DEF Init
  <2>3. Unopened(e) /\ St(e) = "Closed"
    BY <2>1, FreshIs DEF Unopened, St
  <2>4. ~Sync(e) /\ ~Due(e) /\ Sends(e) = {}
    BY <1>1, <2>2, <2>3 DEF Sync, Due, FinDue, St, Sends
  <2>5. QED
    BY <2>1, <2>3, <2>4
<1>3. Domains
  <2>1. \A e \in Peers : Queue(net[e]) /\ Lone(net[e])
    BY <1>1, <1>2 DEF Queue, Lone
  <2>2. QED
    BY <2>1 DEF Init, Domains
<1>4. Shaking
  BY <1>2 DEF Shaking, Peers
<1>5. ASSUME NEW e \in Peers PROVE Shape(e) /\ Numbers(e) /\ Received(e) /\ Prefix(e) /\ Windowed(e)
  <2>1. Shape(e)
    <3>1. 0 <= ByteLimit(e)
      BY TCPLinkAssumption DEF ByteLimit
    <3>2. QED
      BY <1>1, <1>2, <1>5, <3>1, FreshIs DEF Shape
  <2>2. Numbers(e) /\ Received(e) /\ Windowed(e)
    BY <1>2, <1>5 DEF Numbers, Received, Windowed, Opening
  <2>3. Prefix(e)
    <3>1. Stream(e) = <<>> /\ Len(Stream(e)) = 0 /\ wrote[Other(e)] = 0
      BY <1>1, <1>2, <1>5, Sides, FreshIs DEF Stream
    <3>2. QED
      BY <1>1, <3>1 DEF Prefix
  <2>4. QED
    BY <2>1, <2>2, <2>3
<1>6. QED
  BY <1>2, <1>3, <1>4, <1>5 DEF IInv

\* Where the theorems hold.  One SYN goes each way: none is sent again after three
\* seconds, none is duplicated by the link.  What the server writes before the
\* handshake is over does not fill its transmit buffer, which a send of no octets
\* would take for empty.  No stream takes half the sequence space.
Quiet == ~Clock /\ "dupsyn" \notin Faults /\ ServerBytes < TxCap /\ HalfLap

\* Every step keeps both invariants.
LEMMA NextKeeps == ASSUME Quiet PROVE IInv /\ [Next]_vars => Kept
<1> SUFFICES ASSUME IInv, [Next]_vars PROVE Kept
  OBVIOUS
<1> USE DEF Quiet
<1>1. CASE UNCHANGED vars
  <2>1. conn' = conn /\ net' = net /\ user' = user /\ wrote' = wrote /\ got' = got /\ port' = port
    BY <1>1 DEF vars
  <2>2. Rests("client") /\ Rests("server") /\ "client" \in Peers /\ Other("client") = "server"
    BY <2>1 DEF Rests, Peers, Other
  <2>3. NoneNew /\ Domains'
    BY <2>1, SameNet DEF IInv, Domains
  <2>4. QED
    BY <2>2, <2>3, RestsCalms, CalmKeeps
<1>2. ASSUME NEW e \in Peers, Interface(e) PROVE Kept
  BY <1>2, RecvEthKeeps, HandleEthKeeps, QuietKeeps DEF Interface
<1>3. ASSUME NEW e \in Peers, User(e) PROVE Kept
  BY <1>3, QuietKeeps, FinishOpenKeeps, FinishWriteKeeps, ReadAllKeeps, UserCloseKeeps DEF User
<1>4. ASSUME NEW e \in Peers, Link(e) PROVE Kept
  BY <1>4, LinkKeeps
<1>5. ASSUME NEW e \in Peers, Idle(e) PROVE Kept
  BY <1>5 DEF Idle
<1>6. QED
  BY <1>1, <1>2, <1>3, <1>4, <1>5 DEF Next

\* Before anything is opened the second invariant holds too ...
LEMMA InitJInv == Init => JInv
<1> SUFFICES ASSUME Init, NEW e \in Peers
             PROVE  St(e) = "Closed" /\ ~conn[e].closing /\ Sends(e) = {}
  BY SilentHolds DEF Silent
<1>1. conn[e] = FreshConn /\ net[Other(e)] = <<>>
  BY Sides DEF Init
<1>2. ~FreshConn.closing /\ Len(<<>>) = 0 /\ 1 .. 0 = {}
  BY DEF FreshConn
<1>3. QED
  BY <1>1, <1>2, FreshIs DEF St, Sends

\* ... and both hold ever after.
LEMMA BothHold == ASSUME Quiet PROVE Spec => [](IInv /\ JInv)
<1>1. Init => IInv /\ JInv
  BY InitIInv, InitJInv
<1>2. (IInv /\ JInv) /\ [Next]_vars => (IInv /\ JInv)'
  BY NextKeeps DEF Kept
<1>3. QED
  BY <1>1, <1>2, PTL DEF Spec

\* The reader of either side is given the bytes that the user of the other side
\* wrote, from the first on, in order and none of them twice, however often the
\* link loses, repeats or reorders what carries them.
THEOREM StreamIsPrefix == ASSUME Quiet PROVE Spec => []StreamPrefix
<1>1. Init => IInv
  BY InitIInv
<1>2. IInv /\ [Next]_vars => IInv'
  BY NextKeeps DEF Kept
<1>3. IInv => StreamPrefix
  BY DEF IInv, Prefix, StreamPrefix
<1>4. QED
  BY <1>1, <1>2, <1>3, PTL DEF Spec

\* What the receiver expects next lies between what the sender knows acknowledged
\* and what it has sent, in the int32 order of the sequence numbers: the two
\* control blocks never lose track of each other.
THEOREM BothEndsAgree == ASSUME Quiet PROVE Spec => []SeqAgreement
<1>1. Init => IInv
  BY InitIInv
<1>2. IInv /\ [Next]_vars => IInv'
  BY NextKeeps DEF Kept
<1>3. IInv => SeqAgreement
  <2>1. SUFFICES ASSUME IInv, NEW e \in Peers, Synced(e), Synced(Other(e))
                 PROVE  /\ LessThanEq(conn[e].scb.snd.UNA, conn[Other(e)].scb.rcv.NXT)
                        /\ LessThanEq(conn[Other(e)].scb.rcv.NXT, conn[e].scb.snd.NXT)
    BY DEF SeqAgreement
  <2> DEFINE o == Other(e)
  <2>2. o \in Peers /\ Other(o) = e /\ Sync(e) /\ Sync(o)
    <3>1. \A x : IsSynchronized(x) => x \notin {"Closed", "Listen", "SynSent"}
      BY DEF IsSynchronized, IsClosing, IsClosed
    <3>2. QED
      BY <2>1, <3>1, Sides DEF Synced, Sync, St
  <2>3. Received(o) /\ Numbers(e) /\ Shape(e) /\ IsConn(conn[e]) /\ IsConn(conn[o])
    <3>1. Shape(e) /\ Shape(o)
      BY <2>1, <2>2 DEF IInv
    <3>2. QED
      BY <2>1, <2>2, <3>1 DEF IInv, Shape
  <2>4. U(e) <= R(o) /\ R(o) <= S(e) /\ S(e) <= 2 + wrote[e]
    BY <2>2, <2>3 DEF Received, Numbers
  <2>5. U(e) \in Nat /\ R(o) \in Nat /\ S(e) \in Nat
    BY <2>2, <2>3, CountsIn
  <2>6. 2 * S(e) < SeqMod /\ 2 * R(o) < SeqMod /\ 2 * U(e) < SeqMod
    <3>1. wrote[e] \in Nat /\ ByteLimit(e) \in Nat /\ wrote[e] <= ByteLimit(e) /\ 2 * (ByteLimit(e) + 2) < SeqMod
      BY <2>3, TCPLinkAssumption DEF Shape, ByteLimit, Quiet, HalfLap
    <3>2. QED
      BY <2>4, <2>5, <3>1, SeqAssumption
  <2>7. PICK u, r, s \in Value : /\ u = conn[e].scb.snd.UNA /\ r = conn[o].scb.rcv.NXT
                                 /\ s = conn[e].scb.snd.NXT
    BY <2>3 DEF IsConn, IsBlock
  <2>8. U(e) = Num(e, u) /\ R(o) = Num(e, r) /\ S(e) = Num(e, s)
    BY <2>2, <2>7 DEF U, R, S
  <2>9. LessThanEq(u, r) /\ LessThanEq(r, s)
    BY <2>4, <2>6, <2>7, <2>8, NumLess
  <2>10. QED
    BY <2>7, <2>9
<1>4. QED
  BY <1>1, <1>2, <1>3, PTL DEF Spec

\* An end that is synchronized has had the SYN of the other side.
LEMMA SyncedSync == ASSUME NEW e, Synced(e) PROVE Sync(e) /\ port[e]
<1>1. \A x : IsSynchronized(x) => x \notin {"Closed", "Listen", "SynSent"}
  BY DEF IsSynchronized, IsClosing, IsClosed
<1>2. QED
  BY <1>1 DEF Synced, Sync, St

\* What a sender knows acknowledged is in the receive buffer of the other side or has
\* been read from it: no segment that recv lets the control block accept is refused by
\* the ring afterwards, whatever the window did meanwhile.
THEOREM AckedAreBuffered == ASSUME Quiet PROVE Spec => []AckedIsBuffered
<1>1. IInv /\ JInv => AckedIsBuffered
  <2>1. SUFFICES ASSUME IInv, JInv, NEW e \in Peers, Synced(e), port[Other(e)]
                 PROVE  LET snd == conn[e].scb.snd
                        IN  Smaller(wrote[e], Sizeof(snd.ISS, snd.UNA) - 1) <= Len(Stream(Other(e)))
    BY DEF AckedIsBuffered
  <2> DEFINE o == Other(e)
  <2>2. o \in Peers /\ Other(o) = e /\ Sync(e)
    BY <2>1, Sides, SyncedSync
  <2>3. Shape(e) /\ Shape(o) /\ Closes(e) /\ Buffered(e)
    BY <2>1, <2>2 DEF IInv, JInv, Ends
  <2>4. /\ conn[e].scb.snd.ISS = Iss(e) /\ conn[e].scb.snd.ISS \in Value
        /\ conn[e].scb.snd.UNA \in Value /\ IsConn(conn[e])
    BY <2>2, <2>3 DEF Closes, Shape, IsConn, IsBlock
  <2>5. Num(e, conn[e].scb.snd.ISS) = 0
    <3>1. PICK i \in Int : i = Iss(e)
      BY <2>4, SeqAssumption DEF Value
    <3>2. i - i = 0 /\ 0 < SeqMod /\ 0 >= 0
      BY SeqAssumption
    <3>3. Wrap(i - i) = 0
      BY <3>2, WrapIs
    <3>4. QED
      BY <2>4, <3>1, <3>3 DEF Num
  <2>6. PICK u \in Nat : u = U(e) /\ Sizeof(conn[e].scb.snd.ISS, conn[e].scb.snd.UNA) = u
    <3>1. U(e) \in Nat
      BY <2>4, CountsIn
    <3>2. Sizeof(conn[e].scb.snd.ISS, conn[e].scb.snd.UNA) = U(e) - 0
      BY <2>4, <2>5, <3>1, NumSize DEF U
    <3>3. QED
      BY <3>1, <3>2
  <2>7. PICK w, n \in Nat : w = wrote[e] /\ n = Taken(o) /\ n = Len(Stream(o))
    <3>1. wrote[e] \in Nat
      BY <2>3 DEF Shape
    <3>2. QED
      BY <2>2, <2>3, <3>1, TakenIn
  <2>8. u <= 1 + n \/ w = n
    BY <2>1, <2>2, <2>3, <2>6, <2>7 DEF Buffered, Holds, Complete
  <2>9. Smaller(w, u - 1) <= n
    BY <2>8 DEF Smaller
  <2>10. QED
    BY <2>6, <2>7, <2>9
<1>2. QED
  BY <1>1, BothHold, PTL

\* The end that is closed upon: it has taken a FIN without having sent one.
PassiveHasAll ==
  \A e \in Peers :
    St(e) \in {"CloseWait", "LastAck"}
      => Len(Stream(e)) = wrote[Other(e)] /\ (port[Other(e)] => conn[Other(e)].closing)

\* Whatever both users write and whichever of them closes: an end that goes to
\* CloseWait has all that the other user wrote, and the other user had called Close,
\* unless its port is gone.  The FIN of the end that closes first overtakes no data.
THEOREM PassiveHasAllOctets == ASSUME Quiet PROVE Spec => []PassiveHasAll
<1>1. IInv /\ JInv => PassiveHasAll
  <2>1. SUFFICES ASSUME IInv, JInv, NEW e \in Peers, St(e) \in {"CloseWait", "LastAck"}
                 PROVE  /\ Len(Stream(e)) = wrote[Other(e)]
                        /\ port[Other(e)] => conn[Other(e)].closing
    BY DEF PassiveHasAll
  <2>2. Complete(e)
    <3>1. Heard(e)
      BY <2>1 DEF JInv, Ends
    <3>2. Took(e) /\ (Unfinished(e) \/ St(e) = "LastAck")
      BY <2>1, <3>1 DEF Heard, Unfinished
    <3>3. QED
      BY <3>1, <3>2 DEF Heard
  <2>3. Taken(e) = Len(Stream(e))
    BY <2>1, TakenIn DEF IInv
  <2>4. QED
    BY <2>2, <2>3 DEF Complete, Stopped
<1>2. QED
  BY <1>1, BothHold, PTL

\* One side closes, and the other has nothing to say: a CloseWait end sends the FIN of
\* its own without what its user wrote before, so that an end in Closing or TimeWait
\* has everything only if there was nothing.
Orderly == \E c \in Peers : Closers \subseteq {c} /\ ByteLimit(Other(c)) = 0

\* A side that has taken the other's FIN has everything the other user wrote.
THEOREM FinComesLast == ASSUME Quiet, Orderly PROVE Spec => []FinIsLast
<1>1. IInv /\ JInv /\ PassiveHasAll => FinIsLast
  <2>1. SUFFICES ASSUME IInv, JInv, PassiveHasAll, NEW e \in Peers,
                        St(e) \in {"CloseWait", "LastAck", "Closing", "TimeWait"}
                 PROVE  Len(Stream(e)) = wrote[Other(e)]
    BY DEF FinIsLast, St
  <2>2. CASE St(e) \in {"CloseWait", "LastAck"}
    BY <2>1, <2>2 DEF PassiveHasAll
  <2>3. CASE St(e) \in {"Closing", "TimeWait"}
    <3>1. Shape(e) /\ Shape(Other(e)) /\ Prefix(e) /\ Closes(e)
      BY <2>1, Sides DEF IInv, JInv, Ends
    <3>2. conn[e].closing
      BY <2>3, <3>1 DEF Shape, IsConn, Sealed, St
    <3>3. ByteLimit(Other(e)) = 0
      BY <3>1, <3>2 DEF Closes, Orderly
    <3>4. wrote[Other(e)] \in Nat /\ wrote[Other(e)] <= 0
      BY <3>1, <3>3 DEF Shape
    <3>5. Len(Stream(e)) \in Nat /\ Len(Stream(e)) <= wrote[Other(e)]
      BY <2>1, <3>1, TakenIn DEF Prefix
    <3>6. QED
      BY <3>4, <3>5
  <2>4. QED
    BY <2>1, <2>2, <2>3
<1>2. QED
  BY <1>1, BothHold, PassiveHasAllOctets, PTL

\* HandleEth never closes a port, and never panics, over a segment that PendingSegment
\* proposed itself: what is in flight stays within the window of the peer, so that the
\* "bad calculation" assertion cannot fire and Send refuses nothing.
THEOREM PendingIsSent == ASSUME Quiet, ~Int32 PROVE Spec => []SendAcceptsPending
<1>1. IInv /\ JInv => SendAcceptsPending
  <2>1. SUFFICES ASSUME IInv, JInv, NEW e \in Peers
                 PROVE  SendPacket(conn[e]).err \notin {"error", "panic"}
    BY DEF SendAcceptsPending
  <2>2. Shape(e) /\ Windowed(e) /\ Lasting(e) /\ IsConn(conn[e])
    BY <2>1 DEF IInv, JInv, Shape
  <2>3. ASSUME St(e) \in {"Established", "CloseWait"} PROVE InFlight(conn[e].scb) <= Wnd(e)
    <3>1. U(e) <= S(e) /\ S(e) <= U(e) + Wnd(e)
      BY <2>2, <2>3 DEF Windowed, Lasting
    <3>2. conn[e].scb.snd.NXT \in Value /\ conn[e].scb.snd.UNA \in Value
      BY <2>2 DEF IsConn, IsBlock
    <3>3. InFlight(conn[e].scb) = S(e) - U(e)
      BY <3>1, <3>2, NumSize DEF InFlight, S, U
    <3>4. S(e) \in Nat /\ U(e) \in Nat /\ Wnd(e) \in Nat
      BY <2>2, CountsIn
    <3>5. QED
      BY <3>1, <3>3, <3>4
  <2>4. QED
    BY <2>2, <2>3, SendNeverFails DEF St, Wnd
<1>2. QED
  BY <1>1, BothHold, PTL
=============================================================================

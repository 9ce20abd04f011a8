--------------------------- MODULE ListenerProofs ---------------------------
(***************************************************************************)
(* Proofs about Listener: no two slots serve the same remote, and Accept   *)
(* hands out no connection whose client is still waiting for its SYN to be *)
(* answered, for any number of slots and clients, any sizes, and users     *)
(* that call handles of connections long gone.                             *)
(***************************************************************************)
EXTENDS Listener, WellFoundedInduction, TLAPS

(* Control blocks *)

IsBlock(t) == DOMAIN t = {"state", "snd", "rcv", "rstPtr", "p0", "p1", "challengeAck"}

\* No block owes a challenge ACK, because a reset that is not exact never passes
\* IncomingError; and a SYN that it owes is that of a SYN-ACK.
Tidy(t) ==
  /\ IsBlock(t)
  /\ ~t.challengeAck
  /\ "SYN" \in t.p0 => t.p0 = synack
  /\ "SYN" \notin t.p1

\* u comes of t by a method of the control block.
Follows(t, u) ==
  /\ Tidy(u)
  /\ u.state = "SynSent" => t.state = "SynSent"

\* Every method of the control block gives a tidy one, and none of them dials.
LEMMA ShutFollows == ASSUME NEW t, Tidy(t) PROVE Follows(t, Shut(t))
  BY DEF Tidy, IsBlock, Shut, Follows

\* A reset moves a block only as Follows allows.
LEMMA HandleRSTFollows ==
  ASSUME NEW t, Tidy(t) PROVE Follows(t, HandleRST(t, t.rcv.NXT).tcb)
<1>1. Follows(t, Relisten(t))
  BY DEF Tidy, IsBlock, Relisten, Follows
<1>2. QED
  BY <1>1, ShutFollows DEF HandleRST, Outcome

\* So does a segment that is dropped,
LEMMA AfterDropFollows ==
  ASSUME NEW t, NEW seg, Tidy(t) PROVE Follows(t, AfterDrop(t, seg))
  BY DEF Tidy, IsBlock, AfterDrop, Follows

\* What the methods for the states give, before Accepted.
LEMMA RcvInStateFollows ==
  ASSUME NEW t, NEW seg, Tidy(t),
         t.state = "SynSent" /\ Has(seg, "SYN") => Has(seg, "ACK")
  PROVE  /\ Follows(t, RcvInState(t, seg).tcb)
         /\ RcvInState(t, seg).pending \in {{}, {"ACK"}, synack}
         /\ RcvInState(t, seg).pending = synack => RcvInState(t, seg).tcb.p0 = synack
<1> USE DEF Tidy, IsBlock, Follows, Step, synack
<1> DEFINE Good(s) == /\ Follows(t, s.tcb) /\ s.pending \in {{}, {"ACK"}, synack}
                      /\ s.pending = synack => s.tcb.p0 = synack
<1>1. CASE t.state = "Listen"
  <2>1. Good(RcvListen(t, seg))
    BY DEF RcvListen
  <2>2. QED
    BY <1>1, <2>1 DEF RcvInState
<1>2. CASE t.state = "SynSent"
  <2>1. Good(RcvSynSent(t, seg))
    BY <1>2 DEF RcvSynSent
  <2>2. QED
    BY <1>2, <2>1 DEF RcvInState
<1>3. CASE t.state = "SynRcvd"
  <2>1. Good(RcvSynRcvd(t, seg))
    BY DEF RcvSynRcvd
  <2>2. QED
    BY <1>3, <2>1 DEF RcvInState
<1>4. CASE t.state = "Established"
  <2>1. Good(RcvEstablished(t, seg))
    BY DEF RcvEstablished
  <2>2. QED
    BY <1>4, <2>1 DEF RcvInState
<1>5. CASE t.state = "FinWait1"
  <2>1. Good(RcvFinWait1(t, seg))
    BY DEF RcvFinWait1
  <2>2. QED
    BY <1>5, <2>1 DEF RcvInState
<1>6. CASE t.state = "FinWait2"
  <2>1. Good(RcvFinWait2(t, seg))
    BY DEF RcvFinWait2
  <2>2. QED
    BY <1>6, <2>1 DEF RcvInState
<1>7. CASE t.state = "LastAck"
  <2>1. Good(RcvLastAck(t, seg))
    BY ShutFollows DEF RcvLastAck
  <2>2. QED
    BY <1>7, <2>1 DEF RcvInState
<1>8. CASE t.state = "Closing"
  <2>1. Good(RcvClosing(t, seg))
    BY DEF RcvClosing
  <2>2. QED
    BY <1>8, <2>1 DEF RcvInState
<1>9. CASE t.state \notin {"Listen", "SynSent", "SynRcvd", "Established", "FinWait1",
                           "FinWait2", "LastAck", "Closing"}
  BY <1>9 DEF RcvInState
<1>10. QED
  BY <1>1, <1>2, <1>3, <1>4, <1>5, <1>6, <1>7, <1>8, <1>9

\* Recv, of a segment that does not both open and reset.
LEMMA RecvFollows ==
  ASSUME NEW t, NEW seg, Tidy(t), ~(Has(seg, "RST") /\ Has(seg, "SYN")),
         t.state = "SynSent" /\ Has(seg, "SYN") => Has(seg, "ACK")
  PROVE  Follows(t, Recv(t, seg).tcb)
<1>1. CASE IncomingError(t, seg) # "nil"
  BY <1>1 DEF Recv, Outcome, Follows
<1>2. CASE IncomingError(t, seg) = "nil" /\ Has(seg, "RST")
  <2>1. seg.SEQ = t.rcv.NXT
    BY <1>2 DEF IncomingError
  <2>2. QED
    BY <1>2, <2>1, HandleRSTFollows DEF Recv
<1>3. CASE IncomingError(t, seg) = "nil" /\ ~Has(seg, "RST") /\ Dropped(t, seg)
  BY <1>3, AfterDropFollows DEF Recv, Outcome
<1>4. CASE IncomingError(t, seg) = "nil" /\ ~Has(seg, "RST") /\ ~Dropped(t, seg)
  <2>1. PICK s : s = RcvInState(t, seg)
    OBVIOUS
  <2>2. /\ Follows(t, s.tcb) /\ s.pending \in {{}, {"ACK"}, synack}
        /\ s.pending = synack => s.tcb.p0 = synack
    BY <2>1, RcvInStateFollows
  <2>3. Recv(t, seg).tcb = IF s.err # "nil" THEN t ELSE Accepted(s.tcb, seg, s.pending)
    BY <1>4, <2>1 DEF Recv, Outcome
  <2>4. Follows(t, Accepted(s.tcb, seg, s.pending))
    BY <2>2 DEF Follows, Tidy, IsBlock, Accepted, synack
  <2>5. QED
    BY <2>3, <2>4 DEF Follows
<1>5. QED
  BY <1>1, <1>2, <1>3, <1>4

\* A segment that PendingSegment proposes has all the flags that are pending, and
\* its SYN has an ACK.
LEMMA PendingFlags ==
  ASSUME NEW t, NEW n, Tidy(t), PendingSegment(t, n).ok = "yes"
  PROVE  LET seg == PendingSegment(t, n).seg
         IN  /\ seg.Flags = t.p0 \union (IF t.state = "Established" THEN {"ACK"} ELSE {})
             /\ Has(seg, "SYN") => Has(seg, "ACK") /\ ~Has(seg, "RST")
<1>1. PendingSegment(t, n).seg.Flags = t.p0 \union (IF t.state = "Established" THEN {"ACK"} ELSE {})
  BY DEF PendingSegment, MakeSegment, Tidy
<1>2. QED
  BY <1>1 DEF Tidy, Has, synack

\* Send, of a segment with all the flags that are pending.
LEMMA SentFollows ==
  ASSUME NEW t, NEW seg, Tidy(t), t.p0 \subseteq seg.Flags PROVE Follows(t, Sent(t, seg))
  BY DEF Follows, Tidy, IsBlock, Sent, StateAfterSend, QueueAfterSend, Has, synack, finack

\* and a segment that is sent with all the flags the block owes.
LEMMA SendFollows ==
  ASSUME NEW t, NEW seg, Tidy(t), t.p0 \subseteq seg.Flags PROVE Follows(t, Send(t, seg).tcb)
<1>1. Follows(t, t)
  BY DEF Follows
<1>2. QED
  BY <1>1, SentFollows DEF Send, Outcome

\* Close, in any state.
LEMMA CloseFollows == ASSUME NEW t, Tidy(t) PROVE Follows(t, Close(t).tcb)
<1> USE DEF Follows, Tidy, IsBlock, Outcome, synack
<1>1. CASE t.state = "CloseWait"
  BY <1>1 DEF Close
<1>2. CASE t.state \in {"Listen", "SynSent"}
  BY <1>2, ShutFollows DEF Close
<1>3. CASE t.state \in {"SynRcvd", "Established"}
  BY <1>3 DEF Close
<1>4. CASE t.state \notin {"CloseWait", "Listen", "SynSent", "SynRcvd", "Established"}
  BY <1>4 DEF Close
<1>5. QED
  BY <1>1, <1>2, <1>3, <1>4

-----------------------------------------------------------------------------
(* Connections *)

IsConn(c) ==
  /\ DOMAIN c = {"scb", "tx", "rx", "remote", "closing", "abortErr", "late"}
  /\ Tidy(c.scb)

\* d comes of c by a method of the connection.
Becomes(c, d) ==
  /\ IsConn(d) /\ Follows(c.scb, d.scb)
  /\ c.remote => d.remote
  /\ d.late => c.late

\* The check of the state may call Close.
LEMMA StateCheckBecomes == ASSUME NEW c, IsConn(c) PROVE Becomes(c, StateCheck(c).conn)
<1>1. Follows(c.scb, Close(c.scb).tcb) /\ Follows(c.scb, c.scb)
  BY CloseFollows DEF IsConn, Follows
<1>2. QED
  BY <1>1 DEF Becomes, IsConn, StateCheck, Follows

\* recv keeps the remote and the time stamp.
LEMMA RecvPacketBecomes ==
  ASSUME NEW c, NEW pkt, IsConn(c), ~(Has(pkt.seg, "RST") /\ Has(pkt.seg, "SYN")),
         c.scb.state = "SynSent" /\ Has(pkt.seg, "SYN") => Has(pkt.seg, "ACK")
  PROVE  Becomes(c, RecvPacket(c, pkt).conn)
<1>1. PICK out : out = Recv(c.scb, pkt.seg)
  OBVIOUS
<1>2. Follows(c.scb, out.tcb)
  BY <1>1, RecvFollows DEF IsConn
<1>3. PICK c1 : c1 = [c EXCEPT !.scb = out.tcb]
  OBVIOUS
<1>4. Becomes(c, c1) /\ IsConn(c1)
  BY <1>2, <1>3 DEF Becomes, IsConn, Follows
<1>5. Becomes(c, RecvAccepted(c1, pkt).conn)
  <2>1. PICK c2 : c2 = IF Has(pkt.seg, "SYN") THEN [c1 EXCEPT !.rx = c1.rx \o pkt.data, !.remote = TRUE]
                       ELSE [c1 EXCEPT !.rx = c1.rx \o pkt.data]
    OBVIOUS
  <2>2. Becomes(c, c2) /\ IsConn(c2)
    BY <1>4, <2>1 DEF Becomes, IsConn, Follows
  <2>3. Becomes(c, StateCheck(c2).conn)
    <3>1. Becomes(c2, StateCheck(c2).conn)
      BY <2>2, StateCheckBecomes
    <3>2. QED
      BY <2>2, <3>1 DEF Becomes, Follows
  <2>4. RecvAccepted(c1, pkt).conn \in {c1, StateCheck(c2).conn}
    BY <1>4, <2>1 DEF RecvAccepted, RecvResult, IsConn
  <2>5. QED
    BY <1>4, <2>3, <2>4
<1>6. Becomes(c, [c1 EXCEPT !.abortErr = TRUE])
  BY <1>4 DEF Becomes, IsConn, Follows
<1>7. Becomes(c, c)
  BY DEF Becomes, IsConn, Follows
<1>8. RecvPacket(c, pkt).conn \in {c, c1, RecvAccepted(c1, pkt).conn, [c1 EXCEPT !.abortErr = TRUE]}
  BY <1>1, <1>3 DEF RecvPacket, RecvResult
<1>9. QED
  BY <1>4, <1>5, <1>6, <1>7, <1>8

Opening(c) == c.scb.state \in {"SynRcvd", "FinWait1"}

\* A packet that does not both open and reset a connection ...
Plain(pkt) == ~(Has(pkt.seg, "RST") /\ Has(pkt.seg, "SYN"))

\* ... and one that opens none.
Replies(pkt) == Plain(pkt) /\ (Has(pkt.seg, "SYN") => Has(pkt.seg, "ACK"))

\* send and Close leave the remote alone, and do not finish a handshake.
Writes(c, d) ==
  /\ Becomes(c, d)
  /\ d.remote = c.remote
  /\ Opening(c) => Opening(d)

\* stateCheck changes a connection as Writes allows.
LEMMA StateCheckWrites == ASSUME NEW c, IsConn(c) PROVE Writes(c, StateCheck(c).conn)
<1>1. StateCheck(c).conn.remote = c.remote /\ (Opening(c) => Opening(StateCheck(c).conn))
  BY DEF IsConn, StateCheck, Opening
<1>2. QED
  BY <1>1, StateCheckBecomes DEF Writes

\* Two such changes are one.
LEMMA WritesTrans ==
  ASSUME NEW c, NEW d, NEW e, IsConn(c), Writes(c, d), Writes(d, e) PROVE Writes(c, e)
  BY DEF Writes, Becomes, Follows

\* Close changes a connection as Writes allows.
LEMMA CloseConnWrites == ASSUME NEW c, IsConn(c) PROVE Writes(c, CloseConn(c).conn)
<1>1. Follows(c.scb, Close(c.scb).tcb) /\ Follows(c.scb, c.scb)
  BY CloseFollows DEF IsConn, Follows
<1>2. Opening(c) => Close(c.scb).tcb.state = c.scb.state
  BY DEF Opening, Close, Outcome, IsConn, Tidy, IsBlock
<1>3. PICK u : u = Close(c.scb).tcb
  OBVIOUS
<1>4. PICK d \in {TRUE, FALSE}, t \in {c.scb, u} : CloseConn(c).conn = [c EXCEPT !.closing = d, !.scb = t]
  BY <1>3 DEF CloseConn, IsConn
<1>5. QED
  BY <1>1, <1>2, <1>3, <1>4 DEF Writes, Becomes, IsConn, Opening, Follows

\* What SendPacket writes and leaves.
LEMMA SendPacketWrites ==
  ASSUME NEW c, IsConn(c)
  PROVE  LET res == SendPacket(c)
         IN  /\ Writes(c, res.conn)
             /\ AwaitingSyn(c) /\ ~c.late => res.pkts = <<>>
             /\ \/ res.pkts = <<>>
                \/ /\ MustSendSyn(c) /\ ~res.conn.late
                   /\ \E pkt : res.pkts = <<pkt>> /\ Plain(pkt) /\ IsFirstSyn(pkt)
                \/ /\ ~AwaitingSyn(c)
                   /\ \E pkt : res.pkts = <<pkt>> /\ Replies(pkt)
<1> DEFINE res == SendPacket(c)
           available == Smaller(Len(c.tx), MaxSeg)
<1>0. Writes(c, c)
  BY DEF Writes, Becomes, Follows, IsConn
<1>1. CASE ~c.remote
  BY <1>0, <1>1 DEF SendPacket, SendResult, AwaitingSyn, MustSendSyn
<1>2. CASE MustSendSyn(c)
  <2>1. res = SendSyn(c) /\ c.remote /\ c.late
    BY <1>2 DEF SendPacket, MustSendSyn, AwaitingSyn
  <2>2. Writes(c, res.conn) /\ ~res.conn.late
    <3>1. PICK d : d = [c EXCEPT !.late = FALSE]
      OBVIOUS
    <3>2. res.conn = d
      BY <2>1, <3>1 DEF SendSyn, SendResult
    <3>3. IsConn(d) /\ d.scb = c.scb /\ d.remote = c.remote /\ ~d.late
      BY <3>1 DEF IsConn
    <3>4. QED
      BY <3>2, <3>3 DEF Writes, Becomes, Follows, IsConn, Opening
  <2>3. res.pkts = <<Packet(SynsentSegment(c), <<>>)>>
    BY <2>1 DEF SendSyn, SendResult
  <2>4. Plain(Packet(SynsentSegment(c), <<>>)) /\ IsFirstSyn(Packet(SynsentSegment(c), <<>>))
    BY DEF Plain, IsFirstSyn, Packet, SynsentSegment, MakeSegment, Has
  <2>5. QED
    BY <1>2, <2>1, <2>2, <2>3, <2>4
<1>3. CASE c.remote /\ ~MustSendSyn(c) /\ AwaitingSyn(c)
  BY <1>0, <1>3 DEF SendPacket, SendResult
<1>4. CASE c.remote /\ ~MustSendSyn(c) /\ ~AwaitingSyn(c)
  <2>1. PICK t1 : t1 = SetRecvWindow(c.scb, RxCap - Len(c.rx))
    OBVIOUS
  <2>2. Follows(c.scb, t1) /\ t1.state = c.scb.state /\ Tidy(t1)
    BY <2>1 DEF SetRecvWindow, Follows, Tidy, IsBlock, IsConn
  <2>3. PICK c1 : c1 = [c EXCEPT !.scb = t1]
    OBVIOUS
  <2>4. Writes(c, c1) /\ c1.scb = t1 /\ IsConn(c1)
    BY <2>2, <2>3 DEF Writes, Becomes, IsConn, Opening
  <2>5. PICK t2 : t2 = AfterPending(t1)
    OBVIOUS
  <2>6. Follows(c.scb, t2) /\ t2.state = c.scb.state /\ Tidy(t2) /\ t2.p0 = t1.p0
    BY <2>2, <2>5 DEF AfterPending, Follows, Tidy, IsBlock, IsConn
  <2>7. PICK c2 : c2 = [c1 EXCEPT !.scb = t2]
    OBVIOUS
  <2>8. Writes(c, c2) /\ c2.scb = t2 /\ IsConn(c2)
    BY <2>4, <2>6, <2>7 DEF Writes, Becomes, IsConn, Opening
  <2>9. PICK nxt : nxt = PendingSegment(t1, available)
    OBVIOUS
  <2>10. PICK out : out = Send(t2, nxt.seg)
    OBVIOUS
  <2>11. res = IF nxt.ok = "panic" THEN SendResult(c1, <<>>, "panic")
               ELSE IF nxt.ok = "no" THEN SendResult(StateCheck(c2).conn, <<>>, StateCheck(c2).err)
               ELSE IF out.err # "nil" THEN SendResult(c2, <<>>, "error")
               ELSE SendAccepted([c2 EXCEPT !.scb = out.tcb], nxt.seg, available)
    BY <1>4, <2>1, <2>3, <2>4, <2>5, <2>7, <2>8, <2>9, <2>10 DEF SendPacket
  <2>12. Writes(c, StateCheck(c2).conn)
    BY <2>8, StateCheckWrites, WritesTrans
  <2>13. CASE nxt.ok # "yes" \/ out.err # "nil"
    <3>1. nxt.ok \in {"panic", "no", "yes"}
      BY <2>9 DEF PendingSegment, MakeSegment
    <3>2. QED
      BY <1>4, <2>4, <2>8, <2>11, <2>12, <2>13, <3>1 DEF SendResult
  <2>14. CASE nxt.ok = "yes" /\ out.err = "nil"
    <3>1. /\ nxt.seg.Flags = t1.p0 \union (IF t1.state = "Established" THEN {"ACK"} ELSE {})
          /\ Has(nxt.seg, "SYN") => Has(nxt.seg, "ACK") /\ ~Has(nxt.seg, "RST")
      BY <2>2, <2>9, <2>14, PendingFlags
    <3>2. Follows(t2, out.tcb)
      BY <2>6, <2>10, <3>1, SendFollows
    <3>3. Opening(c) => out.tcb.state \in {"SynRcvd", "FinWait1"}
      BY <2>6, <2>10 DEF Opening, Send, Outcome, Sent, StateAfterSend, Tidy, IsBlock
    <3>4. PICK c3 : c3 = [c2 EXCEPT !.scb = out.tcb]
      OBVIOUS
    <3>5. Writes(c, c3) /\ IsConn(c3)
      BY <2>8, <3>2, <3>3, <3>4 DEF Writes, Becomes, IsConn, Opening, Follows
    <3>6. PICK c4 : c4 = IF available > 0 THEN [c3 EXCEPT !.tx = TxRead(c3.tx, nxt.seg.DATALEN)] ELSE c3
      OBVIOUS
    <3>7. Writes(c, c4) /\ IsConn(c4)
      BY <3>5, <3>6 DEF Writes, Becomes, IsConn, Opening, Follows
    <3>8. Writes(c, StateCheck(c4).conn)
      BY <3>7, StateCheckWrites, WritesTrans
    <3>9. PICK pkt : pkt = Packet(nxt.seg, SubSeq(c3.tx, 1, nxt.seg.DATALEN))
      OBVIOUS
    <3>10. res = SendResult([StateCheck(c4).conn EXCEPT !.late = FALSE], <<pkt>>, StateCheck(c4).err)
      BY <2>11, <2>14, <3>4, <3>6, <3>9 DEF SendAccepted
    <3>11. Writes(c, [StateCheck(c4).conn EXCEPT !.late = FALSE])
      BY <3>8 DEF Writes, Becomes, IsConn, Opening, Follows
    <3>12. Replies(pkt)
      BY <3>1, <3>9 DEF Replies, Plain, Packet, Has
    <3>13. QED
      BY <1>4, <3>10, <3>11, <3>12 DEF SendResult
  <2>15. QED
    BY <2>13, <2>14
<1>5. QED
  BY <1>1, <1>2, <1>3, <1>4

\* A connection before it is opened.
LEMMA FreshIsConn == IsConn(FreshConn) /\ FreshConn.scb.state = "Closed" /\ ~FreshConn.remote
  BY DEF FreshConn, IsConn, Tidy, IsBlock, ZeroTCB, ResetSnd, ResetRcv

\* What Open makes of the zero block.
LEMMA OpenFresh ==
  ASSUME NEW s \in {"Listen", "SynSent"}, NEW iss
  PROVE  LET out == Open(FreshConn.scb, iss, RxCap, s)
         IN  /\ out.err = "nil" /\ IsBlock(out.tcb) /\ ~out.tcb.challengeAck
             /\ out.tcb.state = s /\ out.tcb.p1 = {}
             /\ out.tcb.p0 = IF s = "SynSent" THEN {"SYN"} ELSE {}
             /\ out.tcb.snd = ResetSnd(iss, 1) /\ out.tcb.rcv = ResetRcv(RxCap, 0)
<1>1. ~(RxCap > MaxWnd)
  BY TCPConnAssumption, SeqAssumption
<1>2. FreshConn.scb = ZeroTCB
  BY DEF FreshConn
<1>3. IsBlock(ZeroTCB) /\ ZeroTCB.state = "Closed" /\ ~ZeroTCB.challengeAck
  BY DEF ZeroTCB, IsBlock
<1>4. QED
  BY <1>1, <1>2, <1>3 DEF Open, Outcome, IsBlock

\* A slot that is free waits in Listen and knows no remote.
LEMMA FreedIsConn == IsConn(FreedConn) /\ FreedConn.scb.state = "Listen" /\ ~FreedConn.remote
<1>1. PICK out : out = Open(FreshConn.scb, ISS, RxCap, "Listen")
  OBVIOUS
<1>2. FreedConn = [FreshConn EXCEPT !.scb = out.tcb, !.remote = FALSE, !.tx = <<>>, !.rx = <<>>]
  BY <1>1, OpenFresh DEF FreedConn, OpenConn
<1>3. Tidy(out.tcb) /\ out.tcb.state = "Listen"
  BY <1>1, OpenFresh DEF Tidy
<1>4. QED
  BY <1>2, <1>3, FreshIsConn DEF IsConn

\* The SYN of a dial passes the block's own checks.
LEMMA SynPasses ==
  ASSUME NEW t, NEW seg, NEW iss \in Value, t.state = "SynSent", t.snd = ResetSnd(iss, 1),
         seg = MakeSegment(iss, 0, RxCap, {"SYN"}, 0)
  PROVE  OutgoingError(t, seg) = "nil"
<1>1. t.snd.NXT = iss /\ t.snd.WND = 1
  BY DEF ResetSnd
<1>2. seg.SEQ = iss /\ seg.WND = RxCap /\ seg.Flags = {"SYN"} /\ seg.DATALEN = 0
  BY DEF MakeSegment
<1>3. ~(RxCap > MaxWnd)
  BY TCPConnAssumption, SeqAssumption
<1>4. SegLen(seg) = 1
  BY <1>2, SeqAssumption DEF SegLen, Has, Wrap
<1>5. Add(iss, 1) = IF iss = SeqMod - 1 THEN 0 ELSE iss + 1
  BY SeqAssumption DEF Add, Wrap, Value
<1>6. Last(seg) = iss
  <2>1. Wrap(Add(iss, 1) - 1) = iss
    BY <1>5, SeqAssumption DEF Wrap, Value
  <2>2. QED
    BY <1>2, <1>4, <2>1 DEF Last
<1>7. InWindow(iss, iss, 1)
  <2>1. Wrap(iss - iss) = 0
    BY SeqAssumption DEF Wrap, Value
  <2>2. Wrap(Add(iss, 1) - iss) = 1
    BY <1>5, SeqAssumption DEF Wrap, Value
  <2>3. QED
    BY <2>1, <2>2 DEF InWindow, InRange
<1>8. QED
  BY <1>1, <1>2, <1>3, <1>6, <1>7 DEF OutgoingError, Has

\* A connection that dials has sent its SYN as far as its block knows.
LEMMA DialedIsConn ==
  LET c == OpenConn(FreshConn, "SynSent", ClientISS) IN IsConn(c) /\ c.remote
<1>1. PICK out : out = Open(FreshConn.scb, ClientISS, RxCap, "SynSent")
  OBVIOUS
<1>2. PICK c1 : c1 = [FreshConn EXCEPT !.scb = out.tcb, !.remote = TRUE, !.tx = <<>>, !.rx = <<>>]
  OBVIOUS
<1>3. /\ c1.scb = out.tcb /\ c1.remote
      /\ DOMAIN c1 = {"scb", "tx", "rx", "remote", "closing", "abortErr", "late"}
  BY <1>2 DEF FreshConn
<1>4. PICK seg : seg = SynsentSegment(c1)
  OBVIOUS
<1>5. OpenConn(FreshConn, "SynSent", ClientISS) = [c1 EXCEPT !.scb = Send(out.tcb, seg).tcb]
  BY <1>1, <1>2, <1>3, <1>4, OpenFresh DEF OpenConn
<1>6. seg = MakeSegment(ClientISS, 0, RxCap, {"SYN"}, 0)
  <2>1. out.tcb.snd = ResetSnd(ClientISS, 1) /\ out.tcb.rcv = ResetRcv(RxCap, 0)
    BY <1>1, OpenFresh
  <2>2. out.tcb.snd.ISS = ClientISS /\ out.tcb.rcv.WND = RxCap
    BY <2>1 DEF ResetSnd, ResetRcv
  <2>3. QED
    BY <1>3, <1>4, <2>2 DEF SynsentSegment
<1>7. Send(out.tcb, seg).tcb = Sent(out.tcb, seg)
  <2>1. OutgoingError(out.tcb, seg) = "nil"
    BY <1>1, <1>6, OpenFresh, SynPasses, ListenerAssumption
  <2>2. QED
    BY <2>1 DEF Send, Outcome
<1>8. Tidy(Sent(out.tcb, seg))
  <2>1. /\ IsBlock(out.tcb) /\ ~out.tcb.challengeAck /\ out.tcb.state = "SynSent"
        /\ out.tcb.p0 = {"SYN"} /\ out.tcb.p1 = {}
    BY <1>1, OpenFresh
  <2>2. seg.Flags = {"SYN"}
    BY <1>6 DEF MakeSegment
  <2>3. QueueAfterSend(out.tcb, seg).p0 = {} /\ QueueAfterSend(out.tcb, seg).p1 = {}
    BY <2>1, <2>2 DEF QueueAfterSend
  <2>4. QED
    BY <2>1, <2>3 DEF Sent, Tidy, IsBlock
<1>9. QED
  BY <1>3, <1>5, <1>7, <1>8 DEF IsConn

\* A listening connection that has no remote learns it with its first SYN, and
\* leaves Listen then.
LEMMA FirstSynTaken ==
  ASSUME NEW c, NEW pkt, IsConn(c), IsFirstSyn(pkt), ConnState(c) = "Listen", ~c.remote
  PROVE  RecvPacket(c, pkt).conn.remote => RecvPacket(c, pkt).conn.scb.state = "SynRcvd"
<1>1. c.scb.state = "Listen" /\ Tidy(c.scb)
  BY DEF ConnState, IsConn
<1>2. PICK out : out = Recv(c.scb, pkt.seg)
  OBVIOUS
<1>3. Has(pkt.seg, "SYN") /\ ~Has(pkt.seg, "RST") /\ ~Has(pkt.seg, "ACK")
  BY DEF IsFirstSyn, Has
<1>4. ~Dropped(c.scb, pkt.seg)
  BY <1>1, <1>3 DEF Dropped, DupAck, UnsentAck, StrayAck, AcksOld, AcksUnsent
<1>5. /\ out.err = "nil" => out.tcb.state = "SynRcvd"
      /\ out.err # "nil" => out.tcb = c.scb
  <2>1. PICK step : step = RcvInState(c.scb, pkt.seg)
    OBVIOUS
  <2>2. step.tcb.state = "SynRcvd" /\ step.err = "nil"
    BY <1>1, <1>3, <2>1 DEF RcvInState, RcvListen, Step, Tidy, IsBlock
  <2>3. out = IF IncomingError(c.scb, pkt.seg) # "nil" THEN Outcome(c.scb, IncomingError(c.scb, pkt.seg))
              ELSE Outcome(Accepted(step.tcb, pkt.seg, step.pending), "nil")
    BY <1>2, <1>3, <1>4, <2>1, <2>2 DEF Recv
  <2>4. IsBlock(step.tcb)
    BY <1>1, <1>3, <2>1 DEF RcvInState, RcvListen, Step, Tidy, IsBlock
  <2>5. Accepted(step.tcb, pkt.seg, step.pending).state = "SynRcvd"
    BY <2>2, <2>4 DEF Accepted, IsBlock
  <2>6. QED
    BY <2>3, <2>5 DEF Outcome
<1>6. PICK c1 : c1 = [c EXCEPT !.scb = out.tcb]
  OBVIOUS
<1>7. c1.remote = c.remote /\ c1.scb = out.tcb /\ DOMAIN c1 = DOMAIN c
  BY <1>6 DEF IsConn
<1>8. CASE out.err = "nil"
  <2>1. RecvAccepted(c1, pkt).conn.scb.state = "SynRcvd"
    BY <1>5, <1>7, <1>8 DEF RecvAccepted, RecvResult, StateCheck, IsConn
  <2>2. RecvPacket(c, pkt).conn \in {c, RecvAccepted(c1, pkt).conn}
    BY <1>2, <1>6, <1>8 DEF RecvPacket, RecvResult
  <2>3. QED
    BY <2>1, <2>2
<1>9. CASE out.err # "nil"
  <2>1. RecvPacket(c, pkt).conn \in {c, c1, [c1 EXCEPT !.abortErr = TRUE]}
    BY <1>2, <1>6, <1>9 DEF RecvPacket, RecvResult
  <2>2. ~RecvPacket(c, pkt).conn.remote
    BY <1>7, <2>1 DEF IsConn
  <2>3. QED
    BY <2>2
<1>10. QED
  BY <1>8, <1>9

-----------------------------------------------------------------------------
(* Packets under way *)

Queue(q) == \E S : q \in Seq(S)

\* Taking a packet out of a queue, and putting one in.
LEMMA TailOf ==
  ASSUME NEW q, Queue(q), q # <<>>
  PROVE  /\ Queue(Tail(q)) /\ 1 \in 1 .. Len(q) /\ Head(q) = q[1]
         /\ \A k \in 1 .. Len(Tail(q)) : k + 1 \in 1 .. Len(q) /\ Tail(q)[k] = q[k + 1]
<1>1. PICK S : q \in Seq(S)
  BY DEF Queue
<1>2. Tail(q) \in Seq(S) /\ Len(Tail(q)) = Len(q) - 1 /\ Len(q) \in Nat \ {0}
  BY <1>1
<1>3. \A k \in 1 .. Len(Tail(q)) : k + 1 \in 1 .. Len(q) /\ Tail(q)[k] = q[k + 1]
  BY <1>1, <1>2
<1>4. QED
  BY <1>1, <1>2, <1>3 DEF Queue

\* The elements of a queue with one more at its end.
LEMMA AddedTo ==
  ASSUME NEW q, NEW x, Queue(q)
  PROVE  /\ Queue(q \o <<x>>)
         /\ \A k \in 1 .. Len(q \o <<x>>) :
              \/ k \in 1 .. Len(q) /\ (q \o <<x>>)[k] = q[k]
              \/ k = Len(q) + 1 /\ (q \o <<x>>)[k] = x
<1>1. PICK S : q \in Seq(S)
  BY DEF Queue
<1>2. PICK T : T = S \union {x}
  OBVIOUS
<1>3. q \in Seq(T) /\ <<x>> \in Seq(T)
  BY <1>1, <1>2
<1>4. q \o <<x>> \in Seq(T) /\ Len(q \o <<x>>) = Len(q) + 1 /\ Len(q) \in Nat
  BY <1>3
<1>5. \A k \in 1 .. Len(q) : (q \o <<x>>)[k] = q[k]
  BY <1>3
<1>6. (q \o <<x>>)[Len(q) + 1] = x
  BY <1>3
<1>7. QED
  BY <1>4, <1>5, <1>6 DEF Queue

\* A queue with nothing added.
LEMMA NothingAdded == ASSUME NEW q, Queue(q) PROVE q \o <<>> = q
<1>1. PICK S : q \in Seq(S)
  BY DEF Queue
<1>2. QED
  BY <1>1

-----------------------------------------------------------------------------
(* The inductive invariant *)

Shaped ==
  /\ DOMAIN conns = Slots /\ DOMAIN remote = Slots /\ DOMAIN used = Slots
  /\ DOMAIN client = Clients /\ DOMAIN cport = Clients
  /\ DOMAIN toServer = Clients /\ DOMAIN toClient = Clients

\* A slot waits for connections or has one, and dials nobody.
SlotOK(i) ==
  /\ IsConn(conns[i]) /\ conns[i].scb.state # "SynSent"
  /\ remote[i] \in Clients \union {NoClient}
  /\ remote[i] = NoClient => ~conns[i].remote

ClientOK(c) ==
  /\ cport[c] = "open" => IsConn(client[c]) /\ client[c].remote
  /\ cport[c] # "open" => client[c] = FreshConn

\* Only a first SYN opens a connection, and only clients send it.
NetOK(c) ==
  /\ Queue(toServer[c]) /\ Queue(toClient[c])
  /\ \A k \in 1 .. Len(toServer[c]) : Plain(toServer[c][k])
  /\ \A k \in 1 .. Len(toClient[c]) : Replies(toClient[c][k])

\* The client has not sent its SYN yet.
Unsent(c) == cport[c] = "new" \/ (cport[c] = "open" /\ client[c].late)

Served(c) == \E i \in Slots : remote[i] = c

\* A client sends its SYN once, and nobody serves it before the SYN arrives.
SynOnce(c) ==
  /\ cport[c] = "new" => toServer[c] = <<>>
  /\ Unsent(c) => ~Served(c)
  /\ \A k \in 1 .. Len(toServer[c]) : IsFirstSyn(toServer[c][k]) =>
       /\ ~Unsent(c) /\ ~Served(c)
       /\ \A l \in 1 .. Len(toServer[c]) : IsFirstSyn(toServer[c][l]) => l = k

\* A client whose handshake is not finished has sent nothing else, so that the
\* server has not finished it either.
Unfinished(c) ==
  client[c].scb.state = "SynSent" =>
    /\ \A k \in 1 .. Len(toServer[c]) : IsFirstSyn(toServer[c][k])
    /\ \A i \in Slots : remote[i] = c => ~used[i] /\ Opening(conns[i])

IInv ==
  /\ Shaped /\ OneSlotPerRemote
  /\ \A i \in Slots : SlotOK(i)
  /\ \A c \in Clients : ClientOK(c) /\ NetOK(c) /\ SynOnce(c) /\ Unfinished(c)

\* The invariant holds before StartListening.
LEMMA InitIInv == Init => IInv
<1> SUFFICES ASSUME Init PROVE IInv
  OBVIOUS
<1>1. Shaped
  BY DEF Init, Shaped
<1>2. ASSUME NEW i \in Slots PROVE SlotOK(i) /\ remote[i] = NoClient
  BY FreshIsConn DEF Init, SlotOK
<1>3. OneSlotPerRemote
  BY <1>2 DEF OneSlotPerRemote
<1>4. ASSUME NEW c \in Clients PROVE ClientOK(c) /\ NetOK(c) /\ SynOnce(c) /\ Unfinished(c)
  <2>1. cport[c] = "new" /\ client[c] = FreshConn /\ toServer[c] = <<>> /\ toClient[c] = <<>>
    BY DEF Init
  <2>2. ~Served(c)
    BY <1>2, ListenerAssumption DEF Served
  <2>3. Queue(<<>>) /\ 1 .. Len(<<>>) = {}
    <3>1. <<>> \in Seq({})
      OBVIOUS
    <3>2. QED
      BY <3>1 DEF Queue
  <2>4. client[c].scb.state # "SynSent"
    BY <2>1, FreshIsConn
  <2>5. QED
    BY <2>1, <2>2, <2>3, <2>4 DEF ClientOK, NetOK, SynOnce, Unfinished
<1>5. QED
  BY <1>1, <1>2, <1>3, <1>4 DEF IInv

\* A step of the server that takes no packet.
LEMMA ServerStep ==
  ASSUME IInv, UNCHANGED <<client, cport, toServer>>, Shaped',
         \A c \in Clients : /\ Queue(toClient'[c])
                            /\ \A k \in 1 .. Len(toClient'[c]) : Replies(toClient'[c][k]),
         \A i \in Slots :
           /\ SlotOK(i)'
           /\ \/ remote'[i] = NoClient
              \/ /\ remote'[i] = remote[i]
                 /\ ~used[i] /\ Opening(conns[i]) => ~used'[i] /\ Opening(conns'[i])
  PROVE  IInv'
<1>1. OneSlotPerRemote'
  BY DEF IInv, OneSlotPerRemote
<1>2. ASSUME NEW c \in Clients PROVE (ClientOK(c) /\ NetOK(c) /\ SynOnce(c) /\ Unfinished(c))'
  <2>1. ClientOK(c) /\ NetOK(c) /\ SynOnce(c) /\ Unfinished(c)
    BY DEF IInv
  <2>2. c # NoClient
    BY ListenerAssumption
  <2>3. ClientOK(c)' /\ NetOK(c)'
    BY <2>1 DEF ClientOK, NetOK
  <2>4. ~Served(c) => ~Served(c)'
    BY <2>2 DEF Served
  <2>5. SynOnce(c)'
    BY <2>1, <2>4 DEF SynOnce, Unsent
  <2>6. Unfinished(c)'
    BY <2>1, <2>2 DEF Unfinished
  <2>7. QED
    BY <2>3, <2>5, <2>6
<1>3. QED
  BY <1>1, <1>2 DEF IInv

\* A step of one client.
LEMMA ClientStep ==
  ASSUME IInv, NEW c \in Clients, UNCHANGED server, Shaped',
         \A d \in Clients \ {c} :
           /\ client'[d] = client[d] /\ cport'[d] = cport[d]
           /\ toServer'[d] = toServer[d] /\ toClient'[d] = toClient[d],
         (ClientOK(c) /\ NetOK(c) /\ SynOnce(c) /\ Unfinished(c))'
  PROVE  IInv'
<1>1. conns' = conns /\ remote' = remote /\ used' = used
  BY DEF server
<1>2. OneSlotPerRemote' /\ \A i \in Slots : SlotOK(i)'
  BY <1>1 DEF IInv, OneSlotPerRemote, SlotOK
<1>3. ASSUME NEW d \in Clients \ {c} PROVE (ClientOK(d) /\ NetOK(d) /\ SynOnce(d) /\ Unfinished(d))'
  <2>1. ClientOK(d) /\ NetOK(d) /\ SynOnce(d) /\ Unfinished(d)
    BY DEF IInv
  <2>2. QED
    BY <1>1, <2>1 DEF ClientOK, NetOK, SynOnce, Unsent, Served, Unfinished
<1>4. QED
  BY <1>2, <1>3 DEF IInv

-----------------------------------------------------------------------------
(* The steps of the clients *)

\* A client's SYN keeps the invariant.
LEMMA DialIInv == ASSUME IInv, NEW c \in Clients, Dial(c) PROVE IInv'
<1>1. ClientOK(c) /\ NetOK(c) /\ SynOnce(c) /\ Shaped
  BY DEF IInv
<1>2. cport[c] = "new" /\ client[c] = FreshConn
  BY <1>1 DEF Dial, ClientOK
<1>3. cport'[c] = "open" /\ client'[c] = OpenConn(FreshConn, "SynSent", ClientISS)
  BY <1>1, <1>2 DEF Dial, Shaped
<1>4. UNCHANGED <<server, toServer, toClient>>
  BY DEF Dial, net
<1>5. Shaped'
  BY <1>1, <1>4 DEF Dial, Shaped, server
<1>6. ClientOK(c)' /\ NetOK(c)'
  BY <1>1, <1>3, <1>4, DialedIsConn DEF ClientOK, NetOK
<1>7. ~Served(c) /\ toServer[c] = <<>>
  BY <1>1, <1>2 DEF SynOnce, Unsent
<1>8. Unfinished(c)' /\ SynOnce(c)'
  <2>1. ~Served(c)'
    BY <1>4, <1>7 DEF server, Served
  <2>2. 1 .. Len(toServer'[c]) = {}
    BY <1>4, <1>7
  <2>3. QED
    BY <1>3, <2>1, <2>2 DEF SynOnce, Unfinished, Served
<1>9. \A d \in Clients \ {c} : client'[d] = client[d] /\ cport'[d] = cport[d]
  BY <1>1 DEF Dial, Shaped
<1>10. QED
  BY <1>4, <1>5, <1>6, <1>8, <1>9, ClientStep

\* What a client keeps when it receives or sends, or its port is closed.
LEMMA ClientMoves ==
  ASSUME IInv, NEW c \in Clients, UNCHANGED server, Shaped', ClientOK(c)',
         cport[c] = "open",
         \/ cport'[c] = "gone" /\ client'[c] = FreshConn
         \/ cport'[c] = "open" /\ Becomes(client[c], client'[c]),
         UNCHANGED toServer
  PROVE  (SynOnce(c) /\ Unfinished(c))'
<1>1. ClientOK(c) /\ SynOnce(c) /\ Unfinished(c)
  BY DEF IInv
<1>2. Unsent(c)' => Unsent(c)
  BY DEF Unsent, Becomes
<1>3. client'[c].scb.state = "SynSent" => client[c].scb.state = "SynSent"
  BY FreshIsConn DEF Becomes, Follows
<1>4. conns' = conns /\ remote' = remote /\ used' = used
  BY DEF server
<1>5. (Served(c)' <=> Served(c)) /\ cport'[c] # "new"
  BY <1>4 DEF Served
<1>6. SynOnce(c)'
  BY <1>1, <1>2, <1>5 DEF SynOnce
<1>7. Unfinished(c)'
  BY <1>1, <1>3, <1>4 DEF Unfinished
<1>8. QED
  BY <1>6, <1>7

\* A client that receives keeps the invariant.
LEMMA ClientRecvIInv == ASSUME IInv, NEW c \in Clients, ClientRecv(c) PROVE IInv'
<1>1. ClientOK(c) /\ NetOK(c) /\ SynOnce(c) /\ Unfinished(c) /\ Shaped
  BY DEF IInv
<1>2. PICK res : res = RecvPacket(client[c], Head(toClient[c]))
  OBVIOUS
<1>3. /\ UNCHANGED <<server, toServer>> /\ toClient[c] # <<>>
      /\ toClient' = [toClient EXCEPT ![c] = Tail(@)]
  BY DEF ClientRecv
<1>4. Replies(Head(toClient[c]))
  BY <1>1, <1>3, TailOf DEF NetOK
<1>5. NetOK(c)'
  <2>1. toClient'[c] = Tail(toClient[c])
    BY <1>1, <1>3 DEF Shaped
  <2>2. QED
    BY <1>1, <1>3, <2>1, TailOf DEF NetOK
<1>6. CASE cport[c] # "open"
  <2>1. UNCHANGED <<client, cport>>
    BY <1>6 DEF ClientRecv
  <2>2. (ClientOK(c) /\ SynOnce(c) /\ Unfinished(c))'
    BY <1>1, <1>3, <2>1 DEF ClientOK, SynOnce, Unsent, Served, Unfinished, server
  <2>3. Shaped'
    BY <1>1, <1>3, <2>1 DEF Shaped, server
  <2>4. QED
    BY <1>1, <1>3, <1>5, <2>1, <2>2, <2>3, ClientStep DEF Shaped
<1>7. CASE cport[c] = "open"
  <2>1. /\ client' = [client EXCEPT ![c] = IF res.err = "EOF" THEN FreshConn ELSE res.conn]
        /\ cport' = [cport EXCEPT ![c] = IF res.err = "EOF" THEN "gone" ELSE @]
    BY <1>2, <1>7 DEF ClientRecv
  <2>2. Becomes(client[c], res.conn)
    BY <1>1, <1>2, <1>4, <1>7, RecvPacketBecomes DEF ClientOK, Replies, Plain
  <2>3. \/ cport'[c] = "gone" /\ client'[c] = FreshConn
        \/ cport'[c] = "open" /\ Becomes(client[c], client'[c])
    BY <1>1, <1>7, <2>1, <2>2 DEF Shaped
  <2>4. ClientOK(c)'
    BY <1>1, <1>7, <2>3 DEF ClientOK, Becomes
  <2>5. Shaped'
    BY <1>1, <1>3, <2>1 DEF Shaped, server
  <2>6. (SynOnce(c) /\ Unfinished(c))'
    BY <1>3, <1>7, <2>3, <2>4, <2>5, ClientMoves
  <2>7. \A d \in Clients \ {c} : /\ client'[d] = client[d] /\ cport'[d] = cport[d]
                                 /\ toClient'[d] = toClient[d]
    BY <1>1, <1>3, <2>1 DEF Shaped
  <2>8. QED
    BY <1>3, <1>5, <2>4, <2>5, <2>6, <2>7, ClientStep
<1>8. QED
  BY <1>6, <1>7

\* A client that writes keeps the invariant.
LEMMA ClientWriteIInv == ASSUME IInv, NEW c \in Clients, ClientWrite(c) PROVE IInv'
<1>1. ClientOK(c) /\ NetOK(c) /\ Shaped
  BY DEF IInv
<1>2. UNCHANGED <<server, cport, toServer, toClient>> /\ cport[c] = "open"
  BY DEF ClientWrite, net
<1>3. PICK d : d = [client[c] EXCEPT !.tx = [k \in 1 .. ClientBytes |-> <<c, k>>]]
  OBVIOUS
<1>4. client' = [client EXCEPT ![c] = CloseConn(d).conn]
  BY <1>3 DEF ClientWrite
<1>5. client'[c] = CloseConn(d).conn
  BY <1>1, <1>4 DEF Shaped
<1>6. IsConn(d) /\ Becomes(client[c], d)
  BY <1>1, <1>2, <1>3 DEF ClientOK, IsConn, Becomes, Follows
<1>7. Becomes(client[c], client'[c])
  BY <1>5, <1>6, CloseConnWrites DEF Writes, Becomes, Follows
<1>8. ClientOK(c)' /\ NetOK(c)' /\ Shaped'
  BY <1>1, <1>2, <1>4, <1>7 DEF ClientOK, Becomes, NetOK, Shaped, server
<1>9. (SynOnce(c) /\ Unfinished(c))'
  BY <1>2, <1>7, <1>8, ClientMoves
<1>10. \A e \in Clients \ {c} : client'[e] = client[e]
  BY <1>1, <1>4 DEF Shaped
<1>11. QED
  BY <1>2, <1>8, <1>9, <1>10, ClientStep

\* A client that sends keeps the invariant.
LEMMA ClientSendIInv == ASSUME IInv, NEW c \in Clients, ClientSend(c) PROVE IInv'
<1>1. ClientOK(c) /\ NetOK(c) /\ SynOnce(c) /\ Unfinished(c) /\ Shaped
  BY DEF IInv
<1>2. PICK res : res = SendPacket(client[c])
  OBVIOUS
<1>3. /\ UNCHANGED <<server, toClient>> /\ cport[c] = "open"
      /\ toServer' = [toServer EXCEPT ![c] = @ \o res.pkts]
      /\ client' = [client EXCEPT ![c] = IF res.err \in {"EOF", "error"} THEN FreshConn ELSE res.conn]
      /\ cport' = [cport EXCEPT ![c] = IF res.err \in {"EOF", "error"} THEN "gone" ELSE @]
  BY <1>2 DEF ClientSend
<1>4. IsConn(client[c]) /\ client[c].remote
  BY <1>1, <1>3 DEF ClientOK
<1>5. Becomes(client[c], res.conn)
  BY <1>2, <1>4, SendPacketWrites DEF Writes
<1>6. \/ cport'[c] = "gone" /\ client'[c] = FreshConn
      \/ cport'[c] = "open" /\ client'[c] = res.conn
  BY <1>1, <1>3 DEF Shaped
<1>7. ClientOK(c)' /\ Shaped'
  BY <1>1, <1>3, <1>4, <1>5, <1>6 DEF ClientOK, Becomes, Shaped, server
<1>8. /\ \A d \in Clients \ {c} : /\ client'[d] = client[d] /\ cport'[d] = cport[d]
                                  /\ toServer'[d] = toServer[d]
      /\ toServer'[c] = toServer[c] \o res.pkts
  BY <1>1, <1>3 DEF Shaped
<1>9. conns' = conns /\ remote' = remote /\ used' = used /\ (Served(c)' <=> Served(c))
  BY <1>3 DEF server, Served
<1>10. /\ Unsent(c)' => Unsent(c)
       /\ client'[c].scb.state = "SynSent" => client[c].scb.state = "SynSent"
       /\ cport'[c] # "new"
  BY <1>3, <1>5, <1>6, FreshIsConn DEF Unsent, Becomes, Follows
<1>11. CASE res.pkts = <<>>
  <2>1. toServer'[c] = toServer[c]
    BY <1>1, <1>8, <1>11, NothingAdded DEF NetOK
  <2>2. (NetOK(c) /\ SynOnce(c) /\ Unfinished(c))'
    BY <1>1, <1>3, <1>9, <1>10, <2>1 DEF NetOK, SynOnce, Unfinished
  <2>3. QED
    BY <1>3, <1>7, <1>8, <2>2, ClientStep
<1>12. ASSUME NEW pkt, res.pkts = <<pkt>>, Plain(pkt),
              \/ MustSendSyn(client[c]) /\ ~res.conn.late /\ IsFirstSyn(pkt)
              \/ ~AwaitingSyn(client[c]) /\ ~IsFirstSyn(pkt)
       PROVE  IInv'
  <2>1. /\ Queue(toServer'[c])
        /\ \A k \in 1 .. Len(toServer'[c]) :
             \/ k \in 1 .. Len(toServer[c]) /\ toServer'[c][k] = toServer[c][k]
             \/ k = Len(toServer[c]) + 1 /\ toServer'[c][k] = pkt
    BY <1>1, <1>8, <1>12, AddedTo DEF NetOK
  <2>2. NetOK(c)'
    BY <1>1, <1>3, <1>12, <2>1 DEF NetOK
  <2>3. CASE MustSendSyn(client[c]) /\ ~res.conn.late /\ IsFirstSyn(pkt)
    <3>1. Unsent(c) /\ ~Served(c) /\ client[c].scb.state = "SynSent"
      BY <1>1, <1>3, <2>3 DEF MustSendSyn, AwaitingSyn, Unsent, SynOnce
    <3>2. \A k \in 1 .. Len(toServer[c]) : FALSE
      BY <1>1, <3>1 DEF SynOnce, Unfinished
    <3>3. ~Unsent(c)'
      BY <1>6, <2>3 DEF Unsent
    <3>4. ~Served(c)' /\ \A i \in Slots : remote'[i] # c
      BY <1>9, <3>1 DEF Served
    <3>5. SynOnce(c)' /\ Unfinished(c)'
      BY <1>10, <2>1, <2>3, <3>2, <3>3, <3>4 DEF SynOnce, Unfinished
    <3>6. QED
      BY <1>3, <1>7, <1>8, <2>2, <3>5, ClientStep
  <2>4. CASE ~AwaitingSyn(client[c]) /\ ~IsFirstSyn(pkt)
    <3>1. client[c].scb.state # "SynSent"
      BY <1>4, <2>4 DEF AwaitingSyn
    <3>2. Unfinished(c)'
      BY <1>10, <3>1 DEF Unfinished
    <3>3. SynOnce(c)'
      BY <1>1, <1>9, <1>10, <2>1, <2>4 DEF SynOnce
    <3>4. QED
      BY <1>3, <1>7, <1>8, <2>2, <3>2, <3>3, ClientStep
  <2>5. QED
    BY <1>12, <2>3, <2>4
<1>13. \A pkt : Replies(pkt) => Plain(pkt) /\ ~IsFirstSyn(pkt)
  BY DEF Replies, Plain, IsFirstSyn, Has
<1>14. QED
  <2>1. \/ res.pkts = <<>>
        \/ /\ MustSendSyn(client[c]) /\ ~res.conn.late
           /\ \E pkt : res.pkts = <<pkt>> /\ Plain(pkt) /\ IsFirstSyn(pkt)
        \/ /\ ~AwaitingSyn(client[c])
           /\ \E pkt : res.pkts = <<pkt>> /\ Replies(pkt)
    BY <1>2, <1>4, SendPacketWrites
  <2>2. CASE res.pkts = <<>>
    BY <1>11, <2>2
  <2>3. CASE /\ MustSendSyn(client[c]) /\ ~res.conn.late
             /\ \E pkt : res.pkts = <<pkt>> /\ Plain(pkt) /\ IsFirstSyn(pkt)
    BY <1>12, <2>3
  <2>4. CASE ~AwaitingSyn(client[c]) /\ \E pkt : res.pkts = <<pkt>> /\ Replies(pkt)
    BY <1>12, <1>13, <2>4
  <2>5. QED
    BY <2>1, <2>2, <2>3, <2>4

-----------------------------------------------------------------------------
(* The steps of the server *)

\* The loops over the slots stop at one of them if any qualifies.
LEMMA FirstOfIn ==
  ASSUME NEW S \in SUBSET Nat, S # {}
  PROVE  FirstOf(S) \in S
<1> DEFINE R == {ss \in Nat \X Nat : ss[1] < ss[2]}
<1>1. IsWellFoundedOn(R, Nat)
  BY NatLessThanWellFounded DEF OpToRel
<1>2. PICK x \in S : \A y \in S : <<y, x>> \notin R
  <2> HIDE DEF R
  <2> QED BY <1>1, WFMin
<1>3. ASSUME NEW y \in S PROVE x <= y
  <2>1. x \in Nat /\ y \in Nat
    BY <1>2
  <2>2. ~(y < x)
    BY <1>2, <2>1
  <2> QED BY <2>1, <2>2
<1>4. QED
  BY <1>2, <1>3 DEF FirstOf

\* StartListening, HandleEthIdle, Idle, Accept and Read leave the control blocks
\* and the remotes alone.
LEMMA OwnStep ==
  ASSUME IInv, UNCHANGED <<client, cport, toServer, toClient, remote>>,
         DOMAIN conns' = Slots, DOMAIN used' = Slots,
         \A i \in Slots :
           /\ IsConn(conns'[i]) /\ conns'[i].scb = conns[i].scb
           /\ conns'[i].remote = conns[i].remote
           /\ ~used[i] /\ Opening(conns[i]) => ~used'[i]
  PROVE  IInv'
<1>1. Shaped'
  BY DEF IInv, Shaped
<1>2. \A c \in Clients : /\ Queue(toClient'[c])
                         /\ \A k \in 1 .. Len(toClient'[c]) : Replies(toClient'[c][k])
  BY DEF IInv, NetOK
<1>3. ASSUME NEW i \in Slots
      PROVE  /\ SlotOK(i)' /\ remote'[i] = remote[i]
             /\ ~used[i] /\ Opening(conns[i]) => ~used'[i] /\ Opening(conns'[i])
  BY DEF IInv, SlotOK, Opening
<1>4. QED
  BY <1>1, <1>2, <1>3, ServerStep

\* The listener's steps that touch no packet and no state of a connection keep it.
LEMMA OwnSteps ==
  ASSUME IInv, \/ StartListening \/ HandleEthIdle
               \/ \E i \in Slots : Idle(i) \/ Accept(i)
               \/ \E h \in handles : Read(h)
  PROVE  IInv'
<1> USE DEF dialer, net
<1>1. Shaped /\ \A i \in Slots : IsConn(conns[i])
  BY DEF IInv, SlotOK
<1>2. CASE StartListening \/ HandleEthIdle
  <2>1. UNCHANGED <<client, cport, toServer, toClient, remote, conns, used>>
    BY <1>2 DEF StartListening, HandleEthIdle
  <2>2. QED
    BY <1>1, <2>1, OwnStep DEF Shaped
<1>3. ASSUME NEW i \in Slots, Idle(i) PROVE IInv'
  <2>1. UNCHANGED <<client, cport, toServer, toClient, remote, used>>
    BY <1>3 DEF Idle
  <2>2. /\ DOMAIN conns' = Slots
        /\ \A j \in Slots : conns'[j] \in {conns[j], [conns[j] EXCEPT !.late = TRUE]}
    BY <1>1, <1>3 DEF Idle, Shaped
  <2>3. \A j \in Slots : /\ IsConn(conns'[j]) /\ conns'[j].scb = conns[j].scb
                         /\ conns'[j].remote = conns[j].remote
    BY <1>1, <2>2 DEF IsConn
  <2>4. QED
    BY <1>1, <2>1, <2>2, <2>3, OwnStep DEF Shaped
<1>4. ASSUME NEW i \in Slots, Accept(i) PROVE IInv'
  <2>1. UNCHANGED <<client, cport, toServer, toClient, remote, conns>>
    BY <1>4 DEF Accept
  <2>2. ~Opening(conns[i])
    BY <1>4 DEF Accept, Acceptable, ConnState, Opening
  <2>3. DOMAIN used' = Slots /\ \A j \in Slots \ {i} : used'[j] = used[j]
    BY <1>1, <1>4 DEF Accept, Shaped
  <2>4. QED
    BY <1>1, <2>1, <2>2, <2>3, OwnStep DEF Shaped
<1>5. ASSUME NEW h \in handles, Read(h) PROVE IInv'
  <2>1. UNCHANGED <<client, cport, toServer, toClient, remote, used>>
    BY <1>5 DEF Read
  <2>2. /\ DOMAIN conns' = Slots
        /\ \A j \in Slots : conns'[j] \in {conns[j], [conns[j] EXCEPT !.rx = <<>>]}
    BY <1>1, <1>5 DEF Read, Shaped
  <2>3. \A j \in Slots : /\ IsConn(conns'[j]) /\ conns'[j].scb = conns[j].scb
                         /\ conns'[j].remote = conns[j].remote
    BY <1>1, <2>2 DEF IsConn
  <2>4. QED
    BY <1>1, <2>1, <2>2, <2>3, OwnStep DEF Shaped
<1>6. QED
  BY <1>2, <1>3, <1>4, <1>5

\* StartListening, once every slot is opened, keeps the invariant.
LEMMA FinishListeningIInv == ASSUME IInv, FinishListening PROVE IInv'
<1>1. UNCHANGED <<client, cport, toServer, toClient>> /\ Shaped
  BY DEF FinishListening, dialer, net, IInv
<1>2. Shaped' /\ \A i \in Slots : conns'[i] = FreedConn /\ remote'[i] = NoClient
  BY <1>1 DEF FinishListening, Free, Shaped
<1>3. \A i \in Slots : SlotOK(i)' /\ remote'[i] = NoClient
  BY <1>2, FreedIsConn DEF SlotOK
<1>4. \A c \in Clients : /\ Queue(toClient'[c])
                         /\ \A k \in 1 .. Len(toClient'[c]) : Replies(toClient'[c][k])
  BY <1>1 DEF IInv, NetOK
<1>5. QED
  BY <1>1, <1>2, <1>3, <1>4, ServerStep

\* Close on a handle, current or not, keeps the invariant.
LEMMA CloseHandleIInv == ASSUME IInv, NEW h \in handles, CloseHandle(h) PROVE IInv'
<1>1. UNCHANGED <<client, cport, toServer, toClient, remote, used>> /\ Shaped
  BY DEF CloseHandle, dialer, net, IInv
<1>2. /\ DOMAIN conns' = Slots
      /\ \A i \in Slots : conns'[i] \in {conns[i], CloseConn(conns[i]).conn}
  BY <1>1 DEF CloseHandle, Shaped
<1>3. Shaped'
  BY <1>1, <1>2 DEF Shaped
<1>4. ASSUME NEW i \in Slots
      PROVE  SlotOK(i)' /\ (Opening(conns[i]) => Opening(conns'[i]))
  <2>1. SlotOK(i)
    BY DEF IInv
  <2>2. conns'[i] = conns[i] \/ Writes(conns[i], conns'[i])
    BY <1>2, <2>1, CloseConnWrites DEF SlotOK
  <2>3. QED
    BY <1>1, <2>1, <2>2 DEF SlotOK, Writes, Becomes, Follows
<1>5. \A c \in Clients : /\ Queue(toClient'[c])
                         /\ \A k \in 1 .. Len(toClient'[c]) : Replies(toClient'[c][k])
  BY <1>1 DEF IInv, NetOK
<1>6. QED
  BY <1>1, <1>3, <1>4, <1>5, ServerStep

\* HandleEth keeps the invariant.
LEMMA HandleEthIInv == ASSUME IInv, HandleEth PROVE IInv'
<1>1. PICK out : out = Outputs
  OBVIOUS
<1>2. PICK ended : ended = {i \in Visited(out) : out[i].err = "EOF"}
  OBVIOUS
<1>3. PICK writer : writer = Writers(out)
  OBVIOUS
<1>4. /\ conns' = [i \in Slots |-> IF i \in ended THEN FreedConn
                                   ELSE IF i \in Visited(out) THEN out[i].conn ELSE conns[i]]
      /\ Free(ended)
      /\ toClient' = [c \in Clients |->
                        IF \E i \in writer : remote[i] = c
                        THEN toClient[c] \o out[FirstOf(writer)].pkts ELSE toClient[c]]
      /\ UNCHANGED <<client, cport, toServer>>
  BY <1>1, <1>2, <1>3 DEF HandleEth, dialer
<1>5. Shaped /\ Shaped'
  BY <1>4 DEF IInv, Shaped, Free
<1>6. Visited(out) \subseteq Slots /\ \A i \in Visited(out) : out[i] = SendPacket(conns[i])
  BY <1>1 DEF Visited, Outputs
<1>7. ASSUME NEW i \in Slots
      PROVE  /\ SlotOK(i)'
             /\ \/ remote'[i] = NoClient
                \/ /\ remote'[i] = remote[i]
                   /\ ~used[i] /\ Opening(conns[i]) => ~used'[i] /\ Opening(conns'[i])
  <2>1. SlotOK(i)
    BY DEF IInv
  <2>2. CASE i \in ended
    <3>1. conns'[i] = FreedConn /\ remote'[i] = NoClient
      BY <1>4, <2>2 DEF Free
    <3>2. QED
      BY <3>1, FreedIsConn DEF SlotOK
  <2>3. CASE i \notin ended
    <3>1. remote'[i] = remote[i] /\ (~used[i] => ~used'[i])
      BY <1>4, <2>3 DEF Free
    <3>2. conns'[i] \in {conns[i], SendPacket(conns[i]).conn}
      BY <1>4, <1>6, <2>3
    <3>3. conns'[i] = conns[i] \/ Writes(conns[i], conns'[i])
      BY <2>1, <3>2, SendPacketWrites DEF SlotOK
    <3>4. QED
      BY <2>1, <3>1, <3>3 DEF SlotOK, Writes, Becomes, Follows
  <2>4. QED
    BY <2>2, <2>3
<1>8. ASSUME NEW c \in Clients
      PROVE  /\ Queue(toClient'[c])
             /\ \A k \in 1 .. Len(toClient'[c]) : Replies(toClient'[c][k])
  <2>1. Queue(toClient[c]) /\ \A k \in 1 .. Len(toClient[c]) : Replies(toClient[c][k])
    BY DEF IInv, NetOK
  <2>2. CASE ~\E i \in writer : remote[i] = c
    BY <1>4, <2>1, <2>2
  <2>3. ASSUME NEW i \in writer, remote[i] = c
        PROVE  /\ Queue(toClient'[c])
               /\ \A k \in 1 .. Len(toClient'[c]) : Replies(toClient'[c][k])
    <3>1. writer \subseteq Slots /\ \A j \in writer : j \in Visited(out) /\ out[j].pkts # <<>>
      BY <1>3, <1>6 DEF Writers
    <3>2. FirstOf(writer) \in writer
      BY <3>1, FirstOfIn DEF Slots
    <3>3. PICK j \in writer : j = FirstOf(writer)
      BY <3>2
    <3>4. SlotOK(j) /\ out[j] = SendPacket(conns[j])
      BY <1>6, <3>1, <3>3 DEF IInv
    <3>5. ~MustSendSyn(conns[j])
      BY <3>4 DEF SlotOK, MustSendSyn, AwaitingSyn
    <3>6. PICK pkt : out[j].pkts = <<pkt>> /\ Replies(pkt)
      BY <3>1, <3>3, <3>4, <3>5, SendPacketWrites DEF SlotOK
    <3>7. toClient'[c] = toClient[c] \o <<pkt>>
      BY <1>4, <2>3, <3>3, <3>6
    <3>8. QED
      BY <2>1, <3>6, <3>7, AddedTo
  <2>4. QED
    BY <2>2, <2>3
<1>9. QED
  BY <1>4, <1>5, <1>7, <1>8, ServerStep

\* What becomes of a slot when a packet from c goes to slot n.
Takes(n, pkt, c, i) ==
  \/ remote'[i] = NoClient
  \/ /\ remote'[i] = remote[i] /\ (used'[i] <=> used[i])
     /\ conns'[i] = conns[i] \/ (remote[i] = c /\ ~IsFirstSyn(pkt))
  \/ /\ i = n /\ IsFirstSyn(pkt)
     /\ remote'[i] = c /\ ~used'[i] /\ Opening(conns'[i])

\* recv of the listener, at the slot where its loop stops.
LEMMA RecvAtTakes ==
  ASSUME IInv, NEW c \in Clients, NEW pkt, Plain(pkt), NEW n \in Chosen(pkt, c),
         IsFirstSyn(pkt) => ~Served(c), RecvAt(n, pkt, c)
  PROVE  /\ DOMAIN conns' = Slots /\ DOMAIN remote' = Slots /\ DOMAIN used' = Slots
         /\ \A i \in Slots : SlotOK(i)' /\ Takes(n, pkt, c, i)
<1>1. PICK res : res = RecvSlot(n, pkt, c)
  OBVIOUS
<1>2. n \in Slots /\ Shaped /\ SlotOK(n)
  BY DEF Chosen, IInv
<1>3. IsFirstSyn(pkt) => Available(n) /\ remote[n] # c
  BY <1>2 DEF Chosen, Served
<1>4. ~IsFirstSyn(pkt) => remote[n] = c
  BY DEF Chosen
<1>5. Becomes(conns[n], RecvPacket(conns[n], pkt).conn)
  BY <1>2, RecvPacketBecomes DEF SlotOK, Plain
<1>6. c # NoClient
  BY ListenerAssumption
<1>7. CASE res.err = "EOF"
  <2>1. PICK x \in {FreshConn, FreedConn} : conns' = [conns EXCEPT ![n] = x]
    BY <1>1, <1>7 DEF RecvAt
  <2>2. Free({n})
    BY <1>1, <1>7 DEF RecvAt
  <2>3. DOMAIN conns' = Slots /\ DOMAIN remote' = Slots /\ DOMAIN used' = Slots
    BY <1>2, <2>1, <2>2 DEF Shaped, Free
  <2>4. IsConn(x) /\ x.scb.state # "SynSent" /\ ~x.remote
    BY <2>1, FreshIsConn, FreedIsConn
  <2>5. conns'[n] = x /\ remote'[n] = NoClient
    BY <1>2, <2>1, <2>2 DEF Shaped, Free
  <2>6. ASSUME NEW i \in Slots \ {n} PROVE SlotOK(i)' /\ Takes(n, pkt, c, i)
    <3>1. conns'[i] = conns[i] /\ remote'[i] = remote[i] /\ (used'[i] <=> used[i])
      BY <1>2, <2>1, <2>2 DEF Shaped, Free
    <3>2. QED
      BY <3>1 DEF IInv, SlotOK, Takes
  <2>7. SlotOK(n)' /\ Takes(n, pkt, c, n)
    BY <2>4, <2>5 DEF SlotOK, Takes
  <2>8. QED
    BY <2>3, <2>6, <2>7
<1>8. CASE res.err # "EOF"
  <2>1. /\ conns' = [conns EXCEPT ![n] = res.conn]
        /\ remote' = [remote EXCEPT ![n] = IF @ = NoClient /\ res.conn.remote THEN c ELSE @]
        /\ used' = used
    BY <1>1, <1>8 DEF RecvAt
  <2>2. DOMAIN conns' = Slots /\ DOMAIN remote' = Slots /\ DOMAIN used' = Slots
    BY <1>2, <2>1 DEF Shaped
  <2>3. ASSUME NEW i \in Slots \ {n} PROVE SlotOK(i)' /\ Takes(n, pkt, c, i)
    <3>1. conns'[i] = conns[i] /\ remote'[i] = remote[i] /\ used'[i] = used[i]
      BY <1>2, <2>1 DEF Shaped
    <3>2. QED
      BY <3>1 DEF IInv, SlotOK, Takes
  <2>4. /\ conns'[n] = res.conn /\ used'[n] = used[n]
        /\ remote'[n] = IF remote[n] = NoClient /\ res.conn.remote THEN c ELSE remote[n]
    BY <1>2, <2>1 DEF Shaped
  <2>5. res.conn = conns[n] \/ res.conn = RecvPacket(conns[n], pkt).conn
    BY <1>1 DEF RecvSlot, RecvResult
  <2>6. SlotOK(n)'
    BY <1>2, <1>5, <1>6, <2>4, <2>5 DEF SlotOK, Becomes, Follows
  <2>7. CASE ~IsFirstSyn(pkt)
    BY <1>4, <1>6, <2>2, <2>3, <2>4, <2>6, <2>7 DEF Takes
  <2>8. CASE IsFirstSyn(pkt) /\ remote[n] = NoClient
    <3>1. ConnState(conns[n]) = "Listen" /\ ~used[n] /\ ~conns[n].remote /\ IsConn(conns[n])
      BY <1>2, <1>3, <2>8 DEF Available, SlotOK
    <3>2. res = RecvPacket(conns[n], pkt)
      BY <1>1, <2>8 DEF RecvSlot
    <3>3. res.conn.remote => Opening(res.conn)
      BY <2>8, <3>1, <3>2, FirstSynTaken DEF Opening
    <3>4. Takes(n, pkt, c, n)
      BY <2>4, <2>8, <3>1, <3>3 DEF Takes
    <3>5. QED
      BY <2>2, <2>3, <2>6, <3>4
  <2>9. CASE IsFirstSyn(pkt) /\ remote[n] # NoClient
    <3>1. conns[n].scb.state = "Listen"
      BY <1>3, <2>9 DEF Available, ConnState
    <3>2. res.conn = conns[n]
      BY <1>1, <1>3, <2>9, <3>1 DEF RecvSlot, RecvResult, IsClosed
    <3>3. Takes(n, pkt, c, n)
      BY <2>4, <2>9, <3>2 DEF Takes
    <3>4. QED
      BY <2>2, <2>3, <2>6, <3>3
  <2>10. QED
    BY <2>7, <2>8, <2>9
<1>9. QED
  BY <1>7, <1>8

\* RecvEth, with the choice of the slot, keeps the invariant.
LEMMA RecvEthIInv == ASSUME IInv, NEW c \in Clients, RecvEth(c) PROVE IInv'
<1>1. ClientOK(c) /\ NetOK(c) /\ SynOnce(c) /\ Unfinished(c) /\ Shaped
  BY DEF IInv
<1>2. PICK pkt : pkt = Head(toServer[c])
  OBVIOUS
<1>3. PICK n : n = FirstOf(Chosen(pkt, c))
  OBVIOUS
<1>4. /\ UNCHANGED <<client, cport, toClient>> /\ toServer[c] # <<>>
      /\ toServer' = [toServer EXCEPT ![c] = Tail(@)]
      /\ \/ UNCHANGED <<conns, remote, used>>
         \/ Chosen(pkt, c) # {} /\ RecvAt(n, pkt, c)
  BY <1>2, <1>3 DEF RecvEth, dialer
<1>5. /\ toServer'[c] = Tail(toServer[c])
      /\ \A d \in Clients \ {c} : toServer'[d] = toServer[d]
  BY <1>1, <1>4 DEF Shaped
<1>6. /\ Queue(toServer'[c]) /\ 1 \in 1 .. Len(toServer[c]) /\ pkt = toServer[c][1]
      /\ \A k \in 1 .. Len(toServer'[c]) :
           k + 1 \in 1 .. Len(toServer[c]) /\ toServer'[c][k] = toServer[c][k + 1]
  <2>1. PICK q : q = toServer[c]
    OBVIOUS
  <2>2. Queue(q) /\ q # <<>> /\ toServer'[c] = Tail(q) /\ pkt = Head(q)
    BY <1>1, <1>2, <1>4, <1>5, <2>1 DEF NetOK
  <2>3. /\ Queue(Tail(q)) /\ 1 \in 1 .. Len(q) /\ Head(q) = q[1]
        /\ \A k \in 1 .. Len(Tail(q)) : k + 1 \in 1 .. Len(q) /\ Tail(q)[k] = q[k + 1]
    BY <2>2, TailOf
  <2>4. QED
    BY <2>1, <2>2, <2>3
<1>7. Plain(pkt) /\ (IsFirstSyn(pkt) => ~Unsent(c) /\ ~Served(c))
  BY <1>1, <1>6 DEF NetOK, SynOnce
<1>8. /\ DOMAIN conns' = Slots /\ DOMAIN remote' = Slots /\ DOMAIN used' = Slots
      /\ \A i \in Slots : SlotOK(i)' /\ Takes(n, pkt, c, i)
  <2>1. CASE UNCHANGED <<conns, remote, used>>
    BY <1>1, <2>1 DEF Shaped, IInv, SlotOK, Takes
  <2>2. CASE Chosen(pkt, c) # {} /\ RecvAt(n, pkt, c)
    <3>1. n \in Chosen(pkt, c)
      BY <1>3, <2>2, FirstOfIn DEF Chosen, Slots
    <3>2. QED
      BY <1>7, <2>2, <3>1, RecvAtTakes
  <2>3. QED
    BY <1>4, <2>1, <2>2
<1>9. Shaped'
  BY <1>1, <1>4, <1>8 DEF Shaped
<1>10. OneSlotPerRemote'
  <2>1. ASSUME NEW i \in Slots, NEW j \in Slots, remote'[i] = remote'[j], i # j,
               remote'[i] # NoClient
        PROVE  FALSE
    <3>1. Takes(n, pkt, c, i) /\ Takes(n, pkt, c, j)
      BY <1>8
    <3>2. IsFirstSyn(pkt) => remote[i] # c /\ remote[j] # c
      BY <1>7 DEF Served
    <3>3. remote[i] = remote[j] => remote[i] = NoClient
      BY <2>1 DEF IInv, OneSlotPerRemote
    <3>4. QED
      BY <2>1, <3>1, <3>2, <3>3 DEF Takes
  <2>2. QED
    BY <2>1 DEF OneSlotPerRemote
<1>11. ASSUME NEW d \in Clients PROVE (ClientOK(d) /\ NetOK(d) /\ SynOnce(d) /\ Unfinished(d))'
  <2>1. ClientOK(d) /\ NetOK(d) /\ SynOnce(d) /\ Unfinished(d)
    BY DEF IInv
  <2>2. ClientOK(d)' /\ (Unsent(d)' <=> Unsent(d)) /\ d # NoClient
    BY <1>4, <2>1, ListenerAssumption DEF ClientOK, Unsent
  <2>3. CASE d # c
    <3>1. toServer'[d] = toServer[d]
      BY <1>5, <2>3
    <3>2. NetOK(d)'
      BY <1>4, <2>1, <3>1 DEF NetOK
    <3>3. ASSUME NEW i \in Slots, remote'[i] = d
          PROVE  remote[i] = d /\ (used'[i] <=> used[i]) /\ conns'[i] = conns[i]
      BY <1>8, <2>2, <2>3, <3>3 DEF Takes
    <3>4. Served(d)' => Served(d)
      BY <3>3 DEF Served
    <3>5. SynOnce(d)'
      BY <1>4, <2>1, <2>2, <3>1, <3>4 DEF SynOnce
    <3>6. Unfinished(d)'
      BY <1>4, <2>1, <3>1, <3>3 DEF Unfinished
    <3>7. QED
      BY <2>2, <3>2, <3>5, <3>6
  <2>4. CASE d = c
    <3>1. NetOK(c)'
      BY <1>1, <1>4, <1>6 DEF NetOK
    <3>2. ~IsFirstSyn(pkt) /\ Served(c)' => Served(c)
      BY <1>8, <2>2, <2>4 DEF Takes, Served
    <3>3. cport'[c] # "new"
      BY <1>1, <1>4 DEF SynOnce
    <3>4. Unsent(c)' => ~Served(c)'
      BY <1>1, <1>7, <2>2, <2>4, <3>2 DEF SynOnce
    <3>5. ASSUME NEW k \in 1 .. Len(toServer'[c]), IsFirstSyn(toServer'[c][k])
          PROVE  /\ ~Unsent(c)' /\ ~Served(c)'
                 /\ \A l \in 1 .. Len(toServer'[c]) : IsFirstSyn(toServer'[c][l]) => l = k
      <4>1. k \in Nat \ {0} /\ k + 1 \in 1 .. Len(toServer[c]) /\ IsFirstSyn(toServer[c][k + 1])
        BY <1>6, <3>5
      <4>2. /\ ~Unsent(c) /\ ~Served(c)
            /\ \A l \in 1 .. Len(toServer[c]) : IsFirstSyn(toServer[c][l]) => l = k + 1
        BY <1>1, <4>1 DEF SynOnce
      <4>3. ~IsFirstSyn(pkt)
        BY <1>6, <4>1, <4>2
      <4>4. ASSUME NEW l \in 1 .. Len(toServer'[c]), IsFirstSyn(toServer'[c][l]) PROVE l = k
        <5>1. l + 1 = k + 1 /\ l \in Nat
          BY <1>6, <4>2, <4>4
        <5>2. QED
          BY <4>1, <5>1
      <4>5. QED
        BY <2>2, <2>4, <3>2, <4>2, <4>3, <4>4
    <3>6. SynOnce(c)'
      BY <3>3, <3>4, <3>5 DEF SynOnce
    <3>7. Unfinished(c)'
      <4>1. SUFFICES ASSUME client'[c].scb.state = "SynSent" PROVE Unfinished(c)'
        BY DEF Unfinished
      <4>2. client[c].scb.state = "SynSent"
        BY <1>4, <4>1
      <4>3. IsFirstSyn(pkt) /\ ~Served(c)
        BY <1>1, <1>6, <1>7, <4>2 DEF Unfinished
      <4>4. \A k \in 1 .. Len(toServer'[c]) : IsFirstSyn(toServer'[c][k])
        BY <1>1, <1>6, <4>2 DEF Unfinished
      <4>5. ASSUME NEW i \in Slots, remote'[i] = c PROVE ~used'[i] /\ Opening(conns'[i])
        BY <1>8, <2>2, <2>4, <4>3, <4>5 DEF Takes, Served
      <4>6. QED
        BY <4>4, <4>5 DEF Unfinished
    <3>8. QED
      BY <2>2, <2>4, <3>1, <3>6, <3>7
  <2>5. QED
    BY <2>3, <2>4
<1>12. QED
  BY <1>8, <1>9, <1>10, <1>11 DEF IInv

\* Every step keeps the invariant if no client sends its SYN twice.
LEMMA NextIInv == ASSUME ~Resends, IInv, [Next]_vars PROVE IInv'
<1>1. CASE StartListening \/ HandleEthIdle
  BY <1>1, OwnSteps
<1>2. CASE FinishListening
  BY <1>2, FinishListeningIInv
<1>3. CASE HandleEth
  BY <1>3, HandleEthIInv
<1>4. CASE User
  BY <1>4, OwnSteps, CloseHandleIInv DEF User
<1>5. ASSUME NEW i \in Slots, Idle(i) PROVE IInv'
  BY <1>5, OwnSteps
<1>6. ASSUME NEW c \in Clients, Dial(c) \/ RecvEth(c) PROVE IInv'
  BY <1>6, DialIInv, RecvEthIInv
<1>7. ASSUME NEW c \in Clients, Client(c) PROVE IInv'
  BY <1>7, ClientRecvIInv, ClientSendIInv, ClientWriteIInv DEF Client
<1>8. ASSUME NEW c \in Clients, Resend(c) PROVE IInv'
  BY <1>8 DEF Resend
<1>9. CASE UNCHANGED vars
  <2>1. /\ UNCHANGED <<conns, remote, used>> /\ UNCHANGED <<client, cport>>
        /\ UNCHANGED <<toServer, toClient>>
    BY <1>9 DEF vars, server, dialer, net
  <2>2. Shaped /\ \A i \in Slots : IsConn(conns[i])
    BY DEF IInv, SlotOK
  <2>3. QED
    BY <2>1, <2>2, OwnStep DEF Shaped
<1>10. QED
  BY <1>1, <1>2, <1>3, <1>4, <1>5, <1>6, <1>7, <1>8, <1>9 DEF Next

\* The invariant holds if no client sends its SYN twice.
LEMMA Invariance == ASSUME ~Resends PROVE Spec => []IInv
<1>1. IInv /\ [Next]_vars => IInv'
  BY NextIInv
<1>2. QED
  BY <1>1, InitIInv, PTL DEF Spec

\* recv finds the slot of a remote: no two slots have the same one, if no client
\* sends its SYN again.  With a second SYN they may, see ListenerTwoSlots.cfg.
THEOREM OneSlotEach == ASSUME ~Resends PROVE Spec => []OneSlotPerRemote
<1>1. IInv => OneSlotPerRemote
  BY DEF IInv
<1>2. QED
  BY <1>1, Invariance, PTL

\* A connection that Accept has handed out has a client that knows of it: the slot
\* leaves SynRcvd for Established only with a segment that its client sends after
\* the SYN-ACK has reached it.
THEOREM AcceptedKnow == ASSUME ~Resends PROVE Spec => []AcceptedAreUp
<1>1. IInv => AcceptedAreUp
  BY DEF IInv, AcceptedAreUp, SlotOK, Unfinished
<1>2. QED
  BY <1>1, Invariance, PTL
=============================================================================

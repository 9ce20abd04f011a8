------------------------------- MODULE TCPConn -------------------------------
(***************************************************************************)
(* stacks/tcpconn.go: a connection over a control block, as a record and   *)
(* functions of it.  tx and rx are the queues that stacks.ring implements  *)
(* (module Ring, theorem ImplementsFifo); a read of zero bytes, which that *)
(* theorem excludes, is modelled as the ring does it (TxRead).             *)
(*                                                                         *)
(* What send and recv return to the PortStack is "nil", "pending"          *)
(* (ErrFlagPending), "EOF", or "error" for anything else.                  *)
(***************************************************************************)
EXTENDS TCB, Sequences

CONSTANTS
  TxCap,    \* TxBufSize
  RxCap,    \* RxBufSize, also the window offered when opening
  MaxSeg    \* room for payload in one frame

ASSUME TCPConnAssumption ==
  /\ TxCap \in Nat \ {0} /\ MaxSeg \in Nat \ {0}
  /\ RxCap \in 1 .. MaxWnd

\* late: more than 3 seconds have passed since lastTx, whose zero value is long
\* past.  remote: remote.IsValid().  abortErr: abortErr # nil.
FreshConn ==
  [scb |-> ZeroTCB, tx |-> <<>>, rx |-> <<>>, remote |-> FALSE,
   closing |-> FALSE, abortErr |-> FALSE, late |-> TRUE]

\* A Close that has not reached the control block shows as FinWait1.
ConnState(c) ==
  IF c.closing /\ ~IsClosing(c.scb.state) THEN "FinWait1" ELSE c.scb.state

PipeOpen(c) ==
  /\ ~c.abortErr /\ ~c.closing
  /\ ~IsClosed(ConnState(c)) /\ ~IsClosing(ConnState(c))

AwaitingSyn(c) == c.scb.state = "SynSent" /\ c.remote

\* Mutant of MustSendSyn: in every state.
MustSendSynAlways(c) == c.remote /\ c.late

MustSendSyn(c) == AwaitingSyn(c) /\ c.late

IsPendingHandling(c) ==
  HasPending(c.scb) \/ MustSendSyn(c) \/ Len(c.tx) > 0 \/ c.closing

SynsentSegment(c) == MakeSegment(c.scb.snd.ISS, 0, c.scb.rcv.WND, {"SYN"}, 0)

\* open(): the control block, fresh buffers, and for a dial the SYN is put on
\* the books here and on the wire by the first HandleEth.
OpenConn(c, state, iss) ==
  LET out  == Open(c.scb, iss, RxCap, state)
      dial == state = "SynSent"
      c1   == [c EXCEPT !.scb = out.tcb, !.remote = dial, !.tx = <<>>, !.rx = <<>>]
  IN  IF out.err # "nil" THEN c
      ELSE IF dial THEN [c1 EXCEPT !.scb = Send(c1.scb, SynsentSegment(c1)).tcb]
      ELSE c1

-----------------------------------------------------------------------------
(* What the stack does next with the connection. *)

\* Mutant of StateCheck: a close delayed by unsent data is forgotten.
StateCheckForgetful(c) ==
  [conn |-> c,
   err  |-> IF c.closing /\ c.late THEN "EOF"
            ELSE IF HasPending(c.scb) THEN "pending"
            ELSE IF IsClosed(ConnState(c)) THEN "EOF"
            ELSE "nil"]

StateCheck(c) ==
  LET delayed == c.closing /\ c.tx = <<>> /\ c.scb.state = "Established"
      c1 == IF delayed THEN [c EXCEPT !.scb = Close(c.scb).tcb] ELSE c
  IN  [conn |-> c1,
       err  |-> IF c.closing /\ ~delayed /\ c.late THEN "EOF"
                ELSE IF HasPending(c1.scb) THEN "pending"
                ELSE IF IsClosed(ConnState(c)) THEN "EOF"
                ELSE "nil"]

-----------------------------------------------------------------------------
(* recv and send *)

\* A packet is its segment and its payload.
Packet(seg, data) == [seg |-> seg, data |-> data]

RecvResult(c, err) == [conn |-> c, err |-> err]

\* The segment was accepted: buffer the payload, learn the remote, check state.
\* A payload that does not fit is refused after the control block took it.
RecvAccepted(c, pkt) ==
  LET c1 == [c EXCEPT !.rx = c.rx \o pkt.data]
      c2 == IF Has(pkt.seg, "SYN") THEN [c1 EXCEPT !.remote = TRUE] ELSE c1
  IN  IF Len(pkt.data) > RxCap - Len(c.rx) THEN RecvResult(c, "error")
      ELSE StateCheck(c2)

RecvPacket(c, pkt) ==
  LET out == Recv(c.scb, pkt.seg)
      c1  == [c EXCEPT !.scb = out.tcb]
  IN  IF IsClosed(c.scb.state) THEN RecvResult(c, "EOF")
      ELSE IF IncomingIsKeepalive(c.scb, pkt.seg) THEN RecvResult(c, "nil")
      ELSE IF out.err = "nil" THEN RecvAccepted(c1, pkt)
      ELSE IF out.tcb.state = "Closed"
           THEN RecvResult([c1 EXCEPT !.abortErr = TRUE], "EOF")
      ELSE RecvResult(c1, "nil")

SendResult(c, pkts, err) == [conn |-> c, pkts |-> pkts, err |-> err]

\* Mutant of TxRead: what was read stays in the buffer.
TxReadPeek(tx, n) == tx

\* tx.Read of n bytes; with n = 0 the ring takes a full buffer for an empty one.
TxRead(tx, n) ==
  IF n = 0 /\ Len(tx) = TxCap THEN <<>> ELSE SubSeq(tx, n + 1, Len(tx))

Smaller(a, b) == IF a < b THEN a ELSE b

\* The segment has passed Send: payload, state check, and last the time stamp.
SendAccepted(c, seg, available) ==
  LET c1 == IF available > 0 THEN [c EXCEPT !.tx = TxRead(c.tx, seg.DATALEN)] ELSE c
      check == StateCheck(c1)
  IN  SendResult([check.conn EXCEPT !.late = FALSE],
                 <<Packet(seg, SubSeq(c.tx, 1, seg.DATALEN))>>, check.err)

\* Mutant of SendSyn: lastTx is not set.
SendSynUnstamped(c) == SendResult(c, <<Packet(SynsentSegment(c), <<>>)>>, "nil")

\* handleInitSyn
SendSyn(c) ==
  SendResult([c EXCEPT !.late = FALSE], <<Packet(SynsentSegment(c), <<>>)>>, "nil")

SendPacket(c) ==
  LET c1  == [c EXCEPT !.scb = SetRecvWindow(c.scb, RxCap - Len(c.rx))]
      available == Smaller(Len(c.tx), MaxSeg)
      next == PendingSegment(c1.scb, available)
      c2  == [c1 EXCEPT !.scb = AfterPending(c1.scb)]
      out == Send(c2.scb, next.seg)
      check == StateCheck(c2)
  IN  IF ~c.remote THEN SendResult(c, <<>>, "nil")
      ELSE IF MustSendSyn(c) THEN SendSyn(c)
      ELSE IF AwaitingSyn(c) THEN SendResult(c, <<>>, "pending")
      ELSE IF next.ok = "panic" THEN SendResult(c1, <<>>, "panic")
      ELSE IF next.ok = "no" THEN SendResult(check.conn, <<>>, check.err)
      ELSE IF out.err # "nil" THEN SendResult(c2, <<>>, "error")
      ELSE SendAccepted([c2 EXCEPT !.scb = out.tcb], next.seg, available)

-----------------------------------------------------------------------------
(* User calls *)

\* Mutant of CloseConn: unsent data does not delay the FIN.
CloseConnNow(c) ==
  LET out == Close(c.scb)
  IN  [conn |-> [c EXCEPT !.closing = TRUE, !.scb = out.tcb], ok |-> out.err = "nil"]

\* Close with data still to send only marks the connection as closing.
CloseConn(c) ==
  LET out == Close(c.scb)
  IN  IF c.tx # <<>> THEN [conn |-> [c EXCEPT !.closing = TRUE], ok |-> TRUE]
      ELSE IF out.err = "nil"
           THEN [conn |-> [c EXCEPT !.closing = TRUE, !.scb = out.tcb], ok |-> TRUE]
      ELSE [conn |-> [c EXCEPT !.closing = @ \/ IsClosing(c.scb.state)], ok |-> FALSE]
=============================================================================

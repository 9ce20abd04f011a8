--------------------------------- MODULE TCB ---------------------------------
(***************************************************************************)
(* control.go and control_user.go: the transmission control block as a     *)
(* record and its methods as functions of it.  Recv, Send, Open and Close  *)
(* give [tcb, err]: the block they leave and the class of the error they   *)
(* return.  Modules with connections in their state build on these; module *)
(* ControlBlock is the state machine of a single block.                    *)
(*                                                                         *)
(* Error classes: "nil", "reject" (RejectError), "closed" (ErrClosed,      *)
(* ErrClosedPipe), "drop" (errDropSegment), "state" (the errors of a call  *)
(* or segment wrong for the state) and "panic".                            *)
(***************************************************************************)
EXTENDS SeqNum

CONSTANTS
  RstJump,     \* rstJump
  XorIRS(_),   \* 3_14159_2653 ^ v
  Int32        \* whether Go's int has 32 bits, as on the boards TinyGo targets

ASSUME TCBAssumption ==
  /\ RstJump \in Nat
  /\ \A v \in Value : XorIRS(v) \in Value
  /\ Int32 \in BOOLEAN

States == {"Closed", "Listen", "SynRcvd", "SynSent", "Established", "FinWait1",
           "FinWait2", "Closing", "TimeWait", "CloseWait", "LastAck"}

SendSpace == [ISS : Value, UNA : Value, NXT : Value, WND : Window]
RecvSpace == [IRS : Value, NXT : Value, WND : Value]

\* pending[0] and pending[1] are p0 and p1.
ControlBlocks ==
  [state : States, snd : SendSpace, rcv : RecvSpace, rstPtr : Value,
   p0 : SUBSET FlagNames, p1 : SUBSET FlagNames, challengeAck : BOOLEAN]

IsPreestablished(s) == s \in {"SynRcvd", "SynSent", "Listen"}
IsClosed(s) == s \in {"Closed", "TimeWait"}
IsClosing(s) == s \in States \ {"Closed", "Listen", "SynRcvd", "SynSent", "Established"}
IsSynchronized(s) == IsClosing(s) \/ s = "Established"

ResetSnd(iss, wnd) == [ISS |-> iss, UNA |-> iss, NXT |-> iss, WND |-> wnd]
ResetRcv(wnd, irs) == [IRS |-> irs, NXT |-> irs, WND |-> wnd]

ZeroTCB ==
  [state |-> "Closed", snd |-> ResetSnd(0, 0), rcv |-> ResetRcv(0, 0),
   rstPtr |-> 0, p0 |-> {}, p1 |-> {}, challengeAck |-> FALSE]

\* close() leaves challengeAck and rstPtr as they are.
Shut(t) ==
  [t EXCEPT !.state = "Closed", !.snd = ResetSnd(0, 0), !.rcv = ResetRcv(0, 0),
            !.p0 = {}, !.p1 = {}]

Outcome(t, err) == [tcb |-> t, err |-> err]

-----------------------------------------------------------------------------
(* Sending *)

InFlight(t) == Sizeof(t.snd.UNA, t.snd.NXT)

\* Mutant of MaxSend: one octet too many.
MaxSendPlusOne(t) == Wrap(t.snd.WND - InFlight(t) + 1)

MaxSend(t) == Wrap(t.snd.WND - InFlight(t))

\* Mutant of ToInt: 32 bits on every machine.
ToIntNarrow(size) == IF 2 * size >= SeqMod THEN size - SeqMod ELSE size

\* Go's int(Size): 32-bit builds read the upper half as negative numbers.
ToInt(size) == IF Int32 /\ 2 * size >= SeqMod THEN size - SeqMod ELSE size

MakeSegment(seq, ack, wnd, flags, len) ==
  [SEQ |-> seq, ACK |-> ack, WND |-> wnd, Flags |-> flags, DATALEN |-> len]

\* What PendingSegment(payloadLen) gives: whether there is a segment, and which.
\* "panic" is the bad-calculation assertion.
PendingSegment(t, payloadLen) ==
  LET none   == [ok |-> "no", seg |-> MakeSegment(0, 0, 0, {}, 0)]
      some(s) == [ok |-> "yes", seg |-> s]
      len    == IF t.state \in {"Established", "CloseWait"} THEN payloadLen ELSE 0
      room   == MaxSend(t)
      excess == len > ToInt(room)
      flags  == t.p0 \union (IF t.state = "Established" THEN {"ACK"} ELSE {})
      ack    == IF "ACK" \in flags THEN t.rcv.NXT ELSE 0
      seq    == IF "RST" \in flags THEN t.rstPtr ELSE t.snd.NXT
      sent   == IF t.state # "Established" THEN 0 ELSE IF excess THEN ToInt(room) ELSE len
  IN  IF t.challengeAck
      THEN some(MakeSegment(t.snd.NXT, t.rcv.NXT, t.rcv.WND, {"ACK"}, 0))
      ELSE IF t.p0 = {} /\ len = 0 THEN none
      ELSE IF excess /\ room = 0 /\ t.p0 \intersect {"FIN", "RST", "SYN"} = {} THEN none
      ELSE IF excess /\ room > t.snd.WND THEN [none EXCEPT !.ok = "panic"]
      ELSE some(MakeSegment(seq, ack, t.rcv.WND, flags, sent))

\* The one thing PendingSegment writes.
AfterPending(t) == [t EXCEPT !.challengeAck = FALSE]

HasPending(t) == t.p0 # {}

\* validateOutgoingSegment, as an error class.
OutgoingError(t, seg) ==
  LET checkSeq == ~Has(seg, "RST")
      zeroWindowOK == t.snd.WND = 0 /\ seg.DATALEN = 0 /\ seg.SEQ = t.snd.NXT
      inWindow(v) == InWindow(v, t.snd.NXT, t.snd.WND) \/ zeroWindowOK
  IN  IF t.state = "Closed" THEN "closed"
      ELSE IF seg.WND > MaxWnd THEN "state"
      ELSE IF Has(seg, "ACK") /\ seg.ACK # t.rcv.NXT THEN "reject"
      ELSE IF checkSeq /\ ~inWindow(seg.SEQ) THEN "reject"
      ELSE IF seg.DATALEN > 0 /\ t.state \in {"FinWait1", "FinWait2"} THEN "state"
      ELSE IF checkSeq /\ ~inWindow(Last(seg)) THEN "reject"
      ELSE "nil"

\* The state a sent segment moves the connection to.
StateAfterSend(t, seg) ==
  CASE t.state \in {"SynRcvd", "Established"} /\ Has(seg, "FIN") -> "FinWait1"
    [] t.state = "Closing" /\ Has(seg, "ACK") -> "TimeWait"
    [] t.state = "CloseWait" /\ Has(seg, "FIN") -> "LastAck"
    [] OTHER -> t.state

\* Mutant of QueueAfterSend: a FIN already sent stays queued behind itself.
QueueAfterSendKeepsFin(t, seg) ==
  LET left == t.p0 \ seg.Flags
  IN  IF left = {} THEN [p0 |-> t.p1, p1 |-> {}] ELSE [p0 |-> left, p1 |-> t.p1]

\* The queue of pending flags after a segment is sent.
QueueAfterSend(t, seg) ==
  LET left == t.p0 \ seg.Flags
      new  == IF t.state = "CloseWait" /\ ~Has(seg, "FIN") /\ Has(seg, "ACK")
              THEN finack ELSE {}
  IN  IF left = {}
      THEN [p0 |-> (t.p1 \ (seg.Flags \intersect {"FIN"})) \union new, p1 |-> {}]
      ELSE [p0 |-> left \union new, p1 |-> t.p1]

\* Mutant of Sent: a FIN is not counted.
SentFinUncounted(t, seg) ==
  [t EXCEPT !.state = StateAfterSend(t, seg),
            !.p0 = QueueAfterSend(t, seg).p0,
            !.p1 = QueueAfterSend(t, seg).p1,
            !.snd.NXT = Add(t.snd.NXT, SegLen([seg EXCEPT !.Flags = @ \ {"FIN"}])),
            !.rcv.WND = seg.WND]

Sent(t, seg) ==
  [t EXCEPT !.state = StateAfterSend(t, seg),
            !.p0 = QueueAfterSend(t, seg).p0,
            !.p1 = QueueAfterSend(t, seg).p1,
            !.snd.NXT = Add(t.snd.NXT, SegLen(seg)),
            !.rcv.WND = seg.WND]

Send(t, seg) ==
  IF OutgoingError(t, seg) # "nil" THEN Outcome(t, OutgoingError(t, seg))
  ELSE Outcome(Sent(t, seg), "nil")
-----------------------------------------------------------------------------
(* Receiving *)

\* Mutant of IncomingError: being in the window is enough.
IncomingErrorInWindow(t, seg) ==
  LET zeroWindowOK == t.rcv.WND = 0 /\ seg.DATALEN = 0 /\ seg.SEQ = t.rcv.NXT
      inWindow(v) == InWindow(v, t.rcv.NXT, t.rcv.WND) \/ zeroWindowOK
  IN  IF seg.WND > MaxWnd THEN "reject"
      ELSE IF t.state = "Closed" THEN "closed"
      ELSE IF ~Has(seg, "SYN") /\ (~inWindow(seg.SEQ) \/ ~inWindow(Last(seg))) THEN "reject"
      ELSE "nil"

\* The admission checks of validateIncomingSegment.  A SYN skips the sequence
\* checks; every other segment must be exactly the next one expected.
IncomingError(t, seg) ==
  LET zeroWindowOK == t.rcv.WND = 0 /\ seg.DATALEN = 0 /\ seg.SEQ = t.rcv.NXT
      inWindow(v) == InWindow(v, t.rcv.NXT, t.rcv.WND) \/ zeroWindowOK
  IN  IF seg.WND > MaxWnd THEN "reject"
      ELSE IF t.state = "Closed" THEN "closed"
      ELSE IF ~Has(seg, "SYN") /\ ( \/ ~inWindow(seg.SEQ)
                                    \/ ~inWindow(Last(seg))
                                    \/ seg.SEQ # t.rcv.NXT ) THEN "reject"
      ELSE "nil"

\* A reset sends an opening connection back to Listen, with another ISS.
Relisten(t) ==
  [t EXCEPT !.state = "Listen", !.p0 = {},
            !.snd = ResetSnd(Add(t.snd.ISS, RstJump), t.snd.WND),
            !.rcv = ResetRcv(t.rcv.WND, XorIRS(t.rcv.IRS))]

\* Mutant of HandleRST: a reset is obeyed wherever it is in the window.
HandleRSTInWindow(t, seq) ==
  IF IsPreestablished(t.state) THEN Outcome(Relisten(t), "drop") ELSE Outcome(Shut(t), "closed")

HandleRST(t, seq) ==
  IF seq # t.rcv.NXT
  THEN Outcome([t EXCEPT !.challengeAck = TRUE, !.p0 = t.p0 \union {"ACK"}], "drop")
  ELSE IF IsPreestablished(t.state) THEN Outcome(Relisten(t), "drop")
  ELSE Outcome(Shut(t), "closed")

AcksOld(t, seg) == Has(seg, "ACK") /\ ~LessThan(t.snd.UNA, seg.ACK)
AcksUnsent(t, seg) == Has(seg, "ACK") /\ ~LessThanEq(seg.ACK, t.snd.NXT)

\* An established connection ignores an ACK that says nothing new ...
DupAck(t, seg) ==
  /\ t.state = "Established" /\ AcksOld(t, seg)
  /\ seg.DATALEN = 0 /\ ~Has(seg, "FIN") /\ ~Has(seg, "RST")

\* ... and answers one for data it never sent ...
UnsentAck(t, seg) == t.state = "Established" /\ AcksUnsent(t, seg)

\* ... and an opening one answers any ACK but that of its SYN with a reset.
StrayAck(t, seg) ==
  IsPreestablished(t.state) /\ (AcksOld(t, seg) \/ AcksUnsent(t, seg))

Dropped(t, seg) == DupAck(t, seg) \/ UnsentAck(t, seg) \/ StrayAck(t, seg)

AfterDrop(t, seg) ==
  IF DupAck(t, seg) THEN [t EXCEPT !.p0 = t.p0 \intersect {"FIN"}]
  ELSE IF UnsentAck(t, seg) THEN [t EXCEPT !.p0 = {"ACK"}]
  ELSE [t EXCEPT !.p0 = {"RST"}, !.rstPtr = seg.ACK,
                 !.snd = ResetSnd(t.snd.ISS, seg.WND)]

\* rcvListen ... rcvFinWait2 and the cases of Recv: the block, the flags to add
\* to pending[0] and the error.
Step(t, pending, err) == [tcb |-> t, pending |-> pending, err |-> err]

RcvListen(t, seg) ==
  IF ~Has(seg, "SYN") THEN Step(t, {}, "state")
  ELSE Step([t EXCEPT !.state = "SynRcvd", !.p0 = synack,
                      !.snd = ResetSnd(t.snd.ISS, seg.WND),
                      !.rcv = ResetRcv(t.rcv.WND, seg.SEQ)], synack, "nil")

\* Mutant of RcvSynSent: the SYN is not counted in the ACK expected.
RcvSynSentOffByOne(t, seg) ==
  IF ~Has(seg, "SYN") \/ (Has(seg, "ACK") /\ seg.ACK # t.snd.UNA) THEN Step(t, {}, "state")
  ELSE Step([t EXCEPT !.state = "Established",
                      !.rcv = ResetRcv(t.rcv.WND, seg.SEQ)], {"ACK"}, "nil")

RcvSynSent(t, seg) ==
  IF ~Has(seg, "SYN") THEN Step(t, {}, "state")
  ELSE IF Has(seg, "ACK") /\ seg.ACK # Add(t.snd.UNA, 1) THEN Step(t, {}, "state")
  ELSE IF Has(seg, "ACK")
       THEN Step([t EXCEPT !.state = "Established",
                           !.rcv = ResetRcv(t.rcv.WND, seg.SEQ)], {"ACK"}, "nil")
       ELSE Step([t EXCEPT !.state = "SynRcvd",
                           !.snd = ResetSnd(t.snd.ISS, seg.WND),
                           !.rcv = ResetRcv(t.rcv.WND, seg.SEQ)], synack, "nil")

\* Mutant of RcvSynRcvd: any segment completes the handshake.
RcvSynRcvdUnchecked(t, seg) == Step([t EXCEPT !.state = "Established"], {}, "nil")

RcvSynRcvd(t, seg) ==
  IF seg.ACK # Add(t.snd.UNA, 1) THEN Step(t, {}, "state")
  ELSE Step([t EXCEPT !.state = "Established"], {}, "nil")

\* Mutant of RcvEstablished: CloseWait is skipped.
RcvEstablishedHasty(t, seg) ==
  IF Has(seg, "FIN")
  THEN Step([t EXCEPT !.state = "LastAck", !.p1 = {"FIN"}], {"ACK"}, "nil")
  ELSE Step(t, IF seg.DATALEN > 0 THEN {"ACK"} ELSE {}, "nil")

RcvEstablished(t, seg) ==
  IF Has(seg, "FIN")
  THEN Step([t EXCEPT !.state = "CloseWait", !.p1 = {"FIN"}], {"ACK"}, "nil")
  ELSE Step(t, IF seg.DATALEN > 0 THEN {"ACK"} ELSE {}, "nil")

RcvFinWait1(t, seg) ==
  IF Has(seg, "FIN") /\ Has(seg, "ACK") /\ seg.ACK = t.snd.NXT
  THEN Step([t EXCEPT !.state = "TimeWait"], {"ACK"}, "nil")
  ELSE IF Has(seg, "FIN") THEN Step([t EXCEPT !.state = "Closing"], {"ACK"}, "nil")
  ELSE IF Has(seg, "ACK") THEN Step([t EXCEPT !.state = "FinWait2"], {"ACK"}, "nil")
  ELSE Step(t, {}, "state")

RcvFinWait2(t, seg) ==
  IF finack \subseteq seg.Flags
  THEN Step([t EXCEPT !.state = "TimeWait"], {"ACK"}, "nil")
  ELSE Step(t, {}, "state")

\* Mutant of RcvLastAck: the last ACK is ignored.
RcvLastAckDeaf(t, seg) == Step(t, {}, "nil")

RcvLastAck(t, seg) == Step(IF Has(seg, "ACK") THEN Shut(t) ELSE t, {}, "nil")

RcvClosing(t, seg) ==
  Step(IF Has(seg, "ACK") THEN [t EXCEPT !.state = "TimeWait"] ELSE t, {}, "nil")

RcvInState(t, seg) ==
  CASE t.state = "Listen"      -> RcvListen(t, seg)
    [] t.state = "SynSent"     -> RcvSynSent(t, seg)
    [] t.state = "SynRcvd"     -> RcvSynRcvd(t, seg)
    [] t.state = "Established" -> RcvEstablished(t, seg)
    [] t.state = "FinWait1"    -> RcvFinWait1(t, seg)
    [] t.state = "FinWait2"    -> RcvFinWait2(t, seg)
    [] t.state = "CloseWait"   -> Step(t, {}, "nil")
    [] t.state = "LastAck"     -> RcvLastAck(t, seg)
    [] t.state = "Closing"     -> RcvClosing(t, seg)
    [] OTHER                   -> Step(t, {}, "panic")

\* The end of Recv, which runs whatever the state has become.
Accepted(t, seg, pending) ==
  [t EXCEPT !.p0 = t.p0 \union pending,
            !.snd.WND = seg.WND,
            !.snd.UNA = IF Has(seg, "ACK") THEN seg.ACK ELSE t.snd.UNA,
            !.rcv.NXT = Add(t.rcv.NXT, SegLen(seg))]

Recv(t, seg) ==
  IF IncomingError(t, seg) # "nil" THEN Outcome(t, IncomingError(t, seg))
  ELSE IF Has(seg, "RST") THEN HandleRST(t, seg.SEQ)
  ELSE IF Dropped(t, seg) THEN Outcome(AfterDrop(t, seg), "drop")
  ELSE LET step == RcvInState(t, seg)
       IN  IF step.err # "nil" THEN Outcome(t, step.err)
           ELSE Outcome(Accepted(step.tcb, seg, step.pending), "nil")

-----------------------------------------------------------------------------
(* User calls *)

Open(t, iss, wnd, state) ==
  IF \/ t.state \notin {"Closed", "Listen"}
     \/ state \notin {"Listen", "SynSent"}
     \/ wnd > MaxWnd
  THEN Outcome(t, "state")
  ELSE Outcome([t EXCEPT !.state = state, !.rcv = ResetRcv(wnd, 0), !.snd = ResetSnd(iss, 1),
                         !.p0 = IF state = "SynSent" THEN {"SYN"} ELSE {},
                         !.p1 = {}], "nil")

Close(t) ==
  CASE t.state = "CloseWait" ->
         Outcome([t EXCEPT !.state = "LastAck", !.p0 = {"FIN"}, !.p1 = {"ACK"}], "nil")
    [] t.state \in {"Listen", "SynSent"} -> Outcome(Shut(t), "nil")
    [] t.state \in {"SynRcvd", "Established"} ->
         Outcome([t EXCEPT !.p0 = (t.p0 \intersect {"ACK"}) \union {"FIN"}], "nil")
    [] OTHER -> Outcome(t, "state")

\* Mutant of SetRecvWindow: the window offered at Open stays.
SetRecvWindowIgnored(t, wnd) == t

SetRecvWindow(t, wnd) == [t EXCEPT !.rcv.WND = wnd]

IncomingIsKeepalive(t, seg) ==
  /\ seg.SEQ = Wrap(t.rcv.NXT - 1) /\ seg.ACK = t.snd.NXT
  /\ seg.Flags = {"ACK"} /\ seg.DATALEN = 0

MakeKeepalive(t) ==
  MakeSegment(Wrap(t.snd.NXT - 1), t.rcv.NXT, t.rcv.WND, {"ACK"}, 0)
=============================================================================

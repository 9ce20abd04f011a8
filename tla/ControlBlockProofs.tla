------------------------- MODULE ControlBlockProofs -------------------------
(***************************************************************************)
(* That a control block stays well formed, keeps the discipline of its     *)
(* queue of pending flags, sends nothing after a FIN, is reset by the      *)
(* exact reset only, follows the state diagram, and completes a handshake  *)
(* only when its SYN is acknowledged, for every sequence space and window. *)
(*                                                                         *)
(* The argument goes method by method.  Good(t) is the type and the queue  *)
(* invariant of a block, Keeps(t, u) says that a call which turns t into u *)
(* leaves a finished connection finished, Edge(t, u) that it follows the   *)
(* diagram, Shakes(t, u, S) what it does about the handshake.  Each method *)
(* has a lemma for each; Sent is the one that may finish a connection.     *)
(***************************************************************************)
EXTENDS ControlBlock, TLAPS

-----------------------------------------------------------------------------
(* Sequence numbers *)

\* A number reduced modulo the sequence space is a sequence number.
LEMMA WrapType == \A x \in Int : Wrap(x) \in Value
BY SeqAssumption DEF Wrap, Value

\* Add stays in the sequence space.
LEMMA AddType == \A v \in Value, s \in Nat : Add(v, s) \in Value
BY SeqAssumption, WrapType DEF Add, Value

\* Small numbers are sequence numbers and windows.
LEMMA ZeroType == 0 \in Value /\ 0 \in Window /\ 1 \in Window
BY SeqAssumption DEF Value, Window

\* A window is a size in the sequence space.
LEMMA WindowType == Window \subseteq Value
BY SeqAssumption DEF Value, Window

-----------------------------------------------------------------------------
(* The invariant, of a block and of a call *)

Good(t) == t \in ControlBlocks /\ QueueInv(t)

Keeps(t, u) == Done(t) => u.state = "Closed" \/ (Done(u) /\ u.snd.NXT = t.snd.NXT)

\* What resetSnd and resetRcv build.
LEMMA ResetTypes ==
  /\ \A i \in Value, w \in Window : ResetSnd(i, w) \in SendSpace
  /\ \A i, w \in Value : ResetRcv(w, i) \in RecvSpace
BY DEF ResetSnd, ResetRcv, SendSpace, RecvSpace

-----------------------------------------------------------------------------
(* Receiving *)

\* close() leaves a well-formed closed block.
LEMMA ShutGood ==
  ASSUME NEW t \in ControlBlocks
  PROVE  Good(Shut(t)) /\ Shut(t).state = "Closed"
<1> DEFINE r == Shut(t)
           s == ResetSnd(0, 0)
           v == ResetRcv(0, 0)
<1>1. r = [t EXCEPT !.state = "Closed", !.snd = s, !.rcv = v, !.p0 = {}, !.p1 = {}]
  BY DEF Shut
<1>2. s \in SendSpace /\ v \in RecvSpace
  BY ResetTypes, ZeroType
<1> HIDE DEF r, s, v
<1>3. r \in ControlBlocks
  BY <1>1, <1>2 DEF ControlBlocks, States, FlagNames
<1>4. r.state = "Closed" /\ r.p0 = {} /\ r.p1 = {}
  BY <1>1 DEF ControlBlocks
<1>5. QED
  BY <1>3, <1>4 DEF Good, QueueInv, r

\* A reset of an opening connection leaves a well-formed listening block.
LEMMA RelistenGood ==
  ASSUME NEW t, Good(t), IsPreestablished(t.state)
  PROVE  Good(Relisten(t))
<1> DEFINE r == Relisten(t)
           s == ResetSnd(Add(t.snd.ISS, RstJump), t.snd.WND)
           v == ResetRcv(t.rcv.WND, XorIRS(t.rcv.IRS))
<1>1. r = [t EXCEPT !.state = "Listen", !.p0 = {}, !.snd = s, !.rcv = v]
  BY DEF Relisten
<1>t. t \in ControlBlocks /\ t.snd \in SendSpace /\ t.rcv \in RecvSpace
  BY DEF Good, ControlBlocks
<1>2. s \in SendSpace /\ v \in RecvSpace
  BY <1>t, ResetTypes, AddType, TCBAssumption DEF SendSpace, RecvSpace
<1> HIDE DEF r, s, v
<1>3. r \in ControlBlocks
  BY <1>1, <1>2, <1>t DEF ControlBlocks, States, FlagNames
<1>4. r.state = "Listen" /\ r.p0 = {} /\ r.p1 = t.p1
  BY <1>1, <1>t DEF ControlBlocks
<1>5. t.p1 = {}
  BY DEF Good, QueueInv, IsPreestablished
<1>6. QED
  BY <1>3, <1>4, <1>5 DEF Good, QueueInv, r

\* handleRST challenges, listens again or closes, and revives nothing.
LEMMA HandleRSTGood ==
  ASSUME NEW t, Good(t), NEW seq
  PROVE  LET u == HandleRST(t, seq).tcb IN Good(u) /\ (Done(t) => Keeps(t, u))
<1>t. t \in ControlBlocks /\ QueueInv(t)
  BY DEF Good
<1>1. CASE seq # t.rcv.NXT
  <2> DEFINE r == [t EXCEPT !.challengeAck = TRUE, !.p0 = t.p0 \union {"ACK"}]
  <2>1. HandleRST(t, seq).tcb = r
    BY <1>1 DEF HandleRST, Outcome
  <2>2. r \in ControlBlocks
    BY <1>t DEF ControlBlocks, FlagNames
  <2>3. /\ r.state = t.state /\ r.p0 = t.p0 \union {"ACK"} /\ r.p1 = t.p1
        /\ r.snd.NXT = t.snd.NXT
    BY <1>t DEF ControlBlocks
  <2> HIDE DEF r
  <2>4. QED
    BY <1>t, <2>1, <2>2, <2>3 DEF Good, QueueInv, Keeps, Done
<1>2. CASE seq = t.rcv.NXT /\ IsPreestablished(t.state)
  <2>1. HandleRST(t, seq).tcb = Relisten(t)
    BY <1>2 DEF HandleRST, Outcome
  <2>2. ~Done(t)
    BY <1>2 DEF Done, FinStates, IsPreestablished
  <2>3. QED
    BY <2>1, <2>2, <1>2, RelistenGood
<1>3. CASE seq = t.rcv.NXT /\ ~IsPreestablished(t.state)
  <2>1. HandleRST(t, seq).tcb = Shut(t)
    BY <1>3 DEF HandleRST, Outcome
  <2>2. QED
    BY <2>1, <1>t, ShutGood DEF Keeps
<1>4. QED
  BY <1>1, <1>2, <1>3

\* A dropped segment changes only the queue, and never of a finished connection.
LEMMA AfterDropGood ==
  ASSUME NEW t, Good(t), NEW seg \in Segment, seg.WND \in Window, Dropped(t, seg)
  PROVE  Good(AfterDrop(t, seg)) /\ ~Done(t)
<1> DEFINE r == AfterDrop(t, seg)
<1>t. t \in ControlBlocks /\ QueueInv(t) /\ t.snd \in SendSpace
  BY DEF Good, ControlBlocks
<1>s. seg.ACK \in Value
  BY DEF Segment
<1>0. ~Done(t)
  BY DEF Dropped, DupAck, UnsentAck, StrayAck, IsPreestablished, Done, FinStates
<1>1. CASE DupAck(t, seg)
  <2>1. r = [t EXCEPT !.p0 = t.p0 \intersect {"FIN"}]
    BY <1>1 DEF AfterDrop
  <2> HIDE DEF r
  <2>2. r \in ControlBlocks /\ r.state = t.state /\ r.p0 \subseteq t.p0 /\ r.p1 = t.p1
    BY <2>1, <1>t DEF ControlBlocks
  <2>3. QED
    BY <1>0, <1>t, <2>2 DEF Good, QueueInv, r
<1>2. CASE ~DupAck(t, seg) /\ UnsentAck(t, seg)
  <2>1. r = [t EXCEPT !.p0 = {"ACK"}]
    BY <1>2 DEF AfterDrop
  <2> HIDE DEF r
  <2>2. r \in ControlBlocks /\ r.state = t.state /\ r.p0 = {"ACK"} /\ r.p1 = t.p1
    BY <2>1, <1>t DEF ControlBlocks, FlagNames
  <2>3. QED
    BY <1>0, <1>t, <2>2 DEF Good, QueueInv, r
<1>3. CASE ~DupAck(t, seg) /\ ~UnsentAck(t, seg)
  <2> DEFINE s == ResetSnd(t.snd.ISS, seg.WND)
  <2>1. r = [t EXCEPT !.p0 = {"RST"}, !.rstPtr = seg.ACK, !.snd = s]
    BY <1>3 DEF AfterDrop
  <2>2. s \in SendSpace
    BY <1>t, <1>s, ResetTypes DEF SendSpace
  <2> HIDE DEF r, s
  <2>3. r \in ControlBlocks /\ r.state = t.state /\ r.p0 = {"RST"} /\ r.p1 = t.p1
    BY <2>1, <2>2, <1>t, <1>s DEF ControlBlocks, FlagNames
  <2>4. QED
    BY <1>0, <1>t, <2>3 DEF Good, QueueInv, r
<1>4. QED
  BY <1>1, <1>2, <1>3

\* What a state method promises.
GoodStep(t, step) ==
  step.err = "nil" =>
    /\ Good(step.tcb)
    /\ step.pending \subseteq {"SYN", "ACK"}
    /\ Done(t) => Keeps(t, step.tcb) /\ step.pending \subseteq {"ACK"}

\* The parts of what a state method returns.
LEMMA StepFields ==
  ASSUME NEW u, NEW pending, NEW err
  PROVE  /\ Step(u, pending, err).tcb = u
         /\ Step(u, pending, err).pending = pending
         /\ Step(u, pending, err).err = err
BY DEF Step

\* A method that only moves the state, between states that allow the same flags.
LEMMA MoveGood ==
  ASSUME NEW t, Good(t), NEW s \in States, t.p1 = {},
         "FIN" \in t.p0 => s \in {"SynRcvd", "Established", "CloseWait", "LastAck"},
         Done(t) => s \in FinStates
  PROVE  LET u == [t EXCEPT !.state = s] IN Good(u) /\ Keeps(t, u)
<1> DEFINE u == [t EXCEPT !.state = s]
<1>t. t \in ControlBlocks /\ QueueInv(t)
  BY DEF Good
<1>1. u \in ControlBlocks
  BY <1>t DEF ControlBlocks
<1>2. u.state = s /\ u.p0 = t.p0 /\ u.p1 = {} /\ u.snd.NXT = t.snd.NXT
  BY <1>t DEF ControlBlocks
<1> HIDE DEF u
<1>3. QED
  BY <1>1, <1>2, <1>t DEF Good, QueueInv, Keeps, Done, u

\* A call that changes nothing keeps everything.
LEMMA KeepsSelf == ASSUME NEW t PROVE Keeps(t, t)
BY DEF Keeps

\* rcvListen.
LEMMA ListenStep ==
  ASSUME NEW t, Good(t), NEW seg \in Segment, seg.WND \in Window, t.state = "Listen"
  PROVE  GoodStep(t, RcvListen(t, seg))
<1> DEFINE step == RcvListen(t, seg)
           s == ResetSnd(t.snd.ISS, seg.WND)
           v == ResetRcv(t.rcv.WND, seg.SEQ)
           r == [t EXCEPT !.state = "SynRcvd", !.p0 = synack, !.snd = s, !.rcv = v]
<1>t. t \in ControlBlocks /\ QueueInv(t) /\ t.snd \in SendSpace /\ t.rcv \in RecvSpace
  BY DEF Good, ControlBlocks
<1>s. seg.SEQ \in Value
  BY DEF Segment
<1>1. CASE ~Has(seg, "SYN")
  BY <1>1, StepFields DEF RcvListen, GoodStep
<1>2. CASE Has(seg, "SYN")
  <2>1. step = Step(r, synack, "nil")
    BY <1>2 DEF RcvListen
  <2>2. s \in SendSpace /\ v \in RecvSpace
    BY <1>t, <1>s, ResetTypes DEF SendSpace, RecvSpace
  <2> HIDE DEF s, v
  <2>3. r \in ControlBlocks
    BY <2>2, <1>t DEF ControlBlocks, States, FlagNames, synack
  <2>4. r.state = "SynRcvd" /\ r.p0 = synack /\ r.p1 = t.p1
    BY <1>t DEF ControlBlocks
  <2> HIDE DEF r, step
  <2>5. step.tcb = r /\ step.pending = synack
    BY <2>1, StepFields
  <2>6. ~Done(t) /\ t.p1 = {}
    BY <1>t DEF Done, FinStates, QueueInv
  <2>7. GoodStep(t, step)
    BY <2>3, <2>4, <2>5, <2>6 DEF GoodStep, Good, QueueInv, synack
  <2>8. QED
    BY <2>7 DEF step
<1>3. QED
  BY <1>1, <1>2

\* rcvSynSent.
LEMMA SynSentStep ==
  ASSUME NEW t, Good(t), NEW seg \in Segment, seg.WND \in Window, t.state = "SynSent"
  PROVE  GoodStep(t, RcvSynSent(t, seg))
<1> DEFINE step == RcvSynSent(t, seg)
           s == ResetSnd(t.snd.ISS, seg.WND)
           v == ResetRcv(t.rcv.WND, seg.SEQ)
<1>t. t \in ControlBlocks /\ QueueInv(t) /\ t.snd \in SendSpace /\ t.rcv \in RecvSpace
  BY DEF Good, ControlBlocks
<1>s. seg.SEQ \in Value
  BY DEF Segment
<1>0. s \in SendSpace /\ v \in RecvSpace
  BY <1>t, <1>s, ResetTypes DEF SendSpace, RecvSpace
<1>d. ~Done(t) /\ t.p1 = {} /\ "FIN" \notin t.p0
  BY <1>t DEF Done, FinStates, QueueInv
<1>1. CASE step.err # "nil"
  BY <1>1 DEF GoodStep
<1>2. CASE step.err = "nil" /\ Has(seg, "ACK")
  <2> DEFINE r == [t EXCEPT !.state = "Established", !.rcv = v]
  <2>1. step = Step(r, {"ACK"}, "nil")
    BY <1>2, StepFields DEF RcvSynSent
  <2> HIDE DEF v, s
  <2>2. r \in ControlBlocks
    BY <1>0, <1>t DEF ControlBlocks, States
  <2>3. r.state = "Established" /\ r.p0 = t.p0 /\ r.p1 = t.p1
    BY <1>t DEF ControlBlocks
  <2> HIDE DEF r, step
  <2>4. step.tcb = r /\ step.pending = {"ACK"}
    BY <2>1, StepFields
  <2>5. GoodStep(t, step)
    BY <1>d, <2>2, <2>3, <2>4 DEF GoodStep, Good, QueueInv
  <2>6. QED
    BY <2>5 DEF step
<1>3. CASE step.err = "nil" /\ ~Has(seg, "ACK")
  <2> DEFINE r == [t EXCEPT !.state = "SynRcvd", !.snd = s, !.rcv = v]
  <2>1. step = Step(r, synack, "nil")
    BY <1>3, StepFields DEF RcvSynSent
  <2> HIDE DEF v, s
  <2>2. r \in ControlBlocks
    BY <1>0, <1>t DEF ControlBlocks, States
  <2>3. r.state = "SynRcvd" /\ r.p0 = t.p0 /\ r.p1 = t.p1
    BY <1>t DEF ControlBlocks
  <2> HIDE DEF r, step
  <2>4. step.tcb = r /\ step.pending = synack
    BY <2>1, StepFields
  <2>5. GoodStep(t, step)
    BY <1>d, <2>2, <2>3, <2>4 DEF GoodStep, Good, QueueInv, synack
  <2>6. QED
    BY <2>5 DEF step
<1>4. QED
  BY <1>1, <1>2, <1>3

\* A step to [t EXCEPT !.state = s] with at most an ACK pending.
LEMMA MoveStep ==
  ASSUME NEW t, Good(t), NEW s \in States, t.p1 = {},
         "FIN" \in t.p0 => s \in {"SynRcvd", "Established", "CloseWait", "LastAck"},
         Done(t) => s \in FinStates,
         NEW pending, pending \subseteq {"ACK"}
  PROVE  GoodStep(t, Step([t EXCEPT !.state = s], pending, "nil"))
<1> DEFINE u == [t EXCEPT !.state = s]
<1>1. Good(u) /\ Keeps(t, u)
  BY MoveGood
<1> HIDE DEF u
<1>2. QED
  BY <1>1, StepFields DEF GoodStep, u

\* A state method that leaves the block alone.
LEMMA StayStep ==
  ASSUME NEW t, Good(t), NEW pending, pending \subseteq {"ACK"}, NEW err
  PROVE  GoodStep(t, Step(t, pending, err))
<1> DEFINE step == Step(t, pending, err)
<1>1. step.tcb = t /\ step.pending = pending
  BY StepFields
<1>2. Keeps(t, t)
  BY KeepsSelf
<1> HIDE DEF step
<1>3. GoodStep(t, step)
  BY <1>1, <1>2 DEF GoodStep
<1>4. QED
  BY <1>3 DEF step

\* The second slot is empty outside CloseWait and LastAck.
LEMMA NoP1 ==
  ASSUME NEW t, Good(t), t.state \notin {"CloseWait", "LastAck"}
  PROVE  t.p1 = {}
BY DEF Good, QueueInv

\* rcvSynRcvd.
LEMMA SynRcvdStep ==
  ASSUME NEW t, Good(t), NEW seg \in Segment, t.state = "SynRcvd"
  PROVE  GoodStep(t, RcvSynRcvd(t, seg))
<1>1. t.p1 = {} /\ ~Done(t)
  BY NoP1 DEF Done, FinStates
<1>2. GoodStep(t, Step([t EXCEPT !.state = "Established"], {}, "nil"))
  BY <1>1, MoveStep DEF States
<1>3. GoodStep(t, Step(t, {}, "state"))
  BY StayStep
<1>4. QED
  BY <1>2, <1>3 DEF RcvSynRcvd

\* rcvEstablished, which alone fills the second slot of the queue.
LEMMA EstablishedStep ==
  ASSUME NEW t, Good(t), NEW seg \in Segment, t.state = "Established"
  PROVE  GoodStep(t, RcvEstablished(t, seg))
<1>t. t \in ControlBlocks /\ QueueInv(t) /\ ~Done(t)
  BY DEF Good, Done, FinStates
<1>1. CASE ~Has(seg, "FIN")
  <2>1. \A p \in SUBSET {"ACK"} : GoodStep(t, Step(t, p, "nil"))
    BY StayStep
  <2>2. QED
    BY <1>1, <2>1 DEF RcvEstablished
<1>2. CASE Has(seg, "FIN")
  <2> DEFINE r == [t EXCEPT !.state = "CloseWait", !.p1 = {"FIN"}]
  <2>1. RcvEstablished(t, seg) = Step(r, {"ACK"}, "nil")
    BY <1>2 DEF RcvEstablished
  <2>2. r \in ControlBlocks
    BY <1>t DEF ControlBlocks, States, FlagNames
  <2>3. r.state = "CloseWait" /\ r.p0 = t.p0 /\ r.p1 = {"FIN"}
    BY <1>t DEF ControlBlocks
  <2> HIDE DEF r
  <2>4. Good(r)
    BY <2>2, <2>3 DEF Good, QueueInv
  <2>5. QED
    BY <2>1, <2>4, <1>t, StepFields DEF GoodStep
<1>3. QED
  BY <1>1, <1>2

\* rcvFinWait1.
LEMMA FinWait1Step ==
  ASSUME NEW t, Good(t), NEW seg \in Segment, t.state = "FinWait1"
  PROVE  GoodStep(t, RcvFinWait1(t, seg))
<1>1. t.p1 = {} /\ "FIN" \notin t.p0
  BY NoP1 DEF Good, QueueInv
<1>2. \A s \in {"TimeWait", "Closing", "FinWait2"} :
        GoodStep(t, Step([t EXCEPT !.state = s], {"ACK"}, "nil"))
  BY <1>1, MoveStep DEF States, FinStates
<1>3. GoodStep(t, Step(t, {}, "state"))
  BY StayStep
<1>4. QED
  BY <1>2, <1>3 DEF RcvFinWait1

\* rcvFinWait2.
LEMMA FinWait2Step ==
  ASSUME NEW t, Good(t), NEW seg \in Segment, t.state = "FinWait2"
  PROVE  GoodStep(t, RcvFinWait2(t, seg))
<1>1. t.p1 = {} /\ "FIN" \notin t.p0
  BY NoP1 DEF Good, QueueInv
<1>2. GoodStep(t, Step([t EXCEPT !.state = "TimeWait"], {"ACK"}, "nil"))
  BY <1>1, MoveStep DEF States, FinStates
<1>3. GoodStep(t, Step(t, {}, "state"))
  BY StayStep
<1>4. QED
  BY <1>2, <1>3 DEF RcvFinWait2

\* The Closing case of Recv.
LEMMA ClosingStep ==
  ASSUME NEW t, Good(t), NEW seg \in Segment, t.state = "Closing"
  PROVE  GoodStep(t, RcvClosing(t, seg))
<1>1. t.p1 = {} /\ "FIN" \notin t.p0
  BY NoP1 DEF Good, QueueInv
<1>2. GoodStep(t, Step([t EXCEPT !.state = "TimeWait"], {}, "nil"))
  BY <1>1, MoveStep DEF States, FinStates
<1>3. GoodStep(t, Step(t, {}, "nil"))
  BY StayStep
<1>4. QED
  BY <1>2, <1>3 DEF RcvClosing

\* The LastAck case of Recv.
LEMMA LastAckStep ==
  ASSUME NEW t, Good(t), NEW seg \in Segment
  PROVE  GoodStep(t, RcvLastAck(t, seg))
<1>1. Good(Shut(t)) /\ Keeps(t, Shut(t))
  BY ShutGood DEF Keeps, Good
<1>2. GoodStep(t, Step(Shut(t), {}, "nil"))
  BY <1>1, StepFields DEF GoodStep
<1>3. GoodStep(t, Step(t, {}, "nil"))
  BY StayStep
<1>4. QED
  BY <1>2, <1>3 DEF RcvLastAck

\* Whatever the state, its method is well behaved.
LEMMA RcvStep ==
  ASSUME NEW t, Good(t), NEW seg \in Segment, seg.WND \in Window
  PROVE  GoodStep(t, RcvInState(t, seg))
<1>1. GoodStep(t, Step(t, {}, "nil")) /\ GoodStep(t, Step(t, {}, "panic"))
  BY StayStep
<1>2. t.state \in States
  BY DEF Good, ControlBlocks
<1>3. CASE t.state \in {"Listen", "SynSent", "SynRcvd", "Established"}
  <2>1. t.state = "Listen" => GoodStep(t, RcvListen(t, seg))
    BY ListenStep
  <2>2. t.state = "SynSent" => GoodStep(t, RcvSynSent(t, seg))
    BY SynSentStep
  <2>3. t.state = "SynRcvd" => GoodStep(t, RcvSynRcvd(t, seg))
    BY SynRcvdStep
  <2>4. t.state = "Established" => GoodStep(t, RcvEstablished(t, seg))
    BY EstablishedStep
  <2>5. QED
    BY <1>3, <2>1, <2>2, <2>3, <2>4 DEF RcvInState
<1>4. CASE t.state \in {"FinWait1", "FinWait2", "Closing", "LastAck"}
  <2>1. t.state = "FinWait1" => GoodStep(t, RcvFinWait1(t, seg))
    BY FinWait1Step
  <2>2. t.state = "FinWait2" => GoodStep(t, RcvFinWait2(t, seg))
    BY FinWait2Step
  <2>3. t.state = "Closing" => GoodStep(t, RcvClosing(t, seg))
    BY ClosingStep
  <2>4. t.state = "LastAck" => GoodStep(t, RcvLastAck(t, seg))
    BY LastAckStep
  <2>5. QED
    BY <1>4, <2>1, <2>2, <2>3, <2>4 DEF RcvInState
<1>5. CASE t.state \in {"CloseWait", "Closed", "TimeWait"}
  BY <1>1, <1>5 DEF RcvInState
<1>6. QED
  BY <1>2, <1>3, <1>4, <1>5 DEF States

\* The length of a segment is a sequence number.
LEMMA SegLenType == \A seg \in Segment : SegLen(seg) \in Value
BY WrapType, SeqAssumption DEF SegLen, Segment, Value

\* The end of Recv adds flags and moves UNA, WND and RCV.NXT only.
LEMMA AcceptedGood ==
  ASSUME NEW t, Good(t), NEW seg \in Segment, seg.WND \in Window, NEW pending, pending \subseteq {"SYN", "ACK"}
  PROVE  LET u == Accepted(t, seg, pending)
         IN  /\ Good(u)
             /\ u.state = t.state /\ u.p0 = t.p0 \union pending /\ u.p1 = t.p1
             /\ u.snd.NXT = t.snd.NXT
<1> DEFINE r == Accepted(t, seg, pending)
           una == IF Has(seg, "ACK") THEN seg.ACK ELSE t.snd.UNA
           nxt == Add(t.rcv.NXT, SegLen(seg))
           q == t.p0 \union pending
<1>t. t \in ControlBlocks /\ QueueInv(t) /\ t.snd \in SendSpace /\ t.rcv \in RecvSpace
  BY DEF Good, ControlBlocks
<1>1. r = [t EXCEPT !.p0 = q, !.snd.WND = seg.WND, !.snd.UNA = una, !.rcv.NXT = nxt]
  BY DEF Accepted
<1>2. una \in Value
  BY <1>t DEF Segment, SendSpace
<1>3. nxt \in Value
  <2>1. t.rcv.NXT \in Value
    BY <1>t DEF RecvSpace
  <2>2. SegLen(seg) \in Nat
    BY SegLenType, SeqAssumption DEF Value
  <2>3. QED
    BY <2>1, <2>2, AddType
<1>4. q \in SUBSET FlagNames
  BY <1>t DEF ControlBlocks, FlagNames
<1> HIDE DEF r, una, nxt
<1>5. r \in ControlBlocks
  BY <1>1, <1>2, <1>3, <1>4, <1>t DEF ControlBlocks, SendSpace, RecvSpace
<1>6. r.state = t.state /\ r.p0 = q /\ r.p1 = t.p1 /\ r.snd.NXT = t.snd.NXT
  BY <1>1, <1>t DEF ControlBlocks, SendSpace
<1>7. Good(r)
  BY <1>5, <1>6, <1>t DEF Good, QueueInv
<1>8. QED
  BY <1>6, <1>7 DEF r

\* Recv, on every path.
LEMMA RecvGood ==
  ASSUME NEW t, Good(t), NEW seg \in Segment
  PROVE  Good(Recv(t, seg).tcb) /\ Keeps(t, Recv(t, seg).tcb)
<1> DEFINE u == Recv(t, seg).tcb
           step == RcvInState(t, seg)
<1>o. \A x, e : Outcome(x, e).tcb = x
  BY DEF Outcome
<1>1. CASE u = t
  BY <1>1, KeepsSelf
<1>2. CASE u = HandleRST(t, seg.SEQ).tcb
  BY <1>2, HandleRSTGood DEF Keeps
<1>3. CASE seg.WND \in Window /\ Dropped(t, seg) /\ u = AfterDrop(t, seg)
  BY <1>3, AfterDropGood DEF Keeps
<1>4. CASE seg.WND \in Window /\ step.err = "nil" /\ u = Accepted(step.tcb, seg, step.pending)
  <2>1. /\ Good(step.tcb) /\ step.pending \subseteq {"SYN", "ACK"}
        /\ Done(t) => Keeps(t, step.tcb) /\ step.pending \subseteq {"ACK"}
    BY <1>4, RcvStep DEF GoodStep
  <2>2. /\ Good(u) /\ u.state = step.tcb.state
        /\ u.p0 = step.tcb.p0 \union step.pending /\ u.p1 = step.tcb.p1
        /\ u.snd.NXT = step.tcb.snd.NXT
    BY <1>4, <2>1, AcceptedGood
  <2> HIDE DEF u, step
  <2>3. Keeps(t, u)
    BY <2>1, <2>2 DEF Keeps, Done
  <2>4. QED
    BY <2>2, <2>3 DEF u
<1>5. QED
  <2>0. IncomingError(t, seg) = "nil" => seg.WND \in Window
    BY SeqAssumption DEF IncomingError, Segment, Value, Window
  <2>1. \/ u = t \/ u = HandleRST(t, seg.SEQ).tcb
        \/ seg.WND \in Window /\ Dropped(t, seg) /\ u = AfterDrop(t, seg)
        \/ seg.WND \in Window /\ step.err = "nil" /\ u = Accepted(step.tcb, seg, step.pending)
    BY <1>o, <2>0 DEF Recv
  <2>2. QED
    BY <2>1, <1>1, <1>2, <1>3, <1>4

-----------------------------------------------------------------------------
(* User calls *)

\* Open.
LEMMA OpenGood ==
  ASSUME NEW t, Good(t), NEW iss \in Value, NEW wnd \in Value, NEW state \in {"Listen", "SynSent"}
  PROVE  Good(Open(t, iss, wnd, state).tcb) /\ Keeps(t, Open(t, iss, wnd, state).tcb)
<1> DEFINE u == Open(t, iss, wnd, state).tcb
           s == ResetSnd(iss, 1)
           v == ResetRcv(wnd, 0)
           q == IF state = "SynSent" THEN {"SYN"} ELSE {}
           r == [t EXCEPT !.state = state, !.rcv = v, !.snd = s, !.p0 = q, !.p1 = {}]
<1>o. \A x, e : Outcome(x, e).tcb = x
  BY DEF Outcome
<1>t. t \in ControlBlocks
  BY DEF Good
<1>1. u = t \/ (t.state \in {"Closed", "Listen"} /\ u = r)
  BY <1>o DEF Open
<1>2. CASE u = t
  BY <1>2, KeepsSelf
<1>3. CASE t.state \in {"Closed", "Listen"} /\ u = r
  <2>1. s \in SendSpace /\ v \in RecvSpace
    BY ResetTypes, ZeroType
  <2>2. q \in SUBSET FlagNames /\ "FIN" \notin q
    BY DEF FlagNames
  <2>3. state \in States
    BY DEF States
  <2> HIDE DEF s, v, q
  <2>4. r \in ControlBlocks
    BY <1>t, <2>1, <2>2, <2>3 DEF ControlBlocks
  <2>5. r.p0 = q /\ r.p1 = {}
    BY <1>t DEF ControlBlocks
  <2> HIDE DEF r
  <2>6. Good(r)
    BY <2>2, <2>4, <2>5 DEF Good, QueueInv
  <2>7. ~Done(t)
    BY <1>3 DEF Done, FinStates
  <2>8. QED
    BY <1>3, <2>6, <2>7 DEF Keeps
<1>4. QED
  BY <1>1, <1>2, <1>3

\* Close.
LEMMA CloseGood ==
  ASSUME NEW t, Good(t)
  PROVE  Good(Close(t).tcb) /\ Keeps(t, Close(t).tcb)
<1> DEFINE u == Close(t).tcb
<1>o. \A x, e : Outcome(x, e).tcb = x
  BY DEF Outcome
<1>t. t \in ControlBlocks /\ QueueInv(t) /\ t.state \in States
  BY DEF Good, ControlBlocks
<1>1. CASE t.state = "CloseWait"
  <2> DEFINE r == [t EXCEPT !.state = "LastAck", !.p0 = {"FIN"}, !.p1 = {"ACK"}]
  <2>1. u = r
    BY <1>1, <1>o DEF Close
  <2>2. r \in ControlBlocks
    BY <1>t DEF ControlBlocks, States, FlagNames
  <2>3. r.state = "LastAck" /\ r.p0 = {"FIN"} /\ r.p1 = {"ACK"}
    BY <1>t DEF ControlBlocks
  <2> HIDE DEF r
  <2>4. Good(r)
    BY <2>2, <2>3 DEF Good, QueueInv
  <2>5. QED
    BY <1>1, <2>1, <2>4 DEF Keeps, Done, FinStates
<1>2. CASE t.state \in {"Listen", "SynSent"}
  <2>1. u = Shut(t)
    BY <1>2, <1>o DEF Close
  <2>2. QED
    BY <1>t, <2>1, ShutGood DEF Keeps
<1>3. CASE t.state \in {"SynRcvd", "Established"}
  <2> DEFINE q == (t.p0 \intersect {"ACK"}) \union {"FIN"}
             r == [t EXCEPT !.p0 = q]
  <2>1. u = r
    BY <1>3, <1>o DEF Close
  <2>2. q \in SUBSET FlagNames
    BY DEF FlagNames
  <2> HIDE DEF q
  <2>3. r \in ControlBlocks /\ r.state = t.state /\ r.p1 = t.p1
    BY <1>t, <2>2 DEF ControlBlocks
  <2> HIDE DEF r
  <2>4. Good(r)
    BY <1>3, <1>t, <2>3 DEF Good, QueueInv
  <2>5. QED
    BY <1>3, <2>1, <2>4 DEF Keeps, Done, FinStates
<1>4. CASE t.state \notin {"CloseWait", "Listen", "SynSent", "SynRcvd", "Established"}
  <2>1. u = t
    BY <1>4, <1>o DEF Close
  <2>2. QED
    BY <2>1, KeepsSelf
<1>5. QED
  BY <1>1, <1>2, <1>3, <1>4

\* SetRecvWindow.
LEMMA SetRecvWindowGood ==
  ASSUME NEW t, Good(t), NEW wnd \in Value
  PROVE  Good(SetRecvWindow(t, wnd)) /\ Keeps(t, SetRecvWindow(t, wnd))
<1> DEFINE r == SetRecvWindow(t, wnd)
<1>t. t \in ControlBlocks /\ QueueInv(t)
  BY DEF Good
<1>1. r = [t EXCEPT !.rcv.WND = wnd]
  BY DEF SetRecvWindow
<1> HIDE DEF r
<1>2. r \in ControlBlocks
  BY <1>1, <1>t DEF ControlBlocks, RecvSpace
<1>3. r.state = t.state /\ r.p0 = t.p0 /\ r.p1 = t.p1 /\ r.snd.NXT = t.snd.NXT
  BY <1>1, <1>t DEF ControlBlocks
<1>4. Good(r) /\ Keeps(t, r)
  BY <1>2, <1>3, <1>t DEF Good, QueueInv, Keeps, Done
<1>5. QED
  BY <1>4 DEF r

-----------------------------------------------------------------------------
(* Sending *)

\* PendingSegment only clears challengeAck.
LEMMA AfterPendingFields ==
  ASSUME NEW t, Good(t)
  PROVE  LET u == AfterPending(t)
         IN  /\ Good(u) /\ Keeps(t, u) /\ u.state = t.state
             /\ u.p0 = t.p0 /\ u.p1 = t.p1 /\ u.snd = t.snd
<1> DEFINE r == AfterPending(t)
<1>t. t \in ControlBlocks /\ QueueInv(t)
  BY DEF Good
<1>1. r = [t EXCEPT !.challengeAck = FALSE]
  BY DEF AfterPending
<1> HIDE DEF r
<1>2. r \in ControlBlocks
  BY <1>1, <1>t DEF ControlBlocks
<1>3. r.state = t.state /\ r.p0 = t.p0 /\ r.p1 = t.p1 /\ r.snd = t.snd
  BY <1>1, <1>t DEF ControlBlocks
<1>4. Good(r) /\ Keeps(t, r)
  BY <1>2, <1>3, <1>t DEF Good, QueueInv, Keeps, Done
<1>5. QED
  BY <1>3, <1>4 DEF r

\* maxSend wraps into the sequence space.
LEMMA MaxSendType == \A t \in ControlBlocks : MaxSend(t) \in Value
<1> TAKE t \in ControlBlocks
<1>1. t.snd.UNA \in Value /\ t.snd.NXT \in Value /\ t.snd.WND \in Value
  BY WindowType DEF ControlBlocks, SendSpace
<1>2. InFlight(t) \in Value
  BY <1>1, WrapType, SeqAssumption DEF InFlight, Sizeof, Value
<1>3. QED
  BY <1>1, <1>2, WrapType, SeqAssumption DEF MaxSend, Value

\* What PendingSegment proposes: either the challenge ACK or all of pending[0],
\* and no data outside Established.
LEMMA PendingFields ==
  ASSUME NEW t, Good(t), NEW len \in Value, PendingSegment(t, len).ok = "yes"
  PROVE  LET seg == PendingSegment(t, len).seg
         IN  /\ seg \in Segment
             /\ t.state # "Established" => seg.DATALEN = 0
             /\ seg.Flags \in {{"ACK"}, t.p0, t.p0 \union {"ACK"}}
             /\ t.state # "Established" => seg.Flags \in {{"ACK"}, t.p0}
<1> DEFINE room == MaxSend(t)
           n == IF t.state \in {"Established", "CloseWait"} THEN len ELSE 0
           excess == n > ToInt(room)
           flags == t.p0 \union (IF t.state = "Established" THEN {"ACK"} ELSE {})
           ack == IF "ACK" \in flags THEN t.rcv.NXT ELSE 0
           seq == IF "RST" \in flags THEN t.rstPtr ELSE t.snd.NXT
           sent == IF t.state # "Established" THEN 0 ELSE IF excess THEN ToInt(room) ELSE n
           chal == MakeSegment(t.snd.NXT, t.rcv.NXT, t.rcv.WND, {"ACK"}, 0)
           norm == MakeSegment(seq, ack, t.rcv.WND, flags, sent)
           seg == PendingSegment(t, len).seg
<1>t. /\ t.snd.NXT \in Value /\ t.rcv.NXT \in Value /\ t.rcv.WND \in Value
      /\ t.rstPtr \in Value /\ t.snd.WND \in Window /\ t.p0 \in SUBSET FlagNames
  BY DEF Good, ControlBlocks, SendSpace, RecvSpace
<1>r. room \in Value
  BY MaxSendType DEF Good
<1>1. \/ seg = chal
      \/ seg = norm /\ (excess => ~(room > t.snd.WND))
  BY DEF PendingSegment
<1>2. sent \in Value \/ (excess /\ room > t.snd.WND)
  <2>1. n \in Value
    BY ZeroType
  <2>2. ~(room > t.snd.WND) => ToInt(room) = room
    BY <1>t, <1>r, SeqAssumption DEF ToInt, Value, Window
  <2>3. QED
    BY <2>1, <2>2, <1>r, ZeroType
<1>3. flags \in SUBSET FlagNames /\ {"ACK"} \in SUBSET FlagNames
  BY <1>t DEF FlagNames
<1>4. ack \in Value /\ seq \in Value
  BY <1>t, ZeroType
<1>5. chal \in Segment /\ chal.DATALEN = 0 /\ chal.Flags = {"ACK"}
  BY <1>t, <1>3, ZeroType DEF MakeSegment, Segment
<1>6. t.state # "Established" => sent = 0 /\ flags = t.p0
  OBVIOUS
<1>7. flags \in {t.p0, t.p0 \union {"ACK"}}
  OBVIOUS
<1> HIDE DEF room, excess, flags, ack, seq, sent, chal, seg
<1>8. norm.DATALEN = sent /\ norm.Flags = flags
  BY DEF MakeSegment
<1>9. sent \in Value => norm \in Segment
  BY <1>t, <1>3, <1>4 DEF MakeSegment, Segment
<1> HIDE DEF norm
<1>10. /\ seg \in Segment
       /\ t.state # "Established" => seg.DATALEN = 0
       /\ seg.Flags \in {{"ACK"}, t.p0, t.p0 \union {"ACK"}}
       /\ t.state # "Established" => seg.Flags \in {{"ACK"}, t.p0}
  BY <1>1, <1>2, <1>5, <1>6, <1>7, <1>8, <1>9
<1>11. QED
  BY <1>10 DEF seg

\* A segment without length does not move SND.NXT.
LEMMA AddZero == \A v \in Value : Add(v, 0) = v
BY SeqAssumption DEF Add, Wrap, Value

\* The parts of a block after Send.
LEMMA SentFields ==
  ASSUME NEW t \in ControlBlocks, NEW seg \in Segment
  PROVE  /\ Sent(t, seg) \in ControlBlocks
         /\ Sent(t, seg).state = StateAfterSend(t, seg)
         /\ Sent(t, seg).p0 = QueueAfterSend(t, seg).p0
         /\ Sent(t, seg).p1 = QueueAfterSend(t, seg).p1
         /\ Sent(t, seg).snd.NXT = Add(t.snd.NXT, SegLen(seg))
<1> DEFINE r == Sent(t, seg)
           st == StateAfterSend(t, seg)
           q0 == QueueAfterSend(t, seg).p0
           q1 == QueueAfterSend(t, seg).p1
           nx == Add(t.snd.NXT, SegLen(seg))
<1>1. st \in States
  BY DEF StateAfterSend, ControlBlocks, States
<1>2. q0 \in SUBSET FlagNames /\ q1 \in SUBSET FlagNames
  BY DEF QueueAfterSend, ControlBlocks, Segment, finack, FlagNames
<1>3. nx \in Value
  <2>1. SegLen(seg) \in Nat
    BY SegLenType, SeqAssumption DEF Value
  <2>2. t.snd.NXT \in Value
    BY DEF ControlBlocks, SendSpace
  <2>3. QED
    BY <2>1, <2>2, AddType
<1>4. r = [t EXCEPT !.state = st, !.p0 = q0, !.p1 = q1,
                    !.snd.NXT = nx, !.rcv.WND = seg.WND]
  BY DEF Sent
<1>5. seg.WND \in Value
  BY DEF Segment
<1> HIDE DEF r, st, q0, q1, nx
<1>6. r \in ControlBlocks
  BY <1>1, <1>2, <1>3, <1>4, <1>5 DEF ControlBlocks, SendSpace, RecvSpace
<1>7. r.state = st /\ r.p0 = q0 /\ r.p1 = q1 /\ r.snd.NXT = nx
  BY <1>4 DEF ControlBlocks, SendSpace
<1>8. QED
  BY <1>6, <1>7 DEF r, st, q0, q1, nx

\* Send of a proposed segment: a FIN takes the whole queue with it.
LEMMA SentGood ==
  ASSUME NEW t, Good(t), NEW seg \in Segment,
         t.state # "Established" => seg.DATALEN = 0,
         seg.Flags \in {{"ACK"}, t.p0, t.p0 \union {"ACK"}},
         t.state # "Established" => seg.Flags \in {{"ACK"}, t.p0}
  PROVE  LET u == Sent(t, seg)
         IN  Good(u) /\ Keeps(t, u) /\ (Has(seg, "FIN") => Done(u))
<1> DEFINE u == Sent(t, seg)
           F == seg.Flags
           left == t.p0 \ F
           new == IF t.state = "CloseWait" /\ "FIN" \notin F /\ "ACK" \in F THEN finack ELSE {}
<1>t. t \in ControlBlocks /\ QueueInv(t) /\ t.state \in States
  BY DEF Good, ControlBlocks
<1>1. /\ u \in ControlBlocks /\ u.state = StateAfterSend(t, seg)
      /\ u.p0 = QueueAfterSend(t, seg).p0 /\ u.p1 = QueueAfterSend(t, seg).p1
      /\ u.snd.NXT = Add(t.snd.NXT, SegLen(seg))
  BY <1>t, SentFields
<1>2. CASE "FIN" \in F
  <2>1. "FIN" \in t.p0 /\ left = {} /\ new = {}
    BY <1>2
  <2>2. u.p0 = t.p1 \ {"FIN"} /\ u.p1 = {}
    BY <1>1, <1>2, <2>1 DEF QueueAfterSend, Has
  <2>3. u.p0 \subseteq {"ACK"}
    BY <1>t, <2>2 DEF QueueInv
  <2>4. t.state \in {"SynRcvd", "Established", "CloseWait", "LastAck"}
    BY <1>t, <2>1 DEF QueueInv
  <2>5. u.state \in {"FinWait1", "LastAck"}
    BY <1>1, <1>2, <2>4 DEF StateAfterSend, Has
  <2>6. ~Done(t)
    BY <2>1 DEF Done
  <2> HIDE DEF u
  <2>7. Done(u) /\ Good(u)
    BY <1>1, <2>2, <2>3, <2>5 DEF Done, FinStates, Good, QueueInv
  <2>8. QED
    BY <2>6, <2>7 DEF Keeps, u
<1>3. CASE "FIN" \notin F
  <2>1. /\ u.state = t.state \/ (t.state = "Closing" /\ u.state = "TimeWait")
    BY <1>1, <1>3 DEF StateAfterSend, Has
  <2>2. /\ left = {} => u.p0 = t.p1 \union new /\ u.p1 = {}
        /\ left # {} => u.p0 = left \union new /\ u.p1 = t.p1
    <3>1. F \intersect {"FIN"} = {}
      BY <1>3
    <3>2. QED
      BY <1>1, <1>3, <3>1 DEF QueueAfterSend, Has
  <2>3. new # {} => t.state = "CloseWait"
    OBVIOUS
  <2> HIDE DEF u, new
  <2>4. Good(u)
    <3>1. /\ u.p1 \in {{}, {"FIN"}, {"ACK"}}
          /\ u.p1 # {} => u.state \in {"CloseWait", "LastAck"}
          /\ "FIN" \in u.p1 => u.state = "CloseWait"
      BY <1>t, <2>1, <2>2 DEF QueueInv
    <3>2. "FIN" \in u.p0 => u.state \in {"SynRcvd", "Established", "CloseWait", "LastAck"}
      <4>1. CASE left = {}
        BY <1>t, <2>1, <2>2, <2>3, <4>1 DEF QueueInv
      <4>2. CASE left # {}
        BY <1>t, <2>1, <2>2, <2>3, <4>2 DEF QueueInv
      <4>3. QED
        BY <4>1, <4>2
    <3>3. QED
      BY <1>1, <3>1, <3>2 DEF Good, QueueInv
  <2>5. Keeps(t, u)
    <3>1. SUFFICES ASSUME Done(t) PROVE Done(u) /\ u.snd.NXT = t.snd.NXT
      BY DEF Keeps
    <3>2. new = {}
      BY <2>3, <3>1 DEF Done, FinStates
    <3>3. "SYN" \notin F
      BY <3>1 DEF Done, FinStates
    <3>4. SegLen(seg) = 0
      <4>1. seg.DATALEN = 0
        BY <3>1 DEF Done, FinStates
      <4>2. QED
        BY <4>1, <3>3, <1>3, SeqAssumption DEF SegLen, Has, Wrap
    <3>5. u.snd.NXT = t.snd.NXT
      <4>1. t.snd.NXT \in Value
        BY <1>t DEF ControlBlocks, SendSpace
      <4>2. QED
        BY <1>1, <3>4, <4>1, AddZero
    <3>6. u.p0 \subseteq t.p0 \/ u.p0 = t.p1
      BY <2>2, <3>2
    <3>7. u.p1 = {} \/ u.p1 = t.p1
      BY <2>2
    <3>8. u.state \in FinStates
      BY <2>1, <3>1 DEF Done, FinStates
    <3>9. "SYN" \notin t.p1 /\ "FIN" \notin t.p1
      BY <1>t, <3>1 DEF QueueInv, Done
    <3>10. QED
      BY <3>1, <3>5, <3>6, <3>7, <3>8, <3>9 DEF Done
  <2>6. QED
    BY <1>3, <2>4, <2>5 DEF u, Has
<1>4. QED
  BY <1>2, <1>3

\* Transmit, whether or not Send takes the segment.
LEMMA TransmitGood ==
  ASSUME NEW t, Good(t), NEW len \in Value, PendingSegment(t, len).ok = "yes"
  PROVE  LET seg == PendingSegment(t, len).seg
             out == Send(AfterPending(t), seg)
         IN  /\ Good(out.tcb) /\ Keeps(t, out.tcb)
             /\ out.err = "nil" /\ Has(seg, "FIN") => Done(out.tcb)
<1> DEFINE seg == PendingSegment(t, len).seg
           a == AfterPending(t)
           out == Send(a, seg)
<1>1. /\ seg \in Segment
      /\ t.state # "Established" => seg.DATALEN = 0
      /\ seg.Flags \in {{"ACK"}, t.p0, t.p0 \union {"ACK"}}
      /\ t.state # "Established" => seg.Flags \in {{"ACK"}, t.p0}
  BY PendingFields
<1>2. /\ Good(a) /\ Keeps(t, a) /\ a.state = t.state
      /\ a.p0 = t.p0 /\ a.p1 = t.p1 /\ a.snd = t.snd
  BY AfterPendingFields
<1> HIDE DEF seg, a
<1>3. Good(Sent(a, seg)) /\ Keeps(a, Sent(a, seg)) /\ (Has(seg, "FIN") => Done(Sent(a, seg)))
  BY <1>1, <1>2, SentGood
<1>4. Keeps(t, Sent(a, seg))
  BY <1>2, <1>3 DEF Keeps, Done
<1>5. \/ out.tcb = a /\ out.err # "nil"
      \/ out.tcb = Sent(a, seg)
  BY DEF Send, Outcome
<1>6. Good(out.tcb) /\ Keeps(t, out.tcb) /\ (out.err = "nil" /\ Has(seg, "FIN") => Done(out.tcb))
  BY <1>2, <1>3, <1>4, <1>5
<1>7. QED
  BY <1>6 DEF seg, a

-----------------------------------------------------------------------------
(* The specification *)

IInv == Good(tcb) /\ finSent \in BOOLEAN /\ (finSent => Done(tcb))

\* A FIN sent in this connection, and the sequence number it left behind.
Quiet == finSent /\ finSent' => tcb'.snd.NXT = tcb.snd.NXT

\* A call with a good outcome preserves the invariant.
LEMMA BecomesKeeps ==
  ASSUME IInv, NEW u, Good(u), Keeps(tcb, u), NEW fin, fin => Done(u), Becomes(u, fin)
  PROVE  IInv' /\ Quiet
<1>1. tcb' = u /\ finSent' = (u.state \notin {"Closed", "Listen"} /\ (finSent \/ fin))
  BY DEF Becomes
<1>2. finSent' \in BOOLEAN
  BY <1>1
<1>3. finSent' => Done(u)
  BY <1>1 DEF IInv, Keeps
<1>4. Quiet
  BY <1>1 DEF IInv, Keeps, Quiet
<1>5. Good(u) = Good(tcb)' /\ Done(u) = Done(tcb)'
  BY <1>1 DEF Good, QueueInv, Done
<1>6. QED
  BY <1>2, <1>3, <1>4, <1>5 DEF IInv

\* The invariant holds of a fresh block.
LEMMA InitIInv == Init => IInv
<1> SUFFICES ASSUME Init PROVE IInv
  OBVIOUS
<1>1. ResetSnd(0, 0) \in SendSpace /\ ResetRcv(0, 0) \in RecvSpace
  BY ResetTypes, ZeroType
<1>2. ZeroTCB \in ControlBlocks
  BY <1>1, ZeroType DEF ZeroTCB, ControlBlocks, States, FlagNames
<1>3. ZeroTCB.p0 = {} /\ ZeroTCB.p1 = {}
  BY DEF ZeroTCB
<1>4. QED
  BY <1>2, <1>3 DEF Init, IInv, Good, QueueInv

\* Every step preserves the invariant and moves SND.NXT no more once a FIN is out.
LEMMA NextIInv ==
  ASSUME IInv, [Next]_vars
  PROVE  IInv' /\ Quiet
<1>g. Good(tcb)
  BY DEF IInv
<1>1. ASSUME NEW iss \in ISSs, NEW wnd \in Windows, NEW state \in {"Listen", "SynSent"},
             UserOpen(iss, wnd, state)
      PROVE  IInv' /\ Quiet
  <2>1. iss \in Value /\ wnd \in Value
    BY ControlBlockAssumption
  <2>2. LET u == Open(tcb, iss, wnd, state).tcb IN Good(u) /\ Keeps(tcb, u)
    BY <1>g, <2>1, OpenGood
  <2>3. QED
    BY <1>1, <2>2, BecomesKeeps DEF UserOpen
<1>2. ASSUME UserClose PROVE IInv' /\ Quiet
  BY <1>2, <1>g, CloseGood, BecomesKeeps DEF UserClose
<1>3. ASSUME NEW wnd \in Windows, UserSetRecvWindow(wnd) PROVE IInv' /\ Quiet
  <2>1. wnd \in Value
    BY ControlBlockAssumption
  <2>2. QED
    BY <1>3, <1>g, <2>1, SetRecvWindowGood, BecomesKeeps DEF UserSetRecvWindow
<1>4. ASSUME NEW len \in Value, Transmit(len) PROVE IInv' /\ Quiet
  <2> DEFINE seg == PendingSegment(tcb, len).seg
             out == Send(AfterPending(tcb), seg)
  <2>1. PendingSegment(tcb, len).ok = "yes" /\ Becomes(out.tcb, out.err = "nil" /\ Has(seg, "FIN"))
    BY <1>4 DEF Transmit
  <2>2. /\ Good(out.tcb) /\ Keeps(tcb, out.tcb)
        /\ out.err = "nil" /\ Has(seg, "FIN") => Done(out.tcb)
    BY <1>g, <2>1, TransmitGood
  <2> HIDE DEF out, seg
  <2>3. QED
    BY <2>1, <2>2, BecomesKeeps
<1>5. ASSUME NEW seg \in Segment, Receive(seg) PROVE IInv' /\ Quiet
  BY <1>5, <1>g, RecvGood, BecomesKeeps DEF Receive
<1>6. ASSUME UNCHANGED vars PROVE IInv' /\ Quiet
  BY <1>6 DEF vars, IInv, Good, QueueInv, Done, Quiet
<1>7. QED
  BY <1>1, <1>2, <1>3, <1>4, <1>5, <1>6 DEF Next

\* Spec implies the inductive invariant: the type of the block and the discipline
\* of the pending-flag queue that Send, Recv and Close share.
THEOREM Inductive == Spec => []IInv
<1>1. IInv /\ [Next]_vars => IInv'
  BY NextIInv
<1>2. QED
  BY <1>1, InitIInv, PTL DEF Spec

\* The queue of pending flags holds only what the state may still send, on every
\* path through Send, Recv and Close.
THEOREM QueueDisciplined == Spec => []QueueDiscipline
<1>1. IInv => QueueDiscipline
  BY DEF IInv, Good, QueueDiscipline
<1>2. QED
  BY <1>1, Inductive, PTL

\* Every field of the control block stays in its range, whatever a peer sends:
\* in particular SND.WND never exceeds what validateIncomingSegment admits.
THEOREM TypeCorrect == Spec => []TypeOK
<1>1. IInv => TypeOK
  BY DEF IInv, Good, TypeOK
<1>2. QED
  BY <1>1, Inductive, PTL

\* After Send has sent a FIN, SND.NXT does not move again in that connection:
\* no second FIN, no SYN and no data.
THEOREM FinIsFinal == Spec => NothingAfterFin
<1>1. IInv /\ [Next]_vars => [Quiet]_vars
  BY NextIInv
<1>2. [Quiet]_vars => [finSent /\ finSent' => tcb'.snd.NXT = tcb.snd.NXT]_vars
  BY DEF Quiet
<1>3. QED
  BY <1>1, <1>2, Inductive, PTL DEF Spec, NothingAfterFin

-----------------------------------------------------------------------------
(* Resets *)

\* A reset that is not the next octet expected makes Recv queue at most an ACK:
\* it is refused, or handleRST challenges it.
LEMMA InexactReset ==
  ASSUME NEW t \in ControlBlocks, NEW seg, Has(seg, "RST"), seg.SEQ # t.rcv.NXT
  PROVE  \E c \in BOOLEAN, p \in {{}, {"ACK"}} :
           Recv(t, seg).tcb = [t EXCEPT !.challengeAck = c, !.p0 = @ \union p]
<1> DEFINE r(c, p) == [t EXCEPT !.challengeAck = c, !.p0 = @ \union p]
           u == Recv(t, seg).tcb
<1>o. \A x, e : Outcome(x, e).tcb = x
  BY DEF Outcome
<1>1. CASE IncomingError(t, seg) # "nil"
  <2>1. u = t
    BY <1>1, <1>o DEF Recv
  <2>2. t = r(t.challengeAck, {}) /\ t.challengeAck \in BOOLEAN
    BY DEF ControlBlocks
  <2> HIDE DEF u, r
  <2>3. \E c \in BOOLEAN, p \in {{}, {"ACK"}} : u = r(c, p)
    BY <2>1, <2>2
  <2>4. QED
    BY <2>3 DEF u, r
<1>2. CASE IncomingError(t, seg) = "nil"
  <2>1. u = r(TRUE, {"ACK"})
    BY <1>2, <1>o DEF Recv, HandleRST
  <2> HIDE DEF u, r
  <2>2. \E c \in BOOLEAN, p \in {{}, {"ACK"}} : u = r(c, p)
    BY <2>1
  <2>3. QED
    BY <2>2 DEF u, r
<1>3. QED
  BY <1>1, <1>2

\* No reset but the exact one takes a connection down, in any state, at any
\* sequence number and for every segment a peer may send.
THEOREM ResetsAreExact == Spec => []ResetIsExact
<1>1. IInv => ResetIsExact
  BY InexactReset DEF IInv, Good, ResetIsExact
<1>2. QED
  BY <1>1, Inductive, PTL

-----------------------------------------------------------------------------
(* The state diagram *)

\* A call leaves the state alone or takes it along an edge.
Edge(t, u) == u.state # t.state => <<t.state, u.state>> \in Diagram

\* Open leaves Closed and Listen only.
LEMMA OpenEdge ==
  ASSUME NEW t \in ControlBlocks, NEW iss, NEW wnd, NEW state \in {"Listen", "SynSent"}
  PROVE  Edge(t, Open(t, iss, wnd, state).tcb)
<1> DEFINE u == Open(t, iss, wnd, state).tcb
<1>1. u = t \/ (t.state \in {"Closed", "Listen"} /\ u.state = state)
  BY DEF Open, Outcome, ControlBlocks
<1> HIDE DEF u
<1>2. Edge(t, u)
  BY <1>1 DEF Edge, Diagram
<1>3. QED
  BY <1>2 DEF u

\* The states close() may be called in.
LEMMA ClosedEdge ==
  ASSUME NEW t \in ControlBlocks, NEW u, u.state = "Closed"
  PROVE  Edge(t, u)
BY DEF Edge, Diagram, ControlBlocks

\* Close goes to LAST-ACK from CLOSE-WAIT, closes what has sent nothing that must
\* be taken back, and otherwise leaves the state to Send.
LEMMA CloseEdge ==
  ASSUME NEW t \in ControlBlocks
  PROVE  Edge(t, Close(t).tcb)
<1> DEFINE u == Close(t).tcb
<1>1. \/ u.state = t.state
      \/ t.state = "CloseWait" /\ u.state = "LastAck"
      \/ u.state = "Closed"
  BY DEF Close, Outcome, Shut, ControlBlocks
<1> HIDE DEF u
<1>2. Edge(t, u)
  BY <1>1, ClosedEdge DEF Edge, Diagram
<1>3. QED
  BY <1>2 DEF u

\* The transitions of the state methods that open a connection, ...
LEMMA OpeningEdge ==
  ASSUME NEW t \in ControlBlocks, NEW seg, t.state \in {"Listen", "SynSent", "SynRcvd"}
  PROVE  Edge(t, RcvInState(t, seg).tcb)
<1> DEFINE u == RcvInState(t, seg).tcb
<1>1. CASE t.state = "Listen"
  <2>1. RcvInState(t, seg) = RcvListen(t, seg)
    BY <1>1 DEF RcvInState
  <2>2. RcvListen(t, seg).tcb.state \in {"Listen", "SynRcvd"}
    BY <1>1 DEF RcvListen, Step, ControlBlocks
  <2>3. QED
    BY <1>1, <2>1, <2>2 DEF Edge, Diagram
<1>2. CASE t.state = "SynSent"
  <2>1. RcvInState(t, seg) = RcvSynSent(t, seg)
    BY <1>2 DEF RcvInState
  <2>2. RcvSynSent(t, seg).tcb.state \in {"SynSent", "SynRcvd", "Established"}
    BY <1>2 DEF RcvSynSent, Step, ControlBlocks
  <2>3. QED
    BY <1>2, <2>1, <2>2 DEF Edge, Diagram
<1>3. CASE t.state = "SynRcvd"
  <2>1. RcvInState(t, seg) = RcvSynRcvd(t, seg)
    BY <1>3 DEF RcvInState
  <2>2. RcvSynRcvd(t, seg).tcb.state \in {"SynRcvd", "Established"}
    BY <1>3 DEF RcvSynRcvd, Step, ControlBlocks
  <2>3. QED
    BY <1>3, <2>1, <2>2 DEF Edge, Diagram
<1>4. QED
  BY <1>1, <1>2, <1>3

\* ... of those that close it from this side first or from the other, ...
LEMMA ClosingEdge ==
  ASSUME NEW t \in ControlBlocks, NEW seg, t.state \in {"Established", "FinWait1", "FinWait2"}
  PROVE  Edge(t, RcvInState(t, seg).tcb)
<1>1. CASE t.state = "Established"
  <2>1. RcvInState(t, seg) = RcvEstablished(t, seg)
    BY <1>1 DEF RcvInState
  <2>2. RcvEstablished(t, seg).tcb.state \in {"Established", "CloseWait"}
    BY <1>1 DEF RcvEstablished, Step, ControlBlocks
  <2>3. QED
    BY <1>1, <2>1, <2>2 DEF Edge, Diagram
<1>2. CASE t.state = "FinWait1"
  <2>1. RcvInState(t, seg) = RcvFinWait1(t, seg)
    BY <1>2 DEF RcvInState
  <2>2. RcvFinWait1(t, seg).tcb.state \in {"FinWait1", "FinWait2", "Closing", "TimeWait"}
    BY <1>2 DEF RcvFinWait1, Step, ControlBlocks
  <2>3. QED
    BY <1>2, <2>1, <2>2 DEF Edge, Diagram
<1>3. CASE t.state = "FinWait2"
  <2>1. RcvInState(t, seg) = RcvFinWait2(t, seg)
    BY <1>3 DEF RcvInState
  <2>2. RcvFinWait2(t, seg).tcb.state \in {"FinWait2", "TimeWait"}
    BY <1>3 DEF RcvFinWait2, Step, ControlBlocks
  <2>3. QED
    BY <1>3, <2>1, <2>2 DEF Edge, Diagram
<1>4. QED
  BY <1>1, <1>2, <1>3

\* ... and of all of them.
LEMMA RcvEdge ==
  ASSUME NEW t \in ControlBlocks, NEW seg
  PROVE  Edge(t, RcvInState(t, seg).tcb)
<1>t. t.state \in States
  BY DEF ControlBlocks
<1>1. CASE t.state = "LastAck"
  <2>1. RcvInState(t, seg) = RcvLastAck(t, seg)
    BY <1>1 DEF RcvInState
  <2>2. RcvLastAck(t, seg).tcb.state \in {"LastAck", "Closed"}
    BY <1>1, StepFields, ShutGood DEF RcvLastAck
  <2>3. QED
    BY <1>t, <1>1, <2>1, <2>2 DEF Edge, Diagram
<1>2. CASE t.state = "Closing"
  <2>1. RcvInState(t, seg) = RcvClosing(t, seg)
    BY <1>2 DEF RcvInState
  <2>2. RcvClosing(t, seg).tcb.state \in {"Closing", "TimeWait"}
    BY <1>2 DEF RcvClosing, Step, ControlBlocks
  <2>3. QED
    BY <1>2, <2>1, <2>2 DEF Edge, Diagram
<1>3. CASE t.state \in {"Closed", "TimeWait", "CloseWait"}
  <2>1. RcvInState(t, seg).tcb = t
    BY <1>3, StepFields DEF RcvInState
  <2>2. QED
    BY <2>1 DEF Edge
<1>4. QED
  BY <1>t, <1>1, <1>2, <1>3, OpeningEdge, ClosingEdge DEF States

\* A reset closes the block or returns it to Listen.
LEMMA ResetEdge ==
  ASSUME NEW t \in ControlBlocks, NEW seq
  PROVE  Edge(t, HandleRST(t, seq).tcb)
<1> DEFINE u == HandleRST(t, seq).tcb
<1>1. \/ u.state = t.state
      \/ t.state \in {"SynRcvd", "SynSent", "Listen"} /\ u.state = "Listen"
      \/ u.state = "Closed"
  BY ShutGood DEF HandleRST, Outcome, Relisten, IsPreestablished, ControlBlocks
<1> HIDE DEF u
<1>2. Edge(t, u)
  BY <1>1, ClosedEdge DEF Edge, Diagram
<1>3. QED
  BY <1>2 DEF u

\* Recv.
LEMMA RecvEdge ==
  ASSUME NEW t, Good(t), NEW seg \in Segment
  PROVE  Edge(t, Recv(t, seg).tcb)
<1> DEFINE u == Recv(t, seg).tcb
           step == RcvInState(t, seg)
<1>t. t \in ControlBlocks
  BY DEF Good
<1>1. \/ u = t \/ u = HandleRST(t, seg.SEQ).tcb \/ u = AfterDrop(t, seg)
      \/ seg.WND \in Window /\ step.err = "nil" /\ u = Accepted(step.tcb, seg, step.pending)
  <2>1. IncomingError(t, seg) = "nil" => seg.WND \in Window
    BY SeqAssumption DEF IncomingError, Segment, Value, Window
  <2>2. QED
    BY <2>1 DEF Recv, Outcome
<1>2. CASE u = AfterDrop(t, seg)
  <2>1. AfterDrop(t, seg).state = t.state
    BY <1>t DEF AfterDrop, ControlBlocks
  <2>2. QED
    BY <1>2, <2>1 DEF Edge
<1>3. CASE seg.WND \in Window /\ step.err = "nil" /\ u = Accepted(step.tcb, seg, step.pending)
  <2>1. Good(step.tcb) /\ step.pending \subseteq {"SYN", "ACK"}
    BY <1>3, RcvStep DEF GoodStep
  <2>2. u.state = step.tcb.state
    BY <1>3, <2>1, AcceptedGood
  <2>3. Edge(t, step.tcb)
    BY <1>t, <1>3, RcvEdge
  <2> HIDE DEF u, step
  <2>4. Edge(t, u)
    BY <2>2, <2>3 DEF Edge
  <2>5. QED
    BY <2>4 DEF u
<1>4. CASE u = HandleRST(t, seg.SEQ).tcb
  BY <1>4, <1>t, ResetEdge
<1>5. QED
  BY <1>1, <1>2, <1>3, <1>4 DEF Edge

\* Send of what PendingSegment proposed.
LEMMA TransmitEdge ==
  ASSUME NEW t, Good(t), NEW len \in Value, PendingSegment(t, len).ok = "yes"
  PROVE  Edge(t, Send(AfterPending(t), PendingSegment(t, len).seg).tcb)
<1> DEFINE seg == PendingSegment(t, len).seg
           a == AfterPending(t)
           u == Send(a, seg).tcb
<1>1. seg \in Segment
  BY PendingFields
<1>2. Good(a) /\ a.state = t.state
  BY AfterPendingFields
<1> HIDE DEF seg, a
<1>3. Sent(a, seg).state = StateAfterSend(a, seg)
  BY <1>1, <1>2, SentFields DEF Good
<1>4. u = a \/ u = Sent(a, seg)
  BY DEF Send, Outcome
<1>5. \/ u.state = t.state
      \/ t.state \in {"SynRcvd", "Established"} /\ u.state = "FinWait1"
      \/ t.state = "Closing" /\ u.state = "TimeWait"
      \/ t.state = "CloseWait" /\ u.state = "LastAck"
  BY <1>2, <1>3, <1>4 DEF StateAfterSend
<1> HIDE DEF u
<1>6. Edge(t, u)
  BY <1>5 DEF Edge, Diagram
<1>7. QED
  BY <1>6 DEF u, seg, a

\* Whatever the user calls, the stack sends and the peer answers, the block moves
\* along the edges of the RFC 9293 diagram, as amended, only.
THEOREM DiagramFollowed == Spec => FollowsDiagram
<1> DEFINE Follows == tcb'.state # tcb.state => <<tcb.state, tcb'.state>> \in Diagram
<1>1. ASSUME IInv, Next PROVE Follows
  <2>g. Good(tcb) /\ tcb \in ControlBlocks
    BY <1>1 DEF IInv, Good
  <2>1. ASSUME NEW iss \in ISSs, NEW wnd \in Windows, NEW state \in {"Listen", "SynSent"},
               UserOpen(iss, wnd, state)
        PROVE  Edge(tcb, tcb')
    BY <2>1, <2>g, OpenEdge DEF UserOpen, Becomes
  <2>2. ASSUME UserClose PROVE Edge(tcb, tcb')
    BY <2>2, <2>g, CloseEdge DEF UserClose, Becomes
  <2>3. ASSUME NEW wnd \in Windows, UserSetRecvWindow(wnd) PROVE Edge(tcb, tcb')
    BY <2>3, <2>g DEF UserSetRecvWindow, Becomes, SetRecvWindow, Edge, ControlBlocks
  <2>4. ASSUME NEW len \in Value, Transmit(len) PROVE Edge(tcb, tcb')
    BY <2>4, <2>g, TransmitEdge DEF Transmit, Becomes
  <2>5. ASSUME NEW seg \in Segment, Receive(seg) PROVE Edge(tcb, tcb')
    BY <2>5, <2>g, RecvEdge DEF Receive, Becomes
  <2>6. QED
    BY <1>1, <2>1, <2>2, <2>3, <2>4, <2>5 DEF Next, Edge
<1>2. IInv /\ [Next]_vars => [Follows]_vars
  BY <1>1
<1>3. QED
  BY <1>2, Inductive, PTL DEF Spec, FollowsDiagram

-----------------------------------------------------------------------------
(* The handshake *)

\* The initial sequence numbers a block can come to have: those users open with
\* and, rstJump at a time, those of the resets.  None is the last of the sequence
\* space, whose SYN is acknowledged by 0, the number of a segment without ACK.
Initials(S) ==
  /\ ISSs \subseteq S /\ S \subseteq Value
  /\ \A v \in S : Add(v, RstJump) \in S /\ Add(v, 1) # 0

\* Peers that leave the number zero where they acknowledge nothing, and that do
\* not acknowledge to a block that listens what is half the sequence space away,
\* which LessThan takes to be on both sides.
PlainAcks ==
  \A seg \in Incoming(tcb) :
    /\ ~Has(seg, "ACK") => seg.ACK = 0
    /\ tcb.state = "Listen" /\ Has(seg, "ACK") => 2 * Wrap(tcb.snd.UNA - seg.ACK) # SeqMod

Opening == {"Listen", "SynSent", "SynRcvd"}

\* What a block that is still opening knows of its SYN: nothing acknowledges it.
Unacked(t, S) ==
  /\ t.state \in Opening => t.snd.ISS \in S
  /\ t.state \in {"Listen", "SynRcvd"} => t.snd.UNA = t.snd.ISS
  /\ t.state = "Listen" => t.snd.NXT = t.snd.ISS /\ t.p0 \subseteq {"RST", "ACK"}

\* What a call from t to u does about the handshake.
Shakes(t, u, S) ==
  /\ Unacked(u, S)
  /\ t.state = "SynRcvd" /\ u.state = "Established" => u.snd.UNA = Add(t.snd.ISS, 1)

\* A call that leaves the opening states, and was not waiting for the ACK.
LEMMA LeavesOpening ==
  ASSUME NEW t, NEW u, NEW S, u.state \notin Opening,
         t.state # "SynRcvd" \/ u.state # "Established"
  PROVE  Shakes(t, u, S)
BY DEF Shakes, Unacked, Opening

\* A call that moves neither the state nor the send space, and in Listen queues
\* neither SYN nor FIN.
LEMMA StaysOpening ==
  ASSUME NEW t, NEW u, NEW S, Unacked(t, S), u.state = t.state, u.snd = t.snd,
         t.state = "Listen" => u.p0 \subseteq t.p0 \union {"RST", "ACK"}
  PROVE  Shakes(t, u, S)
BY DEF Shakes, Unacked, Opening

\* Numbers that are in order both ways are equal or half the space apart.
LEMMA OrderedBothWays ==
  ASSUME NEW v \in Value, NEW w \in Value, LessThan(v, w), LessThanEq(w, v)
  PROVE  2 * Wrap(v - w) = SeqMod
<1>1. v # w
  BY SeqAssumption DEF LessThan, Wrap, Value
<1>2. 2 * Wrap(w - v) >= SeqMod
  BY <1>1 DEF LessThanEq, LessThan
<1>3. Wrap(v - w) + Wrap(w - v) = SeqMod
  <2>1. CASE v > w
    <3>1. Wrap(v - w) = v - w /\ Wrap(w - v) = w - v + SeqMod
      BY <2>1, SeqAssumption DEF Wrap, Value
    <3>2. QED
      BY <3>1, SeqAssumption DEF Value
  <2>2. CASE v < w
    <3>1. Wrap(w - v) = w - v /\ Wrap(v - w) = v - w + SeqMod
      BY <2>2, SeqAssumption DEF Wrap, Value
    <3>2. QED
      BY <3>1, SeqAssumption DEF Value
  <2>3. QED
    BY <1>1, <2>1, <2>2, SeqAssumption DEF Value
<1>4. Wrap(v - w) \in Value /\ Wrap(w - v) \in Value
  BY WrapType, SeqAssumption DEF Value
<1>5. QED
  BY <1>2, <1>3, <1>4, SeqAssumption DEF LessThan, Value

\* resetSnd leaves nothing sent and nothing acknowledged.
LEMMA ResetSndFields ==
  \A i, w : /\ ResetSnd(i, w).ISS = i /\ ResetSnd(i, w).UNA = i
            /\ ResetSnd(i, w).NXT = i /\ ResetSnd(i, w).WND = w
BY DEF ResetSnd

\* The end of Recv and the acknowledgment.
LEMMA AcceptedAcks ==
  ASSUME NEW t \in ControlBlocks, NEW seg, NEW pending
  PROVE  LET u == Accepted(t, seg, pending)
         IN  /\ u.state = t.state /\ u.snd.ISS = t.snd.ISS
             /\ u.snd.UNA = IF Has(seg, "ACK") THEN seg.ACK ELSE t.snd.UNA
BY DEF Accepted, ControlBlocks, SendSpace

\* What an opening block makes of a segment that it accepts.
LEMMA OpeningShakes ==
  ASSUME NEW S, Initials(S), NEW t, Good(t), Unacked(t, S), t.state \in Opening,
         NEW seg \in Segment, seg.WND \in Window,
         ~Has(seg, "ACK") => seg.ACK = 0,
         t.state = "Listen" /\ Has(seg, "ACK") => 2 * Wrap(t.snd.UNA - seg.ACK) # SeqMod,
         ~Dropped(t, seg), RcvInState(t, seg).err = "nil"
  PROVE  Shakes(t, Accepted(RcvInState(t, seg).tcb, seg, RcvInState(t, seg).pending), S)
<1> DEFINE step == RcvInState(t, seg)
           u == Accepted(step.tcb, seg, step.pending)
           s == ResetSnd(t.snd.ISS, seg.WND)
           v == ResetRcv(t.rcv.WND, seg.SEQ)
<1>t. /\ t \in ControlBlocks /\ t.snd.UNA \in Value /\ t.snd.ISS \in S /\ t.snd.ISS \in Value
      /\ seg.ACK \in Value
  BY DEF Good, ControlBlocks, SendSpace, Unacked, Opening, Segment
<1>s. step.tcb \in ControlBlocks
  BY RcvStep DEF GoodStep, Good
<1> HIDE DEF step
<1>u. /\ u.state = step.tcb.state /\ u.snd.ISS = step.tcb.snd.ISS
      /\ u.snd.UNA = IF Has(seg, "ACK") THEN seg.ACK ELSE step.tcb.snd.UNA
  BY <1>s, AcceptedAcks
<1> HIDE DEF u
<1>1. CASE t.state = "Listen"
  <2>1. ~Has(seg, "ACK")
    <3>1. Has(seg, "ACK") => LessThan(t.snd.UNA, seg.ACK) /\ LessThanEq(seg.ACK, t.snd.UNA)
      BY <1>1 DEF Dropped, StrayAck, IsPreestablished, AcksOld, AcksUnsent, Unacked
    <3>2. QED
      BY <1>1, <1>t, <3>1, OrderedBothWays
  <2>2. step.tcb.state = "SynRcvd" /\ step.tcb.snd = s
    BY <1>1, <1>t DEF step, RcvInState, RcvListen, Step, ControlBlocks
  <2>3. u.state = "SynRcvd" /\ u.snd.ISS = t.snd.ISS /\ u.snd.UNA = t.snd.ISS
    BY <1>u, <2>1, <2>2, ResetSndFields
  <2>4. Shakes(t, u, S)
    BY <1>1, <1>t, <2>3 DEF Shakes, Unacked
  <2>5. QED
    BY <2>4 DEF u, step
<1>2. CASE t.state = "SynSent"
  <2>1. \/ step.tcb.state = "Established"
        \/ step.tcb.state = "SynRcvd" /\ step.tcb.snd = s /\ ~Has(seg, "ACK")
    BY <1>2, <1>t DEF step, RcvInState, RcvSynSent, Step, ControlBlocks
  <2>2. \/ u.state = "Established"
        \/ u.state = "SynRcvd" /\ u.snd.ISS = t.snd.ISS /\ u.snd.UNA = t.snd.ISS
    BY <1>u, <2>1, ResetSndFields
  <2>3. Shakes(t, u, S)
    BY <1>2, <1>t, <2>2 DEF Shakes, Unacked, Opening
  <2>4. QED
    BY <2>3 DEF u, step
<1>3. CASE t.state = "SynRcvd"
  <2>1. step.tcb.state = "Established" /\ seg.ACK = Add(t.snd.UNA, 1)
    BY <1>3, <1>t DEF step, RcvInState, RcvSynRcvd, Step, ControlBlocks
  <2>2. t.snd.UNA = t.snd.ISS /\ seg.ACK # 0
    BY <1>3, <1>t, <2>1 DEF Unacked, Initials
  <2>3. u.state = "Established" /\ u.snd.UNA = Add(t.snd.ISS, 1)
    BY <1>u, <2>1, <2>2
  <2>4. Shakes(t, u, S)
    BY <2>3 DEF Shakes, Unacked, Opening
  <2>5. QED
    BY <2>4 DEF u, step
<1>4. QED
  BY <1>1, <1>2, <1>3 DEF Opening

\* handleRST and the handshake.
LEMMA ResetShakes ==
  ASSUME NEW S, Initials(S), NEW t \in ControlBlocks, Unacked(t, S), NEW seq
  PROVE  Shakes(t, HandleRST(t, seq).tcb, S)
<1> DEFINE u == HandleRST(t, seq).tcb
<1>1. CASE seq # t.rcv.NXT
  <2>1. u.state = t.state /\ u.snd = t.snd /\ u.p0 = t.p0 \union {"ACK"}
    BY <1>1 DEF HandleRST, Outcome, ControlBlocks
  <2> HIDE DEF u
  <2>2. Shakes(t, u, S)
    BY <2>1, StaysOpening
  <2>3. QED
    BY <2>2 DEF u
<1>2. CASE seq = t.rcv.NXT /\ IsPreestablished(t.state)
  <2> DEFINE i == Add(t.snd.ISS, RstJump)
             s == ResetSnd(i, t.snd.WND)
  <2>1. u.state = "Listen" /\ u.snd = s /\ u.p0 = {}
    BY <1>2 DEF HandleRST, Outcome, Relisten, ControlBlocks
  <2>2. i \in S
    BY <1>2 DEF IsPreestablished, Unacked, Opening, Initials
  <2>3. s.ISS = i /\ s.UNA = i /\ s.NXT = i
    BY ResetSndFields
  <2> HIDE DEF u, s, i
  <2>4. Shakes(t, u, S)
    BY <2>1, <2>2, <2>3 DEF Shakes, Unacked
  <2>5. QED
    BY <2>4 DEF u
<1>3. CASE seq = t.rcv.NXT /\ ~IsPreestablished(t.state)
  <2>1. u.state = "Closed"
    BY <1>3, ShutGood DEF HandleRST, Outcome
  <2> HIDE DEF u
  <2>2. Shakes(t, u, S)
    BY <2>1, LeavesOpening DEF Opening
  <2>3. QED
    BY <2>2 DEF u
<1>4. QED
  BY <1>1, <1>2, <1>3

\* A dropped segment takes back what an opening block had sent.
LEMMA DropShakes ==
  ASSUME NEW S, NEW t \in ControlBlocks, Unacked(t, S), NEW seg, Dropped(t, seg)
  PROVE  Shakes(t, AfterDrop(t, seg), S)
<1> DEFINE u == AfterDrop(t, seg)
           s == ResetSnd(t.snd.ISS, seg.WND)
<1>1. CASE t.state = "Established"
  <2>1. u.state = "Established"
    BY <1>1 DEF AfterDrop, ControlBlocks
  <2> HIDE DEF u
  <2>2. Shakes(t, u, S)
    BY <1>1, <2>1, LeavesOpening DEF Opening
  <2>3. QED
    BY <2>2 DEF u
<1>2. CASE t.state # "Established"
  <2>1. t.state \in Opening
    BY <1>2 DEF Dropped, DupAck, UnsentAck, StrayAck, IsPreestablished, Opening
  <2>2. u.state = t.state /\ u.p0 = {"RST"} /\ u.snd = s
    BY <1>2 DEF AfterDrop, DupAck, UnsentAck, ControlBlocks
  <2>3. s.ISS = t.snd.ISS /\ s.UNA = t.snd.ISS /\ s.NXT = t.snd.ISS
    BY ResetSndFields
  <2> HIDE DEF u, s
  <2>4. Shakes(t, u, S)
    BY <1>2, <2>1, <2>2, <2>3 DEF Shakes, Unacked
  <2>5. QED
    BY <2>4 DEF u
<1>3. QED
  BY <1>1, <1>2

\* Recv and the handshake.
LEMMA RecvShakes ==
  ASSUME NEW S, Initials(S), NEW t, Good(t), Unacked(t, S), ~IsClosed(t.state),
         NEW seg \in Segment,
         ~Has(seg, "ACK") => seg.ACK = 0,
         t.state = "Listen" /\ Has(seg, "ACK") => 2 * Wrap(t.snd.UNA - seg.ACK) # SeqMod
  PROVE  Shakes(t, Recv(t, seg).tcb, S)
<1> DEFINE u == Recv(t, seg).tcb
           step == RcvInState(t, seg)
<1>t. t \in ControlBlocks /\ t.state \in States
  BY DEF Good, ControlBlocks
<1>1. \/ u = t
      \/ u = HandleRST(t, seg.SEQ).tcb
      \/ Dropped(t, seg) /\ u = AfterDrop(t, seg)
      \/ /\ seg.WND \in Window /\ ~Dropped(t, seg) /\ step.err = "nil"
         /\ u = Accepted(step.tcb, seg, step.pending)
  <2>1. IncomingError(t, seg) = "nil" => seg.WND \in Window
    BY SeqAssumption DEF IncomingError, Segment, Value, Window
  <2>2. QED
    BY <2>1 DEF Recv, Outcome
<1>2. CASE u = t
  BY <1>2, StaysOpening
<1>3. CASE u = HandleRST(t, seg.SEQ).tcb
  BY <1>3, <1>t, ResetShakes
<1>4. CASE Dropped(t, seg) /\ u = AfterDrop(t, seg)
  BY <1>4, <1>t, DropShakes
<1>5. CASE /\ seg.WND \in Window /\ ~Dropped(t, seg) /\ step.err = "nil"
           /\ u = Accepted(step.tcb, seg, step.pending)
  <2>1. CASE t.state \in Opening
    BY <1>5, <2>1, OpeningShakes
  <2>2. CASE t.state \notin Opening
    <3>1. Good(step.tcb) /\ step.pending \subseteq {"SYN", "ACK"}
      BY <1>5, RcvStep DEF GoodStep
    <3>2. u.state = step.tcb.state
      BY <1>5, <3>1, AcceptedGood
    <3>3. Edge(t, step.tcb)
      BY <1>t, RcvEdge
    <3> HIDE DEF step, u
    <3>4. step.tcb.state \notin Opening
      BY <1>t, <2>2, <3>3 DEF Edge, Diagram, Opening, States, IsClosed
    <3>5. Shakes(t, u, S)
      BY <2>2, <3>2, <3>4, LeavesOpening DEF Opening
    <3>6. QED
      BY <3>5 DEF u
  <2>3. QED
    BY <2>1, <2>2
<1>6. QED
  BY <1>1, <1>2, <1>3, <1>4, <1>5

\* Sending completes no handshake, and a block that listens sends only resets.
LEMMA TransmitShakes ==
  ASSUME NEW S, NEW t, Good(t), Unacked(t, S), NEW len \in Value,
         PendingSegment(t, len).ok = "yes"
  PROVE  Shakes(t, Send(AfterPending(t), PendingSegment(t, len).seg).tcb, S)
<1> DEFINE seg == PendingSegment(t, len).seg
           a == AfterPending(t)
           u == Send(a, seg).tcb
           b == Sent(a, seg)
<1>1. /\ seg \in Segment
      /\ t.state # "Established" => seg.DATALEN = 0 /\ seg.Flags \in {{"ACK"}, t.p0}
  BY PendingFields
<1>2. /\ Good(a) /\ a.state = t.state /\ a.snd = t.snd /\ a.p0 = t.p0 /\ a.p1 = t.p1
      /\ a \in ControlBlocks /\ a.snd.NXT \in Value
  BY AfterPendingFields DEF Good, ControlBlocks, SendSpace
<1> HIDE DEF seg, a
<1>3. /\ b.state = StateAfterSend(a, seg)
      /\ b.p0 = QueueAfterSend(a, seg).p0
      /\ b.snd.NXT = Add(a.snd.NXT, SegLen(seg))
  BY <1>1, <1>2, SentFields
<1>4. b.snd.ISS = a.snd.ISS /\ b.snd.UNA = a.snd.UNA
  BY <1>2 DEF Sent, ControlBlocks, SendSpace
<1> HIDE DEF b
<1>5. Shakes(t, a, S)
  BY <1>2, StaysOpening
<1>6. Shakes(t, b, S)
  <2>1. CASE t.state = "Listen"
    <3>1. b.state = "Listen"
      BY <1>2, <1>3, <2>1 DEF StateAfterSend
    <3>2. seg.Flags \subseteq {"RST", "ACK"} /\ t.p0 \subseteq {"RST", "ACK"} /\ t.p1 = {}
      BY <1>1, <2>1, NoP1 DEF Unacked
    <3>3. SegLen(seg) = 0
      BY <1>1, <2>1, <3>2, SeqAssumption DEF SegLen, Has, Wrap
    <3>4. b.snd.NXT = t.snd.NXT
      BY <1>2, <1>3, <3>3, AddZero
    <3>5. b.p0 \subseteq {"RST", "ACK"}
      BY <1>2, <1>3, <2>1, <3>2 DEF QueueAfterSend
    <3>6. QED
      BY <1>2, <1>4, <2>1, <3>1, <3>4, <3>5 DEF Shakes, Unacked
  <2>2. CASE t.state # "Listen"
    <3>1. b.state = t.state \/ b.state \in {"FinWait1", "TimeWait", "LastAck"}
      BY <1>2, <1>3 DEF StateAfterSend
    <3>2. QED
      BY <1>2, <1>4, <2>2, <3>1 DEF Shakes, Unacked, Opening
  <2>3. QED
    BY <2>1, <2>2
<1>7. u = a \/ u = b
  BY DEF Send, Outcome, b
<1>8. QED
  BY <1>5, <1>6, <1>7 DEF seg, a

\* The calls of the user.
LEMMA UserShakes ==
  ASSUME NEW S, Initials(S), NEW t \in ControlBlocks, Unacked(t, S)
  PROVE  /\ \A iss \in ISSs, wnd \in Windows, state \in {"Listen", "SynSent"} :
              Shakes(t, Open(t, iss, wnd, state).tcb, S)
         /\ Shakes(t, Close(t).tcb, S)
         /\ \A wnd : Shakes(t, SetRecvWindow(t, wnd), S)
<1>1. ASSUME NEW iss \in ISSs, NEW wnd \in Windows, NEW state \in {"Listen", "SynSent"}
      PROVE  Shakes(t, Open(t, iss, wnd, state).tcb, S)
  <2> DEFINE u == Open(t, iss, wnd, state).tcb
             s == ResetSnd(iss, 1)
  <2>1. u = t \/ (u.state = state /\ u.snd = s /\ (state = "Listen" => u.p0 = {}))
    BY DEF Open, Outcome, ControlBlocks
  <2>2. s.ISS = iss /\ s.UNA = iss /\ s.NXT = iss /\ iss \in S
    BY ResetSndFields DEF Initials
  <2>3. Shakes(t, t, S)
    BY StaysOpening
  <2> HIDE DEF u, s
  <2>4. Shakes(t, u, S)
    BY <2>1, <2>2, <2>3 DEF Shakes, Unacked
  <2>5. QED
    BY <2>4 DEF u
<1>2. Shakes(t, Close(t).tcb, S)
  <2> DEFINE u == Close(t).tcb
  <2>1. \/ u.state \in {"Closed", "LastAck"}
        \/ u.state = t.state /\ u.snd = t.snd /\ t.state # "Listen"
    BY DEF Close, Outcome, Shut, ControlBlocks
  <2> HIDE DEF u
  <2>2. Shakes(t, u, S)
    BY <2>1, LeavesOpening, StaysOpening DEF Opening
  <2>3. QED
    BY <2>2 DEF u
<1>3. ASSUME NEW wnd PROVE Shakes(t, SetRecvWindow(t, wnd), S)
  <2> DEFINE u == SetRecvWindow(t, wnd)
  <2>1. u.state = t.state /\ u.snd = t.snd /\ u.p0 = t.p0
    BY DEF SetRecvWindow, ControlBlocks
  <2> HIDE DEF u
  <2>2. Shakes(t, u, S)
    BY <2>1, StaysOpening
  <2>3. QED
    BY <2>2 DEF u
<1>4. QED
  BY <1>1, <1>2, <1>3

\* Every step of the specification.
LEMMA NextShakes ==
  ASSUME NEW S, Initials(S), PlainAcks, IInv, Unacked(tcb, S), Next
  PROVE  Shakes(tcb, tcb', S)
<1>g. Good(tcb) /\ tcb \in ControlBlocks
  BY DEF IInv, Good
<1>1. ASSUME NEW iss \in ISSs, NEW wnd \in Windows, NEW state \in {"Listen", "SynSent"},
             UserOpen(iss, wnd, state)
      PROVE  Shakes(tcb, tcb', S)
  <2>1. Shakes(tcb, Open(tcb, iss, wnd, state).tcb, S)
    BY <1>g, UserShakes
  <2>2. tcb' = Open(tcb, iss, wnd, state).tcb
    BY <1>1 DEF UserOpen, Becomes
  <2>3. QED
    BY <2>1, <2>2
<1>2. ASSUME UserClose PROVE Shakes(tcb, tcb', S)
  BY <1>2, <1>g, UserShakes DEF UserClose, Becomes
<1>3. ASSUME NEW wnd \in Windows, UserSetRecvWindow(wnd) PROVE Shakes(tcb, tcb', S)
  BY <1>3, <1>g, UserShakes DEF UserSetRecvWindow, Becomes
<1>4. ASSUME NEW len \in Value, Transmit(len) PROVE Shakes(tcb, tcb', S)
  BY <1>4, <1>g, TransmitShakes DEF Transmit, Becomes
<1>5. ASSUME NEW seg \in Incoming(tcb), seg \in Segment, Receive(seg)
      PROVE  Shakes(tcb, tcb', S)
  <2>1. /\ ~Has(seg, "ACK") => seg.ACK = 0
        /\ tcb.state = "Listen" /\ Has(seg, "ACK")
             => 2 * Wrap(tcb.snd.UNA - seg.ACK) # SeqMod
    BY <1>5 DEF PlainAcks
  <2>2. QED
    BY <1>5, <1>g, <2>1, RecvShakes DEF Receive, Becomes
<1>6. QED
  BY <1>1, <1>2, <1>3, <1>4, <1>5 DEF Next

\* A passive or simultaneous open is complete only when the SYN this side sent is
\* acknowledged, if no initial number is the last of the space and peers leave
\* the acknowledgment field zero where they do not use it.
THEOREM HandshakeAcked ==
  ASSUME NEW S, Initials(S)
  PROVE  Spec /\ []PlainAcks => EstablishedIsAcked
<1> DEFINE J == IInv /\ PlainAcks /\ Unacked(tcb, S)
           A == tcb.state = "SynRcvd" /\ tcb'.state = "Established"
                  => tcb'.snd.UNA = Add(tcb.snd.ISS, 1)
<1>1. Init => Unacked(tcb, S)
  BY DEF Init, ZeroTCB, Unacked, Opening
<1>2. J /\ [Next]_vars => Unacked(tcb, S)' /\ [A]_vars
  <2>1. ASSUME J, Next PROVE Unacked(tcb, S)' /\ A
    BY <2>1, NextShakes DEF Shakes, Unacked
  <2>2. ASSUME J, UNCHANGED vars PROVE Unacked(tcb, S)'
    BY <2>2 DEF vars, Unacked
  <2>3. QED
    BY <2>1, <2>2
<1>3. QED
  BY <1>1, <1>2, Inductive, PTL DEF Spec, EstablishedIsAcked
=============================================================================

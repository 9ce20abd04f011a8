---------------------------- MODULE ControlBlock ----------------------------
(***************************************************************************)
(* One ControlBlock (control.go, control_user.go) and everyone who calls   *)
(* it: the user opens and closes, the stack transmits what PendingSegment  *)
(* proposes and delivers segments from a peer that may send anything.      *)
(***************************************************************************)
EXTENDS TCB

CONSTANTS
  ISSs,        \* initial sequence numbers users open with
  Windows,     \* windows the user advertises
  Payloads(_), \* payload lengths the user may have for a block to send
  Incoming(_)  \* the segments that may arrive at a block

ASSUME ControlBlockAssumption ==
  /\ ISSs \subseteq Value
  /\ Windows \subseteq Value

VARIABLES
  tcb,      \* the control block
  finSent   \* history: a FIN was sent on the current connection

vars == <<tcb, finSent>>

Init ==
  /\ tcb = ZeroTCB
  /\ finSent = FALSE

\* A call that forgets the connection forgets its history.
Becomes(t, fin) ==
  /\ tcb' = t
  /\ finSent' = (t.state \notin {"Closed", "Listen"} /\ (finSent \/ fin))

UserOpen(iss, wnd, state) == Becomes(Open(tcb, iss, wnd, state).tcb, FALSE)

UserClose == Becomes(Close(tcb).tcb, FALSE)

UserSetRecvWindow(wnd) == Becomes(SetRecvWindow(tcb, wnd), FALSE)

\* The stack's send path: PendingSegment, then Send of what it proposed.
Transmit(len) ==
  LET next == PendingSegment(tcb, len)
      out  == Send(AfterPending(tcb), next.seg)
  IN  /\ next.ok = "yes"
      /\ Becomes(out.tcb, out.err = "nil" /\ Has(next.seg, "FIN"))

\* TCPConn does not pass segments to a block that is closed or in TimeWait.
Receive(seg) ==
  /\ ~IsClosed(tcb.state)
  /\ Becomes(Recv(tcb, seg).tcb, FALSE)

Next ==
  \/ \E iss \in ISSs, wnd \in Windows, state \in {"Listen", "SynSent"} :
       UserOpen(iss, wnd, state)
  \/ UserClose
  \/ \E wnd \in Windows : UserSetRecvWindow(wnd)
  \/ \E len \in Payloads(tcb) \intersect Value : Transmit(len)
  \/ \E seg \in Incoming(tcb) : seg \in Segment /\ Receive(seg)

Spec == Init /\ [][Next]_vars

-----------------------------------------------------------------------------
(* Properties *)

\* The fields of ControlBlock keep their types whatever is called and received:
\* sequence numbers wrap, and the send window stays what a segment can carry.
TypeOK ==
  /\ tcb \in ControlBlocks
  /\ finSent \in BOOLEAN

\* Send's queue bookkeeping ("Ensure we don't queue a FINACK if we have already
\* sent a FIN"): once a FIN went out nothing that occupies sequence space
\* follows it, whatever the peer answers and however often Close is called.
NothingAfterFin == [][finSent /\ finSent' => tcb'.snd.NXT = tcb.snd.NXT]_vars

\* The inductive form of NothingAfterFin.  The second slot of the queue is used
\* only while the other side's FIN is being answered, a FIN waits in the first
\* only in the states that may still send one, ...
QueueInv(t) ==
  /\ t.p1 \in {{}, {"FIN"}, {"ACK"}}
  /\ t.p1 # {} => t.state \in {"CloseWait", "LastAck"}
  /\ "FIN" \in t.p1 => t.state = "CloseWait"
  /\ "FIN" \in t.p0 => t.state \in {"SynRcvd", "Established", "CloseWait", "LastAck"}

FinStates == {"FinWait1", "FinWait2", "Closing", "TimeWait", "LastAck"}

\* ... and after a FIN no flag that occupies sequence space is queued anywhere.
Done(t) ==
  /\ t.state \in FinStates
  /\ t.p0 \intersect {"SYN", "FIN"} = {}
  /\ "FIN" \notin t.p1

\* The queue of pending flags that Send, Recv and Close maintain between them:
\* whatever they were called with, it holds what the state may still send.
QueueDiscipline == QueueInv(tcb) /\ (finSent => Done(tcb))

\* The transitions of RFC 9293 Figure 5, which the state methods follow, plus
\* what this implementation adds on purpose: Open from Listen, a reset that
\* returns an opening connection to Listen, and FIN-WAIT-1 to TIME-WAIT on
\* FIN|ACK.  Every state may be left for Closed by a reset.
Diagram ==
  {<<"Closed", "Listen">>, <<"Closed", "SynSent">>, <<"Listen", "SynSent">>,
   <<"Listen", "SynRcvd">>, <<"SynSent", "SynRcvd">>, <<"SynSent", "Established">>,
   <<"SynRcvd", "Established">>, <<"SynRcvd", "FinWait1">>,
   <<"SynRcvd", "Listen">>, <<"SynSent", "Listen">>,
   <<"Established", "FinWait1">>, <<"Established", "CloseWait">>,
   <<"FinWait1", "FinWait2">>, <<"FinWait1", "Closing">>, <<"FinWait1", "TimeWait">>,
   <<"FinWait2", "TimeWait">>, <<"Closing", "TimeWait">>, <<"CloseWait", "LastAck">>}
  \union (States \X {"Closed"})

\* Open, Close, Send and Recv take the block along the edges of that diagram only.
FollowsDiagram ==
  [][tcb'.state # tcb.state => <<tcb.state, tcb'.state>> \in Diagram]_vars

\* handleRST: a reset inside the window that is not the next octet expected
\* "MUST send an acknowledgment (challenge ACK)".
ChallengesReset ==
  \A seg \in Incoming(tcb) :
    Has(seg, "RST") /\ IsSynchronized(tcb.state) /\ ~IsClosed(tcb.state)
    /\ seg.SEQ # tcb.rcv.NXT /\ InWindow(seg.SEQ, tcb.rcv.NXT, tcb.rcv.WND)
      => Recv(tcb, seg).tcb.challengeAck

\* Whatever other flags it has, and although a SYN skips the sequence checks, a
\* reset that is not exactly the next octet expected takes nothing down: at most
\* it makes the block send an ACK.
ResetIsExact ==
  \A seg \in Incoming(tcb) :
    Has(seg, "RST") /\ seg.SEQ # tcb.rcv.NXT =>
      \E c \in BOOLEAN, p \in {{}, {"ACK"}} :
        Recv(tcb, seg).tcb = [tcb EXCEPT !.challengeAck = c, !.p0 = @ \union p]

\* SYN-RECEIVED is left for Established by the acknowledgment of the SYN sent.
EstablishedIsAcked ==
  [][tcb.state = "SynRcvd" /\ tcb'.state = "Established"
       => tcb'.snd.UNA = Add(tcb.snd.ISS, 1)]_vars
=============================================================================

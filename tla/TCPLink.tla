------------------------------- MODULE TCPLink -------------------------------
(***************************************************************************)
(* Two stacks joined by a link: a client that dials and a server that      *)
(* listens, each a PortStack with one TCP port whose handler is a TCPConn. *)
(* On each side one goroutine drives the network interface (RecvEth and    *)
(* HandleEth) and another is the user of the connection; a user call that  *)
(* flags the port and acts on the connection in separate statements is     *)
(* separate steps here.  The link may lose, duplicate and reorder.         *)
(***************************************************************************)
EXTENDS TCPConn

CONSTANTS
  ClientISS, ServerISS,     \* initial sequence numbers
  ClientBytes, ServerBytes, \* bound: bytes each user writes
  Chunk,                    \* bytes per Write call
  NetCap,                   \* bound: packets under way in one direction
  Faults,                   \* what the link does: subset of FaultKinds
  MaxFaults,                \* bound: how often it does it
  Clock,                    \* whether a side may go 3 seconds without sending
  ServerFirst,              \* whether the client dials a server that listens
  Closers                   \* the sides whose users close

FaultKinds == {"drop", "dup", "dupsyn", "swap"}

ASSUME TCPLinkAssumption ==
  /\ ClientISS \in Value /\ ServerISS \in Value
  /\ ClientBytes \in Nat /\ ServerBytes \in Nat
  /\ Chunk \in 1 .. TxCap
  /\ Faults \subseteq FaultKinds
  /\ Clock \in BOOLEAN /\ ServerFirst \in BOOLEAN
  /\ Closers \subseteq {"client", "server"}

Peers == {"client", "server"}

Other(e) == IF e = "client" THEN "server" ELSE "client"

VARIABLES
  conn,   \* the TCPConn of each side
  port,   \* whether its port is open in the PortStack
  pend,   \* pendingTCPv4 > 0
  net,    \* packets under way to each side
  user,   \* where the user of each side is; "dead" after a panic
  wrote,  \* how many bytes it has written; they are numbered 1, 2, ...
  got,    \* the bytes it has read
  closed, \* whether its user called Close
  faults  \* how often the link has lost, duplicated or reordered

vars == <<conn, port, pend, net, user, wrote, got, closed, faults>>

Init ==
  /\ conn = [e \in Peers |-> FreshConn]
  /\ port = [e \in Peers |-> FALSE]
  /\ pend = [e \in Peers |-> FALSE]
  /\ net = [e \in Peers |-> <<>>]
  /\ user = [e \in Peers |-> "new"]
  /\ wrote = [e \in Peers |-> 0]
  /\ got = [e \in Peers |-> <<>>]
  /\ closed = [e \in Peers |-> FALSE]
  /\ faults = 0

-----------------------------------------------------------------------------
(* The interface goroutine *)

\* A panic ends the program the side runs in.
Alive(e) == user[e] # "dead"

CanRecv(e) == net[e] # <<>> /\ Alive(e)

\* RecvEth: the next packet for the port.  EOF closes the port, which aborts
\* the connection.
RecvEth(e) ==
  LET pkt == Head(net[e])
      res == RecvPacket(conn[e], pkt)
      eof == res.err = "EOF"
  IN  /\ CanRecv(e)
      /\ net' = [net EXCEPT ![e] = Tail(@)]
      /\ IF port[e]
         THEN /\ pend' = [pend EXCEPT ![e] = TRUE]
              /\ conn' = [conn EXCEPT ![e] = IF eof THEN FreshConn ELSE res.conn]
              /\ port' = [port EXCEPT ![e] = ~eof]
         ELSE UNCHANGED <<conn, port, pend>>
      /\ UNCHANGED <<user, wrote, got, closed, faults>>

\* What handleEth leaves in pendingTCPv4: the counter is cleared whenever no
\* packet was written, because the loop never sets socketPending.
PendAfterHandle(pkts, err) == pkts # <<>> \/ err \in {"error", "panic"}

\* port.IsPendingHandling()
HandlerPending(e) == port[e] /\ IsPendingHandling(conn[e])

CanHandle(e) ==
  pend[e] /\ Alive(e) /\ (HandlerPending(e) => Len(net[Other(e)]) < NetCap)

\* HandleEth when the handler has something to do.
HandleEth(e) ==
  LET res == SendPacket(conn[e])
      shut == res.err \in {"EOF", "error"}
  IN  /\ CanHandle(e) /\ HandlerPending(e)
      /\ net' = [net EXCEPT ![Other(e)] = @ \o res.pkts]
      /\ conn' = [conn EXCEPT ![e] = IF shut THEN FreshConn ELSE res.conn]
      /\ port' = [port EXCEPT ![e] = ~shut]
      /\ pend' = [pend EXCEPT ![e] = PendAfterHandle(res.pkts, res.err)]
      /\ user' = [user EXCEPT ![e] = IF res.err = "panic" THEN "dead" ELSE @]
      /\ UNCHANGED <<wrote, got, closed, faults>>

\* HandleEth when it has not: the flag is taken down.
HandleEthIdle(e) ==
  /\ CanHandle(e) /\ ~HandlerPending(e)
  /\ pend' = [pend EXCEPT ![e] = PendAfterHandle(<<>>, "nil")]
  /\ UNCHANGED <<conn, port, net, user, wrote, got, closed, faults>>

-----------------------------------------------------------------------------
(* The user goroutine *)

\* openstack: the port is opened, and for a dial flagged, ...
MayOpen(e) ==
  /\ user[e] = "new"
  /\ ServerFirst /\ e = "client" => conn["server"].scb.state = "Listen"

OpenStack(e) ==
  /\ MayOpen(e)
  /\ user' = [user EXCEPT ![e] = "opening"]
  /\ port' = [port EXCEPT ![e] = TRUE]
  /\ pend' = [pend EXCEPT ![e] = @ \/ e = "client"]
  /\ UNCHANGED <<conn, net, wrote, got, closed, faults>>

\* ... and the connection opened after that.
FinishOpen(e) ==
  /\ user[e] = "opening"
  /\ user' = [user EXCEPT ![e] = "idle"]
  /\ conn' = [conn EXCEPT ![e] =
                IF e = "client" THEN OpenConn(@, "SynSent", ClientISS)
                ELSE OpenConn(@, "Listen", ServerISS)]
  /\ UNCHANGED <<port, pend, net, wrote, got, closed, faults>>

ByteLimit(e) == IF e = "client" THEN ClientBytes ELSE ServerBytes

\* Write flags the port, then tries until the bytes fit into tx.
MayWrite(e) ==
  /\ user[e] = "idle" /\ wrote[e] + Chunk <= ByteLimit(e)
  /\ PipeOpen(conn[e]) /\ port[e]

Fits(e) == Chunk <= TxCap - Len(conn[e].tx)

BeginWrite(e) ==
  /\ MayWrite(e)
  /\ user' = [user EXCEPT ![e] = "writing"]
  /\ pend' = [pend EXCEPT ![e] = TRUE]
  /\ UNCHANGED <<conn, port, net, wrote, got, closed, faults>>

FinishWrite(e) ==
  /\ user[e] = "writing" /\ port[e] /\ Fits(e)
  /\ conn' = [conn EXCEPT ![e].tx = @ \o [i \in 1 .. Chunk |-> wrote[e] + i]]
  /\ wrote' = [wrote EXCEPT ![e] = @ + Chunk]
  /\ user' = [user EXCEPT ![e] = "idle"]
  /\ UNCHANGED <<port, pend, net, got, closed, faults>>

RetryWrite(e) ==
  /\ user[e] = "writing" /\ port[e] /\ ~Fits(e)
  /\ pend' = [pend EXCEPT ![e] = TRUE]
  /\ UNCHANGED <<conn, port, net, user, wrote, got, closed, faults>>

\* The connection was deleted meanwhile: another connid, or no such port.
AbortWrite(e) ==
  /\ user[e] = "writing" /\ ~port[e]
  /\ user' = [user EXCEPT ![e] = "idle"]
  /\ UNCHANGED <<conn, port, pend, net, wrote, got, closed, faults>>

\* Read of everything buffered, which may go on beside a Write; an empty buffer
\* blocks an established connection, and gives EOF, which changes nothing, to
\* any other.
MayRead(e) ==
  user[e] \in {"idle", "writing"} /\ PipeOpen(conn[e]) /\ conn[e].rx # <<>>

ReadAll(e) ==
  /\ MayRead(e)
  /\ got' = [got EXCEPT ![e] = @ \o conn[e].rx]
  /\ conn' = [conn EXCEPT ![e].rx = <<>>]
  /\ UNCHANGED <<port, pend, net, user, wrote, closed, faults>>

MayClose(e) ==
  /\ e \in Closers /\ user[e] = "idle" /\ ~closed[e]
  /\ wrote[e] = ByteLimit(e) \/ ~PipeOpen(conn[e])

UserClose(e) ==
  /\ MayClose(e)
  /\ LET res == CloseConn(conn[e])
     IN  /\ conn' = [conn EXCEPT ![e] = res.conn]
         /\ pend' = [pend EXCEPT ![e] = @ \/ (res.ok /\ port[e])]
  /\ closed' = [closed EXCEPT ![e] = TRUE]
  /\ UNCHANGED <<port, net, user, wrote, got, faults>>

-----------------------------------------------------------------------------
(* The link and the clock *)

Fault(kind) ==
  /\ kind \in Faults /\ faults < MaxFaults
  /\ faults' = faults + 1
  /\ UNCHANGED <<conn, port, pend, user, wrote, got, closed>>

Drop(e) ==
  /\ net[e] # <<>>
  /\ net' = [net EXCEPT ![e] = Tail(@)]
  /\ Fault("drop")

Duplicate(e) ==
  /\ net[e] # <<>> /\ Len(net[e]) < NetCap
  /\ net' = [net EXCEPT ![e] = Append(@, Head(@))]
  /\ Fault(IF Has(Head(net[e]).seg, "SYN") THEN "dupsyn" ELSE "dup")

Reorder(e) ==
  /\ Len(net[e]) > 1
  /\ net' = [net EXCEPT ![e] = <<@[2], @[1]>> \o SubSeq(@, 3, Len(@))]
  /\ Fault("swap")

\* Three seconds go by on a side that sends nothing.
Idle(e) ==
  /\ Clock /\ ~conn[e].late
  /\ conn' = [conn EXCEPT ![e].late = TRUE]
  /\ UNCHANGED <<port, pend, net, user, wrote, got, closed, faults>>

Interface(e) == RecvEth(e) \/ HandleEth(e) \/ HandleEthIdle(e)

User(e) ==
  \/ OpenStack(e) \/ FinishOpen(e)
  \/ BeginWrite(e) \/ FinishWrite(e) \/ RetryWrite(e) \/ AbortWrite(e)
  \/ ReadAll(e) \/ UserClose(e)

Link(e) == Drop(e) \/ Duplicate(e) \/ Reorder(e)

Next == \E e \in Peers : Interface(e) \/ User(e) \/ Link(e) \/ Idle(e)

Spec == Init /\ [][Next]_vars

\* What is left of a call that a user has made.
InCall(e) == FinishOpen(e) \/ FinishWrite(e) \/ RetryWrite(e) \/ AbortWrite(e)

\* Users finish the calls they have made and read what there is, but nobody makes
\* them dial, write or close; time passes, and each interface loop keeps calling RecvEth and
\* HandleEth.  The last two are weak fairness with the
\* condition under which the action is enabled written out: TLC cannot evaluate
\* ENABLED of a whole RecvPacket in reasonable time.
Fairness ==
  \A e \in Peers :
    /\ WF_vars(InCall(e)) /\ WF_vars(ReadAll(e))
    /\ WF_vars(Idle(e))
    /\ []<>~CanRecv(e) \/ []<><<RecvEth(e)>>_vars
    /\ []<>~CanHandle(e) \/ []<><<HandleEth(e) \/ HandleEthIdle(e)>>_vars

FairSpec == Spec /\ Fairness

-----------------------------------------------------------------------------
(* Properties *)

\* What the two goroutines of a side share stays well formed.
TypeOK ==
  /\ \A e \in Peers :
       /\ conn[e].scb \in ControlBlocks
       /\ Len(conn[e].tx) <= TxCap /\ Len(conn[e].rx) <= RxCap
       /\ \A i \in 1 .. Len(net[e]) :
            /\ net[e][i].seg \in Segment
            /\ net[e][i].seg.DATALEN = Len(net[e][i].data)
  /\ port \in [Peers -> BOOLEAN] /\ pend \in [Peers -> BOOLEAN]
  /\ user \in [Peers -> {"new", "opening", "idle", "writing", "dead"}]

\* The bytes that have come out of, or wait in, the receive buffer of a side.
Stream(e) == got[e] \o conn[e].rx

\* TCP's promise to the reader: what arrives is what the other user wrote, from
\* the first byte on, in order, with nothing missing and nothing twice.
StreamPrefix ==
  \A e \in Peers :
    /\ Len(Stream(e)) <= wrote[Other(e)]
    /\ \A i \in 1 .. Len(Stream(e)) : Stream(e)[i] = i

Synced(e) == port[e] /\ IsSynchronized(conn[e].scb.state)

\* Both ends count the same octets: what the receiver expects next lies between
\* what the sender knows acknowledged and what it has sent.
SeqAgreement ==
  \A e \in Peers :
    LET a == conn[e].scb.snd  b == conn[Other(e)].scb.rcv
    IN  Synced(e) /\ Synced(Other(e))
          => LessThanEq(a.UNA, b.NXT) /\ LessThanEq(b.NXT, a.NXT)

\* An octet is acknowledged only once it is in the receive buffer: recv lets the
\* control block accept a segment before rx.Write can refuse its payload.
AckedIsBuffered ==
  \A e \in Peers :
    LET snd == conn[e].scb.snd
        octets == Smaller(wrote[e], Sizeof(snd.ISS, snd.UNA) - 1)
    IN  Synced(e) /\ port[Other(e)] => octets <= Len(Stream(Other(e)))

\* However the peer shrinks its window with data in flight, PendingSegment's "bad
\* calculation" assertion does not fire, and what it proposes Send accepts:
\* handleEth closes the port of a handler that returns any other error.
SendAcceptsPending ==
  \A e \in Peers : HandlerPending(e) => SendPacket(conn[e]).err \notin {"error", "panic"}

\* A FIN comes after all the data: a side that has taken the other's FIN has
\* everything the other user wrote.
FinIsLast ==
  \A e \in Peers :
    Synced(e) /\ conn[e].scb.state \in {"CloseWait", "LastAck", "Closing", "TimeWait"}
      => Len(Stream(e)) = wrote[Other(e)]

\* stateCheck: "Abort connection- no response from remote".  A connection is not
\* aborted in the step that sends the segment the remote should respond to.
AbortOnlyUnanswered ==
  [][\A e \in Peers :
       closed[e] /\ port[e] /\ ~port'[e] /\ conn[e].scb.state = "Established"
         => Len(net'[Other(e)]) <= Len(net[Other(e)])]_vars

\* A user that has closed gets its port back.
CloseReleases ==
  \A e \in Peers : (closed[e] /\ Synced(e)) ~> ~port[e]

\* The other side does too, without its user's doing.
PeerReleases == (closed["client"] /\ Synced("server")) ~> ~port["server"]

Dialled == AwaitingSyn(conn["client"]) /\ port["server"] /\ conn["server"].scb.state = "Listen"

\* A dialled connection comes up once the other side listens, provided that the flag
\* openstack raised has not been used up before it opened the connection.
DialConnects == (Dialled /\ pend["client"]) ~> (conn["client"].scb.state # "SynSent")

\* mustSendSyn: "this will trigger on t=0 and every 3 seconds".  A dialled
\* connection comes up with no condition on the flag.
DialAlwaysConnects == Dialled ~> (conn["client"].scb.state # "SynSent")

\* Write: "queued to be sent".  Data in the transmit buffer of an established
\* connection leaves it.
QueuedIsSent ==
  \A e \in Peers :
    (port[e] /\ conn[e].scb.state = "Established" /\ conn[e].tx # <<>>)
      ~> (conn[e].tx = <<>> \/ conn[e].scb.state # "Established")

\* What was written is read.
WrittenIsRead ==
  \A e \in Peers : \A n \in 1 .. ByteLimit(e) :
    (wrote[e] = n) ~> (Len(got[Other(e)]) >= n)

\* A sender facing a closed window learns that the receiver has read.
WindowReopens ==
  \A e \in Peers :
    (conn[e].scb.state = "Established" /\ conn[e].scb.snd.WND = 0 /\ conn[Other(e)].rx = <<>>)
      ~> (conn[e].scb.state # "Established" \/ conn[e].scb.snd.WND > 0)
=============================================================================

------------------------------ MODULE Listener ------------------------------
(***************************************************************************)
(* stacks/tcplistener.go: a server whose port is shared by a fixed number  *)
(* of TCPConns, its slots, and clients that dial it, each from an address  *)
(* and port of its own.  Bytes carry the client that wrote them.           *)
(*                                                                         *)
(* A goroutine that has accepted a connection holds a pointer to a slot,   *)
(* also after the connection has ended and the slot serves somebody else.  *)
(***************************************************************************)
EXTENDS TCPConn, FiniteSets

CONSTANTS
  NSlots,      \* MaxConnections
  Clients,     \* remote addresses and ports
  NoClient,    \* the zero netip.AddrPort
  ClientISS,   \* initial sequence number of the clients
  ClientBytes, \* bound: bytes a client writes
  NetCap,      \* bound: packets under way from or to a client
  Resends,     \* whether clients send a SYN again after 3 seconds
  Late,        \* whether a server connection may go 3 seconds without sending
  Hasty,       \* whether clients dial before the listener listens
  StaleCalls   \* whether handles are used after their connection has ended

ASSUME ListenerAssumption ==
  /\ NSlots \in Nat \ {0}
  /\ NoClient \notin Clients
  /\ ClientISS \in Value /\ ClientBytes \in 0 .. TxCap
  /\ {Resends, Late, Hasty, StaleCalls} \subseteq BOOLEAN

Slots == 1 .. NSlots

VARIABLES
  phase,    \* of StartListening: "new", "starting", "open"
  port,     \* whether the port is open in the server's PortStack
  pend,     \* pendingTCPv4 > 0
  conns,    \* the TCPConn of each slot
  remote,   \* its remote
  used,     \* used
  got,      \* bytes read from a slot since it was last opened
  handles,  \* what Accept returned: the slot, and the client at that time
  mixed,    \* whether a handle has read what another client wrote
  client,   \* the TCPConn of each client
  cport,    \* its port: "new", "open", "gone"
  toServer, toClient  \* packets under way

server == <<phase, port, pend, conns, remote, used, got>>
app    == <<handles, mixed>>
dialer == <<client, cport>>
net    == <<toServer, toClient>>
vars   == <<server, app, dialer, net>>

Init ==
  /\ phase = "new" /\ port = FALSE /\ pend = FALSE
  /\ conns = [i \in Slots |-> FreshConn]
  /\ remote = [i \in Slots |-> NoClient]
  /\ used = [i \in Slots |-> FALSE]
  /\ got = [i \in Slots |-> <<>>]
  /\ handles = {} /\ mixed = FALSE
  /\ client = [c \in Clients |-> FreshConn]
  /\ cport = [c \in Clients |-> "new"]
  /\ toServer = [c \in Clients |-> <<>>]
  /\ toClient = [c \in Clients |-> <<>>]

IsOpen == phase = "open"

-----------------------------------------------------------------------------
(* Slots *)

\* l.iss starts as zero and prand32(0) = 0.
ISS == 0

\* What a freed slot holds: the connection is aborted and opened again.
FreedConn == OpenConn(FreshConn, "Listen", ISS)

\* Mutant of Free: used is not reset.
FreeStaysUsed(S) ==
  /\ remote' = [i \in Slots |-> IF i \in S THEN NoClient ELSE remote[i]]
  /\ got' = [i \in Slots |-> IF i \in S THEN <<>> ELSE got[i]]
  /\ used' = used

\* freeConnForReuse of the slots S, apart from conns.
Free(S) ==
  /\ remote' = [i \in Slots |-> IF i \in S THEN NoClient ELSE remote[i]]
  /\ got' = [i \in Slots |-> IF i \in S THEN <<>> ELSE got[i]]
  /\ used' = [i \in Slots |-> used[i] /\ i \notin S]

-----------------------------------------------------------------------------
(* StartListening opens the port first ... *)

StartListening ==
  /\ phase = "new"
  /\ phase' = "starting"
  /\ port' = TRUE
  /\ UNCHANGED <<pend, conns, remote, used, got, app, dialer, net>>

\* ... and the listener and its slots after that.
FinishListening ==
  /\ phase = "starting"
  /\ phase' = "open"
  /\ conns' = [i \in Slots |-> FreedConn]
  /\ Free(Slots)
  /\ UNCHANGED <<port, pend, app, dialer, net>>

-----------------------------------------------------------------------------
(* recv *)

IsFirstSyn(pkt) == pkt.seg.Flags = {"SYN"} /\ pkt.seg.ACK = 0

Available(i) == ~used[i] /\ ConnState(conns[i]) = "Listen"

\* The slots at which the loop stops, for a packet from c.
Chosen(pkt, c) ==
  {i \in Slots : (IsFirstSyn(pkt) /\ Available(i)) \/ remote[i] = c}

FirstOf(S) == CHOOSE i \in S : \A j \in S : i <= j

\* TCPConn.recv ignores a packet that is not from its remote, if it has one.
RecvSlot(i, pkt, c) ==
  IF remote[i] \notin {NoClient, c} /\ ~IsClosed(conns[i].scb.state)
  THEN RecvResult(conns[i], "nil")
  ELSE RecvPacket(conns[i], pkt)

\* The packet goes to slot i.  A slot whose first SYN ends it is not reopened.
RecvAt(i, pkt, c) ==
  LET res == RecvSlot(i, pkt, c)
      eof == res.err = "EOF"
      taker == IsFirstSyn(pkt) /\ Available(i)
  IN  /\ conns' = [conns EXCEPT ![i] =
                     IF eof /\ taker THEN FreshConn ELSE IF eof THEN FreedConn ELSE res.conn]
      /\ IF eof THEN Free({i})
         ELSE /\ remote' = [remote EXCEPT ![i] =
                              IF @ = NoClient /\ res.conn.remote THEN c ELSE @]
              /\ UNCHANGED <<used, got>>

\* RecvEth of a packet from c.  A listener that is not open yet closes the port.
RecvEth(c) ==
  LET pkt == Head(toServer[c])
      S   == Chosen(pkt, c)
  IN  /\ toServer[c] # <<>>
      /\ toServer' = [toServer EXCEPT ![c] = Tail(@)]
      /\ pend' = (pend \/ port)
      /\ port' = (port /\ IsOpen)
      /\ IF port /\ IsOpen /\ S # {} THEN RecvAt(FirstOf(S), pkt, c)
         ELSE UNCHANGED <<conns, remote, used, got>>
      /\ UNCHANGED <<phase, app, dialer, toClient>>

-----------------------------------------------------------------------------
(* send *)

\* What the pending slots would write.
Outputs == [i \in {j \in Slots : IsPendingHandling(conns[j])} |-> SendPacket(conns[i])]

\* The slots that one call of send visits: up to the first that writes.
Visited(out) == {i \in DOMAIN out : \A j \in DOMAIN out : j < i => out[j].pkts = <<>>}

Writers(out) == {i \in Visited(out) : out[i].pkts # <<>>}

HasRoom(out) == \A i \in Writers(out) : Len(toClient[remote[i]]) < NetCap

\* HandleEth with an open listener, which always says that it is pending.
\* Whatever a slot returns without a packet is passed over.
HandleEth ==
  LET out    == Outputs
      ended  == {i \in Visited(out) : out[i].err = "EOF"}
      writer == Writers(out)
  IN  /\ pend /\ port /\ IsOpen /\ HasRoom(out)
      /\ conns' = [i \in Slots |-> IF i \in ended THEN FreedConn
                                   ELSE IF i \in Visited(out) THEN out[i].conn ELSE conns[i]]
      /\ Free(ended)
      /\ toClient' = [c \in Clients |->
                        IF \E i \in writer : remote[i] = c
                        THEN toClient[c] \o out[FirstOf(writer)].pkts ELSE toClient[c]]
      /\ pend' = (writer # {})
      /\ UNCHANGED <<phase, port, app, dialer, toServer>>

\* HandleEth when the port is closed or the listener not open.
HandleEthIdle ==
  /\ pend /\ ~(port /\ IsOpen)
  /\ pend' = FALSE
  /\ UNCHANGED <<phase, port, conns, remote, used, got, app, dialer, net>>

\* Three seconds go by on a slot that sends nothing.
Idle(i) ==
  /\ Late /\ ~conns[i].late
  /\ conns' = [conns EXCEPT ![i].late = TRUE]
  /\ UNCHANGED <<phase, port, pend, remote, used, got, app, dialer, net>>

-----------------------------------------------------------------------------
(* Users of the listener *)

\* Mutant of Acceptable: a connection is handed out before its client is up.
AcceptableEarly(i) == ~used[i] /\ ConnState(conns[i]) \in {"SynRcvd", "Established"}

Acceptable(i) == ~used[i] /\ ConnState(conns[i]) = "Established"

Accept(i) ==
  /\ IsOpen /\ Acceptable(i) /\ \A j \in Slots : Acceptable(j) => i <= j
  /\ used' = [used EXCEPT ![i] = TRUE]
  /\ handles' = handles \union {<<i, remote[i]>>}
  /\ UNCHANGED <<phase, port, pend, conns, remote, got, mixed, dialer, net>>

\* Handles that somebody still calls.
MayUse(h) == StaleCalls \/ (used[h[1]] /\ remote[h[1]] = h[2])

\* Read of everything in the slot's buffer.
Read(h) ==
  LET rx == conns[h[1]].rx
  IN  /\ MayUse(h) /\ PipeOpen(conns[h[1]]) /\ rx # <<>>
      /\ conns' = [conns EXCEPT ![h[1]].rx = <<>>]
      /\ got' = [got EXCEPT ![h[1]] = @ \o rx]
      /\ mixed' = (mixed \/ \E k \in DOMAIN rx : rx[k][1] # h[2])
      /\ UNCHANGED <<phase, port, pend, remote, used, handles, dialer, net>>

\* Close, after which the handle is put away.
CloseHandle(h) ==
  LET res == CloseConn(conns[h[1]])
  IN  /\ MayUse(h)
      /\ conns' = [conns EXCEPT ![h[1]] = res.conn]
      /\ pend' = (pend \/ (res.ok /\ port))
      /\ handles' = handles \ {h}
      /\ UNCHANGED <<phase, port, remote, used, got, mixed, dialer, net>>

-----------------------------------------------------------------------------
(* Clients: TCPConns whose stacks call HandleEth whenever there is need. *)

Dial(c) ==
  /\ cport[c] = "new" /\ (Hasty \/ IsOpen)
  /\ cport' = [cport EXCEPT ![c] = "open"]
  /\ client' = [client EXCEPT ![c] = OpenConn(@, "SynSent", ClientISS)]
  /\ UNCHANGED <<server, app, net>>

ClientRecv(c) ==
  LET res == RecvPacket(client[c], Head(toClient[c]))
      eof == res.err = "EOF"
  IN  /\ toClient[c] # <<>>
      /\ toClient' = [toClient EXCEPT ![c] = Tail(@)]
      /\ IF cport[c] = "open"
         THEN /\ client' = [client EXCEPT ![c] = IF eof THEN FreshConn ELSE res.conn]
              /\ cport' = [cport EXCEPT ![c] = IF eof THEN "gone" ELSE @]
         ELSE UNCHANGED <<client, cport>>
      /\ UNCHANGED <<server, app, toServer>>

ClientSend(c) ==
  LET res == SendPacket(client[c])
      shut == res.err \in {"EOF", "error"}
  IN  /\ cport[c] = "open" /\ IsPendingHandling(client[c]) /\ Len(toServer[c]) < NetCap
      /\ toServer' = [toServer EXCEPT ![c] = @ \o res.pkts]
      /\ client' = [client EXCEPT ![c] = IF shut THEN FreshConn ELSE res.conn]
      /\ cport' = [cport EXCEPT ![c] = IF shut THEN "gone" ELSE @]
      /\ UNCHANGED <<server, app, toClient>>

\* A client writes what it has to say and closes.
ClientWrite(c) ==
  /\ cport[c] = "open" /\ client[c].scb.state = "Established" /\ ~client[c].closing
  /\ client' = [client EXCEPT ![c] =
                  CloseConn([@ EXCEPT !.tx = [k \in 1 .. ClientBytes |-> <<c, k>>]]).conn]
  /\ UNCHANGED <<cport, server, app, net>>

\* Three seconds without an answer to a SYN.
Resend(c) ==
  /\ Resends /\ cport[c] = "open"
  /\ AwaitingSyn(client[c]) /\ ~client[c].late
  /\ client' = [client EXCEPT ![c].late = TRUE]
  /\ UNCHANGED <<cport, server, app, net>>

Client(c) == ClientRecv(c) \/ ClientSend(c) \/ ClientWrite(c)

User == (\E i \in Slots : Accept(i)) \/ (\E h \in handles : Read(h) \/ CloseHandle(h))

Next ==
  \/ StartListening \/ FinishListening
  \/ HandleEth \/ HandleEthIdle \/ User
  \/ \E i \in Slots : Idle(i)
  \/ \E c \in Clients : Dial(c) \/ RecvEth(c) \/ Client(c) \/ Resend(c)

Spec == Init /\ [][Next]_vars

CanHandle == pend /\ (port /\ IsOpen => HasRoom(Outputs))

CanSend(c) ==
  cport[c] = "open" /\ IsPendingHandling(client[c]) /\ Len(toServer[c]) < NetCap

\* The goroutines keep running, time passes, and the interface loops of all stacks
\* keep calling RecvEth and HandleEth.  The latter is weak fairness with the
\* condition under which the action is enabled written out: TLC cannot evaluate
\* ENABLED of a whole RecvPacket in reasonable time.
Fairness ==
  /\ WF_vars(StartListening) /\ WF_vars(FinishListening) /\ WF_vars(User)
  /\ []<>~CanHandle \/ []<><<HandleEth \/ HandleEthIdle>>_vars
  /\ \A i \in Slots : WF_vars(Idle(i))
  /\ \A c \in Clients :
       /\ WF_vars(Dial(c)) /\ WF_vars(ClientWrite(c)) /\ WF_vars(Resend(c))
       /\ []<>(toServer[c] = <<>>) \/ []<><<RecvEth(c)>>_vars
       /\ []<>(toClient[c] = <<>>) \/ []<><<ClientRecv(c)>>_vars
       /\ []<>~CanSend(c) \/ []<><<ClientSend(c)>>_vars

FairSpec == Spec /\ Fairness

-----------------------------------------------------------------------------
(* Properties *)

\* The listener, its slots and its users agree on who is served where: a slot
\* has a remote exactly while its connection knows one.
TypeOK ==
  /\ phase \in {"new", "starting", "open"} /\ {port, pend} \subseteq BOOLEAN
  /\ \A i \in Slots :
       /\ conns[i].scb \in ControlBlocks /\ Len(conns[i].rx) <= RxCap
       /\ remote[i] \in Clients \union {NoClient} /\ used[i] \in BOOLEAN
       /\ conns[i].remote <=> remote[i] # NoClient
  /\ handles \subseteq Slots \X Clients

\* What comes out of a slot was written by its remote, from the first byte on
\* and in order, whoever used the slot before.
SlotStream ==
  \A i \in Slots :
    LET stream == got[i] \o conns[i].rx
    IN  \A k \in DOMAIN stream : stream[k] = <<remote[i], k>>

\* recv: "Get first available connection in list for first SYN packet".  No two
\* slots serve the same remote.
OneSlotPerRemote ==
  \A i, j \in Slots : remote[i] = remote[j] /\ i # j => remote[i] = NoClient

\* A connection that Accept has handed out has a client that knows of it.
AcceptedAreUp ==
  \A i \in Slots : used[i] /\ remote[i] # NoClient => client[remote[i]].scb.state # "SynSent"

\* TCPConn: "This disambiguate's whether Read and Write calls belong to the
\* current connection".  A handle reads what its own client wrote.
ReadsOwn == ~mixed

\* A client that keeps sending its SYN is connected in the end, also when all
\* slots are taken at first.
Connects == \A c \in Clients : cport[c] = "open" ~> client[c].scb.state # "SynSent"

\* Every slot that has served a client becomes available again.
SlotsReturn == \A i \in Slots : remote[i] # NoClient ~> Available(i)
=============================================================================

-------------------------------- MODULE Dhcp --------------------------------
(***************************************************************************)
(* DHCP clients and servers on one Ethernet segment, each the handler of a *)
(* UDP port of its own stack.  All messages are broadcast; clients tell    *)
(* theirs by the transaction number, servers by the server address.  The   *)
(* stacks have no address yet, so their PortStacks take every message.     *)
(***************************************************************************)
EXTENDS Naturals

CONSTANTS
  Clients, Servers,  \* the stacks, standing for their hardware and server addresses
  Segments,          \* the stacks that may share the segment, and the faults it may have
  Xid,               \* DHCPRequestConfig.Xid, by client
  Requested,         \* DHCPRequestConfig.RequestedAddr, by client
  Identifying,       \* the servers whose replies carry the server identification option
  None,              \* no address, no packet
  Broadcast,         \* the server address a client starts with
  Traffic,           \* whether other UDP ports of the clients are in use
  Aborters           \* the clients whose users may call Abort

Addrs == {Requested[c] : c \in Clients} \ {None}

ASSUME DhcpAssumption ==
  /\ \A c \in Clients : Xid[c] \in Nat \ {0}
  /\ None \notin Servers /\ Broadcast \notin Servers
  /\ Clients \intersect Servers = {}
  /\ Segments \subseteq [stacks : SUBSET (Clients \union Servers), faults : Nat]
  /\ Identifying \subseteq Servers
  /\ Traffic \in BOOLEAN /\ Aborters \subseteq Clients

States == {"None", "WaitOffer", "GotOffer", "WaitAck", "Done", "Aborted", "Naked"}

Types == {"Discover", "Offer", "Request", "Ack", "Nak"}

Messages ==
  [to : Clients \union Servers, from : Clients \union Servers, type : Types,
   xid : {0} \union {Xid[c] : c \in Clients}, siaddr : Servers \union {Broadcast, None},
   yiaddr : Addrs \union {None}, req : Addrs \union {None},
   sid : Servers \union {Broadcast, None}]

VARIABLES
  up,       \* the stacks that take part
  cl,       \* the DHCPClient of each client
  open,     \* whether its UDP port is open
  pend,     \* pendingUDPv4 > 0 on its stack
  user,     \* where its user is in BeginRequest
  hosts,    \* DHCPServer.hosts, by server and client
  inbox,    \* lastPacket if hasPacket, by server
  alive,    \* FALSE after a panic, by server
  net,      \* messages under way
  acked,    \* the clients each server has acknowledged
  faults,   \* bound: messages that may yet be lost or duplicated
  excused   \* whether anything happened that nobody makes up for

vars == <<up, cl, open, pend, user, hosts, inbox, alive, net, acked, faults, excused>>

Init ==
  /\ \E seg \in Segments : up = seg.stacks /\ faults = seg.faults
  /\ cl = [c \in Clients |-> [state |-> "None", xid |-> 0, svip |-> None, offer |-> None,
                              req |-> None]]
  /\ open = [c \in Clients |-> FALSE]
  /\ pend = [c \in Clients |-> FALSE]
  /\ user = [c \in Clients |-> "new"]
  /\ hosts = [s \in Servers |-> [c \in Clients |-> [addr |-> None, state |-> "None"]]]
  /\ inbox = [s \in Servers |-> None]
  /\ alive = [s \in Servers |-> TRUE]
  /\ net = {}
  /\ acked = [s \in Servers |-> {}]
  /\ excused = FALSE

serverVars == <<up, hosts, inbox, alive, acked>>

-----------------------------------------------------------------------------
(* The user of a client *)

\* BeginRequest: OpenUDP, ...
BeginRequest(c) ==
  /\ c \in up /\ user[c] # "opening" /\ cl[c].state = "None" /\ ~open[c]
  /\ open' = [open EXCEPT ![c] = TRUE]
  /\ user' = [user EXCEPT ![c] = "opening"]
  /\ UNCHANGED <<cl, pend, serverVars, net, faults, excused>>

\* ... then the fields of the request, then FlagPendingUDP.
Configure(c) ==
  /\ user[c] = "opening"
  /\ user' = [user EXCEPT ![c] = "begun"]
  /\ cl' = [cl EXCEPT ![c].state = "None", ![c].xid = Xid[c], ![c].svip = Broadcast,
                      ![c].req = Requested[c]]
  /\ pend' = [pend EXCEPT ![c] = @ \/ open[c]]
  /\ UNCHANGED <<open, serverVars, net, faults, excused>>

Abort(c) ==
  /\ c \in up \intersect Aborters /\ user[c] # "opening" /\ cl[c].state # "Aborted"
  /\ cl' = [cl EXCEPT ![c].state = "Aborted"]
  /\ UNCHANGED <<open, pend, user, serverVars, net, faults, excused>>

\* A packet for, or a flag of, another UDP port of the client's stack.
OtherTraffic(c) ==
  /\ Traffic /\ ~pend[c] /\ open[c]
  /\ pend' = [pend EXCEPT ![c] = TRUE]
  /\ UNCHANGED <<cl, open, user, serverVars, net, faults, excused>>

-----------------------------------------------------------------------------
(* The client as a handler *)

\* isPendingHandling
ClientPending(c) == open[c] /\ cl[c].state \in {"Aborted", "None", "GotOffer"}

\* The header of the client with the options for an address and for a server.
ToServers(c, type, req, sid) ==
  {[to |-> s, from |-> c, type |-> type, xid |-> cl[c].xid, siaddr |-> cl[c].svip,
    yiaddr |-> cl[c].offer, req |-> req, sid |-> sid] : s \in up \intersect Servers}

\* send.  A Discover that leaves before the request is configured has the wrong
\* transaction number, and the server will not take another.
ClientSend(c) ==
  /\ pend[c] /\ ClientPending(c)
  /\ \/ /\ cl[c].state = "Aborted"
        /\ open' = [open EXCEPT ![c] = FALSE]
        /\ UNCHANGED <<cl, net, excused>>
     \/ /\ cl[c].state = "None"
        /\ net' = net \union ToServers(c, "Discover", cl[c].req, None)
        /\ cl' = [cl EXCEPT ![c].state = "WaitOffer"]
        /\ excused' = (excused \/ user[c] = "opening")
        /\ UNCHANGED open
     \/ /\ cl[c].state = "GotOffer"
        /\ net' = net \union ToServers(c, "Request", cl[c].offer, cl[c].svip)
        /\ cl' = [cl EXCEPT ![c].state = "WaitAck"]
        /\ UNCHANGED <<open, excused>>
  /\ UNCHANGED <<pend, user, serverVars, faults>>

\* HandleEth finds nothing to do and takes the flag down.
ClientQuiet(c) ==
  /\ pend[c] /\ ~ClientPending(c)
  /\ pend' = [pend EXCEPT ![c] = FALSE]
  /\ UNCHANGED <<cl, open, user, serverVars, net, faults, excused>>

\* Mutant: any transaction will do.
MineAny(c, m) == m.xid # 0 /\ c \in Clients

\* Whether a client takes up a message.
Mine(c, m) == m.xid = cl[c].xid

\* Mutant: the server is remembered only if it sends its option.
ServerOfOption(d, m) == IF m.sid # None THEN m.sid ELSE d.svip

\* The server a client takes a message to be from: the one in the header if it
\* waits for an offer, and in every state the one in the option if there is one.
\* Options of another length than an address's, which set none, nobody sends.
ServerOf(d, m) ==
  IF m.sid # None THEN m.sid ELSE IF d.state = "WaitOffer" THEN m.siaddr ELSE d.svip

\* What recv makes of a message with the client's transaction number; the type
\* of what comes for an offer is not looked at.
Received(d, m) ==
  LET r == [d EXCEPT !.svip = ServerOf(d, m)]
  IN  CASE d.state = "WaitOffer" -> [r EXCEPT !.state = "GotOffer", !.offer = m.yiaddr]
        [] d.state = "WaitAck" /\ m.type = "Ack" -> [r EXCEPT !.state = "Done"]
        [] d.state = "WaitAck" /\ m.type = "Nak" -> [r EXCEPT !.state = "Naked"]
        [] OTHER -> r

\* A bound client reads the options of one more message before it closes its port.
ClientRecv(c, m) ==
  /\ \/ /\ ~open[c]
        /\ UNCHANGED <<cl, open, pend>>
     \/ /\ open[c]
        /\ pend' = [pend EXCEPT ![c] = TRUE]
        /\ LET aborted == cl[c].state = "Aborted"
               eof     == aborted \/ (Mine(c, m) /\ cl[c].state = "Done")
           IN  /\ open' = [open EXCEPT ![c] = ~eof]
               /\ cl' = [cl EXCEPT ![c] = IF Mine(c, m) /\ ~aborted THEN Received(@, m) ELSE @]
  /\ UNCHANGED <<user, serverVars, excused>>

-----------------------------------------------------------------------------
(* The server *)

\* recv keeps one packet, and drops the next until that one is handled.
ServerRecv(s, m) ==
  /\ inbox' = [inbox EXCEPT ![s] = IF @ = None /\ alive[s] THEN m ELSE @]
  /\ excused' = (excused \/ inbox[s] # None \/ ~alive[s])
  /\ UNCHANGED <<up, cl, open, pend, user, hosts, alive, acked>>

\* Mutant: a server answers whatever is not broadcast.
ForOtherBroadcast(s, m) == m.type # "Discover" /\ m.siaddr = Broadcast /\ s \in Servers

\* A message for another server, which is not answered.
ForOther(s, m) == m.type # "Discover" /\ m.siaddr # s

\* The reply, which echoes the header of the message.  DHCPServer does not send
\* its identification; the servers that do are taken to be like it otherwise.
ToClients(s, m, type, siaddr, yiaddr) ==
  {[m EXCEPT !.to = c, !.from = s, !.type = type, !.siaddr = siaddr, !.yiaddr = yiaddr,
             !.req = None, !.sid = IF s \in Identifying THEN s ELSE None] :
     c \in up \intersect Clients}

\* HandleUDP.  A client is offered the address it asks for; one that asks for
\* none makes As4 panic.  Whoever was offered an address is not offered another,
\* and what a Request asks for is not compared with the offer.
ServerSend(s) ==
  LET m    == inbox[s]
      host == hosts[s][m.from]
      addr == IF host.state = "None" /\ m.req # None THEN m.req ELSE host.addr
  IN  /\ m # None /\ alive[s]
      /\ inbox' = [inbox EXCEPT ![s] = None]
      /\ \/ /\ ForOther(s, m)
            /\ UNCHANGED <<hosts, alive, net, acked, excused>>
         \/ /\ ~ForOther(s, m) /\ m.type = "Discover"
            /\ \/ /\ host.state # "None"
                  /\ excused' = TRUE
                  /\ UNCHANGED <<hosts, alive, net>>
               \/ /\ host.state = "None" /\ addr = None
                  /\ alive' = [alive EXCEPT ![s] = FALSE]
                  /\ UNCHANGED <<hosts, net, excused>>
               \/ /\ host.state = "None" /\ addr # None
                  /\ hosts' = [hosts EXCEPT ![s][m.from] = [addr |-> addr, state |-> "WaitOffer"]]
                  /\ net' = net \union ToClients(s, m, "Offer", s, addr)
                  /\ UNCHANGED <<alive, excused>>
            /\ UNCHANGED acked
         \/ /\ ~ForOther(s, m) /\ m.type = "Request"
            /\ IF host.state = "WaitOffer"
               THEN /\ net' = net \union ToClients(s, m, "Ack", m.siaddr, m.yiaddr)
                    /\ acked' = [acked EXCEPT ![s] = @ \union {m.from}]
               ELSE UNCHANGED <<net, acked>>
            /\ UNCHANGED <<hosts, alive, excused>>
      /\ UNCHANGED <<up, cl, open, pend, user, faults>>

-----------------------------------------------------------------------------
(* The segment *)

\* A message arrives; one that is duplicated stays to arrive again.
Deliver(m) ==
  /\ \/ m.to \in Clients /\ ClientRecv(m.to, m)
     \/ m.to \in Servers /\ ServerRecv(m.to, m)
  /\ \/ net' = net \ {m} /\ UNCHANGED faults
     \/ faults > 0 /\ faults' = faults - 1 /\ UNCHANGED net

Lose(m) ==
  /\ faults > 0
  /\ faults' = faults - 1
  /\ net' = net \ {m}
  /\ excused' = TRUE
  /\ UNCHANGED <<cl, open, pend, user, serverVars>>

DeliverAny == \E m \in net : Deliver(m)

Client(c) == BeginRequest(c) \/ Configure(c)

Next ==
  \/ \E c \in Clients :
       Client(c) \/ Abort(c) \/ OtherTraffic(c) \/ ClientSend(c) \/ ClientQuiet(c)
  \/ \E s \in Servers : ServerSend(s)
  \/ DeliverAny
  \/ \E m \in net : Lose(m)

Spec == Init /\ [][Next]_vars

\* The stacks keep calling RecvEth and HandleEth and BeginRequest finishes.
FairSpec ==
  /\ Spec
  /\ \A c \in Clients :
       WF_vars(Configure(c)) /\ WF_vars(ClientSend(c) \/ ClientQuiet(c))
  /\ \A s \in Servers : WF_vars(ServerSend(s))
  /\ WF_vars(DeliverAny)

-----------------------------------------------------------------------------
(* Properties *)

\* Clients, servers and messages stay well formed.
TypeOK ==
  /\ \A c \in Clients :
       /\ cl[c].state \in States /\ cl[c].xid \in {0, Xid[c]}
       /\ cl[c].svip \in Servers \union {Broadcast, None}
       /\ cl[c].offer \in Addrs \union {None}
       /\ cl[c].state \in {"GotOffer", "WaitAck", "Done"} => cl[c].svip \in Servers
  /\ \A s \in Servers : inbox[s] \in Messages \union {None}
  /\ net \subseteq Messages

\* A client that is bound has the address that the server it knows as its own
\* keeps for it, and that server has acknowledged it, whatever was duplicated,
\* delayed or sent for other clients and by other servers.  The message after
\* that, which closes the port, may still put another server that made an offer
\* in its place.
BoundByChosen ==
  \A c \in Clients :
    user[c] = "begun" /\ cl[c].state = "Done" =>
      /\ open[c] => c \in acked[cl[c].svip]
      /\ hosts[cl[c].svip][c] = [addr |-> cl[c].offer, state |-> "WaitOffer"]

\* A client that has begun is bound, unless it is aborted, a message is lost, the
\* server drops one because it has another to handle, or gets a second Discover.
Binds ==
  \A c \in Clients :
    (user[c] = "begun" /\ cl[c].state = "None") ~> (cl[c].state \in {"Done", "Aborted"} \/ excused)

\* BeginRequest: "already started, call Abort() first".  A client that was
\* aborted can begin again.
RestartsAfterAbort ==
  \A c \in Clients : (cl[c].state = "Aborted") ~> (cl[c].state = "None")

\* recv: "We got a valid response, close socket."
DoneCloses ==
  \A c \in Clients : (user[c] = "begun" /\ cl[c].state = "Done") ~> ~open[c]

\* send and recv: "Accept this server's offer."  A client stays with the server
\* whose offer it took up.
KeepsServer ==
  [][\A c \in Clients : cl[c].state \in {"GotOffer", "WaitAck", "Done"} =>
       cl'[c].svip = cl[c].svip]_vars

\* No server panics.
ServersAlive == \A s \in Servers : alive[s]
=============================================================================

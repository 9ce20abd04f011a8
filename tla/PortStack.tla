------------------------------ MODULE PortStack ------------------------------
(***************************************************************************)
(* The PortStack: its tables of UDP and TCP ports, the calls that open,    *)
(* flag and close them, the dispatch of received frames to their handlers  *)
(* and the loop in which HandleEth looks for a handler with a packet to    *)
(* send.  A handler is known by what isPendingHandling, recv and send      *)
(* answer: it is quiet, ready to write a packet, or waiting, which is      *)
(* pending without a packet to write yet.                                  *)
(***************************************************************************)
EXTENDS Integers

CONSTANTS
  Port,         \* the port numbers in use, none of them 0
  UDPHandlers,  \* iudphandler values
  TCPHandlers,  \* itcphandler values
  Nil,          \* no handler
  MaxUDP,       \* len(portsUDP)
  MaxTCP,       \* len(portsTCP)
  Concurrent,   \* whether user goroutines run in the middle of a HandleEth
  MaxWork       \* bound: packets received or taken up by handlers

Protos == {"udp", "tcp"}

HandlersOf(proto) == IF proto = "udp" THEN UDPHandlers ELSE TCPHandlers

Handlers == UDPHandlers \union TCPHandlers

ASSUME PortStackAssumption ==
  /\ Port \subseteq Nat \ {0}
  /\ UDPHandlers \intersect TCPHandlers = {}
  /\ Nil \notin Handlers
  /\ MaxUDP \in Nat /\ MaxTCP \in Nat /\ MaxWork \in Nat
  /\ Concurrent \in BOOLEAN

Index(proto) == 1 .. (IF proto = "udp" THEN MaxUDP ELSE MaxTCP)

Modes == {"quiet", "ready", "waiting"}

Errors == {"nil", "ErrFlagPending", "EOF", "error"}

\* A udpPort or tcpPort.  told is history: since the port was opened the stack
\* has been told that its handler is pending, and has not found it quiet since.
Slots(proto) ==
  [port : Port \union {0}, handler : HandlersOf(proto) \union {Nil}, told : BOOLEAN]

ClosedSlot == [port |-> 0, handler |-> Nil, told |-> FALSE]

\* What the headers of a received frame say, as far as RecvEth tells it apart.
Frames ==
  [mac : {"ours", "broadcast", "other"}, proto : Protos \union {"other"},
   ip : {"ours", "broadcast", "other"}, valid : BOOLEAN, port : Port]

VARIABLES
  tab,   \* portsUDP and portsTCP
  pend,  \* pendingUDPv4 > 0 and pendingTCPv4 > 0
  mode,  \* the state of each handler
  addr,  \* whether ps.ip is set
  arp,   \* arpClient.isPending()
  loop,  \* where HandleEth is: idle, or at the i-th port of a protocol
  work   \* packets received or taken up so far

vars == <<tab, pend, mode, addr, arp, loop, work>>

AtFirst(at) == [at |-> at, i |-> 1, pending |-> FALSE]

Idle == AtFirst("idle")

Loops == [at : Protos \union {"idle"}, i : Nat \ {0}, pending : BOOLEAN]

Init ==
  /\ tab = [proto \in Protos |-> [i \in Index(proto) |-> ClosedSlot]]
  /\ pend = [proto \in Protos |-> FALSE]
  /\ mode = [h \in Handlers |-> "quiet"]
  /\ addr = FALSE /\ arp = FALSE
  /\ loop = Idle
  /\ work = 0

-----------------------------------------------------------------------------
(* The port tables *)

First(S) == CHOOSE i \in S : \A j \in S : i <= j

\* findPort
HasPort(proto, p) == {i \in Index(proto) : tab[proto][i].port = p}

\* findAvailPort stops at the first port that is unused or has the number.
Candidates(proto, p) == HasPort(proto, p) \union HasPort(proto, 0)

Busy(h) == mode[h] # "quiet"

\* port.IsPendingHandling()
IsPending(slot) == slot.port # 0 /\ Busy(slot.handler)

\* tcpPort.Close aborts the handler; udpPort.Close does not.
ModeAfterClose(proto, m) == IF proto = "tcp" THEN "quiet" ELSE m

-----------------------------------------------------------------------------
(* User calls *)

\* User goroutines other than the one in HandleEth.
UserMayRun == Concurrent \/ loop = Idle

\* OpenUDP and OpenTCP
Open(proto, p, h) ==
  /\ UserMayRun
  /\ Candidates(proto, p) # {}
  /\ LET i == First(Candidates(proto, p))
     IN  /\ tab[proto][i].port = 0
         /\ tab' = [tab EXCEPT ![proto][i] = [port |-> p, handler |-> h, told |-> FALSE]]
  /\ UNCHANGED <<pend, mode, addr, arp, loop, work>>

\* FlagPendingUDP and FlagPendingTCP
FlagPending(proto, p) ==
  /\ UserMayRun
  /\ HasPort(proto, p) # {}
  /\ LET i == First(HasPort(proto, p))
     IN  tab' = [tab EXCEPT ![proto][i].told = Busy(tab[proto][i].handler)]
  /\ pend' = [pend EXCEPT ![proto] = TRUE]
  /\ UNCHANGED <<mode, addr, arp, loop, work>>

\* A mutant of Close: the handler is left in the closed port.
CloseKeepsHandler(proto, p) ==
  /\ UserMayRun
  /\ HasPort(proto, p) # {}
  /\ tab' = [tab EXCEPT ![proto][First(HasPort(proto, p))].port = 0]
  /\ UNCHANGED <<pend, mode, addr, arp, loop, work>>

\* CloseUDP and CloseTCP
Close(proto, p) ==
  /\ UserMayRun
  /\ HasPort(proto, p) # {}
  /\ LET i == First(HasPort(proto, p))
     IN  /\ mode' = [mode EXCEPT ![tab[proto][i].handler] = ModeAfterClose(proto, @)]
         /\ tab' = [tab EXCEPT ![proto][i] = ClosedSlot]
  /\ UNCHANGED <<pend, addr, arp, loop, work>>

\* A user call on a handler gives it something to send, now or later.
Work(h) ==
  /\ UserMayRun
  /\ mode[h] = "quiet" /\ work < MaxWork
  /\ \E m \in Modes \ {"quiet"} : mode' = [mode EXCEPT ![h] = m]
  /\ work' = work + 1
  /\ UNCHANGED <<tab, pend, addr, arp, loop>>

\* What a waiting handler waits for happens.
Wake(h) ==
  /\ mode[h] = "waiting"
  /\ mode' = [mode EXCEPT ![h] = "ready"]
  /\ UNCHANGED <<tab, pend, addr, arp, loop, work>>

SetAddr ==
  /\ UserMayRun
  /\ addr' = TRUE
  /\ UNCHANGED <<tab, pend, mode, arp, loop, work>>

\* The ARP client is asked to resolve, or has a request to reply to.
ArpWork ==
  /\ UserMayRun
  /\ ~arp /\ work < MaxWork
  /\ arp' = TRUE
  /\ work' = work + 1
  /\ UNCHANGED <<tab, pend, mode, addr, loop>>

-----------------------------------------------------------------------------
(* RecvEth *)

\* The frames that get past the checks of RecvEth; once the stack has an
\* address it takes no other, the broadcast address included.
ForUs(f) ==
  /\ f.mac # "other" /\ f.proto \in Protos /\ f.valid
  /\ addr => f.ip = "ours"

\* Every other frame changes nothing.  An error of the handler that is not EOF
\* leaves the port open.
RecvEth(f) ==
  /\ loop = Idle /\ work < MaxWork
  /\ ForUs(f) /\ HasPort(f.proto, f.port) # {}
  /\ work' = work + 1
  /\ pend' = [pend EXCEPT ![f.proto] = TRUE]
  /\ LET i == First(HasPort(f.proto, f.port))
         h == tab[f.proto][i].handler
     IN  \E m \in Modes, err \in Errors :
           \/ /\ err = "EOF"
              /\ mode' = [mode EXCEPT ![h] = ModeAfterClose(f.proto, m)]
              /\ tab' = [tab EXCEPT ![f.proto][i] = ClosedSlot]
           \/ /\ err # "EOF"
              /\ mode' = [mode EXCEPT ![h] = m]
              /\ tab' = [tab EXCEPT ![f.proto][i].told = (m # "quiet")]
  /\ UNCHANGED <<addr, arp, loop>>

-----------------------------------------------------------------------------
(* HandleEth *)

\* Where handleEth goes on when it is done with the protocols before this one.
Enter(proto, pending) ==
  IF proto = "udp" /\ pending["udp"] THEN AtFirst("udp")
  ELSE IF pending["tcp"] THEN AtFirst("tcp") ELSE Idle

\* The call starts with the ARP client, and ends there if it has a packet.
HandleEth ==
  /\ loop = Idle
  /\ arp \/ pend["udp"] \/ pend["tcp"]
  /\ arp' = FALSE
  /\ loop' = IF arp THEN Idle ELSE Enter("udp", pend)
  /\ UNCHANGED <<tab, pend, mode, addr, work>>

\* handleSocket on a port with nothing to handle
Skip(proto) ==
  LET i == loop.i
  IN  /\ loop.at = proto /\ i \in Index(proto)
      /\ ~IsPending(tab[proto][i])
      /\ tab' = [tab EXCEPT ![proto][i].told = FALSE]
      /\ loop' = [loop EXCEPT !.i = @ + 1]
      /\ UNCHANGED <<pend, mode, addr, arp, work>>

\* Where the loop is after a handler wrote nothing.
Onward(pending) == [loop EXCEPT !.i = @ + 1, !.pending = @ \/ pending]

\* handleSocket on one with something: send writes a packet if the handler is
\* ready, which ends the call, as an error other than EOF and ErrFlagPending
\* does; both of the other errors let what was written go out.
Send(proto) ==
  LET i == loop.i
      h == tab[proto][i].handler
      n == mode[h] = "ready"
  IN  /\ loop.at = proto /\ i \in Index(proto)
      /\ IsPending(tab[proto][i])
      /\ \E m \in Modes, err \in Errors :
           /\ m = "ready" => n
           /\ IF n /\ m # "quiet" THEN work < MaxWork /\ work' = work + 1 ELSE UNCHANGED work
           /\ \/ /\ err \in {"nil", "ErrFlagPending"}
                 /\ mode' = [mode EXCEPT ![h] = m]
                 /\ tab' = [tab EXCEPT ![proto][i].told = (m # "quiet")]
                 /\ loop' = IF n THEN Idle ELSE Onward(err = "ErrFlagPending" \/ m # "quiet")
              \/ /\ err \in {"EOF", "error"}
                 /\ mode' = [mode EXCEPT ![h] = ModeAfterClose(proto, m)]
                 /\ tab' = [tab EXCEPT ![proto][i] = ClosedSlot]
                 /\ loop' = IF n \/ err = "error" THEN Idle ELSE Onward(FALSE)
      /\ UNCHANGED <<pend, addr, arp>>

\* A mutant of KeepsPending: the slip of the TCP loop, made in the UDP loop.
KeepsPendingTCP(proto, pending) == proto = "tcp" /\ pending

\* Whether the flag of a protocol outlives a loop that wrote nothing.  The TCP
\* loop assigns a variable of its own where the UDP loop sets socketPending.
KeepsPending(proto, pending) == proto = "udp" /\ pending

EndLoop(proto) ==
  /\ loop.at = proto /\ loop.i \notin Index(proto)
  /\ pend' = [pend EXCEPT ![proto] = KeepsPending(proto, loop.pending)]
  /\ loop' = IF proto = "udp" THEN Enter("tcp", pend) ELSE Idle
  /\ UNCHANGED <<tab, mode, addr, arp, work>>

HandleStep == HandleEth \/ \E proto \in Protos : Skip(proto) \/ Send(proto) \/ EndLoop(proto)

User ==
  \/ \E proto \in Protos, p \in Port :
       \/ \E h \in HandlersOf(proto) : Open(proto, p, h)
       \/ FlagPending(proto, p) \/ Close(proto, p)
  \/ \E h \in Handlers : Work(h)
  \/ SetAddr \/ ArpWork

Next ==
  \/ User
  \/ \E h \in Handlers : Wake(h)
  \/ \E f \in Frames : RecvEth(f)
  \/ HandleStep

Spec == Init /\ [][Next]_vars

\* The program keeps calling HandleEth, and what handlers wait for happens.
FairSpec == Spec /\ WF_vars(HandleStep) /\ \A h \in Handlers : WF_vars(Wake(h))

-----------------------------------------------------------------------------
(* Properties *)

\* A port has a handler exactly while it is open.
SlotOK(proto, slot) ==
  /\ slot \in Slots(proto)
  /\ (slot.port = 0) <=> (slot.handler = Nil)
  /\ slot.told => slot.port # 0

TabOK ==
  /\ tab = [proto \in Protos |-> [i \in Index(proto) |-> tab[proto][i]]]
  /\ \A proto \in Protos : \A i \in Index(proto) : SlotOK(proto, tab[proto][i])

\* The tables stay well formed and the loop inside them, which HandleEth,
\* IsPendingHandling and the "nil handler" panics of the ports rely on.
TypeOK ==
  /\ TabOK
  /\ pend \in [Protos -> BOOLEAN] /\ mode \in [Handlers -> Modes]
  /\ addr \in BOOLEAN /\ arp \in BOOLEAN
  /\ loop \in Loops /\ work \in 0 .. MaxWork
  /\ \A proto \in Protos : loop.at = proto => loop.i - 1 \in Index(proto) \union {0}

Remembers(proto) ==
  \A i \in Index(proto) : tab[proto][i].told => pend[proto]

\* A pending UDP handler is not forgotten: once the stack has been told of it,
\* by a flag, a packet or a visit, the flag that makes HandleEth look for it
\* stays up until a visit finds it quiet.
RemembersUDP == Remembers("udp")

\* The same of TCP handlers, which the notes on PortStack handlers promise.
RemembersTCP == Remembers("tcp")

\* A UDP handler the stack has been told of is visited until it is quiet.
ServesUDP ==
  \A i \in Index("udp") : tab["udp"][i].told ~> ~tab["udp"][i].told

\* OpenUDP and OpenTCP refuse a port that is already open.
OpenOnce ==
  \A proto \in Protos : \A i, j \in Index(proto) :
    tab[proto][i].port = tab[proto][j].port /\ tab[proto][i].port # 0 => i = j
=============================================================================

--------------------------------- MODULE Arp ---------------------------------
(***************************************************************************)
(* The ARP clients of the stacks on one Ethernet segment.  Each resolves   *)
(* one address at a time for its user and answers the requests for its     *)
(* own; nothing is sent again.  The segment delays, reorders and loses.    *)
(***************************************************************************)
EXTENDS Naturals

CONSTANTS
  Nodes,     \* the stacks, each standing for its hardware address
  AddrOf,    \* the address a stack has or will be given, by stack
  Unset,     \* the zero address
  MaxBegin   \* bound: calls of BeginResolve

Addrs == {AddrOf[n] : n \in Nodes}

ASSUME ArpAssumption ==
  /\ AddrOf \in [Nodes -> Addrs]
  /\ \A m, n \in Nodes : AddrOf[m] = AddrOf[n] => m = n
  /\ Unset \notin Addrs
  /\ MaxBegin \in Nat

\* ARPv4Header.Operation, with arpOpWait
Ops == {"none", "request", "reply", "wait"}

Headers ==
  [op : Ops, protoSender : Addrs \union {Unset}, hwSender : Nodes,
   protoTarget : Addrs \union {Unset}, hwTarget : Nodes]

VARIABLES
  ip,        \* ps.ip
  result,    \* arpClient.result
  response,  \* arpClient.pendingResponse
  net,       \* headers under way, with the stack they will reach
  asked,     \* the address in the last BeginResolve
  begun,     \* calls of BeginResolve so far
  excused    \* whether anything happened that an ARP client does not make up for

vars == <<ip, result, response, net, asked, begun, excused>>

\* The zero ARPv4Header of a stack; its hardware addresses are not looked at.
NoHeader(n) ==
  [op |-> "none", protoSender |-> Unset, hwSender |-> n, protoTarget |-> Unset, hwTarget |-> n]

Init ==
  /\ ip \in {f \in [Nodes -> Addrs \union {Unset}] : \A n \in Nodes : f[n] \in {AddrOf[n], Unset}}
  /\ result = [n \in Nodes |-> NoHeader(n)]
  /\ response = [n \in Nodes |-> NoHeader(n)]
  /\ net = {}
  /\ asked = [n \in Nodes |-> Unset]
  /\ begun = 0 /\ excused = FALSE

-----------------------------------------------------------------------------
(* The user *)

\* The header of a request; its target's hardware address is not looked at.
Question(n, a) ==
  [op |-> "request", protoSender |-> ip[n], hwSender |-> n, protoTarget |-> a, hwTarget |-> n]

BeginResolve(n, a) ==
  /\ begun < MaxBegin
  /\ begun' = begun + 1
  /\ result' = [result EXCEPT ![n] = Question(n, a)]
  /\ asked' = [asked EXCEPT ![n] = a]
  /\ UNCHANGED <<ip, response, net, excused>>

Abort(n) ==
  /\ result' = [result EXCEPT ![n] = NoHeader(n)]
  /\ UNCHANGED <<ip, response, net, asked, begun, excused>>

\* A stack is given its address, perhaps between a request and its reply.
SetAddr(n) ==
  /\ ip[n] = Unset
  /\ ip' = [ip EXCEPT ![n] = AddrOf[n]]
  /\ excused' = TRUE
  /\ UNCHANGED <<result, response, net, asked, begun>>

-----------------------------------------------------------------------------
(* HandleEth and RecvEth *)

PendingOutReq(n) == result[n].op = "request"

PendingReply(n) == response[n].op = "reply"

\* handle: the user's request goes out first, to everyone.
HandleRequest(n) ==
  /\ PendingOutReq(n)
  /\ net' = net \union {[to |-> m, hdr |-> result[n]] : m \in Nodes \ {n}}
  /\ result' = [result EXCEPT ![n].op = "wait"]
  /\ UNCHANGED <<ip, response, asked, begun, excused>>

HandleReply(n) ==
  /\ ~PendingOutReq(n) /\ PendingReply(n)
  /\ net' = net \union {[to |-> response[n].hwTarget, hdr |-> response[n]]}
  /\ response' = [response EXCEPT ![n].op = "none"]
  /\ UNCHANGED <<ip, result, asked, begun, excused>>

\* recv of a request: only one reply is kept, and a request for our address
\* that arrives meanwhile is dropped.
RecvRequest(n, hdr) ==
  /\ hdr.op = "request"
  /\ IF PendingReply(n) \/ hdr.protoTarget # ip[n]
     THEN /\ excused' = (excused \/ hdr.protoTarget = ip[n])
          /\ UNCHANGED response
     ELSE /\ response' = [response EXCEPT ![n] =
                            [op |-> "reply", protoSender |-> ip[n], hwSender |-> n,
                             protoTarget |-> hdr.protoSender, hwTarget |-> hdr.hwSender]]
          /\ UNCHANGED excused
  /\ UNCHANGED result

\* Mutants of Expected: any reply to us will do, or it must come before the
\* request is sent.
ExpectedAny(n, hdr) == result[n].op = "wait" /\ hdr.protoTarget = ip[n]

ExpectedUnsent(n, hdr) ==
  /\ result[n].op = "request"
  /\ hdr.protoTarget = ip[n]
  /\ hdr.protoSender = result[n].protoTarget

\* Whether a reply is the one the last request waits for.
Expected(n, hdr) ==
  /\ result[n].op = "wait"
  /\ hdr.protoTarget = ip[n]
  /\ hdr.protoSender = result[n].protoTarget

RecvReply(n, hdr) ==
  /\ hdr.op = "reply"
  /\ result' = [result EXCEPT ![n] = IF Expected(n, hdr) THEN hdr ELSE @]
  /\ UNCHANGED <<response, excused>>

Recv(n, pkt) ==
  /\ pkt \in net /\ pkt.to = n
  /\ net' = net \ {pkt}
  /\ RecvRequest(n, pkt.hdr) \/ RecvReply(n, pkt.hdr)
  /\ UNCHANGED <<ip, asked, begun>>

Lose(pkt) ==
  /\ net' = net \ {pkt}
  /\ excused' = TRUE
  /\ UNCHANGED <<ip, result, response, asked, begun>>

Handle(n) == HandleRequest(n) \/ HandleReply(n)

RecvAny(n) == \E pkt \in net : Recv(n, pkt)

Next ==
  \/ \E n \in Nodes :
       \/ \E a \in Addrs : BeginResolve(n, a)
       \/ Abort(n) \/ SetAddr(n) \/ Handle(n) \/ RecvAny(n)
  \/ \E pkt \in net : Lose(pkt)

Spec == Init /\ [][Next]_vars

\* Every stack keeps calling RecvEth and HandleEth, and a packet on the segment
\* is received or lost.
FairSpec ==
  /\ Spec
  /\ \A n \in Nodes : WF_vars(Handle(n)) /\ WF_vars(RecvAny(n))

-----------------------------------------------------------------------------
(* Properties *)

\* Headers stay well formed, and what is pending is one of our own replies.
TypeOK ==
  /\ ip \in [Nodes -> Addrs \union {Unset}] /\ \A n \in Nodes : ip[n] \in {AddrOf[n], Unset}
  /\ result \in [Nodes -> Headers] /\ response \in [Nodes -> Headers]
  /\ \A n \in Nodes : response[n].op \in {"none", "reply"}
  /\ net \subseteq [to : Nodes, hdr : Headers]
  /\ asked \in [Nodes -> Addrs \union {Unset}]
  /\ begun \in 0 .. MaxBegin /\ excused \in BOOLEAN

\* When IsDone, the result is the hardware address of the stack that has the
\* address asked for last, however late the replies to earlier and aborted
\* requests arrive.
ResolvedIsAsked ==
  \A n \in Nodes :
    result[n].op = "reply" =>
      /\ result[n].protoSender = asked[n]
      /\ AddrOf[result[n].hwSender] = asked[n]

\* A request for an address that a stack has is answered, unless a packet was
\* lost, an address changed, or the request met a stack that had a reply to
\* send: nothing else stalls the client.
Resolves ==
  \A n \in Nodes : \A m \in Nodes \ {n} :
    (result[n].op = "request" /\ asked[n] = AddrOf[m] /\ ip[m] = AddrOf[m])
      ~> (result[n].op \in {"none", "reply"} \/ asked[n] # AddrOf[m] \/ excused)
=============================================================================

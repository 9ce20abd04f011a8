------------------------------ MODULE ArpProofs ------------------------------
(* Proofs about Arp: what a client reports as resolved is the answer to the   *)
(* last question, for any number of stacks and requests under way.            *)
EXTENDS Arp, TLAPS

\* Replies tell the truth about the stack they come from.
Truthful(hdr) == AddrOf[hdr.hwSender] = hdr.protoSender

\* Until it is answered, result holds the question.
HoldsQuestion ==
  \A n \in Nodes : result[n].op \in {"request", "wait"} => result[n].protoTarget = asked[n]

\* Nobody asks for the zero address, so a stack without an address never answers.
AsksForAddrs ==
  /\ \A n \in Nodes : result[n].op = "request" => result[n].protoTarget \in Addrs
  /\ \A pkt \in net : pkt.hdr.op = "request" => pkt.hdr.protoTarget \in Addrs

RepliesTruthful ==
  /\ \A n \in Nodes : response[n].op = "reply" => Truthful(response[n])
  /\ \A pkt \in net : pkt.hdr.op = "reply" => Truthful(pkt.hdr)

IInv == TypeOK /\ ResolvedIsAsked /\ HoldsQuestion /\ AsksForAddrs /\ RepliesTruthful

USE DEF Truthful

\* The zero header is a header.
LEMMA NoHeaderType ==
  ASSUME NEW n \in Nodes
  PROVE  NoHeader(n) \in Headers /\ NoHeader(n).op = "none"
  BY DEF NoHeader, Headers, Ops

\* The invariant holds initially.
LEMMA InitInv == Init => IInv
  <1> SUFFICES ASSUME Init PROVE IInv
    OBVIOUS
  <1>1. \A n \in Nodes : /\ result[n] \in Headers /\ result[n].op = "none"
                         /\ response[n] \in Headers /\ response[n].op = "none"
    BY NoHeaderType DEF Init
  <1>2. TypeOK
    <2>1. ip \in [Nodes -> Addrs \union {Unset}] /\ \A n \in Nodes : ip[n] \in {AddrOf[n], Unset}
      BY DEF Init
    <2>2. result \in [Nodes -> Headers] /\ response \in [Nodes -> Headers]
      BY NoHeaderType DEF Init
    <2>3. asked \in [Nodes -> Addrs \union {Unset}] /\ excused \in BOOLEAN
      BY DEF Init
    <2>4. begun \in 0 .. MaxBegin
      BY ArpAssumption DEF Init
    <2> QED BY <1>1, <2>1, <2>2, <2>3, <2>4 DEF Init, TypeOK
  <1> QED BY <1>1, <1>2 DEF Init, IInv, ResolvedIsAsked, HoldsQuestion, AsksForAddrs,
                            RepliesTruthful

\* Every step keeps the invariant.
LEMMA StepInv == IInv /\ [Next]_vars => IInv'
  <1> SUFFICES ASSUME IInv, [Next]_vars PROVE IInv'
    OBVIOUS
  <1> USE ArpAssumption
  <1>t. TypeOK
    BY DEF IInv
  <1>1. ASSUME NEW n \in Nodes, NEW a \in Addrs, BeginResolve(n, a)
        PROVE  IInv'
    <2>1. result' = [result EXCEPT ![n] = Question(n, a)]
      BY <1>1 DEF BeginResolve
    <2>2. Question(n, a) \in Headers
      BY <1>t DEF TypeOK, Question, Headers, Ops
    <2>3. TypeOK'
      BY <1>1, <1>t, <2>1, <2>2 DEF BeginResolve, TypeOK
    <2>4. /\ result'[n].op = "request" /\ result'[n].protoTarget = a /\ asked'[n] = a
          /\ \A m \in Nodes : m # n => result'[m] = result[m] /\ asked'[m] = asked[m]
      BY <1>1, <1>t, <2>1 DEF BeginResolve, TypeOK, Question
    <2>5. ResolvedIsAsked' /\ HoldsQuestion'
      BY <2>4 DEF IInv, ResolvedIsAsked, HoldsQuestion
    <2>6. AsksForAddrs' /\ RepliesTruthful'
      BY <1>1, <2>4 DEF BeginResolve, IInv, AsksForAddrs, RepliesTruthful
    <2> QED BY <2>3, <2>5, <2>6 DEF IInv
  <1>2. ASSUME NEW n \in Nodes, Abort(n)
        PROVE  IInv'
    <2>1. TypeOK'
      BY <1>2, <1>t, NoHeaderType DEF Abort, TypeOK
    <2>2. /\ result'[n].op = "none"
          /\ \A m \in Nodes : m # n => result'[m] = result[m]
      BY <1>2, <1>t, NoHeaderType DEF Abort, TypeOK
    <2> QED BY <1>2, <2>1, <2>2 DEF Abort, IInv, ResolvedIsAsked, HoldsQuestion, AsksForAddrs,
                                   RepliesTruthful
  <1>3. ASSUME NEW n \in Nodes, SetAddr(n)
        PROVE  IInv'
    <2>1. TypeOK'
      BY <1>3, <1>t DEF SetAddr, TypeOK
    <2> QED BY <1>3, <2>1 DEF SetAddr, IInv, ResolvedIsAsked, HoldsQuestion, AsksForAddrs,
                              RepliesTruthful
  <1>4. ASSUME NEW n \in Nodes, HandleRequest(n)
        PROVE  IInv'
    <2>1. result[n] \in Headers /\ result[n].op = "request"
      BY <1>4, <1>t DEF HandleRequest, PendingOutReq, TypeOK
    <2>2. TypeOK'
      <3>1. [result[n] EXCEPT !.op = "wait"] \in Headers
        BY <2>1 DEF Headers, Ops
      <3>2. result' \in [Nodes -> Headers]
        BY <1>4, <3>1, <1>t DEF HandleRequest, TypeOK
      <3>3. net' \subseteq [to : Nodes, hdr : Headers]
        BY <1>4, <2>1, <1>t DEF HandleRequest, TypeOK
      <3> QED BY <1>4, <3>2, <3>3, <1>t DEF HandleRequest, TypeOK
    <2>3. /\ result'[n].op = "wait" /\ result'[n].protoTarget = result[n].protoTarget
          /\ \A m \in Nodes : m # n => result'[m] = result[m]
      BY <1>4, <2>1, <1>t DEF HandleRequest, TypeOK, Headers
    <2>4. \A pkt \in net' : pkt \in net \/ pkt.hdr = result[n]
      BY <1>4 DEF HandleRequest
    <2>5. ResolvedIsAsked' /\ HoldsQuestion'
      BY <1>4, <2>1, <2>3 DEF HandleRequest, IInv, ResolvedIsAsked, HoldsQuestion
    <2>6. AsksForAddrs' /\ RepliesTruthful'
      BY <1>4, <2>1, <2>3, <2>4 DEF HandleRequest, IInv, AsksForAddrs, RepliesTruthful
    <2> QED BY <2>2, <2>5, <2>6 DEF IInv
  <1>5. ASSUME NEW n \in Nodes, HandleReply(n)
        PROVE  IInv'
    <2>1. response[n] \in Headers /\ response[n].op = "reply"
      BY <1>5, <1>t DEF HandleReply, PendingReply, TypeOK
    <2>2. /\ [response[n] EXCEPT !.op = "none"] \in Headers
          /\ [response[n] EXCEPT !.op = "none"].op = "none"
      BY <2>1 DEF Headers, Ops
    <2>3. response'[n].op = "none" /\ \A m \in Nodes : m # n => response'[m] = response[m]
      BY <1>5, <2>2, <1>t DEF HandleReply, TypeOK
    <2>4. TypeOK'
      <3>1. response' \in [Nodes -> Headers]
        BY <1>5, <2>2, <1>t DEF HandleReply, TypeOK
      <3>2. response[n].hwTarget \in Nodes
        BY <2>1 DEF Headers
      <3>3. net' \subseteq [to : Nodes, hdr : Headers]
        BY <1>5, <2>1, <3>2, <1>t DEF HandleReply, TypeOK
      <3> QED BY <1>5, <2>3, <3>1, <3>3, <1>t DEF HandleReply, TypeOK
    <2>5. \A pkt \in net' : pkt \in net \/ pkt.hdr = response[n]
      BY <1>5 DEF HandleReply
    <2> QED BY <1>5, <2>1, <2>3, <2>4, <2>5 DEF HandleReply, IInv, ResolvedIsAsked,
                  HoldsQuestion, AsksForAddrs, RepliesTruthful
  <1>6. ASSUME NEW n \in Nodes, NEW pkt \in net, Recv(n, pkt)
        PROVE  IInv'
    <2> DEFINE hdr == pkt.hdr
    <2>1. hdr \in Headers /\ net' \subseteq net
      BY <1>6, <1>t DEF Recv, TypeOK
    <2>2. CASE RecvRequest(n, hdr)
      <3>1. CASE UNCHANGED response
        <4>1. TypeOK'
          BY <1>6, <2>1, <2>2, <3>1, <1>t DEF Recv, RecvRequest, TypeOK
        <4> QED BY <1>6, <2>1, <2>2, <3>1, <4>1 DEF Recv, RecvRequest, IInv, ResolvedIsAsked,
                      HoldsQuestion, AsksForAddrs, RepliesTruthful
      <3>2. CASE ~UNCHANGED response
        <4> DEFINE r == [op |-> "reply", protoSender |-> ip[n], hwSender |-> n,
                         protoTarget |-> hdr.protoSender, hwTarget |-> hdr.hwSender]
        <4>1. /\ response' = [response EXCEPT ![n] = r] /\ hdr.protoTarget = ip[n]
              /\ UNCHANGED <<result, excused>> /\ hdr.op = "request"
          BY <2>2, <3>2 DEF RecvRequest
        <4>2. ip[n] = AddrOf[n]
          BY <4>1, <1>t DEF IInv, AsksForAddrs, TypeOK
        <4>3. r \in Headers /\ Truthful(r)
          BY <2>1, <4>2, <1>t DEF TypeOK, Headers, Ops
        <4>4. response'[n] = r /\ \A m \in Nodes : m # n => response'[m] = response[m]
          BY <4>1, <1>t DEF TypeOK
        <4>5. TypeOK'
          BY <1>6, <2>1, <4>1, <4>3, <4>4, <1>t DEF Recv, TypeOK
        <4> HIDE DEF r
        <4> QED BY <1>6, <2>1, <4>1, <4>3, <4>4, <4>5 DEF Recv, IInv, ResolvedIsAsked,
                      HoldsQuestion, AsksForAddrs, RepliesTruthful
      <3> QED BY <3>1, <3>2
    <2>3. CASE RecvReply(n, hdr)
      <3>1. CASE Expected(n, hdr)
        <4>1. /\ result'[n] = hdr /\ hdr.op = "reply" /\ UNCHANGED <<response, excused>>
              /\ \A m \in Nodes : m # n => result'[m] = result[m]
          BY <2>3, <3>1, <1>t DEF RecvReply, TypeOK
        <4>2. hdr.protoSender = asked[n] /\ Truthful(hdr)
          BY <3>1, <4>1 DEF Expected, IInv, HoldsQuestion, RepliesTruthful
        <4>3. result' \in [Nodes -> Headers]
          BY <2>1, <2>3, <1>t DEF RecvReply, TypeOK
        <4>4. TypeOK'
          BY <1>6, <2>1, <4>1, <4>3, <1>t DEF Recv, TypeOK
        <4> QED BY <1>6, <2>1, <4>1, <4>2, <4>4 DEF Recv, IInv, ResolvedIsAsked,
                      HoldsQuestion, AsksForAddrs, RepliesTruthful
      <3>2. CASE ~Expected(n, hdr)
        <4>1. UNCHANGED <<result, response, excused>>
          BY <2>3, <3>2, <1>t DEF RecvReply, TypeOK
        <4>2. TypeOK'
          BY <1>6, <2>1, <4>1, <1>t DEF Recv, TypeOK
        <4> QED BY <1>6, <2>1, <4>1, <4>2 DEF Recv, IInv, ResolvedIsAsked,
                      HoldsQuestion, AsksForAddrs, RepliesTruthful
      <3> QED BY <3>1, <3>2
    <2> QED BY <1>6, <2>2, <2>3 DEF Recv
  <1>7. ASSUME NEW pkt \in net, Lose(pkt)
        PROVE  IInv'
    <2>1. TypeOK' /\ net' \subseteq net
      BY <1>7, <1>t DEF Lose, TypeOK
    <2> QED BY <1>7, <2>1 DEF Lose, IInv, ResolvedIsAsked, HoldsQuestion, AsksForAddrs,
                              RepliesTruthful
  <1>8. CASE UNCHANGED vars
    BY <1>8 DEF vars, IInv, TypeOK, ResolvedIsAsked, HoldsQuestion, AsksForAddrs,
                RepliesTruthful
  <1> QED BY <1>1, <1>2, <1>3, <1>4, <1>5, <1>6, <1>7, <1>8 DEF Next, Handle, RecvAny

\* IsDone and ResultAs6 never report a hardware address for any but the address
\* of the last BeginResolve, whichever replies are still under way.
THEOREM ArpResolvesAsked == Spec => []ResolvedIsAsked
  <1>1. IInv => ResolvedIsAsked
    BY DEF IInv
  <1> QED BY InitInv, StepInv, <1>1, PTL DEF Spec
=============================================================================

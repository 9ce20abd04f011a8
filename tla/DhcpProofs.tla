----------------------------- MODULE DhcpProofs -----------------------------
(***************************************************************************)
(* That a client which is bound was acknowledged by the server it chose    *)
(* and has the address that server keeps for it, for any number of clients *)
(* and servers, and whatever is lost, duplicated or delayed.               *)
(*                                                                         *)
(* The argument follows the messages.  Asked(m) and Answered(m) say what a *)
(* message on the segment is evidence of; no step takes that evidence back *)
(* (EvidenceLasts), so that a client which acts on a message, however late *)
(* it arrives, finds the server as the message says.  Every server offers  *)
(* a client the address it asked for, so a client that a late offer leads  *)
(* from one server to another still has the address the other keeps.       *)
(***************************************************************************)
EXTENDS Dhcp, TLAPS

\* Clients tell the answers to their requests by the transaction number.
DistinctXids == \A c, d \in Clients : Xid[c] = Xid[d] => c = d

\* Servers on one segment all send their identification, or none does.
Uniform ==
  \A seg \in Segments :
    seg.stacks \intersect Servers \subseteq Identifying \/ seg.stacks \intersect Identifying = {}

DHCPClient ==
  [state : States, xid : {0} \union {Xid[c] : c \in Clients},
   svip : Servers \union {Broadcast, None}, offer : Addrs \union {None},
   req : Addrs \union {None}]

Host ==
  {h \in [addr : Addrs \union {None}, state : {"None", "WaitOffer"}] :
     h.state = "None" => h.addr = None}

Typed ==
  /\ cl \in [Clients -> DHCPClient]
  /\ open \in [Clients -> BOOLEAN]
  /\ user \in [Clients -> {"new", "opening", "begun"}]
  /\ hosts \in [Servers -> [Clients -> Host]]
  /\ inbox \in [Servers -> Messages \union {None}]
  /\ acked \in [Servers -> SUBSET Clients]
  /\ net \subseteq Messages

Silent == up \intersect Identifying = {}

\* The servers that are up are of one kind.
Alike == up \intersect Servers \subseteq Identifying \/ Silent

\* A client that has sent its one Request.
HasRequested(c) == cl[c].state \in {"WaitAck", "Done", "Naked", "Aborted"}

\* What a server may rely on in a message it finds.  One that left before the
\* request was configured asks for no address and nobody answers it.  A client may
\* change the server it takes for its own only if servers send their option.
Asked(m) ==
  /\ m.to \in up \intersect Servers /\ m.from \in Clients /\ m.type \in {"Discover", "Request"}
  /\ m.xid = 0 => m.type = "Discover" /\ m.req = None
  /\ m.xid # 0 => m.xid = Xid[m.from] /\ user[m.from] = "begun"
  /\ m.xid # 0 /\ m.type = "Discover" => m.req = Requested[m.from]
  /\ m.type = "Request" => HasRequested(m.from) /\ (Silent => m.siaddr = cl[m.from].svip)

\* A server that made an offer offered the address the client asked for.
Offered(s, c) == hosts[s][c] = [addr |-> Requested[c], state |-> "WaitOffer"]

\* What the client with its transaction number may rely on in an answer.
Answered(m) ==
  /\ m.to \in Clients /\ m.from \in up \intersect Servers /\ m.type \in {"Offer", "Ack"}
  /\ m.siaddr = m.from /\ m.sid = (IF m.from \in Identifying THEN m.from ELSE None)
  /\ m.xid # 0
  /\ \A c \in Clients : m.xid = Xid[c] =>
       /\ user[c] = "begun" /\ Offered(m.from, c)
       /\ m.type = "Offer" => m.yiaddr = Requested[c]
       /\ m.type = "Ack" => /\ HasRequested(c) /\ c \in acked[m.from]
                            /\ Silent => m.from = cl[c].svip

\* A client that is not configured is not answered and keeps its port; ...
Unconfigured(c) ==
  /\ cl[c].xid = 0 /\ cl[c].req = None /\ cl[c].state \in {"None", "WaitOffer", "Aborted"}
  /\ user[c] = "opening" => open[c] /\ cl[c].state # "Aborted"

\* ... one that is holds what the server it chose knows of it.  That this server is
\* the one that acknowledged it is certain only among servers of one kind.
Configured(c) ==
  /\ cl[c].xid = Xid[c] /\ cl[c].req = Requested[c] /\ (open[c] \/ cl[c].state # "None")
  /\ cl[c].state \in {"GotOffer", "WaitAck", "Done"} =>
       cl[c].svip \in Servers /\ cl[c].offer = Requested[c] /\ Offered(cl[c].svip, c)
  /\ Alike /\ cl[c].state = "Done" /\ open[c] => c \in acked[cl[c].svip]

Holds(c) == IF user[c] = "begun" THEN Configured(c) ELSE Unconfigured(c)

Offers == \A s \in Servers, c \in Clients : hosts[s][c].state = "WaitOffer" => Offered(s, c)

\* What is under way or waits at a server.
Evidence ==
  /\ \A m \in net : Asked(m) \/ Answered(m)
  /\ \A s \in Servers : inbox[s] # None => Asked(inbox[s]) /\ inbox[s].to = s

IInv == Typed /\ Offers /\ Evidence /\ \A c \in Clients : Holds(c)

-----------------------------------------------------------------------------
(* What lasts *)

\* A step that takes back no evidence: users stay configured, a client that sent
\* its Request keeps its server if servers are silent, hosts and acknowledgments
\* stay.
Advances ==
  /\ up' = up
  /\ \A c \in Clients : user[c] = "begun" =>
       /\ user'[c] = "begun"
       /\ HasRequested(c) => HasRequested(c)' /\ (Silent => cl'[c].svip = cl[c].svip)
  /\ \A s \in Servers, c \in Clients :
       /\ Offered(s, c) => Offered(s, c)'
       /\ c \in acked[s] => c \in acked'[s]

\* What a message says stays true as long as it is under way, and after.
LEMMA EvidenceLasts ==
  ASSUME Typed, Advances, NEW m
  PROVE  (Asked(m) => Asked(m)') /\ (Answered(m) => Answered(m)')
<1>u. Silent' <=> Silent
  BY DEF Silent, Advances
<1>1. ASSUME Asked(m) PROVE Asked(m)'
  <2>1. m.type = "Request" => user[m.from] = "begun"
    BY <1>1 DEF Asked
  <2>2. QED
    BY <1>u, <1>1, <2>1 DEF Asked, Advances
<1>2. ASSUME Answered(m) PROVE Answered(m)'
  <2>1. m.to \in Clients /\ m.from \in Servers /\ m.type \in {"Offer", "Ack"} /\ up' = up
    BY <1>2 DEF Answered, Advances
  <2>2. ASSUME NEW c \in Clients, m.xid = Xid[c]
        PROVE  /\ user'[c] = "begun" /\ Offered(m.from, c)'
               /\ m.type = "Offer" => m.yiaddr = Requested[c]
               /\ m.type = "Ack" => /\ HasRequested(c)' /\ c \in acked'[m.from]
                                    /\ Silent' => m.from = cl'[c].svip
    <3>1. /\ user[c] = "begun" /\ Offered(m.from, c)
          /\ m.type = "Offer" => m.yiaddr = Requested[c]
          /\ m.type = "Ack" => /\ HasRequested(c) /\ c \in acked[m.from]
                               /\ Silent => m.from = cl[c].svip
      BY <1>2, <2>2 DEF Answered
    <3>2. Offered(m.from, c)'
      BY <2>1, <3>1 DEF Advances
    <3>3. QED
      BY <1>u, <2>1, <3>1, <3>2 DEF Advances
  <2>3. QED
    BY <1>2, <2>1, <2>2 DEF Answered
<1>3. QED
  BY <1>1, <1>2

\* A client that a step leaves alone still holds what it held.
LEMMA HoldsLasts ==
  ASSUME Typed, Advances, NEW c \in Clients, Holds(c),
         user'[c] = user[c], cl'[c] = cl[c], open'[c] = open[c]
  PROVE  Holds(c)'
<1>1. CASE user[c] = "begun"
  <2>1. Configured(c)
    BY <1>1 DEF Holds
  <2>2. PICK v : v = cl[c].svip
    OBVIOUS
  <2>3. ASSUME v \in Servers
        PROVE  (Offered(v, c) => Offered(v, c)') /\ (c \in acked[v] => c \in acked'[v])
    BY <2>3 DEF Advances
  <2>4. cl[c].state \in {"GotOffer", "WaitAck", "Done"} =>
          cl'[c].svip \in Servers /\ cl'[c].offer = Requested[c] /\ Offered(cl[c].svip, c)'
    BY <2>1, <2>2, <2>3 DEF Configured, Offered
  <2>5. Alike' /\ cl'[c].state = "Done" /\ open'[c] => c \in acked'[cl'[c].svip]
    BY <2>1, <2>2, <2>3 DEF Configured, Alike, Silent, Advances
  <2>6. Configured(c)'
    BY <2>1, <2>4, <2>5 DEF Configured
  <2>7. QED
    BY <1>1, <2>6 DEF Holds
<1>2. CASE user[c] # "begun"
  BY <1>2 DEF Holds, Unconfigured
<1>3. QED
  BY <1>1, <1>2

\* A step that takes back no evidence and sends only what is true of the state it
\* leaves preserves the evidence.
LEMMA EvidenceKept ==
  ASSUME Typed, Advances, Evidence,
         \A m \in net' \ net : Asked(m)' \/ Answered(m)',
         \A s \in Servers : \/ inbox'[s] \in {None, inbox[s]}
                            \/ Asked(inbox'[s]) /\ inbox'[s].to = s
  PROVE  Evidence'
<1>1. ASSUME NEW m \in net' PROVE Asked(m)' \/ Answered(m)'
  BY <1>1, EvidenceLasts DEF Evidence
<1>2. ASSUME NEW s \in Servers, inbox'[s] # None PROVE Asked(inbox[s])' /\ inbox'[s].to = s
  <2>1. PICK m : m = inbox'[s]
    OBVIOUS
  <2>2. Asked(m) /\ m.to = s
    BY <1>2, <2>1 DEF Evidence
  <2>3. Asked(m)'
    BY <2>2, EvidenceLasts
  <2>4. QED
    BY <2>1, <2>2, <2>3 DEF Asked, HasRequested, Silent
<1>3. QED
  BY <1>1, <1>2 DEF Evidence

\* A step that makes no offer.
LEMMA OffersKept ==
  ASSUME Offers, hosts' = hosts
  PROVE  Offers'
BY DEF Offers, Offered

-----------------------------------------------------------------------------
(* The user *)

\* BeginRequest finds a client that was never configured: one that was has its
\* port open or is past the state None.
LEMMA BeginRequestKeeps ==
  ASSUME IInv, NEW c \in Clients, BeginRequest(c)
  PROVE  IInv'
<1>t. Typed /\ Offers /\ Evidence /\ \A d \in Clients : Holds(d)
  BY DEF IInv
<1>0. user[c] # "begun"
  BY <1>t DEF BeginRequest, Holds, Configured
<1>1. Typed'
  BY <1>t DEF BeginRequest, serverVars, Typed
<1>2. Advances
  BY <1>t, <1>0 DEF BeginRequest, serverVars, Advances, Typed, HasRequested, Offered
<1>3. Evidence'
  BY <1>t, <1>2, EvidenceKept DEF BeginRequest, serverVars
<1>4. ASSUME NEW d \in Clients PROVE Holds(d)'
  <2>1. CASE d = c
    BY <1>t, <1>0, <2>1 DEF BeginRequest, Holds, Unconfigured, Typed
  <2>2. CASE d # c
    <3>1. user'[d] = user[d] /\ cl'[d] = cl[d] /\ open'[d] = open[d]
      BY <1>t, <2>2 DEF BeginRequest, Typed
    <3>2. QED
      BY <1>t, <1>2, <3>1, HoldsLasts
  <2>3. QED
    BY <2>1, <2>2
<1>5. Offers'
  BY <1>t, OffersKept DEF BeginRequest, serverVars
<1>6. QED
  BY <1>1, <1>3, <1>4, <1>5 DEF IInv

\* The assignments of BeginRequest forget whatever came before them.
LEMMA ConfigureKeeps ==
  ASSUME IInv, NEW c \in Clients, Configure(c)
  PROVE  IInv'
<1>t. Typed /\ Offers /\ Evidence /\ \A d \in Clients : Holds(d)
  BY DEF IInv
<1>0. user[c] = "opening" /\ open[c] /\ Requested[c] \in Addrs \union {None}
  BY <1>t DEF Configure, Holds, Unconfigured, Addrs
<1>c. /\ user' = [user EXCEPT ![c] = "begun"]
      /\ cl' = [cl EXCEPT ![c].state = "None", ![c].xid = Xid[c], ![c].svip = Broadcast,
                          ![c].req = Requested[c]]
      /\ up' = up /\ open' = open /\ hosts' = hosts /\ acked' = acked
      /\ inbox' = inbox /\ net' = net
  BY DEF Configure, serverVars
<1>1. Typed'
  <2> DEFINE r == [cl[c] EXCEPT !.state = "None", !.xid = Xid[c], !.svip = Broadcast,
                                !.req = Requested[c]]
  <2>1. cl[c] \in DHCPClient
    BY <1>t DEF Typed
  <2>2. r \in DHCPClient
    BY <1>0, <2>1 DEF DHCPClient, States
  <2>3. cl' = [cl EXCEPT ![c] = r]
    BY <1>c
  <2> HIDE DEF r
  <2>4. cl' \in [Clients -> DHCPClient]
    BY <1>t, <2>2, <2>3 DEF Typed
  <2>5. user' \in [Clients -> {"new", "opening", "begun"}]
    BY <1>t, <1>c DEF Typed
  <2>6. QED
    BY <1>t, <1>c, <2>4, <2>5 DEF Typed
<1>f. /\ cl'[c].state = "None" /\ cl'[c].xid = Xid[c] /\ cl'[c].req = Requested[c]
      /\ user'[c] = "begun" /\ open'[c]
  BY <1>t, <1>0, <1>c DEF Typed, DHCPClient
<1>g. \A d \in Clients \ {c} : cl'[d] = cl[d] /\ user'[d] = user[d] /\ open'[d] = open[d]
  BY <1>t, <1>c DEF Typed
<1>2. Advances
  BY <1>0, <1>c, <1>g DEF Advances, HasRequested, Offered
<1>3. Evidence'
  BY <1>t, <1>c, <1>2, EvidenceKept
<1>4. ASSUME NEW d \in Clients PROVE Holds(d)'
  <2>1. CASE d = c
    BY <1>f, <2>1 DEF Holds, Configured
  <2>2. CASE d # c
    BY <1>t, <1>2, <1>g, <2>2, HoldsLasts
  <2>3. QED
    BY <2>1, <2>2
<1>5. QED
  BY <1>t, <1>c, <1>1, <1>3, <1>4, OffersKept DEF IInv

\* Abort, which leaves what the client knows of its server.
LEMMA AbortKeeps ==
  ASSUME IInv, NEW c \in Clients, Abort(c)
  PROVE  IInv'
<1>t. Typed /\ Offers /\ Evidence /\ \A d \in Clients : Holds(d)
  BY DEF IInv
<1>c. /\ user[c] # "opening" /\ cl' = [cl EXCEPT ![c].state = "Aborted"]
      /\ up' = up /\ user' = user /\ open' = open /\ hosts' = hosts /\ acked' = acked
      /\ inbox' = inbox /\ net' = net
  BY DEF Abort, serverVars
<1>1. Typed'
  BY <1>t, <1>c DEF Typed, DHCPClient, States
<1>f. /\ cl'[c].state = "Aborted" /\ cl'[c].xid = cl[c].xid /\ cl'[c].svip = cl[c].svip
      /\ cl'[c].req = cl[c].req
  BY <1>t, <1>c DEF Typed, DHCPClient
<1>g. \A d \in Clients \ {c} : cl'[d] = cl[d]
  BY <1>t, <1>c DEF Typed
<1>2. Advances
  BY <1>c, <1>f, <1>g DEF Advances, HasRequested, Offered
<1>3. Evidence'
  BY <1>t, <1>c, <1>2, EvidenceKept
<1>4. ASSUME NEW d \in Clients PROVE Holds(d)'
  <2>1. CASE d = c
    BY <1>t, <1>c, <1>f, <2>1 DEF Holds, Configured, Unconfigured
  <2>2. CASE d # c
    BY <1>t, <1>c, <1>2, <1>g, <2>2, HoldsLasts
  <2>3. QED
    BY <2>1, <2>2
<1>5. QED
  BY <1>t, <1>c, <1>1, <1>3, <1>4, OffersKept DEF IInv

\* A step that at most takes messages off the segment.
LEMMA SilentKeeps ==
  ASSUME IInv, net' \subseteq net, UNCHANGED <<up, cl, open, user, hosts, inbox, acked>>
  PROVE  IInv'
<1>t. Typed /\ Offers /\ Evidence /\ \A d \in Clients : Holds(d)
  BY DEF IInv
<1>1. Typed'
  BY <1>t DEF Typed
<1>2. Advances
  BY DEF Advances, HasRequested, Offered
<1>3. Evidence'
  BY <1>t, <1>2, EvidenceKept
<1>4. ASSUME NEW d \in Clients PROVE Holds(d)'
  BY <1>t, <1>2, HoldsLasts
<1>5. QED
  BY <1>t, <1>1, <1>3, <1>4, OffersKept DEF IInv

-----------------------------------------------------------------------------
(* The client as a handler *)

\* What send puts on the segment is what the client is.
LEMMA ToServersAsked ==
  ASSUME Typed, NEW c \in Clients, NEW type \in {"Discover", "Request"},
         NEW req \in Addrs \union {None}, NEW sid \in Servers \union {Broadcast, None},
         NEW m \in ToServers(c, type, req, sid)
  PROVE  /\ m \in Messages /\ m.to \in up \intersect Servers /\ m.from = c /\ m.type = type
         /\ m.xid = cl[c].xid /\ m.siaddr = cl[c].svip /\ m.req = req
<1>1. cl[c] \in DHCPClient
  BY DEF Typed
<1>2. PICK s \in up \intersect Servers :
        m = [to |-> s, from |-> c, type |-> type, xid |-> cl[c].xid, siaddr |-> cl[c].svip,
             yiaddr |-> cl[c].offer, req |-> req, sid |-> sid]
  BY DEF ToServers
<1>3. QED
  BY <1>1, <1>2 DEF DHCPClient, Messages, Types

\* send, in each of the three states it has something to do in.
LEMMA ClientSendKeeps ==
  ASSUME IInv, NEW c \in Clients, ClientSend(c)
  PROVE  IInv'
<1>t. Typed /\ Offers /\ Evidence /\ \A d \in Clients : Holds(d)
  BY DEF IInv
<1>x. cl[c] \in DHCPClient /\ Xid[c] # 0
  BY <1>t, DhcpAssumption DEF Typed
<1>c. up' = up /\ user' = user /\ hosts' = hosts /\ acked' = acked /\ inbox' = inbox
  BY DEF ClientSend, serverVars
<1>1. CASE /\ cl[c].state = "Aborted" /\ open' = [open EXCEPT ![c] = FALSE]
           /\ cl' = cl /\ net' = net
  <2>1. Typed'
    BY <1>t, <1>c, <1>1 DEF Typed
  <2>2. Advances
    BY <1>c, <1>1 DEF Advances, HasRequested, Offered
  <2>3. Evidence'
    BY <1>t, <1>c, <1>1, <2>2, EvidenceKept
  <2>4. ASSUME NEW d \in Clients PROVE Holds(d)'
    <3>1. CASE d = c
      BY <1>t, <1>c, <1>1, <3>1 DEF Holds, Configured, Unconfigured
    <3>2. CASE d # c
      <4>1. open'[d] = open[d]
        BY <1>t, <1>1, <3>2 DEF Typed
      <4>2. QED
        BY <1>t, <1>c, <1>1, <2>2, <4>1, HoldsLasts
    <3>3. QED
      BY <3>1, <3>2
  <2>5. QED
    BY <1>t, <1>c, <2>1, <2>3, <2>4, OffersKept DEF IInv
<1>2. CASE /\ cl[c].state = "None" /\ net' = net \union ToServers(c, "Discover", cl[c].req, None)
           /\ cl' = [cl EXCEPT ![c].state = "WaitOffer"] /\ open' = open
  <2>m. \A m \in ToServers(c, "Discover", cl[c].req, None) :
          /\ m \in Messages /\ m.to \in up \intersect Servers /\ m.from = c /\ m.type = "Discover"
          /\ m.xid = cl[c].xid /\ m.req = cl[c].req
    BY <1>t, <1>x, ToServersAsked DEF DHCPClient
  <2>1. Typed'
    <3>1. [cl[c] EXCEPT !.state = "WaitOffer"] \in DHCPClient
      BY <1>x DEF DHCPClient, States
    <3>2. cl' \in [Clients -> DHCPClient]
      BY <1>t, <1>2, <3>1 DEF Typed
    <3>3. net' \subseteq Messages
      BY <1>t, <1>2, <2>m DEF Typed
    <3>4. QED
      BY <1>t, <1>c, <1>2, <3>2, <3>3 DEF Typed
  <2>f. /\ cl'[c].state = "WaitOffer" /\ cl'[c].xid = cl[c].xid /\ cl'[c].req = cl[c].req
    BY <1>t, <1>x, <1>2 DEF Typed, DHCPClient
  <2>g. \A d \in Clients \ {c} : cl'[d] = cl[d]
    BY <1>t, <1>2 DEF Typed
  <2>2. Advances
    BY <1>c, <1>2, <2>g DEF Advances, HasRequested, Offered
  <2>3. Evidence'
    <3>1. ASSUME NEW m \in net' \ net PROVE Asked(m)'
      <4>1. /\ m.to \in up \intersect Servers /\ m.from = c /\ m.type = "Discover"
            /\ m.xid = cl[c].xid /\ m.req = cl[c].req
        BY <1>2, <2>m, <3>1
      <4>2. Holds(c)
        BY <1>t
      <4>3. /\ m.xid = 0 => m.req = None
            /\ m.xid # 0 => m.xid = Xid[c] /\ m.req = Requested[c] /\ user[c] = "begun"
        BY <1>x, <4>1, <4>2 DEF Holds, Configured, Unconfigured
      <4>4. QED
        BY <1>c, <4>1, <4>3 DEF Asked
    <3>2. QED
      BY <1>t, <1>c, <2>2, <3>1, EvidenceKept
  <2>4. ASSUME NEW d \in Clients PROVE Holds(d)'
    <3>1. CASE d = c
      BY <1>t, <1>c, <1>2, <2>f, <3>1 DEF Holds, Configured, Unconfigured
    <3>2. CASE d # c
      BY <1>t, <1>c, <1>2, <2>2, <2>g, <3>2, HoldsLasts
    <3>3. QED
      BY <3>1, <3>2
  <2>5. QED
    BY <1>t, <1>c, <2>1, <2>3, <2>4, OffersKept DEF IInv
<1>3. CASE /\ cl[c].state = "GotOffer"
           /\ net' = net \union ToServers(c, "Request", cl[c].offer, cl[c].svip)
           /\ cl' = [cl EXCEPT ![c].state = "WaitAck"] /\ open' = open
  <2>u. user[c] = "begun" /\ Configured(c)
    BY <1>t, <1>3 DEF Holds, Unconfigured
  <2>m. \A m \in ToServers(c, "Request", cl[c].offer, cl[c].svip) :
          /\ m \in Messages /\ m.to \in up \intersect Servers /\ m.from = c /\ m.type = "Request"
          /\ m.xid = cl[c].xid /\ m.siaddr = cl[c].svip
    BY <1>t, <1>x, ToServersAsked DEF DHCPClient
  <2>1. Typed'
    <3>1. [cl[c] EXCEPT !.state = "WaitAck"] \in DHCPClient
      BY <1>x DEF DHCPClient, States
    <3>2. cl' \in [Clients -> DHCPClient]
      BY <1>t, <1>3, <3>1 DEF Typed
    <3>3. net' \subseteq Messages
      BY <1>t, <1>3, <2>m DEF Typed
    <3>4. QED
      BY <1>t, <1>c, <1>3, <3>2, <3>3 DEF Typed
  <2>f. /\ cl'[c].state = "WaitAck" /\ cl'[c].xid = cl[c].xid /\ cl'[c].svip = cl[c].svip
        /\ cl'[c].offer = cl[c].offer /\ cl'[c].req = cl[c].req
    BY <1>t, <1>x, <1>3 DEF Typed, DHCPClient
  <2>g. \A d \in Clients \ {c} : cl'[d] = cl[d]
    BY <1>t, <1>3 DEF Typed
  <2>2. Advances
    BY <1>c, <1>3, <2>f, <2>g DEF Advances, HasRequested, Offered
  <2>3. Evidence'
    <3>1. ASSUME NEW m \in net' \ net PROVE Asked(m)'
      <4>1. /\ m.to \in up \intersect Servers /\ m.from = c /\ m.type = "Request"
            /\ m.xid = cl[c].xid /\ m.siaddr = cl[c].svip
        BY <1>3, <2>m, <3>1
      <4>2. cl[c].xid = Xid[c]
        BY <2>u DEF Configured
      <4>3. QED
        BY <1>c, <1>x, <2>f, <2>u, <4>1, <4>2 DEF Asked, HasRequested
    <3>2. QED
      BY <1>t, <1>c, <2>2, <3>1, EvidenceKept
  <2>4. ASSUME NEW d \in Clients PROVE Holds(d)'
    <3>1. CASE d = c
      BY <1>c, <1>3, <2>f, <2>u, <3>1 DEF Holds, Configured, Offered
    <3>2. CASE d # c
      BY <1>t, <1>c, <1>3, <2>2, <2>g, <3>2, HoldsLasts
    <3>3. QED
      BY <3>1, <3>2
  <2>5. QED
    BY <1>t, <1>c, <2>1, <2>3, <2>4, OffersKept DEF IInv
<1>4. QED
  BY <1>1, <1>2, <1>3 DEF ClientSend

\* recv, of a message that is an answer if it has the client's number.
LEMMA ClientRecvKeeps ==
  ASSUME IInv, DistinctXids, NEW m \in net, m.to \in Clients, ClientRecv(m.to, m),
         net' \subseteq net
  PROVE  IInv'
<1> DEFINE c == m.to
           d == cl[c]
           aborted == d.state = "Aborted"
           eof == aborted \/ (Mine(c, m) /\ d.state = "Done")
           r == IF Mine(c, m) /\ ~aborted THEN Received(d, m) ELSE d
           svip == ServerOf(d, m)
<1>t. Typed /\ Offers /\ Evidence /\ \A e \in Clients : Holds(e)
  BY DEF IInv
<1>c. up' = up /\ user' = user /\ hosts' = hosts /\ acked' = acked /\ inbox' = inbox
  BY DEF ClientRecv, serverVars
<1>x. d \in DHCPClient /\ Xid[c] # 0 /\ m \in Messages
  BY <1>t, DhcpAssumption DEF Typed
<1>a. Answered(m)
  BY <1>t, DhcpAssumption DEF Evidence, Asked
<1>1. CASE cl' = cl /\ open' = open
  BY <1>t, <1>c, <1>1, SilentKeeps
<1>2. CASE open[c] /\ open' = [open EXCEPT ![c] = ~eof] /\ cl' = [cl EXCEPT ![c] = r]
  <2>v. /\ svip \in Servers \union {Broadcast, None}
        /\ svip = m.from \/ (svip = d.svip /\ d.state # "WaitOffer" /\ (Alike => Silent))
        /\ Silent /\ d.state # "WaitOffer" => svip = d.svip
    <3>1. m.from \in Servers /\ m.from \in up /\ m.from # None
      BY <1>a, DhcpAssumption DEF Answered
    <3>2. CASE m.from \in Identifying
      BY <1>a, <3>1, <3>2 DEF Answered, ServerOf, Silent
    <3>3. CASE m.from \notin Identifying
      BY <1>t, <1>a, <1>x, <3>1, <3>3 DEF Answered, ServerOf, Silent, Alike, DHCPClient
    <3>4. QED
      BY <3>2, <3>3
  <2>r. \/ r = d /\ (aborted \/ m.xid # d.xid)
        \/ /\ ~aborted /\ m.xid = d.xid /\ d.state = "WaitOffer"
           /\ r = [d EXCEPT !.svip = svip, !.state = "GotOffer", !.offer = m.yiaddr]
        \/ /\ ~aborted /\ m.xid = d.xid /\ d.state = "WaitAck" /\ m.type = "Ack"
           /\ r = [d EXCEPT !.svip = svip, !.state = "Done"]
        \/ /\ ~aborted /\ m.xid = d.xid /\ d.state # "WaitOffer"
           /\ r = [d EXCEPT !.svip = svip]
    <3>1. CASE ~(Mine(c, m) /\ ~aborted)
      BY <3>1 DEF Mine
    <3>2. CASE Mine(c, m) /\ ~aborted
      BY <1>a, <3>2 DEF Received, Mine, Answered
    <3>3. QED
      BY <3>1, <3>2
  <2> HIDE DEF svip
  <2>0. /\ r.svip \in {svip, d.svip} /\ r.xid = d.xid /\ r.req = d.req
        /\ d.state \notin {"WaitOffer", "WaitAck"} => r.state = d.state
        /\ d.state \notin {"WaitOffer", "WaitAck", "Aborted"} /\ m.xid = d.xid => r.svip = svip
        /\ d.state = "WaitAck" => r.state \in {"WaitAck", "Done"}
        /\ d.state # "WaitOffer" => r.offer = d.offer
    <3>1. CASE r = d /\ (aborted \/ m.xid # d.xid)
      BY <3>1
    <3>2. CASE /\ d.state = "WaitOffer"
               /\ r = [d EXCEPT !.svip = svip, !.state = "GotOffer", !.offer = m.yiaddr]
      BY <1>x, <3>2 DEF DHCPClient
    <3>3. CASE d.state = "WaitAck" /\ r = [d EXCEPT !.svip = svip, !.state = "Done"]
      BY <1>x, <3>3 DEF DHCPClient
    <3>4. CASE r = [d EXCEPT !.svip = svip]
      BY <1>x, <3>4 DEF DHCPClient
    <3> HIDE DEF r
    <3>5. QED
      BY <2>r, <3>1, <3>2, <3>3, <3>4
  <2>1. r \in DHCPClient
    BY <1>x, <2>v, <2>r DEF DHCPClient, Messages, States
  <2>2. m.xid = d.xid => user[c] = "begun" /\ m.xid = Xid[c] /\ Configured(c)
    BY <1>t, <1>a DEF Holds, Unconfigured, Configured, Answered
  <2>f. m.xid = d.xid =>
          /\ m.from \in Servers /\ Offered(m.from, c)
          /\ m.type = "Offer" => m.yiaddr = Requested[c]
          /\ m.type = "Ack" => /\ HasRequested(c) /\ c \in acked[m.from]
                               /\ Silent => m.from = d.svip
          /\ m.type \in {"Offer", "Ack"}
    BY <1>a, <2>2 DEF Answered
  <2> HIDE DEF r
  <2>3. HasRequested(c) => /\ r.state \in {"WaitAck", "Done", "Naked", "Aborted"}
                           /\ Silent => r.svip = d.svip
    BY <2>v, <2>0 DEF HasRequested
  <2>4. user[c] # "begun" => r = d
    BY <2>r, <2>2
  <2>5. user[c] = "begun" =>
          /\ r.xid = Xid[c] /\ r.req = Requested[c] /\ (r.state = "None" => d.state = "None")
          /\ r.state \in {"GotOffer", "WaitAck", "Done"} =>
               r.svip \in Servers /\ r.offer = Requested[c] /\ Offered(r.svip, c)
          /\ Alike /\ r.state = "Done" /\ ~eof => c \in acked[r.svip]
    <3> SUFFICES ASSUME user[c] = "begun"
                 PROVE  /\ r.xid = Xid[c] /\ r.req = Requested[c]
                        /\ r.state = "None" => d.state = "None"
                        /\ r.state \in {"GotOffer", "WaitAck", "Done"} =>
                             r.svip \in Servers /\ r.offer = Requested[c] /\ Offered(r.svip, c)
                        /\ Alike /\ r.state = "Done" /\ ~eof => c \in acked[r.svip]
      OBVIOUS
    <3>1. Configured(c)
      BY <1>t DEF Holds
    <3>2. CASE r = d /\ (aborted \/ m.xid # d.xid)
      BY <1>2, <3>1, <3>2 DEF Configured
    <3>3. CASE /\ m.xid = d.xid /\ d.state = "WaitOffer"
               /\ r = [d EXCEPT !.svip = svip, !.state = "GotOffer", !.offer = m.yiaddr]
      <4>1. r.state = "GotOffer" /\ r.svip = svip /\ r.offer = m.yiaddr
        BY <1>x, <3>3 DEF DHCPClient
      <4>2. m.type = "Offer"
        BY <2>f, <3>3 DEF HasRequested
      <4>3. QED
        BY <2>v, <2>f, <2>0, <3>1, <3>3, <4>1, <4>2 DEF Configured
    <3>4. CASE /\ m.xid = d.xid /\ d.state = "WaitAck" /\ m.type = "Ack"
               /\ r = [d EXCEPT !.svip = svip, !.state = "Done"]
      <4>1. r.state = "Done" /\ r.svip = svip /\ r.offer = d.offer
        BY <1>x, <3>4 DEF DHCPClient
      <4>2. Alike => svip = m.from
        BY <2>v, <2>f, <3>4
      <4>3. QED
        BY <2>v, <2>f, <2>0, <3>1, <3>4, <4>1, <4>2 DEF Configured
    <3>5. CASE /\ ~aborted /\ m.xid = d.xid /\ d.state # "WaitOffer"
               /\ r = [d EXCEPT !.svip = svip]
      <4>1. r.state = d.state /\ r.svip = svip /\ r.offer = d.offer
        BY <1>x, <3>5 DEF DHCPClient
      <4>2. r.state = "Done" => eof
        BY <3>5, <4>1 DEF Mine
      <4>3. QED
        BY <2>v, <2>f, <2>0, <3>1, <3>5, <4>1, <4>2 DEF Configured
    <3>6. QED
      BY <2>r, <3>2, <3>3, <3>4, <3>5
  <2>6. eof => d.state \in {"Aborted", "Done"} /\ r.state = d.state
    BY <2>0
  <2> HIDE DEF eof
  <2>7. cl'[c] = r /\ \A e \in Clients \ {c} : cl'[e] = cl[e] /\ open'[e] = open[e]
    BY <1>t, <1>2 DEF Typed
  <2>8. open'[c] = ~eof
    BY <1>t, <1>2 DEF Typed
  <2>9. Typed'
    <3>1. eof \in BOOLEAN
      BY DEF eof, Mine
    <3>2. QED
      BY <1>t, <1>c, <1>2, <2>1, <3>1 DEF Typed
  <2>a. Alike' <=> Alike
    BY <1>c DEF Alike, Silent
  <2>10. Advances
    BY <1>c, <2>3, <2>7 DEF Advances, HasRequested, Offered
  <2>11. Evidence'
    BY <1>t, <1>c, <2>10, EvidenceKept
  <2>12. ASSUME NEW e \in Clients PROVE Holds(e)'
    <3>1. CASE e # c
      BY <1>t, <1>c, <2>7, <2>10, <3>1, HoldsLasts
    <3>2. CASE e = c /\ user[c] = "begun"
      <4>1. open'[c] \/ r.state # "None"
        BY <2>6, <2>8
      <4>2. Configured(c)'
        BY <1>c, <2>5, <2>7, <2>8, <2>a, <3>2, <4>1 DEF Configured, Offered
      <4>3. QED
        BY <1>c, <3>2, <4>2 DEF Holds
    <3>3. CASE e = c /\ user[c] # "begun"
      <4>1. Unconfigured(c)
        BY <1>t, <3>3 DEF Holds
      <4>2. ~eof \/ user[c] # "opening"
        BY <2>6, <4>1 DEF Unconfigured
      <4>3. QED
        BY <1>c, <1>2, <2>4, <2>7, <2>8, <3>3, <4>1, <4>2 DEF Holds, Unconfigured
    <3>4. QED
      BY <3>1, <3>2, <3>3
  <2>13. QED
    BY <1>t, <1>c, <2>9, <2>11, <2>12, OffersKept DEF IInv
<1>3. QED
  BY <1>1, <1>2 DEF ClientRecv

-----------------------------------------------------------------------------
(* The server *)

\* recv keeps a message of a client.
LEMMA ServerRecvKeeps ==
  ASSUME IInv, NEW m \in net, m.to \in Servers, ServerRecv(m.to, m), net' \subseteq net
  PROVE  IInv'
<1>t. Typed /\ Offers /\ Evidence /\ \A e \in Clients : Holds(e)
  BY DEF IInv
<1>c. /\ up' = up /\ cl' = cl /\ open' = open /\ user' = user /\ hosts' = hosts /\ acked' = acked
      /\ inbox' = [inbox EXCEPT ![m.to] = IF @ = None /\ alive[m.to] THEN m ELSE @]
  BY DEF ServerRecv
<1>a. Asked(m) /\ m \in Messages
  BY <1>t, DhcpAssumption DEF Evidence, Answered, Typed
<1>1. \A s \in Servers : inbox'[s] = inbox[s] \/ (inbox'[s] = m /\ m.to = s)
  BY <1>t, <1>c DEF Typed
<1>2. Typed'
  BY <1>t, <1>c, <1>a DEF Typed
<1>3. Advances
  BY <1>c DEF Advances, HasRequested, Offered
<1>4. Evidence'
  BY <1>t, <1>1, <1>3, <1>a, EvidenceKept
<1>5. ASSUME NEW e \in Clients PROVE Holds(e)'
  BY <1>t, <1>c, <1>3, HoldsLasts
<1>6. QED
  BY <1>t, <1>c, <1>2, <1>4, <1>5, OffersKept DEF IInv

\* A reply.
LEMMA ToClientsFields ==
  ASSUME NEW s \in Servers, NEW m \in Messages, NEW type \in {"Offer", "Ack"},
         NEW yiaddr \in Addrs \union {None}, NEW a \in ToClients(s, m, type, s, yiaddr)
  PROVE  /\ a \in Messages /\ a.to \in Clients /\ a.from = s /\ a.type = type
         /\ a.siaddr = s /\ a.yiaddr = yiaddr /\ a.xid = m.xid
         /\ a.sid = (IF s \in Identifying THEN s ELSE None)
<1>1. PICK c \in up \intersect Clients :
        a = [m EXCEPT !.to = c, !.from = s, !.type = type, !.siaddr = s, !.yiaddr = yiaddr,
                      !.req = None, !.sid = IF s \in Identifying THEN s ELSE None]
  BY DEF ToClients
<1>2. QED
  BY <1>1, DhcpAssumption DEF Messages, Types

\* HandleUDP: an offer is recorded as it is sent, an acknowledgment goes to who
\* asked this server for it.
LEMMA ServerSendKeeps ==
  ASSUME IInv, DistinctXids, NEW s \in Servers, ServerSend(s)
  PROVE  IInv'
<1>m. PICK m : m = inbox[s]
  OBVIOUS
<1>d. PICK addr : addr = IF hosts[s][m.from].state = "None" /\ m.req # None
                         THEN m.req ELSE hosts[s][m.from].addr
  OBVIOUS
<1> DEFINE host == hosts[s][m.from]
<1>t. Typed /\ Offers /\ Evidence /\ \A e \in Clients : Holds(e)
  BY DEF IInv
<1>c. /\ up' = up /\ cl' = cl /\ open' = open /\ user' = user
      /\ m # None /\ inbox' = [inbox EXCEPT ![s] = None]
  BY <1>m DEF ServerSend
<1>a. Asked(m) /\ m \in Messages /\ m.from \in Clients /\ s \in up
  BY <1>t, <1>c, <1>m DEF Evidence, Asked, Typed
<1>h. host \in Host /\ m.req \in Addrs \union {None} /\ m.yiaddr \in Addrs \union {None}
  BY <1>t, <1>a DEF Typed, Messages
<1>i. \A r \in Servers : inbox'[r] \in {None, inbox[r]}
  BY <1>t, <1>c DEF Typed
<1>x. \A c \in Clients : m.xid = Xid[c] => c = m.from /\ user[c] = "begun"
  BY <1>a, DhcpAssumption DEF Asked, DistinctXids
<1>1. CASE hosts' = hosts /\ net' = net /\ acked' = acked
  <2>1. Typed'
    BY <1>t, <1>c, <1>1 DEF Typed
  <2>2. Advances
    BY <1>c, <1>1 DEF Advances, HasRequested, Offered
  <2>3. Evidence'
    BY <1>t, <1>1, <1>i, <2>2, EvidenceKept
  <2>4. ASSUME NEW e \in Clients PROVE Holds(e)'
    BY <1>t, <1>c, <2>2, HoldsLasts
  <2>5. QED
    BY <1>t, <1>c, <1>1, <2>1, <2>3, <2>4, OffersKept DEF IInv
<1>2. CASE /\ m.type = "Discover" /\ host.state = "None" /\ addr # None
           /\ hosts' = [hosts EXCEPT ![s][m.from] = [addr |-> addr, state |-> "WaitOffer"]]
           /\ net' = net \union ToClients(s, m, "Offer", s, addr) /\ acked' = acked
  <2> DEFINE new == [addr |-> addr, state |-> "WaitOffer"]
  <2>0. addr \in Addrs \union {None} /\ new \in Host
    BY <1>d, <1>h DEF Host
  <2>n. m.xid # 0 /\ addr = Requested[m.from]
    BY <1>a, <1>d, <1>h, <1>2 DEF Asked, Host
  <2>m. \A a \in ToClients(s, m, "Offer", s, addr) :
          /\ a \in Messages /\ a.to \in Clients /\ a.from = s /\ a.type = "Offer"
          /\ a.siaddr = s /\ a.yiaddr = addr /\ a.xid = m.xid
          /\ a.sid = (IF s \in Identifying THEN s ELSE None)
    BY <1>a, <2>0, ToClientsFields
  <2>h. /\ hosts'[s][m.from] = new
        /\ \A r \in Servers, e \in Clients :
             hosts[r][e].state = "WaitOffer" => hosts'[r][e] = hosts[r][e]
    BY <1>t, <1>a, <1>2 DEF Typed, Host
  <2>1. Typed'
    <3>1. hosts' \in [Servers -> [Clients -> Host]]
      BY <1>t, <1>a, <1>2, <2>0 DEF Typed
    <3>2. net' \subseteq Messages
      BY <1>t, <1>2, <2>m DEF Typed
    <3>3. QED
      BY <1>t, <1>c, <1>2, <3>1, <3>2 DEF Typed
  <2>2. Advances
    BY <1>c, <1>2, <2>h DEF Advances, HasRequested, Offered
  <2>3. ASSUME NEW a \in net' \ net PROVE Answered(a)'
    <3>1. /\ a.to \in Clients /\ a.from = s /\ a.type = "Offer"
          /\ a.siaddr = s /\ a.yiaddr = addr /\ a.xid = m.xid
          /\ a.sid = (IF s \in Identifying THEN s ELSE None)
      BY <1>2, <2>m, <2>3
    <3>2. \A e \in Clients : a.xid = Xid[e] =>
            user'[e] = "begun" /\ Offered(s, e)' /\ a.yiaddr = Requested[e]
      BY <1>c, <1>x, <2>n, <2>h, <3>1 DEF Offered
    <3>3. QED
      BY <1>a, <1>c, <2>n, <3>1, <3>2 DEF Answered
  <2>4. Evidence'
    BY <1>t, <1>i, <2>2, <2>3, EvidenceKept
  <2>5. ASSUME NEW e \in Clients PROVE Holds(e)'
    BY <1>t, <1>c, <2>2, HoldsLasts
  <2>6. Offers'
    BY <1>t, <1>a, <1>c, <1>2, <2>n, <2>h DEF Offers, Offered, Typed
  <2>7. QED
    BY <2>1, <2>4, <2>5, <2>6 DEF IInv
<1>3. CASE /\ ~ForOther(s, m) /\ m.type = "Request" /\ host.state = "WaitOffer"
           /\ net' = net \union ToClients(s, m, "Ack", m.siaddr, m.yiaddr)
           /\ acked' = [acked EXCEPT ![s] = @ \union {m.from}] /\ hosts' = hosts
  <2>0. m.siaddr = s /\ m.xid # 0
    BY <1>a, <1>3 DEF ForOther, Asked
  <2>m. \A a \in ToClients(s, m, "Ack", s, m.yiaddr) :
          /\ a \in Messages /\ a.to \in Clients /\ a.from = s /\ a.type = "Ack"
          /\ a.siaddr = s /\ a.xid = m.xid /\ a.sid = (IF s \in Identifying THEN s ELSE None)
    BY <1>a, <1>h, ToClientsFields
  <2>k. /\ m.from \in acked'[s]
        /\ \A r \in Servers : acked[r] \subseteq acked'[r]
    BY <1>t, <1>3 DEF Typed
  <2>1. Typed'
    <3>1. acked' \in [Servers -> SUBSET Clients]
      BY <1>t, <1>a, <1>3 DEF Typed
    <3>2. net' \subseteq Messages
      BY <1>t, <1>3, <2>0, <2>m DEF Typed
    <3>3. QED
      BY <1>t, <1>c, <1>3, <3>1, <3>2 DEF Typed
  <2>2. Advances
    BY <1>c, <1>3, <2>k DEF Advances, HasRequested, Offered
  <2>3. ASSUME NEW a \in net' \ net PROVE Answered(a)'
    <3>1. /\ a.to \in Clients /\ a.from = s /\ a.type = "Ack"
          /\ a.siaddr = s /\ a.xid = m.xid /\ a.sid = (IF s \in Identifying THEN s ELSE None)
      BY <1>3, <2>0, <2>m, <2>3
    <3>2. /\ HasRequested(m.from)' /\ m.from \in acked'[s] /\ Offered(s, m.from)'
          /\ Silent' => s = cl'[m.from].svip
      BY <1>t, <1>a, <1>c, <1>3, <2>0, <2>k DEF Asked, HasRequested, Silent, Offers, Offered
    <3>3. \A e \in Clients : a.xid = Xid[e] => e = m.from /\ user'[e] = "begun"
      BY <1>c, <1>x, <3>1
    <3>4. QED
      BY <1>a, <1>c, <2>0, <3>1, <3>2, <3>3 DEF Answered
  <2>4. Evidence'
    BY <1>t, <1>i, <2>2, <2>3, EvidenceKept
  <2>5. ASSUME NEW e \in Clients PROVE Holds(e)'
    BY <1>t, <1>c, <2>2, HoldsLasts
  <2>6. QED
    BY <1>t, <1>c, <1>3, <2>1, <2>4, <2>5, OffersKept DEF IInv
<1>4. QED
  BY <1>m, <1>d, <1>1, <1>2, <1>3 DEF ServerSend

-----------------------------------------------------------------------------
(* The specification *)

\* Nobody has asked for anything yet.
LEMMA InitIInv ==
  ASSUME Init
  PROVE  IInv
<1>1. [state |-> "None", xid |-> 0, svip |-> None, offer |-> None, req |-> None] \in DHCPClient
  BY DEF DHCPClient, States
<1>2. [addr |-> None, state |-> "None"] \in Host
  BY DEF Host
<1>3. Typed
  BY <1>1, <1>2 DEF Init, Typed
<1>4. \A c \in Clients : Holds(c)
  BY DEF Init, Holds, Unconfigured
<1>5. Offers /\ Evidence
  BY DEF Init, Offers, Evidence
<1>6. QED
  BY <1>3, <1>4, <1>5 DEF IInv

\* Every step preserves the invariant.
LEMMA NextIInv ==
  ASSUME IInv, DistinctXids, [Next]_vars
  PROVE  IInv'
<1>1. ASSUME NEW c \in Clients, Client(c) PROVE IInv'
  BY <1>1, BeginRequestKeeps, ConfigureKeeps DEF Client
<1>2. ASSUME NEW c \in Clients, OtherTraffic(c) \/ ClientQuiet(c) PROVE IInv'
  BY <1>2, SilentKeeps DEF OtherTraffic, ClientQuiet, serverVars
<1>3. ASSUME NEW m \in net, Deliver(m) PROVE IInv'
  <2>1. net' \subseteq net
    BY <1>3 DEF Deliver
  <2>2. QED
    BY <1>3, <2>1, ClientRecvKeeps, ServerRecvKeeps DEF Deliver
<1>4. ASSUME NEW m \in net, Lose(m) PROVE IInv'
  BY <1>4, SilentKeeps DEF Lose, serverVars
<1>5. ASSUME UNCHANGED vars PROVE IInv'
  BY <1>5, SilentKeeps DEF vars
<1>6. QED
  BY <1>1, <1>2, <1>3, <1>4, <1>5, AbortKeeps, ClientSendKeeps, ServerSendKeeps
  DEF Next, DeliverAny

\* Nobody joins or leaves the segment.
LEMMA NextUp ==
  ASSUME [Next]_vars
  PROVE  up' = up
BY DEF Next, Client, BeginRequest, Configure, Abort, OtherTraffic, ClientSend, ClientQuiet,
       ServerSend, DeliverAny, Deliver, ClientRecv, ServerRecv, Lose, serverVars, vars

\* A client that is bound has the address that the server it knows as its own keeps
\* for it and was acknowledged by that server, among any clients with transaction
\* numbers of their own and any servers, as long as those on one segment all send
\* the identification option or none does, whatever is lost or duplicated.
THEOREM BoundIsBoundByChosen ==
  ASSUME DistinctXids, Uniform PROVE Spec => []BoundByChosen
<1>1. Init => IInv /\ Alike
  BY InitIInv DEF Init, Uniform, Alike, Silent
<1>2. IInv /\ Alike /\ [Next]_vars => IInv' /\ Alike'
  BY NextIInv, NextUp DEF Alike, Silent
<1>3. IInv /\ Alike => BoundByChosen
  BY DEF IInv, Holds, Configured, Offered, BoundByChosen
<1>4. QED
  BY <1>1, <1>2, <1>3, PTL DEF Spec

\* Clients, servers and messages stay well formed, and the server a client knows
\* after an offer, from the header or from the option of any later message, is a
\* server.
THEOREM DhcpTypeCorrect == ASSUME DistinctXids PROVE Spec => []TypeOK
<1>1. IInv /\ [Next]_vars => IInv'
  BY NextIInv
<1>2. IInv => TypeOK
  <2> SUFFICES ASSUME IInv PROVE TypeOK
    OBVIOUS
  <2>1. ASSUME NEW c \in Clients
        PROVE  /\ cl[c].state \in States /\ cl[c].xid \in {0, Xid[c]}
               /\ cl[c].svip \in Servers \union {Broadcast, None}
               /\ cl[c].offer \in Addrs \union {None}
               /\ cl[c].state \in {"GotOffer", "WaitAck", "Done"} => cl[c].svip \in Servers
    <3>1. cl[c] \in DHCPClient /\ Holds(c)
      BY DEF IInv, Typed
    <3>2. QED
      BY <3>1 DEF DHCPClient, Holds, Configured, Unconfigured
  <2>2. QED
    BY <2>1 DEF IInv, Typed, TypeOK
<1>3. QED
  BY <1>1, <1>2, InitIInv, PTL DEF Spec
=============================================================================

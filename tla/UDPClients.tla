----------------------------- MODULE UDPClients -----------------------------
(***************************************************************************)
(* The DNS client and the NTP client of stacks/dns_client.go and           *)
(* stacks/ntp_client.go, as handlers of two UDP ports of one stack.  They  *)
(* share the counter that makes HandleEth look at the ports.  Users call   *)
(* them from goroutines of their own while the interface loop runs RecvEth *)
(* and HandleEth; neither client sends anything twice, so that what is     *)
(* lost stays lost until the user calls Abort and asks again.              *)
(***************************************************************************)
EXTENDS NtpTime, Sequences, FiniteSets

CONSTANTS
  Plans,        \* bound: calls of StartResolve and BeginDefaultRequest, by client
  Unsendable,   \* the resolves whose questions do not fit in a packet
  Cap,          \* cap(msg.Answers)
  MaxRecords,   \* bound: records in an answer
  Skews,        \* what the server's clock may be ahead of 1900 when ours is 0
  Step,         \* nanoseconds that pass at a time
  MaxTime,      \* bound: of our clock
  MaxFaults,    \* bound: packets lost or duplicated
  None          \* no packet, no question

Clients == {"dns", "ntp"}

\* The answers of a name server; question and rcode stand for all they repeat of
\* the query and all errors.
AnswerPackets ==
  [type : {"answer"}, txid : Nat, rcode : {"Success", "NameError"}, question : Nat,
   records : 0 .. MaxRecords]

ASSUME UDPClientsAssumption ==
  /\ {Cap, MaxRecords, Step, MaxTime, MaxFaults} \subseteq Nat
  /\ Plans \subseteq [Clients -> Nat] /\ Unsendable \subseteq Nat /\ Skews \subseteq Nat
  /\ None \notin Nat /\ None \notin AnswerPackets

\* Where a user is in StartResolve or BeginDefaultRequest.
Calls == {"idle", "opened", "flagged", "stated"}

VARIABLES
  dns,       \* the DNSClient; question and answers are known by the resolve; torn is
             \* history: the question was set while RecvEth was decoding an answer
  ntp,       \* the NTPClient; for is history: when the request it has a reply to was sent
  decoding,  \* the answer that recv has taken up and not yet decoded
  open,      \* whether the port of a client is open
  pend,      \* pendingUDPv4 > 0
  call,      \* where the users are
  plan,      \* how often they will call
  count,     \* and how often they did
  net,       \* packets under way or held by a server
  now,       \* time.Now()
  skew,      \* the server's clock against ours
  faults,    \* packets lost or duplicated so far
  excused    \* the clients for whom something happened that they do not make up for

vars == <<dns, ntp, decoding, open, pend, call, plan, count, net, now, skew, faults, excused>>

\* What the handler of one port leaves alone.
others == <<call, plan, count, now, skew, faults>>

Init ==
  /\ dns = [state |-> "Closed", txid |-> 0, hw |-> FALSE, question |-> None,
            rcode |-> "Success", recs |-> <<>>, len |-> 0, torn |-> FALSE]
  /\ ntp = [state |-> "Closed", live |-> FALSE, start |-> 0,
            t |-> <<ZeroTimestamp, ZeroTimestamp, ZeroTimestamp, ZeroTimestamp>>, for |-> 0]
  /\ decoding = None
  /\ open = [c \in Clients |-> FALSE]
  /\ pend = FALSE
  /\ call = [c \in Clients |-> "idle"]
  /\ plan \in Plans
  /\ count = [c \in Clients |-> 0]
  /\ net = {}
  /\ now = 0 /\ skew \in Skews
  /\ faults = 0 /\ excused = {}

-----------------------------------------------------------------------------
(* Users.  StartResolve and BeginDefaultRequest open the port, ... *)

Begin(c) ==
  /\ call[c] = "idle" /\ count[c] < plan[c] /\ ~open[c]
  /\ call' = [call EXCEPT ![c] = "opened"]
  /\ count' = [count EXCEPT ![c] = @ + 1]
  /\ open' = [open EXCEPT ![c] = TRUE]
  /\ UNCHANGED <<dns, ntp, decoding, pend, plan, net, now, skew, faults, excused>>

\* ... raise the flag, unless HandleEth has closed the port again, ...
Flag(c) ==
  /\ call[c] = "opened"
  /\ call' = [call EXCEPT ![c] = IF open[c] THEN "flagged" ELSE "idle"]
  /\ pend' = (pend \/ open[c])
  /\ UNCHANGED <<dns, ntp, decoding, open, plan, count, net, now, skew, faults, excused>>

\* ... and only then become pending.  If HandleEth came before, the flag is
\* down or the port closed, and the call returns no error.
Missed(c) == IF pend /\ open[c] THEN {} ELSE {c}

SetQuestion ==
  /\ call["dns"] = "flagged"
  /\ call' = [call EXCEPT !["dns"] = "stated"]
  /\ dns' = [dns EXCEPT !.state = "SendQuery", !.question = count["dns"],
                        !.rcode = "Success", !.len = 0, !.torn = decoding # None]
  /\ excused' = (excused \ {"dns"}) \union Missed("dns")
  /\ UNCHANGED <<ntp, decoding, open, pend, plan, count, net, now, skew, faults>>

\* dnsc.txid += 37 and dnsc.txid = prand16(msgLen * dnsc.txid): numbers that
\* were not used before.
NextTxid(id) == id + 1

\* The transaction number and the hardware address of the server come last.
NumberQuestion ==
  /\ call["dns"] = "stated"
  /\ call' = [call EXCEPT !["dns"] = "idle"]
  /\ dns' = [dns EXCEPT !.txid = NextTxid(@), !.hw = TRUE]
  /\ UNCHANGED <<ntp, decoding, open, pend, plan, count, net, now, skew, faults, excused>>

SetRequest ==
  /\ call["ntp"] = "flagged"
  /\ call' = [call EXCEPT !["ntp"] = "idle"]
  /\ ntp' = [ntp EXCEPT !.live = TRUE, !.state = "Send1"]
  /\ excused' = (excused \ {"ntp"}) \union Missed("ntp")
  /\ UNCHANGED <<dns, decoding, open, pend, plan, count, net, now, skew, faults>>

\* Abort of the DNS client makes itself heard, ...
AbortDNS ==
  /\ call["dns"] = "idle" /\ dns.state \notin {"Closed", "Aborted"}
  /\ dns' = [dns EXCEPT !.state = "Aborted"]
  /\ pend' = (pend \/ open["dns"])
  /\ UNCHANGED <<ntp, decoding, open, net, others, excused>>

\* ... that of the NTP client does not.
AbortNTP ==
  /\ call["ntp"] = "idle" /\ ntp.live
  /\ ntp' = [ntp EXCEPT !.live = FALSE]
  /\ UNCHANGED <<dns, decoding, open, pend, net, others, excused>>

-----------------------------------------------------------------------------
(* HandleEth *)

IsPendingDNS == open["dns"] /\ dns.state \in {"SendQuery", "Aborted"}

IsPendingNTP ==
  open["ntp"] /\ \/ ~ntp.live /\ ntp.state # "Closed"
                 \/ ntp.state = "Send1"

\* send of the DNS client.  An error closes the port as EOF does.  A query that
\* leaves before the call is over has a number that will not be waited for, and
\* possibly no destination.
SendDNS ==
  /\ pend /\ decoding = None /\ IsPendingDNS
  /\ \/ /\ dns.state = "Aborted" \/ dns.question \in Unsendable
        /\ open' = [open EXCEPT !["dns"] = FALSE]
        /\ UNCHANGED <<dns, net, excused>>
     \/ /\ dns.state = "SendQuery" /\ dns.question \notin Unsendable
        /\ dns' = [dns EXCEPT !.state = "AwaitResponse", !.txid = NextTxid(@)]
        /\ net' = net \union {[type |-> "query", txid |-> dns'.txid, hw |-> dns.hw,
                               question |-> dns.question]}
        /\ excused' = excused \union (IF call["dns"] = "stated" THEN {"dns"} ELSE {})
        /\ UNCHANGED open
  /\ UNCHANGED <<ntp, decoding, pend, others>>

\* send of the NTP client
SendNTP ==
  /\ pend /\ decoding = None /\ IsPendingNTP
  /\ \/ /\ ~ntp.live
        /\ open' = [open EXCEPT !["ntp"] = FALSE]
        /\ UNCHANGED <<ntp, net>>
     \/ /\ ntp.live
        /\ ntp' = [ntp EXCEPT !.state = "Await1", !.start = now]
        /\ net' = net \union {[type |-> "request", origin |-> ZeroTimestamp, sent |-> now]}
        /\ UNCHANGED open
  /\ UNCHANGED <<dns, decoding, pend, others, excused>>

\* Neither port is pending: the flag goes down.
HandleNothing ==
  /\ pend /\ decoding = None /\ ~IsPendingDNS /\ ~IsPendingNTP
  /\ pend' = FALSE
  /\ UNCHANGED <<dns, ntp, decoding, open, net, others, excused>>

HandleEth == SendDNS \/ SendNTP \/ HandleNothing

-----------------------------------------------------------------------------
(* RecvEth *)

\* Mutant of Expected: an answer to any question is taken.
ExpectedAny(m) == dns.state = "AwaitResponse" /\ m.type = "answer"

\* The answers that DNSClient.recv takes up.
Expected(m) == dns.state = "AwaitResponse" /\ m.txid = dns.txid

\* Mutant of Settled: the client is done only if the server had no error.
SettledOnSuccess(m) ==
  IF m.rcode = "Success" THEN [dns EXCEPT !.state = "Done"] ELSE [dns EXCEPT !.rcode = m.rcode]

\* The client says that it is done before the answer is decoded.  Decode starts
\* with Reset.
Settled(m) ==
  [dns EXCEPT !.state = "Done", !.rcode = m.rcode,
              !.len = IF m.rcode = "Success" THEN 0 ELSE @]

RecvDNS(m) ==
  /\ m.type = "answer" /\ open["dns"]
  /\ IF dns.state = "Aborted"
     THEN open' = [open EXCEPT !["dns"] = FALSE] /\ UNCHANGED <<dns, decoding>>
     ELSE /\ dns' = IF Expected(m) THEN Settled(m) ELSE dns
          /\ decoding' = IF Expected(m) /\ m.rcode = "Success" THEN m ELSE None
          /\ UNCHANGED open
  /\ UNCHANGED ntp

Smaller(a, b) == IF a < b THEN a ELSE b

\* decodeToCapResources decodes what there is room for and skips the rest.
Decodable(m) == Smaller(m.records, Cap)

\* Message.Decode.  The slice of answers gets its length first and shows what
\* an earlier answer left in it until each record is decoded in its place.  The
\* question is decoded too, over or under one that a user sets meanwhile.
Decode ==
  LET m == decoding
  IN  /\ m # None
      /\ \/ /\ dns.len < Decodable(m)
            /\ dns' = [dns EXCEPT !.len = Decodable(m)]
            /\ UNCHANGED decoding
         \/ /\ dns.len = Decodable(m)
            /\ \E q \in {dns.question, m.question} :
                 dns' = [dns EXCEPT !.question = q,
                           !.recs = [i \in 1 .. Smaller(dns.len, Cap) |-> m.question] \o
                                    SubSeq(dns.recs, dns.len + 1, Len(dns.recs))]
            /\ decoding' = None
      /\ UNCHANGED <<ntp, open, pend, net, others, excused>>

\* Nanoseconds since the request was sent, as the client's clock has it.
UnsyncTimestamp == Add(ZeroTimestamp, now - ntp.start)

\* NTPClient.recv.  The origin is zero in every request and every reply, so that
\* any reply will do.
RecvNTP(m) ==
  /\ m.type = "reply" /\ open["ntp"]
  /\ \/ /\ ~ntp.live \/ ntp.state = "Done"
        /\ open' = [open EXCEPT !["ntp"] = FALSE]
        /\ UNCHANGED ntp
     \/ /\ ntp.live /\ ntp.state # "Done"
        /\ IF ntp.state = "Await1" /\ m.transmit # ZeroTimestamp /\ m.origin = ZeroTimestamp
           THEN ntp' = [ntp EXCEPT !.state = "Done", !.for = m.sent,
                          !.t = <<m.origin, m.receive, m.transmit, UnsyncTimestamp>>]
           ELSE UNCHANGED ntp
        /\ UNCHANGED open
  /\ UNCHANGED <<dns, decoding>>

Arrivals == {"answer", "reply"}

ClientOf(m) == IF m.type \in {"query", "answer"} THEN "dns" ELSE "ntp"

\* There is nobody at the port.
Unheard(m) ==
  /\ m.type \in Arrivals /\ ~open[ClientOf(m)]
  /\ UNCHANGED <<dns, ntp, decoding, open>>

\* A packet arrives; one that is duplicated stays to arrive again.
RecvEth(m) ==
  /\ decoding = None
  /\ RecvDNS(m) \/ RecvNTP(m) \/ Unheard(m)
  /\ pend' = (pend \/ open[ClientOf(m)])
  /\ \/ net' = net \ {m} /\ UNCHANGED faults
     \/ faults < MaxFaults /\ faults' = faults + 1 /\ UNCHANGED net
  /\ UNCHANGED <<call, plan, count, now, skew, excused>>

-----------------------------------------------------------------------------
(* The servers, and the network *)

ServerTime == FromTime(now + skew)

\* A name server answers with records or with an error, and copies the number.
AnswerQuery(m) ==
  /\ m.type = "query" /\ m.hw
  /\ \E rcode \in {"Success", "NameError"}, n \in 0 .. MaxRecords :
       /\ rcode = "NameError" => n = 0
       /\ net' = (net \ {m}) \union {[type |-> "answer", txid |-> m.txid, rcode |-> rcode,
                                      question |-> m.question, records |-> n]}
  /\ UNCHANGED <<dns, ntp, decoding, open, pend, others, excused>>

\* A time server notes when a request comes in, ...
TakeRequest(m) ==
  /\ m.type = "request"
  /\ net' = (net \ {m}) \union {[type |-> "held", origin |-> m.origin, sent |-> m.sent,
                                 receive |-> ServerTime]}
  /\ UNCHANGED <<dns, ntp, decoding, open, pend, others, excused>>

\* ... and when its reply goes out.
SendReply(m) ==
  /\ m.type = "held"
  /\ net' = (net \ {m}) \union {[type |-> "reply", origin |-> m.origin, sent |-> m.sent,
                                 receive |-> m.receive, transmit |-> ServerTime]}
  /\ UNCHANGED <<dns, ntp, decoding, open, pend, others, excused>>

Serve(m) == AnswerQuery(m) \/ TakeRequest(m) \/ SendReply(m)

Lose(m) ==
  /\ faults < MaxFaults
  /\ faults' = faults + 1
  /\ net' = net \ {m}
  /\ excused' = excused \union {ClientOf(m)}
  /\ UNCHANGED <<dns, ntp, decoding, open, pend, call, plan, count, now, skew>>

\* Time matters while a time server is being asked.
Tick ==
  /\ now + Step <= MaxTime /\ \E m \in net : ClientOf(m) = "ntp"
  /\ now' = now + Step
  /\ UNCHANGED <<dns, ntp, decoding, open, pend, call, plan, count, net, skew, faults, excused>>

\* A packet for another UDP port of the stack raises the flag.
OtherTraffic ==
  /\ ~pend
  /\ pend' = TRUE
  /\ UNCHANGED <<dns, ntp, decoding, open, net, others, excused>>

Finish == (\E c \in Clients : Flag(c)) \/ SetQuestion \/ NumberQuestion \/ SetRequest

User == (\E c \in Clients : Begin(c)) \/ Finish \/ AbortDNS \/ AbortNTP

Next ==
  \/ User \/ HandleEth \/ Decode \/ Tick \/ OtherTraffic
  \/ \E m \in net : RecvEth(m) \/ Serve(m) \/ Lose(m)

Spec == Init /\ [][Next]_vars

\* The interface loop keeps calling RecvEth and HandleEth, the calls that users
\* have begun go on, servers answer and the network delivers.
FairSpec ==
  /\ Spec
  /\ WF_vars(HandleEth) /\ WF_vars(Decode) /\ WF_vars(Finish)
  /\ WF_vars(\E m \in net : Serve(m)) /\ WF_vars(\E m \in net : RecvEth(m))

-----------------------------------------------------------------------------
(* Properties *)

\* The clients stay well formed; the answers that are shown are never more than
\* there is room for, which the slice expression of decodeToCapResources needs.
TypeOK ==
  /\ dns.state \in {"Closed", "SendQuery", "AwaitResponse", "Done", "Aborted"}
  /\ dns.len \in 0 .. Cap /\ Len(dns.recs) <= Cap
  /\ ntp.state \in {"Closed", "Send1", "Await1", "Done"} /\ ntp.live \in BOOLEAN
  /\ \A i \in 1 .. 4 : ntp.t[i] \in Timestamps
  /\ decoding # None => open["dns"] /\ (dns.state \in {"Done", "Aborted"} \/ dns.torn)
  /\ call \in [Clients -> Calls] /\ open \in [Clients -> BOOLEAN] /\ pend \in BOOLEAN
  /\ now \in 0 .. MaxTime

\* IsDone and Answers, between calls of RecvEth, for a question that no answer to
\* another was decoded into.
DnsAsked ==
  IF dns.state \in {"SendQuery", "AwaitResponse", "Done"} /\ ~dns.torn
  THEN dns.question ELSE None

DnsAnswer ==
  IF dns.state = "Done" /\ decoding = None /\ ~dns.torn
  THEN [rcode |-> dns.rcode, recs |-> SubSeq(dns.recs, 1, dns.len)] ELSE None

DnsAnswersTo(q) ==
  {[rcode |-> "NameError", recs |-> <<>>]} \union
  {[rcode |-> "Success", recs |-> [i \in 1 .. n |-> q]] : n \in 0 .. Smaller(MaxRecords, Cap)}

X == INSTANCE Exchange WITH
       Questions <- Nat, AnswersTo <- DnsAnswersTo, asked <- DnsAsked, answer <- DnsAnswer

\* The DNS client implements Exchange: what IsDone and Answers say once they say
\* done is the answer to the question asked last, whole and with no record of an
\* earlier one, and it does not change until Abort, whatever answers to earlier
\* questions are late or arrive twice.  Nothing is said of a question that was set
\* while an answer was being decoded, which takes a call of StartResolve that
\* found the port closed under it, and another after it without Abort.
DnsExchange == X!Spec

\* NTPClient.Offset, with timeadd = 0.
Offset == Half(Sub(ntp.t[2], ntp.t[1])) + Half(Sub(ntp.t[3], ntp.t[4]))

\* What the clock of the server showed when the last request was made.
ServerAtRequest == ntp.start + skew

Abs(x) == IF x < 0 THEN -x ELSE x

\* When the reply came, up to rounding.
RoundTrip == Sub(ntp.t[4], ntp.t[1])

\* By how much an estimate from the four timestamps may be off: half the round
\* trip, the rounding of the three timestamps (less than three nanoseconds), and
\* the time by which the request that was answered is older than the one that was
\* sent last, for nothing tells a late reply to an aborted request.
WithinError(estimate, value) ==
  2 * Abs(estimate - value) <= RoundTrip + 2 * (ntp.start - ntp.for) + 6

\* The timestamps of the client count from the request (unsyncTimestamp), so what
\* Offset gives is not by how much the clocks differ but the time of the server at
\* the request, and that it gives whatever the delays and the rounding.
OffsetIsServerTime == ntp.state = "Done" => WithinError(Offset, ServerAtRequest)

\* NTPClient.Offset: "the estimated time offset between the local clock and the
\* server's clock".
OffsetIsSkew == ntp.state = "Done" => WithinError(Offset, skew)

\* A client whose call has made it pending, with the flag up and the port open,
\* gets its answer, or an error from the server, unless it is aborted, a packet
\* is lost, or the query left before the call was over.
Answered ==
  /\ (dns.state = "SendQuery" /\ "dns" \notin excused) ~>
       (dns.state \in {"Done", "Aborted"} \/ ~open["dns"] \/ "dns" \in excused)
  /\ (ntp.state = "Send1" /\ "ntp" \notin excused) ~>
       (ntp.state = "Done" \/ ~ntp.live \/ "ntp" \in excused)
=============================================================================

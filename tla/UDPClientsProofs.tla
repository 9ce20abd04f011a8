-------------------------- MODULE UDPClientsProofs --------------------------
(***************************************************************************)
(* That the DNS client implements Exchange, however often it is asked and  *)
(* aborted, whatever the network loses, delays or duplicates, and however  *)
(* the user's calls interleave with the interface loop.                    *)
(*                                                                         *)
(* Three things have to be kept: a packet with the number that the client  *)
(* waits for repeats the question that the client has (Numbered), an       *)
(* answer that is being decoded is the one to the question that was asked, *)
(* unless another was set meanwhile (Decoded), and a client that waits has *)
(* nothing to show (Waits).                                                *)
(***************************************************************************)
EXTENDS UDPClients, TLAPS

DNSClient ==
  [state : {"Closed", "SendQuery", "AwaitResponse", "Done", "Aborted"}, txid : Nat,
   hw : BOOLEAN, question : Nat \union {None}, rcode : {"Success", "NameError"},
   recs : Seq(Nat), len : Nat, torn : BOOLEAN]

Typed ==
  /\ dns \in DNSClient
  /\ call \in [Clients -> Calls] /\ open \in [Clients -> BOOLEAN]
  /\ count \in [Clients -> Nat]
  /\ decoding \in AnswerPackets \union {None}

\* A call that has not set its question yet has one that was never asked.
Asked(q) ==
  q <= count["dns"] /\ (call["dns"] \in {"opened", "flagged"} => q # count["dns"])

\* What a packet between the client and a name server says.
Numbered(m) ==
  m.type \in {"query", "answer"} =>
    /\ m.type = "answer" => m \in AnswerPackets
    /\ m.txid \in Nat /\ m.question \in Nat
    /\ m.txid <= dns.txid /\ Asked(m.question)
    /\ dns.state = "AwaitResponse" /\ m.txid = dns.txid => m.question = dns.question

\* The answer that recv has taken up.
Decoded ==
  decoding # None =>
    /\ open["dns"]
    /\ Asked(decoding.question)
    /\ dns.len <= Decodable(decoding)
    /\ dns.state # "AwaitResponse"
    /\ ~dns.torn => /\ decoding.question = dns.question /\ dns.rcode = "Success"
                    /\ dns.state \in {"Done", "Aborted"}

\* A client that was asked has a question, and one that waits shows no answer.
Waits ==
  /\ dns.state # "Closed" => dns.question \in Nat
  /\ dns.state \in {"SendQuery", "AwaitResponse"} /\ ~dns.torn => dns.len = 0

Fresh == dns.question \in Nat => Asked(dns.question)

IInv == Typed /\ (\A m \in net : Numbered(m)) /\ Decoded /\ Waits /\ Fresh

-----------------------------------------------------------------------------
(* The steps of the invariant *)

\* What Exchange allows.
Exchanges == X!Ask \/ X!Answer \/ X!Drop \/ UNCHANGED <<DnsAsked, DnsAnswer>>

\* Before the first query the invariant holds.
LEMMA InitIInv == Init => IInv
<1> SUFFICES ASSUME Init PROVE IInv
  OBVIOUS
<1> USE UDPClientsAssumption
<1>1. Typed
  BY DEF Init, Typed, DNSClient, Clients, Calls
<1>2. QED
  BY <1>1 DEF Init, IInv, Numbered, Decoded, Waits, Fresh, Clients, Asked

\* Steps that leave the DNS client alone and put no packet of a name server on the
\* network that does not repeat one.
LEMMA SilentKeeps ==
  ASSUME IInv, UNCHANGED <<dns, decoding, open["dns"], call["dns"], count["dns"]>>,
         call' \in [Clients -> Calls], open' \in [Clients -> BOOLEAN],
         count' \in [Clients -> Nat],
         \A m \in net' : m \in net \/ m.type \notin {"query", "answer"}
  PROVE  IInv' /\ Exchanges
<1>1. Typed'
  BY DEF IInv, Typed
<1>2. \A m \in net' : Numbered(m)'
  BY DEF IInv, Numbered, Asked
<1>3. Decoded' /\ Waits' /\ Fresh'
  BY DEF IInv, Decoded, Waits, Fresh, Decodable, Smaller, Asked
<1>4. Exchanges
  BY DEF Exchanges, DnsAsked, DnsAnswer
<1>5. QED
  BY <1>1, <1>2, <1>3, <1>4 DEF IInv

\* StartResolve takes a question that was never asked.  The port is closed, so that
\* no answer is being decoded.
LEMMA BeginKeeps == ASSUME IInv, NEW c \in Clients, Begin(c) PROVE IInv' /\ Exchanges
<1>1. Typed'
  BY DEF IInv, Typed, Begin, Calls
<1>2. count["dns"] \in Nat /\ count'["dns"] \in {count["dns"], count["dns"] + 1}
  BY DEF IInv, Typed, Begin, Clients
<1>3. \A m \in net' : Numbered(m)'
  <2>1. CASE c = "dns"
    <3>1. count'["dns"] = count["dns"] + 1
      BY <2>1 DEF IInv, Typed, Begin, Clients
    <3>2. QED
      BY <1>2, <3>1 DEF IInv, Numbered, Begin, Asked
  <2>2. CASE c # "dns"
    BY <2>2 DEF IInv, Typed, Numbered, Begin, Clients, Asked
  <2>3. QED
    BY <2>1, <2>2
<1>4. Decoded'
  <2>1. CASE c = "dns"
    BY <2>1 DEF IInv, Decoded, Begin, Asked
  <2>2. CASE c # "dns"
    BY <2>2 DEF IInv, Typed, Decoded, Begin, Clients, Decodable, Smaller, Asked
  <2>3. QED
    BY <2>1, <2>2
<1>5. Waits' /\ Fresh'
  <2>1. CASE c = "dns"
    BY <2>1, <1>2, UDPClientsAssumption DEF IInv, Typed, Waits, Fresh, Begin, Clients, DNSClient, Asked
  <2>2. CASE c # "dns"
    BY <2>2 DEF IInv, Typed, Waits, Fresh, Begin, Clients, Asked
  <2>3. QED
    BY <2>1, <2>2
<1>6. Exchanges
  BY DEF Exchanges, DnsAsked, DnsAnswer, Begin
<1>7. QED
  BY <1>1, <1>3, <1>4, <1>5, <1>6 DEF IInv

\* Flagging the port keeps the invariant and does nothing to the exchange.
LEMMA FlagKeeps == ASSUME IInv, NEW c \in Clients, Flag(c) PROVE IInv' /\ Exchanges
<1>1. Typed'
  BY DEF IInv, Typed, Flag, Calls
<1>2. \A m \in net' : Numbered(m)'
  BY DEF IInv, Numbered, Flag, Asked
<1>3. Decoded' /\ Waits' /\ Fresh'
  BY DEF IInv, Typed, Decoded, Waits, Fresh, Flag, Clients, Decodable, Smaller, Asked
<1>4. Exchanges
  BY DEF Exchanges, DnsAsked, DnsAnswer, Flag
<1>5. QED
  BY <1>1, <1>2, <1>3, <1>4 DEF IInv

\* The question is a new one for Exchange, or torn and none.
LEMMA SetQuestionKeeps == ASSUME IInv, SetQuestion PROVE IInv' /\ Exchanges
<1>1. /\ count["dns"] \in Nat /\ dns \in DNSClient
      /\ call["dns"] = "flagged" /\ call'["dns"] = "stated"
  BY DEF IInv, Typed, SetQuestion, Clients
<1>2. dns' = [dns EXCEPT !.state = "SendQuery", !.question = count["dns"],
                         !.rcode = "Success", !.len = 0, !.torn = decoding # None]
  BY DEF SetQuestion
<1>3. Typed'
  <2>1. (decoding # None) \in BOOLEAN
    OBVIOUS
  <2>2. dns' \in DNSClient
    BY <1>1, <1>2, <2>1 DEF DNSClient
  <2>3. QED
    BY <2>2 DEF IInv, Typed, SetQuestion, Calls
<1>4. \A m \in net' : Numbered(m)'
  BY <1>1, <1>2 DEF IInv, Numbered, SetQuestion, DNSClient, Asked
<1>5. Decoded'
  <2> SUFFICES ASSUME decoding' # None PROVE Decoded'
    BY DEF Decoded, Asked
  <2>1. decoding' = decoding /\ decoding \in AnswerPackets
    BY DEF SetQuestion, IInv, Typed
  <2>2. 0 <= Decodable(decoding)
    BY <2>1, UDPClientsAssumption DEF Decodable, Smaller, AnswerPackets
  <2>3. dns'.torn /\ dns'.len = 0 /\ dns'.state = "SendQuery"
    BY <1>1, <1>2, <2>1 DEF DNSClient
  <2>4. QED
    BY <1>1, <2>1, <2>2, <2>3 DEF IInv, Decoded, SetQuestion, Decodable, Smaller, Asked
<1>6. Waits' /\ Fresh'
  BY <1>1, <1>2 DEF SetQuestion, Waits, Fresh, DNSClient, Asked
<1>7. Exchanges
  <2>1. CASE decoding # None
    <3>1. DnsAsked' = None /\ DnsAnswer' = None
      BY <1>1, <1>2, <2>1 DEF DnsAsked, DnsAnswer, DNSClient
    <3>2. QED
      BY <3>1 DEF Exchanges, X!Drop
  <2>2. CASE decoding = None
    <3>1. DnsAsked' = count["dns"] /\ DnsAnswer' = None
      BY <1>1, <1>2, <2>2 DEF DnsAsked, DnsAnswer, DNSClient
    <3>2. DnsAsked # count["dns"]
      BY <1>1, UDPClientsAssumption DEF IInv, Fresh, DnsAsked, Asked
    <3>3. QED
      BY <3>1, <3>2, <1>1 DEF Exchanges, X!Ask
  <2>3. QED
    BY <2>1, <2>2
<1>8. QED
  BY <1>3, <1>4, <1>5, <1>6, <1>7 DEF IInv

\* No packet has the number yet that the client takes.
LEMMA NumberQuestionKeeps == ASSUME IInv, NumberQuestion PROVE IInv' /\ Exchanges
<1>1. dns \in DNSClient /\ dns' = [dns EXCEPT !.txid = dns.txid + 1, !.hw = TRUE]
  BY DEF IInv, Typed, NumberQuestion, NextTxid
<1>2. call' = [call EXCEPT !["dns"] = "idle"] /\ call'["dns"] = "idle"
  BY DEF IInv, Typed, NumberQuestion, Clients
<1>3. Typed'
  <2> dns.txid + 1 \in Nat
    BY <1>1 DEF DNSClient
  <2>1. PICK id \in Nat : dns' = [dns EXCEPT !.txid = id, !.hw = TRUE]
    BY <1>1, Zenon
  <2>2. dns' \in DNSClient
    BY <1>1, <2>1 DEF DNSClient
  <2>3. QED
    BY <1>2, <2>2 DEF IInv, Typed, NumberQuestion, Calls
<1>4. \A m \in net' : Numbered(m)'
  <2>1. dns.txid \in Nat /\ dns'.txid = dns.txid + 1
    BY <1>1 DEF DNSClient
  <2>2. QED
    BY <2>1 DEF IInv, Numbered, NumberQuestion, Asked
<1>5. Decoded' /\ Waits' /\ Fresh'
  BY <1>1, <1>2 DEF IInv, Decoded, Waits, Fresh, NumberQuestion, DNSClient, Decodable, Smaller, Asked
<1>6. Exchanges
  BY <1>1 DEF Exchanges, DnsAsked, DnsAnswer, NumberQuestion, DNSClient
<1>7. QED
  BY <1>3, <1>4, <1>5, <1>6 DEF IInv

\* Abort drops the question.
LEMMA AbortDNSKeeps == ASSUME IInv, AbortDNS PROVE IInv' /\ Exchanges
<1>1. dns \in DNSClient /\ dns' = [dns EXCEPT !.state = "Aborted"]
  BY DEF IInv, Typed, AbortDNS
<1>2. dns.state # "Closed" /\ UNCHANGED <<decoding, open, call, count, net>>
  BY DEF AbortDNS, others
<1>3. Typed'
  BY <1>1, <1>2 DEF IInv, Typed, DNSClient
<1>4. \A m \in net' : Numbered(m)'
  BY <1>1, <1>2 DEF IInv, Numbered, DNSClient, Asked
<1>5. Decoded' /\ Waits' /\ Fresh'
  BY <1>1, <1>2 DEF IInv, Decoded, Waits, Fresh, DNSClient, Decodable, Smaller, Asked
<1>6. DnsAsked' = None /\ DnsAnswer' = None
  BY <1>1 DEF DnsAsked, DnsAnswer, DNSClient
<1>7. Exchanges
  BY <1>6 DEF Exchanges, X!Drop
<1>8. QED
  BY <1>3, <1>4, <1>5, <1>7 DEF IInv

\* The query takes a number that no packet has, and repeats the question.
LEMMA SendDNSKeeps == ASSUME IInv, SendDNS PROVE IInv' /\ Exchanges
<1>1. dns \in DNSClient /\ dns.txid + 1 \in Nat /\ count["dns"] \in Nat
  BY DEF IInv, Typed, DNSClient, Clients
<1>2. decoding = None /\ UNCHANGED <<decoding, call, count>>
  BY DEF SendDNS, others
<1>3. CASE UNCHANGED <<dns, net>> /\ open' = [open EXCEPT !["dns"] = FALSE]
  <2>1. Typed' /\ Decoded'
    BY <1>2, <1>3 DEF IInv, Typed, Decoded, Asked
  <2>2. \A m \in net' : Numbered(m)'
    BY <1>2, <1>3 DEF IInv, Numbered, Asked
  <2>3. Waits' /\ Fresh' /\ Exchanges
    BY <1>2, <1>3 DEF IInv, Waits, Fresh, Exchanges, DnsAsked, DnsAnswer, Asked
  <2>4. QED
    BY <2>1, <2>2, <2>3 DEF IInv
<1>4. CASE /\ dns.state = "SendQuery" /\ UNCHANGED open
           /\ dns' = [dns EXCEPT !.state = "AwaitResponse", !.txid = NextTxid(dns.txid)]
           /\ net' = net \union {[type |-> "query", txid |-> dns'.txid, hw |-> dns.hw,
                                  question |-> dns.question]}
  <2>1. PICK id \in Nat : /\ id = dns.txid + 1
                          /\ dns' = [dns EXCEPT !.state = "AwaitResponse", !.txid = id]
    BY <1>1, <1>4, Zenon DEF NextTxid
  <2>2. Typed'
    <3>1. dns' \in DNSClient
      BY <1>1, <2>1 DEF DNSClient
    <3>2. QED
      BY <1>2, <1>4, <3>1 DEF IInv, Typed
  <2>3. /\ dns'.txid = dns.txid + 1 /\ dns.txid \in Nat
        /\ dns'.question = dns.question /\ dns'.state = "AwaitResponse"
        /\ dns'.torn = dns.torn /\ dns'.len = dns.len /\ dns.torn \in BOOLEAN
    BY <1>1, <2>1 DEF DNSClient
  <2>4. dns.question \in Nat /\ Asked(dns.question)
    BY <1>4 DEF IInv, Waits, Fresh, Asked
  <2>5. ASSUME NEW m \in net' PROVE Numbered(m)'
    <3>1. CASE m \in net
      BY <1>1, <1>2, <2>3, <3>1 DEF IInv, Numbered, Asked
    <3>2. CASE m = [type |-> "query", txid |-> dns'.txid, hw |-> dns.hw, question |-> dns.question]
      BY <1>1, <1>2, <2>3, <2>4, <3>2 DEF Numbered, Asked
    <3>3. QED
      BY <1>4, <3>1, <3>2
  <2>6. Decoded' /\ Waits' /\ Fresh'
    BY <1>2, <1>4, <2>3, <2>4 DEF IInv, Decoded, Waits, Fresh, Asked
  <2>7. Exchanges
    BY <1>2, <1>4, <2>3 DEF Exchanges, DnsAsked, DnsAnswer
  <2>8. QED
    BY <2>2, <2>5, <2>6, <2>7 DEF IInv
<1>5. QED
  BY <1>3, <1>4 DEF SendDNS

\* A server's answer keeps the invariant and does nothing to the exchange.
LEMMA AnswerQueryKeeps ==
  ASSUME IInv, NEW m \in net, AnswerQuery(m) PROVE IInv' /\ Exchanges
<1>1. UNCHANGED <<dns, decoding, open, call, count>> /\ m.type = "query"
  BY DEF AnswerQuery, others
<1>2. PICK rcode \in {"Success", "NameError"}, n \in 0 .. MaxRecords :
        net' = (net \ {m}) \union {[type |-> "answer", txid |-> m.txid, rcode |-> rcode,
                                    question |-> m.question, records |-> n]}
  BY DEF AnswerQuery
<1>3. ASSUME NEW a \in net' PROVE Numbered(a)'
  <2>1. CASE a \in net
    BY <1>1, <2>1 DEF IInv, Numbered, Asked
  <2>2. CASE a = [type |-> "answer", txid |-> m.txid, rcode |-> rcode,
                  question |-> m.question, records |-> n]
    <3>1. Numbered(m) /\ m.txid \in Nat /\ m.question \in Nat
      BY <1>1 DEF IInv, Numbered, Asked
    <3>2. a \in AnswerPackets
      BY <1>2, <2>2, <3>1 DEF AnswerPackets
    <3>3. QED
      BY <1>1, <2>2, <3>1, <3>2 DEF Numbered, Asked
  <2>3. QED
    BY <1>2, <2>1, <2>2
<1>4. Typed' /\ Decoded' /\ Waits' /\ Fresh'
  BY <1>1 DEF IInv, Typed, Decoded, Waits, Fresh, Decodable, Smaller, Asked
<1>5. Exchanges
  BY <1>1 DEF Exchanges, DnsAsked, DnsAnswer
<1>6. QED
  BY <1>3, <1>4, <1>5 DEF IInv

\* recv takes up an answer to the question that was asked, and an error shows no
\* record.
LEMMA RecvDNSKeeps ==
  ASSUME IInv, NEW m \in net, RecvEth(m), RecvDNS(m) PROVE IInv' /\ Exchanges
<1>1. /\ decoding = None /\ UNCHANGED <<call, count>>
      /\ net' \subseteq net /\ m.type = "answer" /\ open["dns"]
  BY DEF RecvEth, RecvDNS
<1>2. dns \in DNSClient
  BY DEF IInv, Typed
<1>3. CASE UNCHANGED <<dns, decoding>>
  <2>1. open' \in [Clients -> BOOLEAN]
    BY DEF RecvDNS, IInv, Typed
  <2>2. Typed' /\ Decoded' /\ Waits' /\ Fresh'
    BY <1>1, <1>3, <2>1 DEF IInv, Typed, Decoded, Waits, Fresh, Asked
  <2>3. \A a \in net' : Numbered(a)'
    BY <1>1, <1>3 DEF IInv, Numbered, Asked
  <2>4. Exchanges
    BY <1>3 DEF Exchanges, DnsAsked, DnsAnswer
  <2>5. QED
    BY <2>2, <2>3, <2>4 DEF IInv
<1>4. CASE /\ Expected(m) /\ dns' = Settled(m) /\ UNCHANGED open
           /\ decoding' = IF m.rcode = "Success" THEN m ELSE None
  <2>1. /\ m \in AnswerPackets /\ m # None
        /\ m.question = dns.question /\ Asked(m.question)
        /\ dns.question \in Nat /\ dns.state = "AwaitResponse"
    BY <1>1, <1>4, UDPClientsAssumption DEF IInv, Numbered, Expected, Waits, Asked
  <2>2. m.rcode \in {"Success", "NameError"} /\ m.records \in Nat
    BY <2>1, UDPClientsAssumption DEF AnswerPackets
  <2>3. PICK n \in Nat : /\ n = (IF m.rcode = "Success" THEN 0 ELSE dns.len)
                         /\ dns' = [dns EXCEPT !.state = "Done", !.rcode = m.rcode, !.len = n]
    BY <1>2, <1>4 DEF Settled, DNSClient
  <2>4. /\ dns'.state = "Done" /\ dns'.rcode = m.rcode /\ dns'.len = n
        /\ dns'.torn = dns.torn /\ dns'.question = dns.question /\ dns'.txid = dns.txid
        /\ dns'.recs = dns.recs /\ dns.recs \in Seq(Nat)
    BY <1>2, <2>3 DEF DNSClient
  <2>5. Typed'
    <3>1. dns' \in DNSClient
      BY <1>2, <2>2, <2>3 DEF DNSClient
    <3>2. QED
      BY <1>1, <1>4, <2>1, <3>1 DEF IInv, Typed
  <2>6. \A a \in net' : Numbered(a)'
    BY <1>1, <2>4 DEF IInv, Numbered, Asked
  <2>8. Decoded'
    <3> SUFFICES ASSUME decoding' # None PROVE Decoded'
      BY DEF Decoded, Asked
    <3>1. decoding' = m /\ n = 0 /\ m.rcode = "Success"
      BY <1>4, <2>3
    <3>2. 0 <= Decodable(m)
      BY <2>2, UDPClientsAssumption DEF Decodable, Smaller
    <3>3. QED
      BY <1>1, <1>4, <2>1, <2>4, <3>1, <3>2 DEF Decoded, Decodable, Smaller, Asked
  <2>9. Waits' /\ Fresh'
    BY <1>1, <2>1, <2>4 DEF IInv, Waits, Fresh, Asked
  <2>10. Exchanges
    <3>1. CASE dns.torn \/ m.rcode = "Success"
      BY <1>4, <2>1, <2>4, <3>1 DEF Exchanges, DnsAsked, DnsAnswer
    <3>2. CASE ~dns.torn /\ m.rcode # "Success"
      <4>1. n = 0 /\ dns'.rcode = "NameError" /\ decoding' = None
        BY <1>4, <2>1, <2>2, <2>3, <2>4, <3>2 DEF IInv, Waits
      <4>2. SubSeq(dns'.recs, 1, dns'.len) = <<>>
        BY <2>4, <4>1
      <4>3. DnsAnswer' = [rcode |-> "NameError", recs |-> <<>>]
        BY <2>4, <3>2, <4>1, <4>2 DEF DnsAnswer
      <4>4. DnsAsked' = DnsAsked /\ DnsAsked # None /\ DnsAnswer = None
        BY <2>1, <2>4, <3>2, UDPClientsAssumption DEF DnsAsked, DnsAnswer
      <4>5. DnsAnswer' \in DnsAnswersTo(DnsAsked)
        BY <4>3 DEF DnsAnswersTo
      <4>6. QED
        BY <4>4, <4>5 DEF Exchanges, X!Answer
    <3>3. QED
      BY <3>1, <3>2
  <2>11. QED
    BY <2>5, <2>6, <2>8, <2>9, <2>10 DEF IInv
<1>5. QED
  BY <1>1, <1>3, <1>4 DEF RecvDNS

\* The records that Decode puts in front are what is shown of the slice.
LEMMA ShownRecords ==
  ASSUME NEW q \in Nat, NEW n \in Nat, NEW rest \in Seq(Nat)
  PROVE  /\ [i \in 1 .. n |-> q] \o rest \in Seq(Nat)
         /\ SubSeq([i \in 1 .. n |-> q] \o rest, 1, n) = [i \in 1 .. n |-> q]
<1>1. PICK r : r = [i \in 1 .. n |-> q]
  OBVIOUS
<1>2. r \in Seq(Nat) /\ Len(r) = n
  BY <1>1
<1>3. r \o rest \in Seq(Nat) /\ Len(r \o rest) = n + Len(rest)
  BY <1>2
<1>4. SubSeq(r \o rest, 1, n) = r
  BY <1>2, <1>3
<1>5. QED
  BY <1>1, <1>3, <1>4

\* The answer shows once it is decoded, whole and all of it to the question.
LEMMA DecodeKeeps == ASSUME IInv, Decode PROVE IInv' /\ Exchanges
<1>1. /\ decoding # None /\ decoding \in AnswerPackets /\ dns \in DNSClient
      /\ UNCHANGED <<open, call, count, net>> /\ open["dns"]
  BY DEF Decode, IInv, Typed, others, Decoded
<1>2. PICK k \in Nat : k = Decodable(decoding) /\ k <= Cap /\ k <= Smaller(MaxRecords, Cap)
  BY <1>1, UDPClientsAssumption DEF Decodable, Smaller, AnswerPackets
<1>3. /\ Asked(decoding.question) /\ dns.len <= k /\ dns.state # "AwaitResponse"
      /\ decoding.question \in Nat
      /\ ~dns.torn => /\ decoding.question = dns.question /\ dns.rcode = "Success"
                      /\ dns.state \in {"Done", "Aborted"}
  BY <1>1, <1>2 DEF IInv, Decoded, AnswerPackets
<1>4. CASE /\ dns.len < k /\ dns' = [dns EXCEPT !.len = k] /\ UNCHANGED decoding
  <2>1. dns' \in DNSClient
    BY <1>1, <1>4 DEF DNSClient
  <2>2. /\ dns'.len = k /\ dns'.state = dns.state /\ dns'.question = dns.question
        /\ dns'.torn = dns.torn /\ dns'.rcode = dns.rcode /\ dns'.txid = dns.txid
    BY <1>1, <1>4 DEF DNSClient
  <2>3. Typed'
    BY <1>1, <1>4, <2>1 DEF IInv, Typed
  <2>4. \A m \in net' : Numbered(m)'
    BY <1>1, <2>2 DEF IInv, Numbered, Asked
  <2>5. Decodable(decoding)' = k
    BY <1>2, <1>4 DEF Decodable, Smaller
  <2>6. Decoded' /\ Waits' /\ Fresh'
    BY <1>1, <1>2, <1>3, <1>4, <2>2, <2>5 DEF IInv, Decoded, Waits, Fresh, Asked
  <2>7. Exchanges
    BY <1>1, <1>4, <2>2 DEF Exchanges, DnsAsked, DnsAnswer
  <2>8. QED
    BY <2>3, <2>4, <2>6, <2>7 DEF IInv
<1>5. ASSUME dns.len = k, decoding' = None,
             NEW q \in {dns.question, decoding.question},
             dns' = [dns EXCEPT !.question = q,
                       !.recs = [i \in 1 .. Smaller(dns.len, Cap) |-> decoding.question] \o
                                SubSeq(dns.recs, dns.len + 1, Len(dns.recs))]
      PROVE  IInv' /\ Exchanges
  <2>1. Smaller(dns.len, Cap) = k
    BY <1>2, <1>5, UDPClientsAssumption DEF Smaller
  <2>2. PICK rest : rest = SubSeq(dns.recs, dns.len + 1, Len(dns.recs))
    OBVIOUS
  <2>3. rest \in Seq(Nat)
    <3>1. dns.recs \in Seq(Nat) /\ dns.len + 1 \in 1 .. dns.len + 1 /\ dns.len \in Nat
      BY <1>1 DEF DNSClient
    <3>2. QED
      BY <2>2, <3>1
  <2>4. PICK recs \in Seq(Nat) : /\ recs = [i \in 1 .. k |-> decoding.question] \o rest
                                 /\ SubSeq(recs, 1, k) = [i \in 1 .. k |-> decoding.question]
    <3> DEFINE r == [i \in 1 .. k |-> decoding.question] \o rest
    <3>1. r \in Seq(Nat) /\ SubSeq(r, 1, k) = [i \in 1 .. k |-> decoding.question]
      BY <1>2, <1>3, <2>3, ShownRecords
    <3>2. QED
      BY <3>1
  <2>5. dns' = [dns EXCEPT !.question = q, !.recs = recs]
    BY <1>5, <2>1, <2>2, <2>4
  <2>6. q \in Nat \union {None}
    BY <1>1, <1>3 DEF DNSClient
  <2>7. /\ dns' \in DNSClient /\ dns'.question = q /\ dns'.recs = recs
        /\ dns'.len = k /\ dns'.state = dns.state
        /\ dns'.torn = dns.torn /\ dns'.rcode = dns.rcode /\ dns'.txid = dns.txid
    BY <1>1, <1>5, <2>5, <2>6 DEF DNSClient
  <2>8. Typed'
    BY <1>1, <1>5, <2>7 DEF IInv, Typed
  <2>9. \A m \in net' : Numbered(m)'
    BY <1>1, <1>3, <2>7 DEF IInv, Numbered, Asked
  <2>10. Decoded' /\ Waits' /\ Fresh'
    BY <1>1, <1>3, <1>5, <2>7 DEF IInv, Decoded, Waits, Fresh, Asked
  <2>11. Exchanges
    <3>1. CASE dns.torn \/ dns.state # "Done"
      BY <1>1, <1>3, <2>7, <3>1 DEF Exchanges, DnsAsked, DnsAnswer
    <3>2. CASE ~dns.torn /\ dns.state = "Done"
      <4>1. q = decoding.question /\ q = dns.question /\ dns'.rcode = "Success"
        BY <1>3, <2>7, <3>2
      <4>2. DnsAnswer = None /\ DnsAsked = q /\ DnsAsked' = DnsAsked /\ q # None
        BY <1>1, <1>3, <2>7, <3>2, <4>1, UDPClientsAssumption DEF DnsAsked, DnsAnswer
      <4>3. DnsAnswer' = [rcode |-> "Success", recs |-> [i \in 1 .. k |-> q]]
        BY <1>5, <2>4, <2>7, <3>2, <4>1 DEF DnsAnswer
      <4>4. k \in 0 .. Smaller(MaxRecords, Cap)
        BY <1>2, UDPClientsAssumption DEF Smaller
      <4>5. DnsAnswer' \in DnsAnswersTo(DnsAsked)
        BY <4>2, <4>3, <4>4 DEF DnsAnswersTo
      <4>6. QED
        BY <4>2, <4>5 DEF Exchanges, X!Answer
    <3>3. QED
      BY <3>1, <3>2
  <2>12. QED
    BY <2>8, <2>9, <2>10, <2>11 DEF IInv
<1>6. QED
  BY <1>2, <1>4, <1>5 DEF Decode

\* Every other step leaves the DNS client alone.
LEMMA NextKeeps == ASSUME IInv, [Next]_vars PROVE IInv' /\ Exchanges
<1> USE DEF others
<1>0. /\ call \in [Clients -> Calls] /\ open \in [Clients -> BOOLEAN]
      /\ count \in [Clients -> Nat]
  BY DEF IInv, Typed
<1>1. CASE SetRequest
  BY <1>0, <1>1, SilentKeeps DEF SetRequest, Clients, Calls
<1>2. CASE AbortNTP \/ HandleNothing \/ Tick \/ OtherTraffic \/ UNCHANGED vars
  BY <1>0, <1>2, SilentKeeps DEF AbortNTP, HandleNothing, Tick, OtherTraffic, vars
<1>3. CASE SendNTP
  <2>1. \A m \in net' : m \in net \/ m.type = "request"
    BY <1>3 DEF SendNTP
  <2>2. QED
    BY <1>0, <1>3, <2>1, SilentKeeps DEF SendNTP, Clients
<1>4. ASSUME NEW m \in net, RecvEth(m) PROVE IInv' /\ Exchanges
  <2>1. CASE RecvDNS(m)
    BY <1>4, <2>1, RecvDNSKeeps
  <2>2. CASE RecvNTP(m)
    <3>1. net' \subseteq net /\ UNCHANGED <<call, count>>
      BY <1>4 DEF RecvEth
    <3>2. open' \in [Clients -> BOOLEAN] /\ open'["dns"] = open["dns"]
      BY <1>0, <2>2 DEF RecvNTP, Clients
    <3>3. QED
      BY <1>0, <2>2, <3>1, <3>2, SilentKeeps DEF RecvNTP
  <2>3. CASE Unheard(m)
    BY <1>0, <1>4, <2>3, SilentKeeps DEF Unheard, RecvEth
  <2>4. QED
    BY <1>4, <2>1, <2>2, <2>3 DEF RecvEth
<1>5. ASSUME NEW m \in net, Serve(m) PROVE IInv' /\ Exchanges
  <2>1. CASE TakeRequest(m)
    <3>1. \A a \in net' : a \in net \/ a.type = "held"
      BY <2>1 DEF TakeRequest
    <3>2. QED
      BY <1>0, <2>1, <3>1, SilentKeeps DEF TakeRequest
  <2>2. CASE SendReply(m)
    <3>1. \A a \in net' : a \in net \/ a.type = "reply"
      BY <2>2 DEF SendReply
    <3>2. QED
      BY <1>0, <2>2, <3>1, SilentKeeps DEF SendReply
  <2>3. QED
    BY <1>5, <2>1, <2>2, AnswerQueryKeeps DEF Serve
<1>6. ASSUME NEW m \in net, Lose(m) PROVE IInv' /\ Exchanges
  BY <1>0, <1>6, SilentKeeps DEF Lose
<1>7. QED
  BY <1>1, <1>2, <1>3, <1>4, <1>5, <1>6, BeginKeeps, FlagKeeps, SetQuestionKeeps,
     NumberQuestionKeeps, AbortDNSKeeps, SendDNSKeeps, DecodeKeeps
  DEF Next, User, Finish, HandleEth

\* The DNS client implements Exchange: IsDone and Answers give the answer to the
\* question that was asked last, whole, with no record of another, and unchanged
\* until Abort, for any number of calls, records, losses and duplicates.
THEOREM DnsImplementsExchange == Spec => DnsExchange
<1>1. Init => X!Init
  BY DEF Init, X!Init, DnsAsked, DnsAnswer
<1>2. IInv /\ [Next]_vars => IInv'
  BY NextKeeps
<1>3. IInv /\ [Next]_vars => [X!Ask \/ X!Answer \/ X!Drop]_<<DnsAsked, DnsAnswer>>
  BY NextKeeps DEF Exchanges
<1>4. QED
  BY <1>1, <1>2, <1>3, InitIInv, PTL DEF Spec, DnsExchange, X!Spec

-----------------------------------------------------------------------------
(***************************************************************************)
(* The offset that the NTP client computes, which is the time the server   *)
(* showed at the request, is off by no more than half the round trip,      *)
(* rounding, and the age of the request that was answered, for any         *)
(* resolution of the fractions that is at least the clock's: the real      *)
(* constants included, which TLC cannot calculate with.                    *)
(*                                                                         *)
(* The first part is arithmetic: a time survives the conversion to a       *)
(* fraction and back up to a nanosecond, although both round down.  The    *)
(* second follows the timestamps from the request to the reply.            *)
(***************************************************************************)

(* Arithmetic *)

\* Quotient and remainder.
LEMMA DivBounds ==
  ASSUME NEW a \in Nat, NEW b \in Nat \ {0}
  PROVE  /\ a \div b \in Nat /\ a % b \in Nat
         /\ a % b < b
         /\ a = b * (a \div b) + (a % b)
  OBVIOUS

\* A multiple of k that is less.
LEMMA MulLess ==
  ASSUME NEW a \in Int, NEW b \in Int, NEW k \in Nat \ {0}, k * a < k * b
  PROVE  a < b
  OBVIOUS

\* The fraction of a second, rounded down to a unit of the timestamp.
LEMMA FractionIs ==
  ASSUME NEW d \in Nat
  PROVE  /\ Fraction(d) \in Nat /\ Fraction(d) < MaxFra
         /\ Second * Fraction(d) <= MaxFra * (d % Second)
         /\ MaxFra * (d % Second) < Second * Fraction(d) + Second
<1> USE NtpTimeAssumption
<1>1. PICK x \in Nat : x = d % Second /\ x < Second
  BY DivBounds
<1>2. PICK p \in Nat : p = x * MaxFra
  OBVIOUS
<1>3. PICK f \in Nat : f = p \div Second
  BY DivBounds
<1>4. /\ p = Second * f + (p % Second) /\ p % Second < Second
  BY <1>3, DivBounds
<1>5. p < Second * MaxFra
  <2>1. x + 1 <= Second
    BY <1>1
  <2>2. MaxFra * (x + 1) <= MaxFra * Second
    BY <2>1
  <2>3. QED
    BY <1>2, <2>2
<1>6. f < MaxFra
  BY <1>4, <1>5, MulLess
<1>7. Fraction(d) = f
  BY <1>1, <1>2, <1>3 DEF Fraction
<1>8. QED
  BY <1>1, <1>2, <1>4, <1>6, <1>7

\* What trunc of the difference of two fractions is in nanoseconds.
LEMMA QuotientIs ==
  ASSUME NEW a \in Nat, NEW b \in Nat, NEW x \in Nat, NEW y \in Nat, b <= a,
         Second * a <= MaxFra * x, MaxFra * x < Second * a + Second,
         Second * b <= MaxFra * y, MaxFra * y < Second * b + Second
  PROVE  /\ ((a - b) * Second) \div MaxFra \in Nat
         /\ ((a - b) * Second) \div MaxFra \in x - y - 1 .. x - y
<1> USE NtpTimeAssumption
<1>1. PICK p \in Nat : p = (a - b) * Second
  OBVIOUS
<1>2. PICK z \in Nat : z = p \div MaxFra /\ MaxFra * z <= p /\ p < MaxFra * z + MaxFra
  BY DivBounds
<1>3. p = Second * a - Second * b
  BY <1>1
<1>4. MaxFra * z < MaxFra * (x - y + 1)
  <2>1. p < MaxFra * x - MaxFra * y + Second
    BY <1>3
  <2>2. MaxFra * (x - y + 1) = MaxFra * x - MaxFra * y + MaxFra
    OBVIOUS
  <2>3. QED
    BY <1>2, <2>1, <2>2
<1>5. MaxFra * (x - y - 2) < MaxFra * z
  <2>1. MaxFra * x - MaxFra * y - Second < p
    BY <1>3
  <2>2. MaxFra * (x - y - 2) = MaxFra * x - MaxFra * y - MaxFra - MaxFra
    OBVIOUS
  <2>3. QED
    BY <1>2, <2>1, <2>2
<1>6. z < x - y + 1 /\ x - y - 2 < z
  BY <1>4, <1>5, MulLess
<1>7. QED
  BY <1>1, <1>2, <1>6

\* Timestamp.Sub of two times is their difference, up to one nanosecond.
LEMMA SubIs ==
  ASSUME NEW d \in Nat, NEW g \in Nat
  PROVE  \E n \in Int : /\ n = Sub(FromTime(d), FromTime(g))
                        /\ (d - g) - 1 <= n /\ n <= (d - g) + 1
<1> USE NtpTimeAssumption
<1>1. PICK q \in Nat, x \in Nat : /\ q = d \div Second /\ x = d % Second
                                 /\ d = Second * q + x
  BY DivBounds
<1>2. PICK r \in Nat, y \in Nat : /\ r = g \div Second /\ y = g % Second
                                 /\ g = Second * r + y
  BY DivBounds
<1>3. PICK a \in Nat : /\ a = Fraction(d)
                       /\ Second * a <= MaxFra * x /\ MaxFra * x < Second * a + Second
  BY <1>1, FractionIs
<1>4. PICK b \in Nat : /\ b = Fraction(g)
                       /\ Second * b <= MaxFra * y /\ MaxFra * y < Second * b + Second
  BY <1>2, FractionIs
<1>5. (q - r) * Second + (x - y) = d - g
  <2>1. (q - r) * Second = Second * q - Second * r
    OBVIOUS
  <2>2. QED
    BY <1>1, <1>2, <2>1
<1>6. Sub(FromTime(d), FromTime(g)) =
        (q - r) * Second + (IF a - b < 0 THEN -(((-(a - b)) * Second) \div MaxFra)
                                         ELSE ((a - b) * Second) \div MaxFra)
  <2>1. FromTime(d) = [sec |-> q, fra |-> a] /\ FromTime(g) = [sec |-> r, fra |-> b]
    BY <1>1, <1>2, <1>3, <1>4 DEF FromTime
  <2>2. QED
    BY <2>1 DEF Sub
<1>7. CASE a - b < 0
  <2>0. a <= b
    BY <1>7
  <2>1. PICK z \in Nat : z = ((b - a) * Second) \div MaxFra /\ z \in y - x - 1 .. y - x
    BY <2>0, <1>3, <1>4, QuotientIs
  <2>2. (-(a - b)) * Second = (b - a) * Second
    OBVIOUS
  <2>3. Sub(FromTime(d), FromTime(g)) = (q - r) * Second + (-z)
    BY <1>6, <1>7, <2>1, <2>2
  <2>4. QED
    BY <1>5, <2>1, <2>3
<1>8. CASE ~(a - b < 0)
  <2>1. PICK z \in Nat : z = ((a - b) * Second) \div MaxFra /\ z \in x - y - 1 .. x - y
    BY <1>3, <1>4, <1>8, QuotientIs
  <2>2. Sub(FromTime(d), FromTime(g)) = (q - r) * Second + z
    BY <1>6, <1>8, <2>1
  <2>3. QED
    BY <1>5, <2>1, <2>2
<1>9. QED
  BY <1>7, <1>8

\* Half of a difference, rounded towards zero.
LEMMA HalfIs ==
  ASSUME NEW d \in Int
  PROVE  \E h \in Int : h = Half(d) /\ d - 1 <= 2 * h /\ 2 * h <= d + 1
<1>1. Half(d) \in Int /\ d - 1 <= 2 * Half(d) /\ 2 * Half(d) <= d + 1
  BY DEF Half
<1>2. QED
  BY <1>1

\* Timestamp.Add to zero is the timestamp of the duration, in the first era.
LEMMA AddIs ==
  ASSUME NEW d \in Nat, d < (MaxSec + 1) * Second
  PROVE  Add(ZeroTimestamp, d) = FromTime(d)
<1> USE NtpTimeAssumption
<1>1. PICK q \in Nat : q = d \div Second /\ Second * q <= d
  BY DivBounds
<1>2. q < MaxSec + 1
  <2>1. Second * q < Second * (MaxSec + 1)
    BY <1>1
  <2>2. QED
    BY <2>1, MulLess
<1>3. PICK a \in Nat : a = Fraction(d) /\ a < MaxFra
  BY FractionIs
<1>4. a \div (MaxFra + 1) = 0 /\ a % (MaxFra + 1) = a
  BY <1>3
<1>5. q % (MaxSec + 1) = q
  BY <1>2
<1>6. 0 + a = a /\ 0 + q + 0 = q
  OBVIOUS
<1>7. QED
  BY <1>1, <1>3, <1>4, <1>5, <1>6 DEF Add, ZeroTimestamp, FromTime

\* The zero timestamp is that of the base time.
LEMMA ZeroIs == ZeroTimestamp = FromTime(0)
  BY NtpTimeAssumption DEF ZeroTimestamp, FromTime, Fraction

-----------------------------------------------------------------------------
(* The invariant *)

NTPClient ==
  [state : {"Closed", "Send1", "Await1", "Done"}, live : BOOLEAN, start : Nat,
   t : Seq([sec : Nat, fra : Nat]), for : Nat]

NtpTyped ==
  /\ ntp \in NTPClient
  /\ now \in Nat /\ now <= MaxTime /\ skew \in Nat
  /\ ntp.start <= now

\* A packet between the client and a time server bears the times at which the
\* server had it, none of them before it was sent.
Stamped(m) ==
  /\ m.type \in {"request", "held", "reply"} =>
       m.origin = ZeroTimestamp /\ m.sent \in Nat /\ m.sent <= ntp.start
  /\ m.type = "held" =>
       \E r \in 0 .. now : m.sent <= r /\ m.receive = FromTime(r + skew)
  /\ m.type = "reply" =>
       \E r, s \in 0 .. now : /\ m.sent <= r /\ r <= s
                             /\ m.receive = FromTime(r + skew)
                             /\ m.transmit = FromTime(s + skew)

\* The four times of a client that is done: when the server had the request, when
\* it sent the reply, and when the reply arrived.
Timed ==
  ntp.state = "Done" =>
    /\ ntp.for <= ntp.start
    /\ \E r, s, a \in 0 .. now :
         /\ ntp.for <= r /\ r <= s /\ s <= a /\ ntp.start <= a
         /\ ntp.t = <<ZeroTimestamp, FromTime(r + skew), FromTime(s + skew),
                      Add(ZeroTimestamp, a - ntp.start)>>

NtpInv == NtpTyped /\ (\A m \in net : Stamped(m)) /\ Timed

\* Conversions give natural numbers, seconds and fractions.
LEMMA FromTimeType ==
  ASSUME NEW d \in Nat PROVE FromTime(d) \in [sec : Nat, fra : Nat]
<1>1. d \div Second \in Nat
  BY DivBounds, NtpTimeAssumption
<1>2. QED
  BY <1>1, FractionIs DEF FromTime

\* Before the first request the invariant holds.
LEMMA NtpInit == Init => NtpInv
<1> SUFFICES ASSUME Init PROVE NtpInv
  OBVIOUS
<1>1. ZeroTimestamp \in [sec : Nat, fra : Nat]
  BY DEF ZeroTimestamp
<1>2. PICK t : t = <<ZeroTimestamp, ZeroTimestamp, ZeroTimestamp, ZeroTimestamp>>
  OBVIOUS
<1>3. t \in Seq([sec : Nat, fra : Nat])
  BY <1>1, <1>2
<1>4. ntp = [state |-> "Closed", live |-> FALSE, start |-> 0, t |-> t, for |-> 0]
  BY <1>2 DEF Init
<1>5. ntp \in NTPClient
  BY <1>3, <1>4 DEF NTPClient
<1>6. skew \in Nat /\ now = 0 /\ MaxTime \in Nat
  BY UDPClientsAssumption DEF Init
<1>7. NtpTyped /\ Timed
  BY <1>4, <1>5, <1>6 DEF NtpTyped, Timed
<1>8. QED
  BY <1>7 DEF NtpInv, Init

\* Steps that leave the client and the clocks alone and put no packet of a time
\* server on the network.
LEMMA NtpSilentKeeps ==
  ASSUME NtpInv, UNCHANGED <<ntp, now, skew>>,
         \A m \in net' : m \in net \/ m.type \in {"query", "answer"}
  PROVE  NtpInv'
<1>1. NtpTyped' /\ Timed'
  BY DEF NtpInv, NtpTyped, Timed
<1>2. ASSUME NEW m \in net' PROVE Stamped(m)'
  <2>1. CASE m \in net
    BY <2>1 DEF NtpInv, Stamped
  <2>2. CASE m.type \in {"query", "answer"}
    BY <2>2 DEF Stamped
  <2>3. QED
    BY <2>1, <2>2
<1>3. QED
  BY <1>1, <1>2 DEF NtpInv

\* SetRequest and Abort change neither the times nor when the request was sent.
LEMMA NtpUserKeeps == ASSUME NtpInv, SetRequest \/ AbortNTP PROVE NtpInv'
<1>1. ntp \in NTPClient /\ UNCHANGED <<now, skew, net>>
  BY DEF NtpInv, NtpTyped, SetRequest, AbortNTP, others
<1>2. PICK st \in {ntp.state, "Send1"}, live \in BOOLEAN :
        ntp' = [ntp EXCEPT !.live = live, !.state = st]
  <2>1. CASE SetRequest
    BY <2>1 DEF SetRequest
  <2>2. CASE AbortNTP
    <3>1. ntp' = [ntp EXCEPT !.live = FALSE, !.state = ntp.state]
      BY <1>1, <2>2 DEF AbortNTP, NTPClient
    <3>2. QED
      BY <3>1
  <2>3. QED
    BY <2>1, <2>2
<1>3. /\ ntp' \in NTPClient /\ ntp'.start = ntp.start /\ ntp'.t = ntp.t
      /\ ntp'.for = ntp.for /\ ntp'.state \in {ntp.state, "Send1"}
  BY <1>1, <1>2 DEF NTPClient
<1>4. NtpTyped' /\ Timed'
  BY <1>1, <1>3 DEF NtpInv, NtpTyped, Timed
<1>5. \A m \in net' : Stamped(m)'
  BY <1>1, <1>3 DEF NtpInv, Stamped
<1>6. QED
  BY <1>4, <1>5 DEF NtpInv

\* A request leaves now, which is no earlier than any before it.
LEMMA SendNTPKeeps == ASSUME NtpInv, SendNTP PROVE NtpInv'
<1>1. ntp \in NTPClient /\ UNCHANGED <<now, skew>> /\ now \in Nat
  BY DEF NtpInv, NtpTyped, SendNTP, others
<1>2. CASE UNCHANGED <<ntp, net>>
  BY <1>1, <1>2, NtpSilentKeeps
<1>3. CASE /\ ntp' = [ntp EXCEPT !.state = "Await1", !.start = now]
           /\ net' = net \union {[type |-> "request", origin |-> ZeroTimestamp, sent |-> now]}
  <2>1. /\ ntp' \in NTPClient /\ ntp'.start = now /\ ntp'.state = "Await1"
    BY <1>1, <1>3 DEF NTPClient
  <2>2. NtpTyped' /\ Timed'
    BY <1>1, <2>1 DEF NtpInv, NtpTyped, Timed
  <2>3. ASSUME NEW m \in net' PROVE Stamped(m)'
    <3>1. CASE m \in net
      <4>1. ntp.start \in Nat /\ ntp.start <= now
        BY DEF NtpInv, NtpTyped, NTPClient
      <4>2. QED
        BY <1>1, <2>1, <3>1, <4>1 DEF NtpInv, Stamped
    <3>2. CASE m = [type |-> "request", origin |-> ZeroTimestamp, sent |-> now]
      BY <1>1, <2>1, <3>2 DEF Stamped
    <3>3. QED
      BY <1>3, <3>1, <3>2
  <2>4. QED
    BY <2>2, <2>3 DEF NtpInv
<1>4. QED
  BY <1>2, <1>3 DEF SendNTP

\* A server stamps what it takes in and what it sends with its clock.
LEMMA ServeKeeps ==
  ASSUME NtpInv, NEW m \in net, TakeRequest(m) \/ SendReply(m) PROVE NtpInv'
<1>1. UNCHANGED <<ntp, now, skew>> /\ now \in Nat /\ ntp.start <= now /\ ntp.start \in Nat
  BY DEF NtpInv, NtpTyped, NTPClient, TakeRequest, SendReply, others
<1>2. m.sent \in Nat /\ m.sent <= now /\ m.sent <= ntp.start /\ m.origin = ZeroTimestamp
  BY <1>1 DEF NtpInv, Stamped, TakeRequest, SendReply
<1>3. \A a \in net : Stamped(a)'
  BY <1>1 DEF NtpInv, Stamped
<1>4. NtpTyped' /\ Timed'
  BY <1>1 DEF NtpInv, NtpTyped, Timed
<1>5. CASE TakeRequest(m)
  <2>1. net' = (net \ {m}) \union {[type |-> "held", origin |-> m.origin, sent |-> m.sent,
                                    receive |-> FromTime(now + skew)]}
    BY <1>5 DEF TakeRequest, ServerTime
  <2>2. ASSUME NEW a \in net' PROVE Stamped(a)'
    <3>1. CASE a = [type |-> "held", origin |-> m.origin, sent |-> m.sent,
                    receive |-> FromTime(now + skew)]
      <4>1. now \in 0 .. now /\ m.sent <= now /\ a.receive = FromTime(now + skew)
        BY <1>1, <1>2, <3>1
      <4>2. QED
        BY <1>1, <1>2, <3>1, <4>1 DEF Stamped
    <3>2. QED
      BY <1>3, <2>1, <3>1
  <2>3. QED
    BY <1>4, <2>2 DEF NtpInv
<1>6. CASE SendReply(m)
  <2>1. net' = (net \ {m}) \union {[type |-> "reply", origin |-> m.origin, sent |-> m.sent,
                                    receive |-> m.receive, transmit |-> FromTime(now + skew)]}
    BY <1>6 DEF SendReply, ServerTime
  <2>2. PICK r \in 0 .. now : m.sent <= r /\ m.receive = FromTime(r + skew)
    BY <1>6 DEF SendReply, NtpInv, Stamped
  <2>3. ASSUME NEW a \in net' PROVE Stamped(a)'
    <3>1. CASE a = [type |-> "reply", origin |-> m.origin, sent |-> m.sent,
                    receive |-> m.receive, transmit |-> FromTime(now + skew)]
      <4>1. /\ now \in 0 .. now /\ r <= now /\ a.sent <= r
            /\ a.receive = FromTime(r + skew) /\ a.transmit = FromTime(now + skew)
        BY <1>1, <2>2, <3>1
      <4>2. a.type = "reply" /\ a.origin = ZeroTimestamp /\ a.sent \in Nat /\ a.sent <= ntp.start
        BY <1>2, <3>1
      <4>3. QED
        BY <1>1, <2>2, <4>1, <4>2 DEF Stamped
    <3>2. QED
      BY <1>3, <2>1, <3>1
  <2>4. QED
    BY <1>4, <2>3 DEF NtpInv
<1>7. QED
  BY <1>5, <1>6

\* Time that passes keeps it.
LEMMA TickKeeps == ASSUME NtpInv, Tick PROVE NtpInv'
<1>1. /\ UNCHANGED <<ntp, skew, net>> /\ now \in Nat /\ now' \in Nat /\ now <= now'
      /\ now' <= MaxTime
  BY UDPClientsAssumption DEF NtpInv, NtpTyped, Tick
<1>2. NtpTyped'
  <2>1. ntp.start \in Nat /\ ntp.start <= now
    BY DEF NtpInv, NtpTyped, NTPClient
  <2>2. QED
    BY <1>1, <2>1 DEF NtpInv, NtpTyped
<1>3. 0 .. now \subseteq 0 .. now'
  BY <1>1
<1>4. ASSUME NEW m \in net' PROVE Stamped(m)'
  BY <1>1, <1>3 DEF NtpInv, Stamped
<1>5. Timed'
  BY <1>1, <1>3 DEF NtpInv, Timed
<1>6. QED
  BY <1>2, <1>4, <1>5 DEF NtpInv

\* The client takes the times of the reply, and its own.
LEMMA RecvNTPKeeps ==
  ASSUME NtpInv, NEW m \in net, MaxTime < (MaxSec + 1) * Second, RecvEth(m), RecvNTP(m)
  PROVE  NtpInv'
<1>1. /\ UNCHANGED <<now, skew>> /\ net' \subseteq net /\ m.type = "reply"
      /\ now \in Nat /\ skew \in Nat /\ ntp \in NTPClient
      /\ ntp.start \in Nat /\ ntp.start <= now /\ now <= MaxTime
  BY DEF RecvEth, RecvNTP, NtpInv, NtpTyped, NTPClient
<1>2. CASE UNCHANGED ntp
  BY <1>1, <1>2, NtpSilentKeeps
<1>3. CASE /\ ntp' = [ntp EXCEPT !.state = "Done", !.for = m.sent,
                         !.t = <<m.origin, m.receive, m.transmit, UnsyncTimestamp>>]
           /\ m.origin = ZeroTimestamp
  <2>1. PICK r \in 0 .. now, s \in 0 .. now :
          /\ m.sent <= r /\ r <= s
          /\ m.receive = FromTime(r + skew) /\ m.transmit = FromTime(s + skew)
    BY <1>1 DEF NtpInv, Stamped
  <2>2. m.sent \in Nat /\ m.sent <= ntp.start
    BY <1>1 DEF NtpInv, Stamped
  <2>3. PICK t : t = <<ZeroTimestamp, FromTime(r + skew), FromTime(s + skew),
                       Add(ZeroTimestamp, now - ntp.start)>>
    OBVIOUS
  <2>4. t \in Seq([sec : Nat, fra : Nat])
    <3>1. r + skew \in Nat /\ s + skew \in Nat /\ now - ntp.start \in Nat
      BY <1>1
    <3>2. Add(ZeroTimestamp, now - ntp.start) = FromTime(now - ntp.start)
      <4>1. MaxTime \in Nat /\ now - ntp.start <= MaxTime
        BY <1>1, UDPClientsAssumption
      <4>2. PICK era \in Nat : era = (MaxSec + 1) * Second
        BY NtpTimeAssumption
      <4>3. now - ntp.start < era
        BY <3>1, <4>1, <4>2
      <4>4. QED
        BY <3>1, <4>2, <4>3, AddIs
    <3>3. ZeroTimestamp \in [sec : Nat, fra : Nat]
      BY DEF ZeroTimestamp
    <3>4. /\ FromTime(r + skew) \in [sec : Nat, fra : Nat]
          /\ FromTime(s + skew) \in [sec : Nat, fra : Nat]
          /\ FromTime(now - ntp.start) \in [sec : Nat, fra : Nat]
      BY <3>1, FromTimeType
    <3>5. QED
      BY <2>3, <3>2, <3>3, <3>4
  <2>5. ntp' = [ntp EXCEPT !.state = "Done", !.for = m.sent, !.t = t]
    BY <1>3, <2>1, <2>3 DEF UnsyncTimestamp
  <2>6. /\ ntp' \in NTPClient /\ ntp'.start = ntp.start /\ ntp'.for = m.sent /\ ntp'.t = t
    BY <1>1, <2>2, <2>4, <2>5 DEF NTPClient
  <2>7. NtpTyped'
    BY <1>1, <2>6 DEF NtpInv, NtpTyped
  <2>8. Timed'
    <3>1. /\ now \in 0 .. now /\ s <= now /\ m.sent <= r /\ r <= s
          /\ t = <<ZeroTimestamp, FromTime(r + skew), FromTime(s + skew),
                   Add(ZeroTimestamp, now - ntp.start)>>
      BY <1>1, <2>1, <2>3
    <3>2. QED
      BY <1>1, <2>1, <2>2, <2>6, <3>1 DEF Timed
  <2>9. \A a \in net' : Stamped(a)'
    BY <1>1, <2>6 DEF NtpInv, Stamped
  <2>10. QED
    BY <2>7, <2>8, <2>9 DEF NtpInv
<1>4. QED
  BY <1>2, <1>3 DEF RecvNTP

\* Every step keeps it, within the first NTP era.
LEMMA NtpNextKeeps ==
  ASSUME NtpInv, MaxTime < (MaxSec + 1) * Second, [Next]_vars PROVE NtpInv'
<1> USE DEF others
<1>1. ASSUME NEW c \in Clients, Begin(c) \/ Flag(c) PROVE NtpInv'
  BY <1>1, NtpSilentKeeps DEF Begin, Flag
<1>2. CASE SetQuestion \/ NumberQuestion \/ AbortDNS
  BY <1>2, NtpSilentKeeps DEF SetQuestion, NumberQuestion, AbortDNS
<1>3. CASE HandleNothing \/ Decode \/ OtherTraffic \/ UNCHANGED vars
  BY <1>3, NtpSilentKeeps DEF HandleNothing, Decode, OtherTraffic, vars
<1>4. CASE SendDNS
  <2>1. \A m \in net' : m \in net \/ m.type = "query"
    BY <1>4 DEF SendDNS
  <2>2. QED
    BY <1>4, <2>1, NtpSilentKeeps DEF SendDNS
<1>5. ASSUME NEW m \in net, RecvEth(m) PROVE NtpInv'
  <2>1. CASE RecvDNS(m) \/ Unheard(m)
    BY <1>5, <2>1, NtpSilentKeeps DEF RecvEth, RecvDNS, Unheard
  <2>2. QED
    BY <1>5, <2>1, RecvNTPKeeps DEF RecvEth
<1>6. ASSUME NEW m \in net, Serve(m) PROVE NtpInv'
  <2>1. CASE AnswerQuery(m)
    <3>1. \A a \in net' : a \in net \/ a.type = "answer"
      BY <2>1 DEF AnswerQuery
    <3>2. QED
      BY <2>1, <3>1, NtpSilentKeeps DEF AnswerQuery
  <2>2. QED
    BY <1>6, <2>1, ServeKeeps DEF Serve
<1>7. ASSUME NEW m \in net, Lose(m) PROVE NtpInv'
  BY <1>7, NtpSilentKeeps DEF Lose
<1>8. QED
  BY <1>1, <1>2, <1>3, <1>4, <1>5, <1>6, <1>7, NtpUserKeeps, SendNTPKeeps, TickKeeps
  DEF Next, User, Finish, HandleEth

\* The error of the offset, from the four times.
LEMMA TimesGiveOffset ==
  ASSUME NtpInv, MaxTime < (MaxSec + 1) * Second PROVE OffsetIsServerTime
<1> SUFFICES ASSUME ntp.state = "Done"
             PROVE  2 * Abs(Offset - ServerAtRequest) <= RoundTrip + 2 * (ntp.start - ntp.for) + 6
  BY DEF OffsetIsServerTime, WithinError
<1>1. /\ ntp.start \in Nat /\ ntp.for \in Nat /\ skew \in Nat /\ now \in Nat
      /\ now <= MaxTime /\ ntp.for <= ntp.start
  BY DEF NtpInv, NtpTyped, NTPClient, Timed
<1>2. PICK r \in 0 .. now, s \in 0 .. now, a \in 0 .. now :
        /\ ntp.for <= r /\ r <= s /\ s <= a /\ ntp.start <= a
        /\ ntp.t = <<ZeroTimestamp, FromTime(r + skew), FromTime(s + skew),
                     Add(ZeroTimestamp, a - ntp.start)>>
  BY DEF NtpInv, Timed
<1>3. PICK g \in Nat : g = a - ntp.start
  BY <1>1, <1>2
<1>4. Add(ZeroTimestamp, a - ntp.start) = FromTime(g)
  <2>1. PICK era \in Nat : era = (MaxSec + 1) * Second
    BY NtpTimeAssumption
  <2>2. g < era
    BY <1>1, <1>2, <1>3, <2>1, UDPClientsAssumption
  <2>3. QED
    BY <1>3, <2>1, <2>2, AddIs
<1>5. /\ ntp.t[1] = FromTime(0) /\ ntp.t[2] = FromTime(r + skew)
      /\ ntp.t[3] = FromTime(s + skew) /\ ntp.t[4] = FromTime(g)
  BY <1>2, <1>4, ZeroIs
<1>6. PICK d \in Nat, f \in Nat : d = r + skew /\ f = s + skew
  BY <1>1
<1>7. PICK x \in Int : x = Sub(ntp.t[2], ntp.t[1]) /\ (d - 0) - 1 <= x /\ x <= (d - 0) + 1
  BY <1>5, <1>6, SubIs
<1>8. PICK y \in Int : y = Sub(ntp.t[3], ntp.t[4]) /\ (f - g) - 1 <= y /\ y <= (f - g) + 1
  BY <1>5, <1>6, SubIs
<1>9. PICK z \in Int : z = RoundTrip /\ (g - 0) - 1 <= z
  BY <1>5, SubIs DEF RoundTrip
<1>10. PICK u \in Int : u = Half(x) /\ x - 1 <= 2 * u /\ 2 * u <= x + 1
  BY HalfIs
<1>11. PICK v \in Int : v = Half(y) /\ y - 1 <= 2 * v /\ 2 * v <= y + 1
  BY HalfIs
<1>12. Offset = u + v
  BY <1>7, <1>8, <1>10, <1>11 DEF Offset
<1>13. PICK e \in Int : e = u + v - (ntp.start + skew)
  BY <1>1
<1>14. ntp.for <= r /\ r <= s /\ s <= a /\ ntp.start <= a
  BY <1>2
<1>15. /\ 2 * e <= g + 4
       /\ -(2 * e) <= g + 2 * (ntp.start - ntp.for) + 4
  BY <1>1, <1>3, <1>6, <1>7, <1>8, <1>10, <1>11, <1>13, <1>14
<1>16. Offset - ServerAtRequest = e
  BY <1>1, <1>12, <1>13 DEF ServerAtRequest
<1>17. 2 * Abs(e) <= g + 2 * (ntp.start - ntp.for) + 4
  BY <1>1, <1>3, <1>13, <1>15 DEF Abs
<1>18. QED
  BY <1>1, <1>9, <1>13, <1>16, <1>17 DEF Abs

\* What NTPClient.Offset gives is the time the server's clock showed at the request,
\* off by no more than half the round trip, the age of the request that was answered
\* and three nanoseconds, for any clocks, delays and resolutions within the first era.
THEOREM OffsetGivesServerTime ==
  ASSUME MaxTime < (MaxSec + 1) * Second PROVE Spec => []OffsetIsServerTime
<1>1. NtpInv /\ [Next]_vars => NtpInv'
  BY NtpNextKeeps
<1>2. NtpInv => OffsetIsServerTime
  BY TimesGiveOffset
<1>3. QED
  BY <1>1, <1>2, NtpInit, PTL DEF Spec
=============================================================================

# Verification of seqs

TLA+ models of `seqs`, a TCP/IP stack for small devices written in Go: the TCP
state machine (`src/*.go`), the port stack with its TCP, listener, ARP, DHCP, DNS and
NTP code (`src/stacks/`), and the code that reads and writes checksums, DNS messages,
NTP timestamps (`src/eth/`) and HTTP headers (`src/httpx/`). The models are checked with TLC on small instances, and the
most important safety properties are proved with TLAPS for all values of the
constants.

`tlc -config X.cfg M` checks a run, `tlapm M.tla` the proofs of a module.

## The system

A program owns one `PortStack` per network interface. One goroutine loops over
`RecvEth` (a frame came in) and `HandleEth` (write the next frame to send); user
goroutines dial, accept, read, write, close and start ARP, DHCP, DNS or NTP requests. The
two kinds of goroutine share the connection objects and the port tables, and
there is no lock anywhere: what a user call does in two steps the interface loop
can get between. There is no retransmission of data and no timer thread; time is
only looked at when `HandleEth` visits a port.

| component | state | operations | interacts with |
|---|---|---|---|
| sequence numbers and segments (`seqs.go`, `valuesize.go`) | none | `Add`, `Sizeof`, `LessThan`, `InWindow`, `Segment.LEN` | used by `ControlBlock` |
| `ControlBlock` (`control.go`, `control_user.go`) | state, send and receive sequence space, two pending-flag slots, challenge ACK, reset pointer | `Open`, `Close`, `Send`, `Recv`, `PendingSegment`, `SetRecvWindow` | called by `TCPConn` |
| `ring` (`stacks/ring.go`) | buffer, `off`, `end` | `Write`, `Read`, `Reset` | tx and rx of a `TCPConn` |
| `TCPConn` (`stacks/tcpconn.go`) | control block, tx and rx, remote address, closing flag, time of the last packets | `OpenDialTCP`, `OpenListenTCP`, `Read`, `Write`, `Close`; `recv`, `send`, `isPendingHandling` for the stack | calls `FlagPendingTCP`; called by the stack or the listener |
| `TCPListener` (`stacks/tcplistener.go`) | slots of `TCPConn`, which are handed out, open flag | `StartListening`, `Accept`, `recv`, `send`, `freeConnForReuse` | one port of the stack, many connections |
| `PortStack` (`stacks/portstack.go`, `port_*.go`) | port tables, one pending counter per protocol, own address | `OpenUDP/TCP`, `FlagPending`, `Close`, `RecvEth`, `HandleEth` | calls handlers |
| ARP client (`stacks/arp.go`) | the current resolution, one pending reply | `BeginResolve`, `Abort`, `recv`, `handle` | embedded in the stack |
| DHCP client and server (`stacks/dhcp_*.go`) | protocol state, transaction number, offer, server; table of hosts, one waiting packet | `BeginRequest`, `Abort`, `send`, `recv`; `HandleUDP` | UDP handlers |
| checksums (`eth/crc.go`, `eth/headers.go`) | sum, held-back byte | `Write`, `AddUint8/16/32`, `Sum16`, header checksums | used by the stack |
| DNS client (`stacks/dns_client.go`) | protocol state, transaction number, the message with the question and the answers | `StartResolve`, `Abort`, `IsDone`, `Answers`; `send`, `recv` | UDP handler; decodes with `eth/dns` |
| NTP client (`stacks/ntp_client.go`) | protocol state, start time, four timestamps | `BeginDefaultRequest`, `Abort`, `Offset`; `send`, `recv` | UDP handler; computes with `eth/ntp` |
| DNS messages (`eth/dns/`) | four slices of records, with a capacity | `Decode`, `AppendTo`, `AddQuestions`, `LimitResourceDecoding`, `Reset` | used by the DNS client |
| NTP timestamps (`eth/ntp/ntp.go`) | none | `TimestampFromTime`, `Add`, `Sub` | used by the NTP client |
| HTTP headers (`httpx/header_*.go`, `args.go`) | fields, arguments with reusable slots, options | `Read`, `AppendBytes`, setters, `Add`, `Reset` | a `bufio.Reader` over a connection |
| cookies (`httpx/cookie.go`) | fields of a cookie | setters, `AppendBytes`, `Parse`, `Reset` | request cookies are a field of a header |
| byte layout of headers and of DHCP and NTP packets, backoff, logging | none | encode, decode, wait, print | |

What is hard: a connection's state is spread over the control block's state,
the closing flag, the port table and the pending counter, which are changed in
different steps by different goroutines; segments are lost, doubled and
overtaken; nothing is sent a second time except a SYN; sequence numbers wrap; and
everything depends on one counter per protocol that makes `HandleEth` look at the
ports. `PROJECT.json` lists these hazards at the line where they bite, with the
properties that would catch them.

What makes each part correct: a ring is a bounded FIFO queue; a control block
follows RFC 9293's diagram and never sends anything after its FIN; two connected
stacks deliver a prefix of what was written, agree on sequence numbers, connect
and release their ports; a stack does not forget a handler with something to send;
an ARP or DHCP answer belongs to the request it is taken for; a listener keeps
its clients apart; a DNS answer is whole and belongs to the last question, an NTP exchange
gives the server's time to within half the round trip; checksums are those of RFC 791 however the
data is cut; a request is read as what its lines say however the network cuts it, a
response says what was last set, and what the package writes it reads back.

## The modules

**Ring, Fifo, MCRing, RingProofs.** `Ring` models `stacks/ring.go`: the record
`[buf, off, end]` with `end = 0` for empty, and `Write`, `Read` and `Reset` with the index
arithmetic and the branches of the code; `Fifo` is what it promises, a bounded
queue with the same operations and results. The refinement maps the queue to
`Contents(ring)`.

**SeqNum, TCB, ControlBlock, MCControlBlock, ControlBlockProofs.** `SeqNum` is the arithmetic of
`Value` and `Size` modulo `SeqMod`. `TCB` has every method of `ControlBlock` as an operator
from a control block to a control block and a result, one per state method
(`RcvListen` to `RcvTimeWait`), with `Recv`, `Sent`, `PendingSegment`, `Open`,
`Close` and the drop and reset paths. `ControlBlock` makes one control block a state
machine under any caller: open, close, change of window, transmission of what
`PendingSegment` proposes, and arbitrary segments. `finSent` is a history variable.

**TCPConn, TCPLink, MCTCPLink, TCPLinkProofs.** `TCPConn` has the methods of a connection over `TCB`:
`RecvPacket`, `SendPacket`, `CloseConn`, `StateCheck`, `IsPendingHandling`. Its buffers
are sequences, which the proof about `Ring` justifies, except that a `Read` with an
empty slice on a full buffer empties it, as the ring does. `TCPLink` composes two stacks with one TCP port each,
a user goroutine on each side and a link in each direction. `Write` and the open
calls are two actions each, because `HandleEth` can run between their steps; `RecvEth`
and `HandleEth` are one action each, including the closing of the port when a handler returns an
error. The link drops, duplicates and reorders as far as `Faults` and `MaxFaults` say;
`Idle` lets three seconds pass on one side.

**Listener, MCListener, ListenerProofs.** A `TCPListener` with `NSlots` connections of `TCPConn`, its clients
(each a stack with one dialled `TCPConn`), the links, and the users of accepted
connections, identified by the pair of slot and client for which `Accept` was called. `RecvEth`
chooses the slot as `recv` does; `HandleEth` is `send` with its loop over the slots.

**PortStack, PortStackProofs.** The port tables with abstract handlers, each *quiet*, *waiting*
(pending but with nothing to write yet) or *ready*. `HandleEth` is not atomic here: each loop
iteration is a step, so `Concurrent` can admit user calls in the middle. `told` is a
history flag of a port: the stack has had the occasion to learn that its handler
is pending.

**Arp, MCArp, ArpProofs.** The ARP clients of several stacks on a segment that loses and
reorders. `asked` remembers the last address asked for; `excused` records that a
packet was lost, an address changed or a request found no room for its reply.

**Dhcp, MCDhcp, DhcpProofs.** DHCP clients and servers on a broadcast segment. `BeginRequest` is two steps,
because `OpenUDP` comes before the transaction number is set. A message has the header fields and options that either side acts on, among them the
server identification: `recv` takes the server's address from it in every state (`ServerOf`), so a message of another server can put that server in the
place of the one whose offer was taken. `DHCPServer` does not send this option, other servers do; the servers in `Identifying` stand for them and are otherwise like `DHCPServer`.

**UDPClients, NtpTime, Exchange, MCUDPClients, UDPClientsProofs.** The DNS and the NTP client as two UDP ports of one stack that share
its pending flag. The calls that start a request are several actions (`Begin`, `Flag`, `SetQuestion`, `NumberQuestion`,
`SetRequest`), because `HandleEth` can run between their steps; `recv` of the DNS client and the decoding of
the answer are two, because the client says that it is done in between. Name servers answer with
records or an error; time servers note when a request comes and when the reply
goes. `NtpTime` is the arithmetic of `eth/ntp`, with the constants scaled down. `Exchange` is what
a client of a question-and-answer protocol promises: an answer, once shown, is one to the question asked last
and does not change until the next; `DnsExchange` says that the DNS client implements it. `torn` is a history field of the
client: its question was set while `RecvEth` was decoding the answer to an older one, and until the next answer the message belongs to neither. `excused` records
for which client something happened that it does not make up for. The transaction numbers of exchanges under way are taken to be
different (the code scrambles 16 bits).

**HttpScan, Cookie, Http.** `HttpScan` is the scanner of `header_parse.go`. Text is a sequence of tokens: the characters the scanner looks for,
and whole words in between. The scanner works in the buffer of the `bufio.Reader`, so the operators return the
buffer as they leave it, with normalized keys and with folded values joined and the rest moved up. `Cookie` has a response cookie under any
order of its calls, and the cookie list of a request; paths are spelled out in characters, because `normalizePath` looks for dots and
slashes. `Http` has the argument slices of `args.go` with their slots and buffers, the header that requests and responses share, its parsing and
writing, and two state machines. In one a `RequestHeader` is read (`Fill`, `TryRead`, `Reread`, `Failed`) while the bytes of one or two
pipelined requests arrive a byte or a buffer at a time, the peer may hang up, the header is reused for the next
request, and what was read or built is written and read again. In the other a `ResponseHeader` is built by calls in any order;
`told` remembers what they should amount to. `Meaning` is the reference: what a request says, from its lines and not from its
bytes.

**DnsMessage.** `visitAllLabels` with its pointers, the decoding and skipping of records over bytes of `DnsByte` values, and a `Message` with room for some
records. Servers send messages with or without compressed names, of which some bytes at the end may be missing.

**Checksum.** `CRC791` and the header checksums over bytes of base `Base`, next to
all the bytes written so far; the reference is the definition of RFC 791.

**MCMessages.** `Checksum`, `Http`, `Cookie` and `DnsMessage` in one instance. They share no state: each behaviour is one of
the five machines with the others at rest.

Definitions keep the names of the code. Operators whose name says what they get
wrong (`...Unchecked`, `...KeepsFin`, `...Narrow`) are deliberately faulty forms of the
operator that follows them: putting one in its place must violate a property.

## The runs

| run | shows | bounds |
|---|---|---|
| `ring` (MCRing) | every sequence of `Write`, `Read` of at least one byte and `Reset` implements `Fifo`, with the bytes and counts returned | 4-byte buffer, two byte values, slices up to 5: every position of the wrap, full and empty |
| `control_block` (MCControlBlock) | the queue of pending flags holds only what the state may send; a reset takes effect only at exactly RCV.NXT; nothing occupies sequence space after a FIN; states move along the diagram; SYN-RECEIVED is left on the right acknowledgment | 8 sequence numbers with ISS 6, so that both the SYN and the data wrap; segments one off in either direction; 3 octets a side |
| `link_faults` (LinkFaults) | with two losses, duplicates or swaps: `StreamPrefix`, `SeqAgreement`, `AckedIsBuffered`, and `Send` accepts what `PendingSegment` proposes, without a panic | 3 bytes against 2-byte buffers, so that buffers and windows fill; 2 packets on the wire each way |
| `link_clock` (LinkClock) | `SeqAgreement` when timeouts fire at any moment, the client may dial too early, a packet is lost and both users close | as above, one loss |
| `link_orderly` (LinkOrderly) | a dial whose flag was not used up before the connection was open connects, though its user never writes; a closed connection gives back its port on both sides, and the FIN comes after the data | no faults, no three-second pauses, one closer, receive buffer large enough for all data: the divergences below say what happens otherwise |
| `stack` (MCPortStack) | a port has a handler exactly while it is open; a pending UDP handler is not forgotten and is visited until quiet | 2 UDP ports, 1 TCP port, 3 times new work |
| `arp` (MCArp) | a result is the answer to the last request; requests are answered unless excused | 3 stacks, 2 requests: an old and a new request with crossing replies |
| `dhcp` (MCDhcp) | a bound client has the address that the server it knows as its own offered and acknowledged; it is bound unless excused | one client with two servers and two faults, one client with two servers that send their identification and one fault, or two clients with one server and one fault; servers of both kinds on one segment are left to the divergences |
| `udp_clients` (UDPClients) | the DNS client implements `Exchange`; `Offset` is the server's time at the request to within half the round trip, plus the age of the request when a late reply is taken; pending requests are answered unless excused | three resolves in a row, the first of a name that cannot be sent, or two time requests, or one of each at once; one packet lost or doubled; one record of room for answers of up to two; 10 ns to the second, so that fractions round |
| `listener_slots` (ListenerSlots) | a slot carries one client's bytes from the first on; no client has two slots; what was accepted is connected | 2 slots, 2 clients (symmetric), a byte each, packets before the listener is open |
| `listener_full` (ListenerFull) | a client that finds all slots taken is connected in the end | 1 slot, 2 clients, SYNs sent again |
| `messages` (MCMessages) | checksums are RFC 791's; `Read` gives what the lines say and stops before the body, and never waits for bytes that need not come; what is written is read back the same; added headers are sent, the last framing and connection win; cookies parse to what they were written from; paths are the ones a walk gives; DNS messages decode to what was sent, as far as there is room | 2-bit bytes so that sums carry after a few words, slices of every parity; all pairs of 11 lines and all single lines of 20, in every spelling the scanner tells apart, a 32-token buffer that the largest requests do not fit; 5 calls on a response; paths of up to 5 pieces, 6 calls on a cookie; messages of two questions, two answers and an additional record, cut at 7 places |

The type invariants of `TCPLink`, `Arp`, `Dhcp`, `Listener` and `UDPClients` hold on the same instances; the
runs leave them out, as they say the least. `NeverWaitsForMore` is a liveness property, stated as an invariant: whenever
`Read` is waiting and a well-formed request has arrived in full, its next step is possible.

Each bound is a constant of its module. `SeqMod`, `MaxWnd` and `RstJump` scale the
2^32 space, the largest window and the jump of `rstJump` down together. `XorIRS` is
the scrambling of the initial number of a passive open, reduced modulo `SeqMod`.

**Fairness.** `RecvEth` and `HandleEth` are called for ever by the interface loop, so the step of
each is weakly fair; user goroutines are not blocked by anyone (the blocking
calls poll), so a call that was made goes on; time passes (`Idle`). In `TCPLink` users finish their calls (`InCall`) and read what has
arrived, but nobody makes them dial, write or close: a `Write` raises the pending counter, and a property that held only because a user has to
write some day would hide a connection that waits for it. In `TCPLink` and `Listener` weak
fairness is written out as "infinitely often not enabled, or infinitely often
taken", with the enabling condition spelled out, because evaluating `ENABLED` of a
whole packet handler is too slow. A user that has closed or finished is under no
obligation. In `UDPClients` a call that has begun goes on, servers answer what reaches them and the network delivers what it does not lose; starting
and aborting are up to the user. Nothing is assumed about a link beyond `RecvEth` taking what is on it, and no strong fairness is
used. Where deadlock checking is off, the system really stops: all
connections are over, all requests answered or all calls made.

## Proofs

All for every value of the constants allowed by the named assumptions (`BufLen` positive,
`SeqMod` more than twice `MaxWnd`, and so on, in the module that declares them).

- **RingProofs.** `TypeCorrect`: the indices stay inside the buffer. `ImplementsFifo`:
  `Spec => FifoSpec` if no caller asks for 0 bytes. Its lemmas give the contents
  of a ring after a write or a read position by position (`WrittenAt`, `ReadAt`),
  with one case per branch of the code; `Contents` is a function of the indices, so no induction is
  needed. `TypeOK` says that `off` never rests on the buffer's length, which the wrap needs.
- **ControlBlockProofs.** The inductive invariant `IInv` is `TypeOK` with `QueueDiscipline`:
  which flags each slot of the queue may hold in which state, and that after a FIN
  neither slot holds a SYN or FIN. The action property alone is not inductive: a FIN left in the second
  slot would be sent much later. Each state method has a lemma of
  its own, combined in `RcvStep`, `RecvGood`, `CloseGood`, `TransmitGood`. From it follow
  `TypeCorrect`, `QueueDisciplined` and `FinIsFinal` (`NothingAfterFin`). `ResetsAreExact` (`ResetIsExact`) and
  `DiagramFollowed` (`FollowsDiagram`) are action properties: they take the type invariant and one lemma per method on the
  edge it takes (`CloseEdge`, `RcvEdge`, `ResetEdge`, `TransmitEdge`).
  `HandshakeAcked` (`EstablishedIsAcked`) has two hypotheses, because the code needs them. `Initials(S)`: the initial numbers lie in a set
  that is closed under the jump of `rstJump` and does not hold the last number; with that one, `SND.UNA + 1` is 0, which is what a
  segment without ACK has in its ACK field. `PlainAcks`: segments without the ACK flag have a zero ACK field, and no ACK
  to a listening block is exactly half the sequence space away from its initial number, where `LessThan` holds in both
  directions and `StrayAck` misses it. The instance of the run satisfies both, with S = {2, 6}. The invariant adds `Unacked`: until the handshake is
  over `SND.UNA` is the initial number, which is in S.
- **PortStackProofs.** `TypeCorrect`, also with user calls inside `HandleEth`. `UDPIsRemembered`, without
  them: the invariant adds that in the middle of a loop every told port the
  loop has passed has raised the loop's own flag, for that is what `EndLoop` puts into the counter.
- **ArpProofs.** `ArpResolvesAsked`, for any number of stacks and requests. The invariant adds that a stack that
  waits holds its own question, that requests and replies on the segment are
  truthful, and that they ask for addresses.
- **DhcpProofs.** `BoundIsBoundByChosen`, for any number of clients and servers with `DistinctXids` and `Uniform` (the servers of a segment all send the identification option, or none does; MCDhcp with
  `Segments <- MCMixed` shows that it is needed), and `DhcpTypeCorrect`, with `DistinctXids` alone. The
  invariant says what each message is evidence of: a Discover or Request of what the client did (`Asked`), an Offer or Ack of what the
  server holds for it (`Answered`). `EvidenceLasts` shows that no step takes this back, so messages may be as late as they like. The delicate part
  is `BeginRequest`, which opens the port first: a Discover sent before its second step has number 0 and no address, and no server answers it.
  Every server offers the address the client asked for (`Offers`), so a client that an option leads to another server still has the address that server keeps. The acknowledgment comes from
  the server the client knows because the Ack names it, or because nothing has changed the server since the Request (`Silent`).
- **UDPClientsProofs, DNS.** `DnsImplementsExchange`: `Spec => DnsExchange`, initial states to initial states and every step to a step of `Exchange` or a
  stutter, with no hypothesis beyond the types of the constants. The invariant: a packet with the number the client waits for repeats the client's question
  (`Numbered`), an answer under decoding is the one to the last question unless that is `torn` (`Decoded`), a client that waits shows nothing
  (`Waits`), and numbers not yet used are on no packet (`Fresh`). The attempt to prove it without `torn` failed on a behaviour that
  the instance had missed (see the divergences); the model and the instance now have it.
- **UDPClientsProofs, NTP.** `OffsetGivesServerTime` (`OffsetIsServerTime`) if `MaxTime < (MaxSec + 1) * Second`, that is, in the first NTP era, outside which
  `TimestampFromTime` refuses. It covers the code's constants (10^9 ns, fractions of 2^-32), with which TLC cannot calculate. Both conversions round down
  (`FractionIs`, `QuotientIs`), `SubIs`, `HalfIs` and `AddIs` bound what is lost, and the invariant follows the four timestamps from the
  request to the reply (`Stamped`, `Timed`).
- **ListenerProofs.** `OneSlotEach` (`OneSlotPerRemote`) and `AcceptedKnow` (`AcceptedAreUp`), for any number of slots and clients, any sizes, time-outs of slots, packets that
  come before the listener is open, and calls on handles of connections that are over. The one hypothesis is `~Resends`: with a second SYN the first
  theorem is false (ListenerTwoSlots). The invariant: a client sends one first SYN, and while it is unsent or under way no slot has that client (`SynOnce`);
  a client in SynSent has sent nothing else, so its slot is not beyond SynRcvd or FinWait1 and has not been handed out (`Unfinished`). The lemmas on the way are
  about the methods of `TCB` and `TCPConn`: none of them dials, none but a reply has a SYN, and no block owes a challenge ACK (`Tidy`, `Follows`, `Becomes`, `Writes`).
- **TCPLinkProofs, the stream.** `StreamIsPrefix` (`StreamPrefix`) and `BothEndsAgree` (`SeqAgreement`): TCP's promise, end to end, with the code of both control blocks,
  connections and port stacks, users that write, read and close when they like, and a link that loses, duplicates and reorders without limit. All sizes are
  free (`TxCap`, `RxCap`, `MaxSeg`, `Chunk`, the windows, `NetCap`, `SeqMod`, the bytes written), and so are `Int32`, `Closers` and `ServerFirst`.
  The hypothesis `Quiet` has four parts. No stream takes half the sequence space (`HalfLap`); then a sequence number is a count of octets from the initial
  one, and `LessThan` is the order of the counts (`NumLess`). One SYN goes each way (`~Clock`, so that `handleInitSyn` does not dial again, and no `"dupsyn"`): a second one makes
  the theorems false when the link reorders (LinkDupSyn, and LinkClock with `Faults = {"swap"}`). And `ServerBytes < TxCap`: a server that fills tx before the handshake is over loses it (LinkFullTx). The run LinkFaults is an instance.
  The invariant `IInv` says, of each end, what it has sent and received in counts (`Numbers`, `Received`, `Prefix`); of each packet, which octets it
  carries and what it acknowledges (`Carries`, `Acknowledges`); how far the handshake is (`Shaking`). The agreement of the two ends is not inductive without the window: `rx.Write` refuses
  a payload that the control block has accepted, so no packet may be sent beyond the room in the reader's buffer, and since `Recv` takes the window of every segment it
  accepts, that depends on the order in which acknowledgments arrive. `Paired` says that of two packets of one side one is the newer in acknowledgment and in window edge; `Windowed`
  says that a sender stays within the window it was offered and that no packet under way can take back what it has used of it. The lemmas
  have one section per method (`RecvTakes`, `RecvPacketTakes`, `SendPacketSends`), then one per kind of step (`TakeStep`, `SendStep`, `DialStep`, `CalmStep`, `GrowStep`).
- **TCPLinkProofs, its end.** Four theorems more under `Quiet`. `AckedAreBuffered` (`AckedIsBuffered`): what a sender knows acknowledged is in the reader's buffer or has been read.
  `PassiveHasAllOctets`: an end in CloseWait or LastAck has all that the other user wrote, whatever both users write and whoever closes. `FinComesLast` (`FinIsLast`) adds the other end, under
  `Orderly`, which the run LinkOrderly satisfies: one side closes and the other writes nothing. It has to, since a CloseWait end sends its FIN without what is in its tx
  (LinkOrderly with `ServerBytes = 1`). `PendingIsSent` (`SendAcceptsPending`), with `~Int32` as in the runs: `SendNeverFails` shows that `send` returns neither an error nor a panic
  when what is in flight fits the window wherever data may go out; LinkInt32 shows that the hypothesis is needed.
  They follow from a second invariant, `JInv`, which rests on the first: every step is shown to keep `IInv`, and `JInv` where `IInv` and `JInv` held (`Kept`). `Finishes` says where a FIN lies: after all
  that was written, unless its sender answers the FIN of an end that is through, or never completed the handshake. `Heard` says what an end that has taken a FIN
  knows; `Buffered`, that every acknowledgment under way is one of octets received, unless the end it goes to is closed. The window is the delicate part: a block in CloseWait accepts every segment in sequence and takes its window, older
  ones too. `Ordered` says that of two packets of one side the one sent later tells no less, in acknowledgment and in window edge, and that all the ACKs sent after a FIN are equal, for a side sends one at
  most before it takes the other's FIN; `Lasting`, that therefore neither the FIN nor what follows it takes back window that its receiver has filled. `JInv` was model-checked before it was proved, on the
  instances of LinkFaults and LinkOrderly and on variations of them with both sides closing and both writing.

Only model-checked: all liveness properties (`ENABLED` and fairness are outside what the prover can do); `SlotStream` of `Listener`, for which the two invariants of
`TCPLinkProofs` would have to be stated of every slot and client, with slots that are used again; `SeqAgreement` with SYNs sent
again (LinkClock); `Checksum` (a sum over all data: induction); `Http`, `Cookie` and `DnsMessage`, which
parse with `RECURSIVE` operators.

## Known divergences

Where the code does not do what its documentation or tests say. Each has a configuration, of its own or one
of the runs' with a change, in which TLC produces the behaviour; the properties are defined next to the others.

| configuration (module) | property that fails | what happens |
|---|---|---|
| MCRing with `Requests <- MCRequestsZero` (MCRing) | `ReadAccounting` | `Read` into an empty slice empties a full ring and returns 0 (`ring.go:107`; `intern_test.go:152` asserts the opposite for non-empty slices) |
| LinkFullTx (MCTCPLink) | `StreamPrefix` | so a `Write` that fills tx before the handshake is over loses its bytes to the SYN\|ACK (`tcpconn.go:415`) |
| MCControlBlock with this invariant (MCControlBlock) | `ChallengesReset` | "TCP endpoints MUST send an acknowledgment (challenge ACK)" (`control.go:410`), but the check at 308 refuses such a reset first |
| MCControlBlock with `ISSs = {7}` (MCControlBlock) | `EstablishedIsAcked` | with an initial number of all ones, a segment without ACK completes the handshake (`control.go:207`) |
| LinkDupSyn (MCTCPLink) | `StreamPrefix` | a duplicate SYN is accepted out of sequence and shifts RCV.NXT (`control.go:285`, against `control_user.go:161`) |
| LinkClock with `Faults = {"swap"}` (MCTCPLink) | `SeqAgreement` | so does a SYN that was sent again after three seconds and comes late |
| LinkSynLost (MCTCPLink) | `DialConnects` | "this will trigger on t=0 and every 3 seconds" (`tcpconn.go:457`), but the counter was cleared and nobody asks |
| LinkOrderly with this property, also with `ClientBytes = 0` (MCTCPLink) | `DialAlwaysConnects` | `openstack` flags the port before it opens the connection (`tcpconn.go:268`, 274); a `HandleEth` in between uses the flag up, and no SYN is sent until the user writes |
| LinkWakeup (MCTCPLink) | `QueuedIsSent` | `Write` flags the port before it fills tx (`tcpconn.go:128`); a `HandleEth` in between uses the flag up |
| LinkPassiveClose (MCTCPLink) | `CloseReleases` | when both users close, `State()` reports FinWait1 for a block that is Closed, and the port stays (`tcpconn.go:90`); pauses do not help |
| LinkOrderly with `ServerBytes = 1` (MCTCPLink) | `FinIsLast` | the passive closer's automatic FIN overtakes its user's data (`control.go:227`, against `seqs.go:201`) |
| LinkUnread (MCTCPLink) | `WrittenIsRead` | `Read` refuses data that was acknowledged before the FIN (`tcpconn.go:166`) |
| LinkClock with this property (MCTCPLink) | `AbortOnlyUnanswered` | a close after three quiet seconds aborts in the call that sends the last data (`tcpconn.go:428`) |
| LinkInt32 (MCTCPLink) | `SendAcceptsPending` | with a 32-bit `int`, a shrunk window makes "bad calculation" reachable (`control.go:118`) |
| LinkWindow (MCTCPLink) | `WindowReopens` | after a zero window nobody announces that the user has read (`tcpconn.go:398`) |
| MCPortStack with this invariant (PortStack) | `OpenOnce` | a port is opened twice when an entry before it is free (`portstack.go:621`, against 471) |
| MCPortStack with this invariant (PortStack) | `RemembersTCP` | the TCP loop sets a variable of its own instead of `socketPending` (`portstack.go:446`) |
| MCPortStack with `Concurrent = TRUE` (PortStack) | `RemembersUDP` | a flag raised while the loop is past the port is wiped out (`portstack.go:437`) |
| MCDhcp with this property (MCDhcp) | `RestartsAfterAbort` | "call Abort() first", but an aborted client is refused too (`dhcp_client.go:102`) |
| MCDhcp with this property (MCDhcp) | `DoneCloses` | "We got a valid response, close socket", but the port stays open |
| MCDhcp with this property (MCDhcp) | `KeepsServer` | "Accept this server's offer" (`dhcp_client.go:282`, 420), but the identification in any later message replaces the server (`dhcp_client.go:382`): the Request goes to a server other than the one whose offer was taken, and `DHCPServer()` changes after the client is bound |
| MCDhcp with `Segments <- MCMixed` (MCDhcp) | `BoundByChosen` | so a late offer of a server that sends the option hides which server, one that does not, acknowledged the client |
| DhcpNoAddr (MCDhcp) | `ServersAlive` | the server panics on a client that asked for no address (`dhcp_server.go:133`) |
| UDPClients with this invariant (MCUDPClients) | `OffsetIsSkew` | "the estimated time offset between the local clock and the server's clock" (`ntp_client.go:162`, and "resolving time offset", `README.md:16`), but the local timestamps count from the request, so `Offset` is the server's time at the request, since the NTP base time |
| MCMessages with `Urgents = {0, 1}` (MCMessages) | `SumIsRFC791` | the urgent pointer is left out of a TCP checksum (`headers.go:509`) |
| ListenerTwoSlots (MCListener) | `OneSlotPerRemote` | a SYN sent again is taken by an earlier free slot (`tcplistener.go:137`) |
| ListenerStale (MCListener) | `ReadsOwn` | a reader with an old handle reads the next client's bytes (against `tcpconn.go:45`); `Close` on one disables a slot that waits for a client (ListenerFull with `StaleCalls = TRUE`) |
| ListenerFull with this property (MCListener) | `SlotsReturn` | a slot whose user closed is freed only by further traffic |
| ListenerFull with `Hasty = TRUE` (MCListener) | `Connects` | a packet between `OpenTCP` and `open = true` leaves a listener that hears nothing (`tcplistener.go:78`) |

The passing runs state what holds all the same: each excludes the
trigger by a constant with a name (`Faults` without `"dupsyn"`, `Clock`, `Closers`, `StaleCalls`), or keeps it and checks
the properties that survive it.

Others are part of the models, which follow the code, and are kept out of a property's way by a condition that its comment
names, or by inputs that the instance does not have:

- `control.go:389`: `close` leaves `challengeAck`, which a RST with a SYN can set; the next connection then starts with a stray ACK.
- `dns_client.go:53-68`: a `HandleEth` in the middle of `StartResolve` sends the query with a number that is not waited for, or to the
  hardware address of the last server, or closes the port of a client that was aborted before, while the call returns nil (`excused`, `Missed`).
- `dns_client.go:53-68`: after such a closing the client is set to send on a port that is closed. The next `StartResolve` opens it, the query for the older
  question goes out, and `msg.Reset` and `AddQuestions` of the new call can run while `RecvEth` decodes the answer to the old: the message is left with the new
  question or the old one, and records of the old answer (`torn`).
- `dns_client.go`: the port stays open after an answer, so the next `StartResolve` fails until `Abort` and a `HandleEth`; `IsDone` is true
  before the answer is decoded, and a goroutine that polls can see records of the last one.
- `ntp_client.go:150`: `Abort` does not raise the flag, so the port is closed only once something else does. `ntp_client.go:124`: all requests have a zero
  origin, and a late reply to an earlier one is taken (`OffsetIsServerTime` allows for its age: it does not rule this out).
- `types.go:290`: `LimitResourceDecoding` uses its first limit for all four sections. `types.go:209`: `skipResource` reads the length of a record that
  was cut short, and panics; its sum wraps at 16 bits. A message shorter than its header leaves the last one in place.
- `header_parse.go:395`: joining a folded value moves the bytes after it up, but the reader keeps their count, so the last bytes of the
  buffer appear twice behind the body (`IsFolded` in `ReadIsRight`). A line without a colon at the end of a block is taken for one that needs more bytes.
- `header_common.go:285`: `isBadTrailer` lets `Content-Type` and `Proxy-Connection` pass, against 237 and 259.
- `header_response.go:109-111` says that `Server`, `Set-Cookie` and `Date` overwrite; `Add` appends them. A `Content-Encoding` that was added is written twice; `Host`
  and `User-Agent` added to a response are swallowed; `SetConnectionClose` after an added `Connection` writes both, and an added `Content-Length` after
  `SetContentLength(-1)` leaves both framings (`"any"` in `told`).
- `header_common.go:209` says that `SetContentLength(-2)` means identity; it writes chunked like every negative length (215). `MCLengths` leaves -2 out.
- `cookie.go:357`: a repeated `domain` or `path` is appended to the first; an expiry is not written when there is a max-age, and a value without
  a key is split at its `=` (`ParseIsInverse`). A value in quotes loses them, one with a `;` is cut there, and a negative max-age is not written:
  no setter of the instance gives these, and for them `ParseIsInverse` would fail.

## Not modelled

- Deadlines of `Read` and `Write`, and the waiting times of `Backoff`: the models let any time pass.
- The byte layout of Ethernet, IP, TCP, UDP, ARP, DHCP and NTP headers: the models keep the fields that decisions depend on.
- `TCPListener.Close`: its guard (`tcplistener.go:90`) is the wrong way round, so it never changes anything.
- Users that write to accepted connections (in `Listener`; `TCPLink` has writers on both sides).
- HTTP text inside words: the spelling of numbers, dates and cases other than the ones in `Canonical`, `Numbers` and `Dates`; responses are
  written but there is no code that reads them. The branches of `normalizePath` for backslashes, which only a Windows build has.
- DNS packets whose pointers form a loop (the limit on pointers is modelled, but no server of the instance sends one), and the flags of the DNS header.
- NTP times after the first era (2036), which `TimestampFromTime` refuses.
- The global handler and statistics of `PortStack`; logging and generated code.
- Steps finer than a loop iteration in `HandleEth` (`port_tcp.go:36`: the port number and its handler are read one after the other). In `TCPLink` and `Listener` a whole
  `HandleEth` is one step: a `Close` between the visit of the port and the clearing of the counter, which would lose its flag as in `RemembersUDP` with `Concurrent`, is finer.

## Plan

In this order; the first ten are done.

1. Ring and Fifo with the refinement proof.
2. SeqNum, TCB, ControlBlock with its invariant proof.
3. TCPConn and TCPLink (composes TCB with users, links and a stack).
4. PortStack and Arp with proofs, Dhcp.
5. Listener (composes TCPConn), Checksum.
6. UDPClients: DNS and NTP clients over a lossy segment, with the abstract
   specification Exchange.
7. Messages: NTP time arithmetic, HTTP headers, cookies and DNS messages against reference definitions.
8. Theorems: `ResetIsExact`, `FollowsDiagram` and `EstablishedIsAcked`;
   `BoundByChosen` of Dhcp; `DnsExchange` of UDPClients as a refinement, `OffsetIsServerTime`; `OneSlotPerRemote` and `AcceptedAreUp` of Listener.
9. `StreamPrefix` and `SeqAgreement` of TCPLink.
10. `AckedIsBuffered`, `FinIsLast` and `SendAcceptsPending` of TCPLink.
11. Listener with users that write; the options of DHCP messages that are only stored.

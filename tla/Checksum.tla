------------------------------ MODULE Checksum ------------------------------
(***************************************************************************)
(* eth/crc.go, the running checksum of RFC 791, and its use for IPv4, UDP  *)
(* and TCP headers in eth/headers.go.  Callers feed it bytes, words and    *)
(* slices of any length in any order; it holds back an odd byte.           *)
(***************************************************************************)
EXTENDS Naturals, Sequences, FiniteSetsExt

CONSTANTS
  Base,       \* 256
  Slices,     \* what callers Write
  Words,      \* uint16 values callers add
  Addresses,  \* IPv4 addresses, 4 bytes each
  Options,    \* TCP options, padded to words of 4 bytes
  Urgents,    \* values of TCPHeader.UrgentPtr
  MaxBytes    \* bound: bytes fed before a Reset, headers apart

Byte == 0 .. Base - 1

Word == Base * Base

ASSUME ChecksumAssumption ==
  /\ Base \in Nat \ {0, 1} /\ MaxBytes \in Nat
  /\ Slices \union Options \subseteq Seq(Byte) /\ Addresses \subseteq [1 .. 4 -> Byte]
  /\ Words \subseteq 0 .. Word - 1 /\ Urgents \subseteq 0 .. Word - 1

VARIABLES
  crc,     \* the CRC791
  written  \* the bytes that crc stands for

vars == <<crc, written>>

ZeroCRC == [sum |-> 0, excedent |-> 0, needPad |-> FALSE]

Init == crc = ZeroCRC /\ written = <<>>

-----------------------------------------------------------------------------
(* The methods of CRC791 *)

Hi(w) == w \div Base

Lo(w) == w % Base

Pair(a, b) == a * Base + b

\* sum is a uint32.
AddToSum(c, n) == [c EXCEPT !.sum = (@ + n) % (Word * Word)]

\* The words of an even number of bytes, then the byte that is left over.
WriteAligned(c, buff) ==
  LET n  == Len(buff) \div 2
      c1 == AddToSum(c, MapThenSumSet(LAMBDA i : Pair(buff[2 * i - 1], buff[2 * i]), 1 .. n))
  IN  IF Len(buff) = 2 * n THEN c1
      ELSE [c1 EXCEPT !.excedent = buff[Len(buff)], !.needPad = TRUE]

\* Mutant of CRCWrite: every slice is taken to start at an even byte.
CRCWriteUnaligned(c, buff) == WriteAligned([c EXCEPT !.needPad = FALSE], buff)

\* Write
CRCWrite(c, buff) ==
  IF buff = <<>> THEN c
  ELSE IF c.needPad
       THEN WriteAligned([AddToSum(c, Pair(c.excedent, buff[1]))
                            EXCEPT !.excedent = 0, !.needPad = FALSE], Tail(buff))
  ELSE WriteAligned(c, buff)

CRCAddUint16(c, value) ==
  IF c.needPad THEN [AddToSum(c, Pair(c.excedent, Hi(value))) EXCEPT !.excedent = Lo(value)]
  ELSE AddToSum(c, value)

CRCAddUint32(c, value) == CRCAddUint16(CRCAddUint16(c, value \div Word), value % Word)

CRCAddUint8(c, value) ==
  IF c.needPad THEN [AddToSum(c, Pair(c.excedent, value)) EXCEPT !.needPad = FALSE]
  ELSE [c EXCEPT !.excedent = value, !.needPad = TRUE]

Folded[sum \in 0 .. 2 * Word * Word] ==
  IF sum < Word THEN sum ELSE Folded[(sum % Word) + (sum \div Word)]

\* Sum16
Sum16(c) ==
  LET sum == IF c.needPad THEN AddToSum(c, Pair(c.excedent, 0)).sum ELSE c.sum
  IN  Word - 1 - Folded[sum]

-----------------------------------------------------------------------------
(* Calls in any order *)

Feed(c, bytes) ==
  /\ Len(written) + Len(bytes) <= MaxBytes
  /\ crc' = c
  /\ written' = written \o bytes

Write(buff) == Feed(CRCWrite(crc, buff), buff)

AddUint8(value) == Feed(CRCAddUint8(crc, value), <<value>>)

Bytes16(w) == <<Hi(w), Lo(w)>>

AddUint16(value) == Feed(CRCAddUint16(crc, value), Bytes16(value))

Bytes32(v) == Bytes16(v \div Word) \o Bytes16(v % Word)

AddUint32(value) == Feed(CRCAddUint32(crc, value), Bytes32(value))

Reset ==
  /\ crc' = ZeroCRC
  /\ written' = <<>>

-----------------------------------------------------------------------------
(* The checksums of headers *)

IPProtocol == [udp |-> 17 % Base, tcp |-> 6 % Base]

\* UDPHeader.CalculateChecksumIPv4 feeds a fresh CRC791; RFC 768 has the sum
\* over the pseudo header, the header without its checksum and the payload.
SumUDP(src, dst, sport, dport, payload) ==
  LET length == 8 + Len(payload)
      c1 == CRCWrite(CRCWrite(ZeroCRC, src), dst)
      c2 == CRCAddUint16(CRCAddUint16(c1, IPProtocol.udp), length)
      c3 == CRCAddUint16(CRCAddUint16(CRCAddUint16(c2, sport), dport), length)
  IN  /\ written = <<>>
      /\ crc' = CRCWrite(c3, payload)
      /\ written' = src \o dst \o <<0, IPProtocol.udp>> \o Bytes16(length)
                      \o Bytes16(sport) \o Bytes16(dport) \o Bytes16(length) \o <<0, 0>> \o payload

\* TCPHeader.CalculateChecksumIPv4: likewise, but the urgent pointer is not fed.
SumTCP(src, dst, h, urgent, options, payload) ==
  LET length == 20 + Len(options) + Len(payload)
      c1 == CRCWrite(CRCWrite(ZeroCRC, src), dst)
      c2 == CRCAddUint16(CRCAddUint16(c1, length % Word), IPProtocol.tcp)
      c3 == CRCAddUint16(CRCAddUint16(c2, h.sport), h.dport)
      c4 == CRCAddUint32(CRCAddUint32(c3, h.seq), h.ack)
      c5 == CRCAddUint16(CRCAddUint16(c4, h.flags), h.wnd)
  IN  /\ written = <<>>
      /\ crc' = CRCWrite(CRCWrite(c5, options), payload)
      /\ written' = src \o dst \o <<0, IPProtocol.tcp>> \o Bytes16(length % Word)
                      \o Bytes16(h.sport) \o Bytes16(h.dport) \o Bytes32(h.seq) \o Bytes32(h.ack)
                      \o Bytes16(h.flags) \o Bytes16(h.wnd) \o <<0, 0>> \o Bytes16(urgent)
                      \o options \o payload

TCPHeaders ==
  [sport : Words, dport : Words, seq : {w * Word + w : w \in Words},
   ack : {w * Word : w \in Words}, flags : Words, wnd : Words]

Next ==
  \/ \E buff \in Slices : Write(buff)
  \/ \E value \in Byte : AddUint8(value)
  \/ \E value \in Words : AddUint16(value)
  \/ \E v, w \in Words : AddUint32(v * Word + w)
  \/ Reset
  \/ \E src, dst \in Addresses, payload \in Slices :
       \/ \E sport, dport \in Words : SumUDP(src, dst, sport, dport, payload)
       \/ \E h \in TCPHeaders, urgent \in Urgents, options \in Options :
            SumTCP(src, dst, h, urgent, options, payload)

Spec == Init /\ [][Next]_vars

-----------------------------------------------------------------------------
(* Properties *)

\* Ones' complement addition: the carry comes back in at the low end.
OnesAdd(x, y) == IF x + y < Word THEN x + y ELSE x + y - Word + 1

\* RFC 791: the ones' complement of the ones' complement sum of the 16-bit
\* words, the last one padded with zeros.
RFC791(bytes) ==
  LET at(i) == IF i > Len(bytes) THEN 0 ELSE bytes[i]
      total[i \in 0 .. Len(bytes) \div 2 + 1] ==
        IF i = 0 THEN 0 ELSE OnesAdd(total[i - 1], Pair(at(2 * i - 1), at(2 * i)))
  IN  Word - 1 - total[(Len(bytes) + 1) \div 2]

\* However the bytes were cut into slices and words, Sum16 gives the checksum
\* of RFC 791 over all of them; for headers, over what RFC 768 and 9293 say.
SumIsRFC791 == Sum16(crc) = RFC791(written)
=============================================================================

----------------------------- MODULE DnsMessage -----------------------------
(***************************************************************************)
(* eth/dns: the bytes of DNS messages.  Names are sequences of labels, on  *)
(* the wire with pointers to labels elsewhere in the message; a Message    *)
(* decodes only as many records as it has room for and skips the others.   *)
(* Offsets count from 0, as in the code.                                   *)
(***************************************************************************)
EXTENDS Integers, SequencesExt

CONSTANTS
  DnsByte,      \* 256; two bits of a byte tell a pointer from a length
  DotChar,      \* the byte that is no part of a label
  MaxPointers,  \* 10
  Packets,      \* what servers send: a message, how its names are encoded, and
                \* how many bytes of it arrive
  Queries,      \* the questions that AddQuestions is given
  Limits,       \* what LimitResourceDecoding is given
  MaxQuestions  \* bound: questions in a message that is built

VARIABLES
  dns,      \* the Message
  room,     \* the capacity of each of its sections
  outcome,  \* what the last Decode returned
  packet    \* what it was given

dnsVars == <<dns, room, outcome, packet>>

Sections == {"questions", "answers", "authorities", "additionals"}

NoMessage == [s \in Sections |-> <<>>]

NoPacket == [message |-> NoMessage, encoding |-> "plain", cut |-> 0]

DnsInit ==
  /\ dns = NoMessage
  /\ room = [s \in Sections |-> 0]
  /\ outcome = "none"
  /\ packet = NoPacket

-----------------------------------------------------------------------------
(* Names *)

Uint16 == DnsByte * DnsByte

PointerBits == DnsByte \div 4

At(msg, off) == msg[off + 1]

Slice(msg, from, to) == SubSeq(msg, from + 1, to)

At16(msg, off) == At(msg, off) * DnsByte + At(msg, off + 1)

Put16(v) == <<v \div DnsByte, v % DnsByte>>

\* Name.data, for the labels of a name
NameData(labels) == FlattenSeq([i \in DOMAIN labels |-> <<Len(labels[i])>> \o labels[i]]) \o <<0>>

CanAddLabel(labels, label) ==
  /\ Len(label) \in 1 .. PointerBits - 1
  /\ Len(label) + (IF labels = <<>> THEN 0 ELSE Len(NameData(labels))) + 2 <= DnsByte - 1
  /\ Last(label) # 0 /\ ~Contains(label, DotChar)

\* NewName, for a domain given as its labels
IsName(labels) == \A i \in DOMAIN labels : CanAddLabel(SubSeq(labels, 1, i - 1), labels[i])

\* Mutant of AfterPointer: the record goes on where the last pointer was.
AfterPointerLast(off, newOff, ptr) == off + 1

\* Where the record goes on that a pointer is part of.
AfterPointer(off, newOff, ptr) == IF ptr = 0 THEN off + 1 ELSE newOff

\* visitAllLabels from currOff, with ptr pointers followed and the labels so far
RECURSIVE VisitLabels(_, _, _, _, _)
VisitLabels(msg, currOff, ptr, newOff, labels) ==
  LET c    == At(msg, currOff)
      off  == currOff + 1
      end  == (off + c) % Uint16
      kind == c \div PointerBits
      bad(err) == [err |-> err]
  IN  IF currOff >= Len(msg) THEN bad("errBaseLen")
      ELSE CASE c = 0 -> [err |-> "nil", off |-> IF ptr = 0 THEN off ELSE newOff, labels |-> labels]
             [] kind = 0 /\ c # 0 ->
                  IF end > Len(msg) THEN bad("errCalcLen")
                  ELSE IF Contains(Slice(msg, off, end), DotChar) THEN bad("errInvalidName")
                  ELSE VisitLabels(msg, end, ptr, newOff, Append(labels, Slice(msg, off, end)))
             [] kind = 3 ->
                  IF off >= Len(msg) THEN bad("errInvalidPtr")
                  ELSE IF ptr = MaxPointers THEN bad("errTooManyPtr")
                  ELSE VisitLabels(msg, (c % PointerBits) * DnsByte + At(msg, off), ptr + 1,
                                   AfterPointer(off, newOff, ptr), labels)
             [] kind \in {1, 2} -> bad("errReserved")

DecodeName(msg, off) == VisitLabels(msg, off, 0, off, <<>>)

-----------------------------------------------------------------------------
(* Records *)

\* Each of these goes on where the name of the record has been decoded.

\* Question.Decode
DecodeQuestion(msg, name) ==
  IF name.off + 4 > Len(msg) THEN [err |-> "errResourceLen"]
  ELSE [err |-> "nil", off |-> name.off + 4,
        record |-> [name |-> name.labels, fixed |-> Slice(msg, name.off, name.off + 4)]]

\* Resource.Decode; what is between the name and the length is kept as it is.
DecodeResource(msg, name) ==
  LET start  == name.off + 10
      length == At16(msg, name.off + 8)
  IN  IF start > Len(msg) \/ length > Len(msg) - start THEN [err |-> "errResourceLen"]
      ELSE [err |-> "nil", off |-> start + length,
            record |-> [name |-> name.labels, fixed |-> Slice(msg, name.off, name.off + 8),
                        data |-> Slice(msg, start, start + length)]]

\* skipQuestion
SkipQuestion(msg, name) ==
  IF name.off + 4 > Len(msg) THEN [err |-> "errBaseLen"] ELSE [err |-> "nil", off |-> name.off + 4]

\* skipResource: the length is read without looking whether it is there.
SkipResource(msg, name) ==
  LET next == (name.off + 10 + At16(msg, name.off + 8)) % Uint16
  IN  IF name.off + 10 > Len(msg) THEN [err |-> "panic"]
      ELSE IF next > Len(msg) THEN [err |-> "errBaseLen"]
      ELSE [err |-> "nil", off |-> next]

DecodeRecord(msg, name, question, kept) ==
  CASE name.err # "nil" -> name
    [] name.err = "nil" /\ kept -> IF question THEN DecodeQuestion(msg, name) ELSE DecodeResource(msg, name)
    [] name.err = "nil" /\ ~kept -> IF question THEN SkipQuestion(msg, name) ELSE SkipResource(msg, name)

\* The records of a section: up to its capacity they are decoded into it, the
\* others are skipped.  decodeToCapResources, and the same for questions.
RECURSIVE DecodeSection(_, _, _, _, _, _)
DecodeSection(section, msg, off, n, cap, records) ==
  LET kept == Len(records) < cap
      r == DecodeRecord(msg, DecodeName(msg, off), section = "questions", kept)
  IN  IF n = 0 THEN [err |-> "nil", off |-> off, records |-> records]
      ELSE IF r.err # "nil" THEN [err |-> r.err, records |-> records]
      ELSE DecodeSection(section, msg, r.off, n - 1, cap,
                         IF kept THEN Append(records, r.record) ELSE records)

HeaderSize == 12

InOrder == <<"questions", "answers", "authorities", "additionals">>

Counts(msg) == [i \in 1 .. 4 |-> At16(msg, 2 + 2 * i)]

\* A section has been decoded, up to where it failed.
AddSection(acc, section, d) ==
  IF d.err # "nil" THEN [acc EXCEPT !.err = d.err, !.m[section] = d.records]
  ELSE [acc EXCEPT !.off = d.off, !.m[section] = d.records]

TooMany(msg, done) ==
  IF done.err = "nil" /\ \E i \in 1 .. 4 : Counts(msg)[i] > room[InOrder[i]]
  THEN [done EXCEPT !.err = "tooMany"] ELSE done

\* Message.Decode: the sections one after the other, until one fails.
DecodeMessage(msg) ==
  LET step(acc, i) ==
        LET s == InOrder[i]
        IN  IF acc.err # "nil" THEN acc
            ELSE AddSection(acc, s, DecodeSection(s, msg, acc.off, Counts(msg)[i], room[s], <<>>))
      start == [err |-> "nil", off |-> HeaderSize, m |-> NoMessage]
  IN  IF Len(msg) < HeaderSize THEN [err |-> "errBaseLen", m |-> dns]
      ELSE TooMany(msg, FoldLeft(step, start, <<1, 2, 3, 4>>))

-----------------------------------------------------------------------------
(* Messages on the wire *)

RecordBytes(name, r, section) ==
  name \o r.fixed \o (IF section = "questions" THEN <<>> ELSE Put16(Len(r.data)) \o r.data)

\* Message.AppendTo, for the encoding "plain".  Servers may have a name point to
\* where the last record's name is if that is the same one, or to its labels
\* after the first.
EncodeName(encoding, name, last) ==
  LET pointer(off) == <<3 * PointerBits + off \div DnsByte, off % DnsByte>>
  IN  CASE encoding = "compressed" /\ name = last.name -> pointer(last.off)
        [] encoding = "compressed" /\ last.name # <<>> /\ last.plain /\ name = Tail(last.name) ->
             pointer(last.off + 1 + Len(last.name[1]))
        [] OTHER -> NameData(name)

AppendTo(m, encoding) ==
  LET add(acc, i) ==
        LET record(a, r) ==
              LET n == EncodeName(encoding, r.name, a.last)
              IN  [bytes |-> a.bytes \o RecordBytes(n, r, InOrder[i]),
                   last |-> [name |-> r.name, off |-> Len(a.bytes), plain |-> n = NameData(r.name)]]
        IN  FoldLeft(record, acc, m[InOrder[i]])
      header == <<0, 0, 0, 0>> \o FlattenSeq([i \in 1 .. 4 |-> Put16(Len(m[InOrder[i]]))])
  IN  FoldLeft(add, [bytes |-> header, last |-> [name |-> <<>>, off |-> 0, plain |-> FALSE]],
               <<1, 2, 3, 4>>).bytes

-----------------------------------------------------------------------------
(* Calls in any order *)

\* LimitResourceDecoding: the first limit is taken for all the sections.
LimitResourceDecoding(maxQ) ==
  /\ outcome = "none"
  /\ room' = [s \in Sections |-> Max({room[s], Len(dns[s]) + maxQ})]
  /\ UNCHANGED <<dns, outcome, packet>>

AddQuestions(questions) ==
  /\ outcome = "none" /\ Len(dns.questions) + Len(questions) <= MaxQuestions
  /\ \A i \in DOMAIN questions : IsName(questions[i].name)
  /\ dns' = [dns EXCEPT !.questions = @ \o questions]
  /\ room' = [room EXCEPT !.questions = Max({@, Len(dns'.questions)})]
  /\ UNCHANGED <<outcome, packet>>

\* The bytes of a packet that arrive
Arrived(p) == LET msg == AppendTo(p.message, p.encoding) IN Slice(msg, 0, Max({0, Len(msg) - p.cut}))

Decode(p) ==
  /\ outcome = "none"
  /\ packet' = p
  /\ \E d \in {DecodeMessage(Arrived(p))} : dns' = d.m /\ outcome' = d.err
  /\ UNCHANGED room

\* Message.Reset, before the message is used again
ResetMessage ==
  /\ outcome # "none"
  /\ dns' = NoMessage /\ outcome' = "none" /\ packet' = NoPacket
  /\ UNCHANGED room

DnsNext ==
  \/ \E maxQ \in Limits : LimitResourceDecoding(maxQ)
  \/ \E questions \in Queries : AddQuestions(questions)
  \/ \E p \in Packets : Decode(p)
  \/ Decode([message |-> dns, encoding |-> "plain", cut |-> 0])
  \/ ResetMessage

-----------------------------------------------------------------------------
(* Properties *)

\* Whatever room there is and however names point into the message, a message
\* that arrived in full is decoded: every section holds the first records that
\* were sent, as many as it has room for, and the caller is told when some did
\* not fit.  One that was cut short is never taken for a full one, and no
\* record of it is made up.
DecodesAsSent ==
  LET m == packet.message
      fits == \A s \in Sections : Len(m[s]) <= room[s]
  IN  outcome # "none" =>
        IF packet.cut = 0
        THEN /\ outcome = IF fits THEN "nil" ELSE "tooMany"
             /\ \A s \in Sections : dns[s] = SubSeq(m[s], 1, Min({Len(m[s]), room[s]}))
        ELSE /\ outcome \notin {"nil", "tooMany"}
             /\ Len(Arrived(packet)) >= HeaderSize => \A s \in Sections : IsPrefix(dns[s], m[s])
=============================================================================

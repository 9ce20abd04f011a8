-------------------------------- MODULE Http --------------------------------
(***************************************************************************)
(* httpx: request and response headers.  A RequestHeader is read from a    *)
(* bufio.Reader that fills as the peer's bytes arrive, also the requests   *)
(* that follow on the same connection, and is written out again; a         *)
(* ResponseHeader is built by calls in any order.                          *)
(***************************************************************************)
EXTENDS Cookie

CONSTANTS
  StatusText,    \* status codes, and the rest of the line that begins with them
  Pipelines,     \* requests sent over one connection, and the options they are read with
  RequestCalls,  \* calls of RequestHeader's setters
  BufSize,       \* the size of the bufio.Reader
  FillSizes,     \* how much arrives at a time
  AddCalls,      \* keys and values given to ResponseHeader.Add
  Lengths,       \* what SetContentLength is given
  MaxCalls       \* bound: calls on a ResponseHeader

VARIABLES
  tx,      \* the RequestHeader that a client builds, or that is sent on
  coming,  \* what another client sends: the request being read and those after it
  wire,    \* sent by the peer, not yet in the bufio.Reader
  rd,      \* buffered in the bufio.Reader
  hungUp,  \* the peer has closed
  want,    \* what readLoop waits for: n of tryRead
  rx,      \* the RequestHeader that is read
  status,  \* "idle", "reading", "read" or the error of Read
  rsp,     \* the ResponseHeader
  told,    \* what has been set on it since it was last reset
  calls    \* calls so far, for MaxCalls

readerVars == <<tx, coming, wire, rd, hungUp, want, rx, status>>
responseVars == <<rsp, told, calls>>

-----------------------------------------------------------------------------
(* args.go: a slice of arguments.  A slot refers to the buffers of a key and *)
(* a value; slots past n are free, and keep their buffers for reuse.         *)

NoArgs == [slots |-> <<>>, n |-> 0, bufs |-> <<>>]

Pairs(a) == [i \in 1 .. a.n |-> a.bufs[a.slots[i]]]

AllocArg(a) ==
  IF Len(a.slots) > a.n THEN [a EXCEPT !.n = @ + 1]
  ELSE [slots |-> Append(a.slots, Len(a.bufs) + 1), n |-> a.n + 1,
        bufs |-> Append(a.bufs, [key |-> <<>>, value |-> <<>>])]

AppendArg(a, key, value) ==
  LET b == AllocArg(a) IN [b EXCEPT !.bufs[b.slots[b.n]] = [key |-> key, value |-> value]]

ArgIndex(a, key) == SelectInSeq(Pairs(a), LAMBDA kv : kv.key = key)

SetArg(a, key, value) ==
  LET i == ArgIndex(a, key)
  IN  IF i = 0 THEN AppendArg(a, key, value) ELSE [a EXCEPT !.bufs[a.slots[i]].value = value]

PeekArg(a, key) == LET i == ArgIndex(a, key) IN IF i = 0 THEN <<>> ELSE Pairs(a)[i].value

\* Mutant of DropArg: the later slots move up, and the last one stays as well.
DropArgCopies(a, i) ==
  [a EXCEPT !.slots = UpTo(@, i - 1) \o SubSeq(@, i + 1, a.n) \o From(@, a.n), !.n = @ - 1]

\* The slot goes behind the ones in use.
DropArg(a, i) ==
  [a EXCEPT !.slots = Cut(UpTo(@, a.n), i, i) \o <<@[i]>> \o From(@, a.n + 1), !.n = @ - 1]

RECURSIVE DelAllArgs(_, _)
DelAllArgs(a, key) ==
  LET i == ArgIndex(a, key) IN IF i = 0 THEN a ELSE DelAllArgs(DropArg(a, i), key)

-----------------------------------------------------------------------------
(* header_common.go: the header that requests and responses share *)

Key(name) == <<name>>

\* caseInsensitiveCompare
IsKey(key, name) == Len(key) = 1 /\ NormalizeHeaderKey(key[1], FALSE) = name

ZeroHeader ==
  [noHTTP11 |-> FALSE, connectionClose |-> FALSE, contentLength |-> 0,
   contentLengthBytes |-> <<>>, method |-> <<>>, proto |-> <<>>, requestURI |-> <<>>,
   host |-> <<>>, contentType |-> <<>>, userAgent |-> <<>>, trailer |-> <<>>, h |-> NoArgs,
   cookies |-> <<>>, cookiesCollected |-> FALSE, rawHeaders |-> <<>>,
   disableNormalizing |-> FALSE, disableSpecialHeader |-> FALSE]

\* Mutant of ResetSkipNormalize: the arguments of the last request stay.
ResetKeepsArgs(h) ==
  [ZeroHeader EXCEPT !.h = h.h, !.disableNormalizing = h.disableNormalizing,
                     !.disableSpecialHeader = h.disableSpecialHeader]

ResetSkipNormalize(h) ==
  [ZeroHeader EXCEPT !.h = [h.h EXCEPT !.n = 0], !.disableNormalizing = h.disableNormalizing,
                     !.disableSpecialHeader = h.disableSpecialHeader]

OrDefault(text, default) == IF text = <<>> THEN default ELSE text

DefaultContentType == <<"text/plain; charset=utf-8">>

Method(h) == OrDefault(h.method, <<"GET">>)
RequestURI(h) == OrDefault(h.requestURI, <<"/">>)
Protocol(h) == OrDefault(h.proto, <<"HTTP/1.1">>)
ContentType(h) == OrDefault(h.contentType, DefaultContentType)
Host(h) == IF h.disableSpecialHeader THEN PeekArg(h.h, Key("Host")) ELSE h.host
UserAgent(h) == IF h.disableSpecialHeader THEN PeekArg(h.h, Key("User-Agent")) ELSE h.userAgent

\* parseContentLength: -1 for anything but a number.
ParseContentLength(value) ==
  IF \E s \in DOMAIN Numbers : value = <<s>> THEN Numbers[value[1]] ELSE -1

\* isBadTrailer
BadTrailers ==
  {"Authorization", "Content-Encoding", "Content-Length", "Content-Range", "Connection",
   "Expect", "Host", "Keep-Alive", "Max-Forwards", "Proxy-Authenticate",
   "Proxy-Authorization", "Range", "Te", "Trailer", "Transfer-Encoding", "Www-Authenticate"}

IsBadTrailer(key) == key = <<>> \/ \E name \in BadTrailers : IsKey(key, name)

\* AddTrailer: forbidden keys are left out, and make it return an error.
AddTrailer(h, value) ==
  LET parts == Split(value, Comma)
      names == IF Last(parts) = <<>> THEN Front(parts) ELSE parts
      keys  == [i \in DOMAIN names |-> StripSpace(names[i])]
      good  == SelectSeq(keys, LAMBDA key : ~IsBadTrailer(key))
      key(k) == [i \in DOMAIN k |-> NormalizeHeaderKey(k[i], h.disableNormalizing)]
  IN  [h |-> [h EXCEPT !.trailer = @ \o [i \in DOMAIN good |-> key(good[i])]],
       err |-> IF Len(good) = Len(keys) THEN "nil" ELSE "error"]

SetTrailer(h, value) == AddTrailer([h EXCEPT !.trailer = <<>>], value)

-----------------------------------------------------------------------------
(* parseHeaders *)

AppendToHeader(h, key, value) == [h EXCEPT !.h = AppendArg(@, key, value)]

ParseConnection(h, key, value) ==
  IF value = <<"close">> THEN [h EXCEPT !.connectionClose = TRUE]
  ELSE AppendToHeader([h EXCEPT !.connectionClose = FALSE], key, value)

\* Content-Length after a Transfer-Encoding other than identity is ignored.
ParseLength(h, value) ==
  LET n == ParseContentLength(value)
  IN  IF h.contentLength = -1 THEN [h |-> h, err |-> "nil"]
      ELSE IF n < 0 THEN [h |-> [h EXCEPT !.contentLength = -2], err |-> "error"]
      ELSE [h |-> [h EXCEPT !.contentLength = n, !.contentLengthBytes = value], err |-> "nil"]

Chunked(h) ==
  [h EXCEPT !.contentLength = -1, !.h = SetArg(@, Key("Transfer-Encoding"), <<"chunked">>)]

ParseLine(h, key, value) ==
  LET ok(g) == [h |-> g, err |-> "nil"]
  IN  CASE Contains(key, SP) \/ Contains(key, TAB) -> [h |-> h, err |-> "error"]
        [] h.disableSpecialHeader -> ok(AppendToHeader(h, key, value))
        [] IsKey(key, "Host") -> ok([h EXCEPT !.host = value])
        [] IsKey(key, "User-Agent") -> ok([h EXCEPT !.userAgent = value])
        [] IsKey(key, "Content-Type") -> ok([h EXCEPT !.contentType = value])
        [] IsKey(key, "Content-Length") -> ParseLength(h, value)
        [] IsKey(key, "Connection") -> ok(ParseConnection(h, key, value))
        [] IsKey(key, "Transfer-Encoding") -> ok(IF value = <<"identity">> THEN h ELSE Chunked(h))
        [] IsKey(key, "Trailer") -> SetTrailer(h, value)
        [] OTHER -> ok(AppendToHeader(h, key, value))

\* The loop of parseHeaders; s is the scanner after a call of next.
RECURSIVE ParseLines(_, _, _)
ParseLines(h, s, err) ==
  LET r == ParseLine(h, s.key, s.value)
  IN  IF ~s.more THEN [h |-> h, s |-> s, err |-> IF err = "nil" THEN s.err ELSE err]
      ELSE ParseLines(r.h, ScanNext(s), IF err = "nil" THEN r.err ELSE err)

\* hasHeaderValue
HasHeaderValue(list, value) == \E part \in Range(Split(list, Comma)) : StripSpace(part) = value

\* The end of parseHeaders
SettleHeader(h) ==
  LET keepAlive == HasHeaderValue(PeekArg(h.h, Key("Connection")), <<"keep-alive">>)
  IN  [h EXCEPT !.contentLengthBytes = IF h.contentLength < 0 THEN <<>> ELSE @,
                !.connectionClose = @ \/ (h.noHTTP11 /\ ~keepAlive)]

ParseFailed(h, buf, err) == [err |-> err, h |-> h, buf |-> buf, n |-> 0]

\* parse, once its lines have been parsed
ParseEnds(h, firstLen, lines) ==
  IF lines.err # "nil" THEN ParseFailed(h, lines.s.buf, lines.err)
  ELSE [err |-> "nil", h |-> SettleHeader(lines.h), buf |-> lines.s.buf, n |-> firstLen + lines.s.hLen]

ParseBlock(h, buf, first, raw) ==
  LET h1 == [h EXCEPT !.method = first.method, !.requestURI = first.uri, !.proto = first.proto,
                      !.noHTTP11 = first.proto # <<"HTTP/1.1">>, !.rawHeaders = raw.raw,
                      !.contentLength = -2]
  IN  IF raw.err # "nil" THEN ParseFailed(h, buf, raw.err)
      ELSE ParseEnds(h, first.len,
             ParseLines(h1, ScanNext(Scanner(buf, first.len, h.disableNormalizing)), "nil"))

\* parse: also what it leaves in the buffer, and how much of that the block is.
Parse(h, buf) ==
  LET first == ParseFirstLine(buf)
  IN  IF first.err # "nil" THEN ParseFailed(h, buf, first.err)
      ELSE ParseBlock(h, buf, first, ReadRawHeaders(From(buf, first.len + 1)))

-----------------------------------------------------------------------------
(* Writing a header *)

HeaderLine(key, value) == key \o <<Colon, SP>> \o value \o CRLF

LineIf(given, name, value) == IF given THEN HeaderLine(Key(name), value) ELSE <<>>

\* Mutant of AppendReqRespCommon: the trailers are sent with the header as well.
AppendReqRespCommonAll(h) ==
  LET special == ~h.disableSpecialHeader
      all == Pairs(h.h)
  IN  FlattenSeq([i \in DOMAIN all |-> HeaderLine(all[i].key, all[i].value)])
        \o LineIf(h.trailer # <<>>, "Trailer", Between(h.trailer, <<Comma, SP>>))
        \o LineIf(h.connectionClose /\ special, "Connection", <<"close">>)
        \o CRLF

\* AppendReqRespCommon: the arguments except those sent as trailers, the list
\* of trailers, the cookies and Connection.
AppendReqRespCommon(h) ==
  LET sent == SelectSeq(Pairs(h.h), LAMBDA kv : ~Contains(h.trailer, kv.key))
      special == ~h.disableSpecialHeader
  IN  FlattenSeq([i \in DOMAIN sent |-> HeaderLine(sent[i].key, sent[i].value)])
        \o LineIf(h.trailer # <<>>, "Trailer", Between(h.trailer, <<Comma, SP>>))
        \o LineIf(h.cookies # <<>> /\ special, "Cookie", AppendRequestCookieBytes(h.cookies))
        \o LineIf(h.connectionClose /\ special, "Connection", <<"close">>)
        \o CRLF

\* RequestHeader.AppendBytes
AppendRequest(h) ==
  LET special == ~h.disableSpecialHeader
  IN  Method(h) \o <<SP>> \o RequestURI(h) \o <<SP>> \o Protocol(h) \o CRLF
        \o LineIf(UserAgent(h) # <<>> /\ special, "User-Agent", UserAgent(h))
        \o LineIf(Host(h) # <<>> /\ special, "Host", Host(h))
        \o LineIf(special, "Content-Type", ContentType(h))
        \o LineIf(h.contentLengthBytes # <<>> /\ special, "Content-Length", h.contentLengthBytes)
        \o AppendReqRespCommon(h)

\* ResponseHeader.AppendBytes
AppendResponse(r) ==
  LET h == r.hdr
      code == IF r.statusCode <= 0 THEN 200 ELSE r.statusCode
      encoding == PeekArg(h.h, Key("Content-Encoding"))
  IN  Protocol(h) \o <<SP, StatusText[code]>> \o CRLF
        \o LineIf(r.server # <<>>, "Server", r.server)
        \o LineIf(h.contentLength # 0 \/ h.contentType # <<>>, "Content-Type", ContentType(h))
        \o LineIf(encoding # <<>>, "Content-Encoding", encoding)
        \o LineIf(h.contentLengthBytes # <<>>, "Content-Length", h.contentLengthBytes)
        \o AppendReqRespCommon(h)

-----------------------------------------------------------------------------
(* What peers send *)

\* A line of a request; folds are the lines that its value goes on in.
RenderLine(l) ==
  l.key \o l.sep \o l.value \o l.trail \o l.eol
    \o FlattenSeq([i \in DOMAIN l.folds |-> l.folds[i] \o l.eol])

RenderLines(r) == FlattenSeq([i \in DOMAIN r.lines |-> RenderLine(r.lines[i])]) \o r.eol

RenderHeader(r) ==
  r.lead \o r.method \o <<SP>> \o r.uri \o (IF r.proto = <<>> THEN <<>> ELSE <<SP>> \o r.proto)
    \o r.eol \o RenderLines(r)

Render(r) == RenderHeader(r) \o r.body

RenderAll(pipeline) == FlattenSeq([i \in DOMAIN pipeline |-> Render(pipeline[i])])

-----------------------------------------------------------------------------
(* Reading requests *)

ReaderInit ==
  /\ tx = ZeroHeader /\ rx = ZeroHeader
  /\ coming = <<>> /\ wire = <<>> /\ rd = <<>> /\ hungUp = FALSE
  /\ want = 1 /\ status = "idle"

\* RequestHeader.Set...: a field is replaced.
SetRequest(field, value) ==
  /\ status = "idle"
  /\ tx' = [tx EXCEPT ![field] = value]
  /\ UNCHANGED <<coming, wire, rd, hungUp, want, rx, status>>

\* A RequestHeader with the Disable... methods in options called.
NewHeader(options) ==
  [ZeroHeader EXCEPT !.disableNormalizing = "normalizing" \in options,
                     !.disableSpecialHeader = "special" \in options]

\* Someone connects and text is on its way; Read is called on header h.
Connected(text, h) ==
  /\ wire' = text /\ rd' = <<>> /\ hungUp' = FALSE
  /\ want' = 1 /\ rx' = h /\ status' = "reading"

\* A client that uses this package sends its request.
SendRequest ==
  /\ status = "idle"
  /\ Connected(AppendRequest(tx), ZeroHeader)
  /\ UNCHANGED <<tx, coming>>

\* Another client sends requests one after the other.
SendText(pipeline, options) ==
  /\ status = "idle"
  /\ Connected(RenderAll(pipeline), NewHeader(options))
  /\ coming' = pipeline
  /\ tx' = ZeroHeader

\* bufio.Reader.fill: Peek reads what there is when it has too little.
Fill(n) ==
  /\ status = "reading" /\ Len(rd) < Min({want, BufSize}) /\ wire # <<>>
  /\ LET got == Min({n, Len(wire), BufSize - Len(rd)})
     IN  rd' = rd \o UpTo(wire, got) /\ wire' = From(wire, got + 1)
  /\ UNCHANGED <<tx, coming, hungUp, want, rx, status>>

\* The peer closes, and what it has not sent is not sent.
HangUp ==
  /\ status = "reading" /\ ~hungUp
  /\ hungUp' = TRUE
  /\ wire' = <<>>
  /\ UNCHANGED <<tx, coming, rd, want, rx, status>>

\* Peek(want) returns, with an error if it could not get that much.
PeekErr == CASE want > BufSize -> "ErrBufferFull"
             [] want <= BufSize /\ Len(rd) >= want -> "nil"
             [] OTHER -> "EOF"

Failed(err, buf) ==
  /\ status' = err
  /\ rd' = buf
  /\ rx' = ResetSkipNormalize(rx)
  /\ UNCHANGED want

\* Mutant of Reread: a line end takes two bytes.
RereadForTwo(p) ==
  /\ want' = Len(rd) + 2
  /\ rd' = p.buf /\ rx' = ResetSkipNormalize(rx)
  /\ UNCHANGED status

\* readLoop goes on when more is needed.
Reread(p) ==
  /\ want' = Len(rd) + 1
  /\ rd' = p.buf /\ rx' = ResetSkipNormalize(rx)
  /\ UNCHANGED status

\* headerError, for a parse that needs more than Peek could get
Truncated(p) ==
  \/ Range(rd) \subseteq {CR, LF} /\ Failed("EOF", p.buf)
  \/ ~(Range(rd) \subseteq {CR, LF}) /\ PeekErr = "EOF" /\ Failed("error", p.buf)
  \/ ~(Range(rd) \subseteq {CR, LF}) /\ PeekErr # "EOF" /\ Failed("ErrSmallBuffer", p.buf)

\* tryRead with what parse has returned
Tried(p) ==
  \/ /\ p.err = "nil"
     /\ rx' = p.h /\ rd' = From(p.buf, p.n + 1) /\ status' = "read"
     /\ UNCHANGED want
  \/ p.err = "errNeedMore" /\ PeekErr = "nil" /\ Reread(p)
  \/ p.err = "errNeedMore" /\ PeekErr # "nil" /\ Truncated(p)
  \/ p.err \notin {"nil", "errNeedMore"} /\ Failed("error", p.buf)

\* tryRead, once Peek has returned.
TryRead ==
  /\ status = "reading"
  /\ Len(rd) >= want \/ Len(rd) = BufSize \/ hungUp
  /\ IF rd = <<>> THEN Failed("EOF", rd) ELSE Tried(Parse(ResetSkipNormalize(rx), rd))
  /\ UNCHANGED <<tx, coming, wire, hungUp>>

\* The handler has read the body and reads the next request into the same header.
ReadNext ==
  /\ status = "read" /\ Len(coming) > 1
  /\ coming' = Tail(coming)
  /\ LET body == Max({0, rx.contentLength})
         all  == rd \o wire
     IN  /\ body <= Len(all)
         /\ rd' = From(rd, Min({body, Len(rd)}) + 1)
         /\ wire' = From(all, Max({body, Len(rd)}) + 1)
  /\ want' = 1 /\ status' = "reading"
  /\ UNCHANGED <<tx, hungUp, rx>>

\* The handler sends the request on, and the next server reads it.
Forward ==
  /\ status = "read" /\ Len(coming) = 1
  /\ Connected(AppendRequest(rx), [ResetSkipNormalize(rx) EXCEPT !.h = NoArgs])
  /\ coming' = <<>>
  /\ tx' = rx

\* The handler is done with the connection.
CloseConn ==
  /\ status \notin {"idle", "reading"}
  /\ tx' = ZeroHeader /\ rx' = ZeroHeader
  /\ coming' = <<>> /\ wire' = <<>> /\ rd' = <<>> /\ hungUp' = FALSE
  /\ want' = 1 /\ status' = "idle"

ReaderNext ==
  \/ \E call \in RequestCalls : SetRequest(call.field, call.arg)
  \/ SendRequest
  \/ \E p \in Pipelines : SendText(p.requests, p.options)
  \/ \E n \in FillSizes : Fill(n)
  \/ HangUp
  \/ TryRead
  \/ ReadNext
  \/ Forward
  \/ CloseConn

-----------------------------------------------------------------------------
(* Building a response *)

ZeroResponse == [statusCode |-> 0, server |-> <<>>, hdr |-> ZeroHeader]

NothingTold == [added |-> <<>>, trailer |-> <<>>, framing |-> "any", connection |-> "any"]

ResponseInit == rsp = ZeroResponse /\ told = NothingTold /\ calls = 0

\* ResetConnectionClose
ResetConnectionClose(h) ==
  IF h.connectionClose
  THEN [h EXCEPT !.connectionClose = FALSE, !.h = DelAllArgs(@, Key("Connection"))] ELSE h

\* collectCookies: Cookie lines that were read become cookies.
RECURSIVE CollectCookies(_)
CollectCookies(h) ==
  LET i == SelectInSeq(Pairs(h.h), LAMBDA kv : IsKey(kv.key, "Cookie"))
  IN  IF h.cookiesCollected \/ i = 0 THEN [h EXCEPT !.cookiesCollected = TRUE]
      ELSE CollectCookies([h EXCEPT !.cookies = ParseRequestCookies(@, Pairs(h.h)[i].value),
                                    !.h = DropArg(@, i)])

SpecialKeys ==
  {"Content-Type", "Content-Length", "Connection", "Cookie", "Transfer-Encoding", "Trailer",
   "Host", "User-Agent"}

IsSpecial(h, key) == ~h.disableSpecialHeader /\ \E name \in SpecialKeys : IsKey(key, name)

\* setSpecialHeader, for a key that it takes.  Transfer-Encoding is ignored.
SetSpecialHeader(h, key, value) ==
  LET n == ParseContentLength(value)
  IN  CASE IsKey(key, "Content-Type") -> [h EXCEPT !.contentType = value]
        [] IsKey(key, "Content-Length") ->
             IF n < 0 THEN h ELSE [h EXCEPT !.contentLength = n, !.contentLengthBytes = value]
        [] IsKey(key, "Connection") ->
             IF value = <<"close">> THEN [h EXCEPT !.connectionClose = TRUE]
             ELSE [ResetConnectionClose(h) EXCEPT !.h = SetArg(@, key, value)]
        [] IsKey(key, "Cookie") ->
             LET g == CollectCookies(h)
             IN  [g EXCEPT !.cookies = ParseRequestCookies(@, value)]
        [] IsKey(key, "Transfer-Encoding") -> h
        [] IsKey(key, "Trailer") -> SetTrailer(h, value).h
        [] IsKey(key, "Host") -> [h EXCEPT !.host = value]
        [] IsKey(key, "User-Agent") -> [h EXCEPT !.userAgent = value]

\* header.Add
AddHeader(h, key, value) ==
  IF IsSpecial(h, key) THEN SetSpecialHeader(h, key, value)
  ELSE AppendToHeader(h, [i \in DOMAIN key |-> NormalizeHeaderKey(key[i], h.disableNormalizing)],
                      value)

\* Mutant of SetLength: chunked encoding is not withdrawn.
SetLengthKeepsChunked(h, n) ==
  IF n >= 0 THEN [h EXCEPT !.contentLength = n, !.contentLengthBytes = <<NumberText(n)>>]
  ELSE [Chunked(h) EXCEPT !.contentLength = n, !.contentLengthBytes = <<>>]

\* header.SetContentLength
SetLength(h, n) ==
  IF n >= 0
  THEN [h EXCEPT !.contentLength = n, !.contentLengthBytes = <<NumberText(n)>>,
                 !.h = DelAllArgs(@, Key("Transfer-Encoding"))]
  ELSE [Chunked(h) EXCEPT !.contentLength = n, !.contentLengthBytes = <<>>]

\* What a call of Add tells.
Tell(key, value) ==
  CASE IsKey(key, "Trailer") -> [told EXCEPT !.trailer = SetTrailer(ZeroHeader, value).h.trailer]
    [] IsKey(key, "Content-Length") -> [told EXCEPT !.framing = "any"]
    [] IsKey(key, "Connection") ->
         [told EXCEPT !.connection = IF value = <<"close">> THEN "any" ELSE value[1]]
    [] \E name \in SpecialKeys \ {"Trailer", "Content-Length", "Connection"} : IsKey(key, name) -> told
    [] OTHER -> [told EXCEPT !.added = Append(@, [key |-> Key(NormalizeHeaderKey(key[1], FALSE)),
                                                  value |-> value])]

Called(r, t) ==
  /\ calls < MaxCalls
  /\ rsp' = r /\ told' = t
  /\ calls' = calls + 1

Add(key, value) == Called([rsp EXCEPT !.hdr = AddHeader(@, key, value)], Tell(key, value))

SetContentLength(n) ==
  Called([rsp EXCEPT !.hdr = SetLength(@, n)],
         [told EXCEPT !.framing = IF n < 0 THEN "chunked" ELSE NumberText(n)])

SetConnectionClose ==
  Called([rsp EXCEPT !.hdr.connectionClose = TRUE], [told EXCEPT !.connection = "any"])

SetServer(server) == Called([rsp EXCEPT !.server = server], told)

SetContentType(contentType) == Called([rsp EXCEPT !.hdr.contentType = contentType], told)

SetStatusCode(code) == Called([rsp EXCEPT !.statusCode = code], told)

\* ResponseHeader.Reset
ResetResponse ==
  Called([statusCode |-> 0, server |-> <<>>,
          hdr |-> [ResetSkipNormalize(rsp.hdr) EXCEPT !.disableNormalizing = FALSE]], NothingTold)

ResponseNext ==
  \/ \E call \in AddCalls : Add(call.key, call.value)
  \/ \E n \in Lengths : SetContentLength(n)
  \/ SetConnectionClose
  \/ SetServer(<<"seqs">>)
  \/ SetContentType(<<"text/html">>)
  \/ \E code \in DOMAIN StatusText : SetStatusCode(code)
  \/ ResetResponse

-----------------------------------------------------------------------------
(* What a request says, from its lines *)

LineKey(l, h) == [i \in DOMAIN l.key |-> NormalizeHeaderKey(l.key[i], h.disableNormalizing)]

LineValue(l) ==
  l.value \o FlattenSeq([i \in DOMAIN l.folds |-> <<SP>> \o Tail(l.folds[i])])

\* The values of the lines with a key, in order.
Values(r, name) ==
  LET ls == SelectSeq(r.lines, LAMBDA l : IsKey(l.key, name))
  IN  [i \in DOMAIN ls |-> LineValue(ls[i])]

LastOr(values, default) == IF values = <<>> THEN default ELSE Last(values)

Encodes(l) == IsKey(l.key, "Transfer-Encoding") /\ LineValue(l) # <<"identity">>

EncodedBefore(r, i) == \E j \in 1 .. i - 1 : Encodes(r.lines[j])

\* The lines that end up among the arguments, and as what.
LineArgs(r, i, h) ==
  LET l == r.lines[i]
      arg == <<[key |-> LineKey(l, h), value |-> LineValue(l)]>>
  IN  CASE h.disableSpecialHeader -> arg
        [] ~h.disableSpecialHeader /\ Encodes(l) ->
             IF EncodedBefore(r, i) THEN <<>>
             ELSE <<[key |-> Key("Transfer-Encoding"), value |-> <<"chunked">>]>>
        [] IsKey(l.key, "Connection") /\ LineValue(l) # <<"close">> -> arg
        [] OTHER -> IF \E name \in SpecialKeys \ {"Cookie"} : IsKey(l.key, name) THEN <<>> ELSE arg

ArgValue(args, key) ==
  LET found == SelectSeq(args, LAMBDA a : a.key = key) IN IF found = <<>> THEN <<>> ELSE found[1].value

StaysOpen(proto, args) ==
  proto = <<"HTTP/1.1">> \/ Contains(ArgValue(args, Key("Connection")), "keep-alive")

TrailerNames(list) == SelectSeq(list, LAMBDA w : w \notin {Comma, SP})

\* A request that a header with the options of h takes.
WellFormed(r, h) ==
  /\ r.method # <<>> /\ r.uri # <<>>
  /\ \A i \in DOMAIN r.lines :
       /\ Contains(r.lines[i].sep, Colon) /\ Range(r.lines[i].key) \intersect {SP, TAB} = {}
       /\ ~h.disableSpecialHeader =>
            /\ IsKey(r.lines[i].key, "Content-Length") /\ ~EncodedBefore(r, i) =>
                 LineValue(r.lines[i]) \in {<<n>> : n \in DOMAIN Numbers}
            /\ IsKey(r.lines[i].key, "Trailer") =>
                 Range(TrailerNames(LineValue(r.lines[i]))) \intersect BadTrailers = {}

Meaning(r, h) ==
  LET args == FlattenSeq([i \in DOMAIN r.lines |-> LineArgs(r, i, h)])
      proto == IF r.proto = <<>> THEN <<"HTTP/1.0">> ELSE r.proto
      field(name) == IF h.disableSpecialHeader THEN ArgValue(args, Key(name))
                     ELSE LastOr(Values(r, name), <<>>)
      special(name) == IF h.disableSpecialHeader THEN <<>> ELSE Values(r, name)
      chunked == \E v \in Range(special("Transfer-Encoding")) : v # <<"identity">>
      trailer == TrailerNames(LastOr(special("Trailer"), <<>>))
  IN  [method |-> r.method, uri |-> r.uri, proto |-> proto, host |-> field("Host"),
       userAgent |-> field("User-Agent"),
       contentType |-> LastOr(special("Content-Type"), DefaultContentType),
       contentLength |-> IF chunked THEN -1
                         ELSE IF special("Content-Length") = <<>> THEN -2
                         ELSE Numbers[Last(special("Content-Length"))[1]],
       close |-> LastOr(special("Connection"), <<>>) = <<"close">> \/ ~StaysOpen(proto, args),
       args |-> args,
       trailer |-> [i \in DOMAIN trailer |-> Key(NormalizeHeaderKey(trailer[i], h.disableNormalizing))]]

\* What the methods of a RequestHeader return.
View(h) ==
  [method |-> Method(h), uri |-> RequestURI(h), proto |-> Protocol(h), host |-> Host(h),
   userAgent |-> UserAgent(h), contentType |-> ContentType(h), contentLength |-> h.contentLength,
   close |-> h.connectionClose, args |-> Pairs(h.h), trailer |-> h.trailer]

\* What a server should find of a header that is sent to it: trailers are not
\* part of it, and without a length there is none.
Sent(h) ==
  LET args == SelectSeq(Pairs(h.h), LAMBDA kv : ~Contains(h.trailer, kv.key))
  IN  [View(h) EXCEPT !.args = args,
                      !.close = @ \/ ~StaysOpen(Protocol(h), args),
                      !.contentLength = IF h.contentLengthBytes = <<>> /\ @ >= 0 THEN -2 ELSE @]

-----------------------------------------------------------------------------
(* Properties *)

\* The bytes after the request that is being read.
After(pipeline) == Head(pipeline).body \o RenderAll(Tail(pipeline))

IsFolded(r) == \E i \in DOMAIN r.lines : r.lines[i].folds # <<>>

\* Wherever the network cuts the bytes of a request, whatever the header held
\* before, and whichever of the line ends, spaces, cases and foldings the peer
\* uses, Read gives what the lines say and stops before the body; it fails
\* only for a request that is malformed, cut short or larger than the buffer.
\* (Unfolding a value moves the bytes after it: see IsFolded.)
ReadIsRight ==
  coming # <<>> =>
    LET r == Head(coming)
    IN  /\ status = "read" =>
             /\ WellFormed(r, rx)
             /\ View(rx) = Meaning(r, rx)
             /\ rx.rawHeaders = IF r.lines = <<>> THEN <<>> ELSE RenderLines(r)
             /\ IsFolded(r) \/ IsPrefix(rd \o wire, After(coming))
             /\ IsFolded(r) \/ hungUp \/ rd \o wire = After(coming)
        /\ status = "error" => ~WellFormed(r, rx) \/ hungUp
        /\ status = "ErrSmallBuffer" => ~WellFormed(r, rx) \/ Len(RenderHeader(r)) > BufSize
        /\ status = "EOF" => hungUp

\* TestRequest, for every request: one that this package writes, from setters
\* or from a request it has read, is read back by it as the same request.
LoopbackIsSame ==
  coming = <<>> /\ status \notin {"idle", "reading"} =>
    CASE status = "read" -> View(rx) = Sent(tx)
      [] status = "ErrSmallBuffer" -> Len(AppendRequest(tx)) > BufSize
      [] OTHER -> hungUp

\* readLoop asks for one byte more than it has tried: once a well-formed request
\* has arrived in full, Read does not wait for bytes that need not come.
NeverWaitsForMore ==
  status = "reading" /\ wire = <<>> /\ (coming # <<>> => WellFormed(Head(coming), rx)) =>
    Len(rd) >= Min({want, BufSize}) \/ hungUp

\* The lines of a response, as pairs; values have no line end in them.
ResponseLines ==
  LET text == Split(AppendResponse(rsp), CR)
      line(t) == [key |-> Tail(UpTo(t, IndexOf(t, Colon) - 1)), value |-> From(t, IndexOf(t, Colon) + 2)]
      lines == SelectSeq(text, LAMBDA t : Contains(t, Colon))
  IN  [i \in DOMAIN lines |-> line(lines[i])]

ManagedKeys == SpecialKeys \union {"Server", "Content-Encoding"}

\* Arguments are deleted, reset and reused in place, each with its own buffers:
\* a response has the headers that were added since it was reset, in order and
\* with their values, except those announced as trailers.
AddedAreSent ==
  calls > 0 =>
    SelectSeq(ResponseLines, LAMBDA kv : kv.key[1] \notin ManagedKeys)
      = SelectSeq(told.added, LAMBDA kv : ~Contains(told.trailer, kv.key))

\* Whatever was set before, the last SetContentLength settles how the body is
\* framed, by one header; likewise the last Connection that is added.
LastCallWins ==
  LET of(keys) == SelectSeq(ResponseLines, LAMBDA kv : kv.key[1] \in keys)
      framing == of({"Content-Length", "Transfer-Encoding"})
      connection == of({"Connection"})
  IN  /\ told.framing # "any" =>
           /\ Len(framing) = 1 /\ framing[1].value = <<told.framing>>
           /\ framing[1].key = Key(IF told.framing = "chunked" THEN "Transfer-Encoding"
                                   ELSE "Content-Length")
      /\ told.connection # "any" =>
           Len(connection) = 1 /\ connection[1].value = <<told.connection>>
=============================================================================

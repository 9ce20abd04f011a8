----------------------------- MODULE MCMessages -----------------------------
(***************************************************************************)
(* Checksum, Http, Cookie and DnsMessage for TLC.  They share no state: a  *)
(* behaviour is one of any of them, with the others at rest.               *)
(***************************************************************************)
EXTENDS Checksum, Http, DnsMessage

VARIABLE part  \* the component that runs

allVars == <<part, vars, readerVars, responseVars, cookieVars, dnsVars>>

MCInit ==
  /\ part \in {"checksum", "reader", "response", "cookie", "dns"}
  /\ Init /\ ReaderInit /\ ResponseInit /\ CookieInit /\ DnsInit

MCNext ==
  /\ UNCHANGED part
  /\ \/ /\ part = "checksum" /\ Next
        /\ UNCHANGED <<readerVars, responseVars, cookieVars, dnsVars>>
     \/ /\ part = "reader" /\ ReaderNext
        /\ UNCHANGED <<vars, responseVars, cookieVars, dnsVars>>
     \/ /\ part = "response" /\ ResponseNext
        /\ UNCHANGED <<vars, readerVars, cookieVars, dnsVars>>
     \/ /\ part = "cookie" /\ CookieNext
        /\ UNCHANGED <<vars, readerVars, responseVars, dnsVars>>
     \/ /\ part = "dns" /\ DnsNext
        /\ UNCHANGED <<vars, readerVars, responseVars, cookieVars>>

MCSpec == MCInit /\ [][MCNext]_allVars

-----------------------------------------------------------------------------
(* Checksum: bytes of two bits, so that sums carry after a few words, and    *)
(* slices of every parity.                                                   *)

MCSlices == {<<>>, <<1>>, <<3>>, <<3, 2>>, <<3, 3, 1>>}

MCOptions == {<<>>, <<2, 3, 0, 1>>}

MCAddresses == {<<3, 3, 3, 3>>, <<1, 0, 2, 3>>}

-----------------------------------------------------------------------------
(* Http: requests with up to two header lines, of every kind that the parser *)
(* tells apart, and requests that follow on each other.                      *)

MCCanonical ==
  [host |-> "Host", connection |-> "Connection"] @@ ("content-length" :> "Content-Length")
    @@ ("x-a" :> "X-A")

MCNumbers == [n0 |-> 0, n2 |-> 2]

Line(key, value) ==
  [key |-> key, sep |-> <<Colon, SP>>, value |-> value, trail |-> <<>>, folds |-> <<>>, eol |-> CRLF]

\* Lines that act on each other
MCPairs ==
  {[Line(<<"host">>, <<"h">>) EXCEPT !.sep = <<Colon>>],
   [Line(<<"Host">>, <<"h2">>) EXCEPT !.eol = <<LF>>, !.trail = <<SP>>],
   [Line(<<"x-a">>, <<"v", SP, "w">>) EXCEPT !.sep = <<Colon, SP, SP>>],
   [Line(<<"X-A">>, <<"v">>) EXCEPT !.folds = <<<<SP, "w">>>>],
   [Line(<<"X-B">>, <<"v">>) EXCEPT !.folds = <<<<TAB, "w">>, <<SP, "x">>>>, !.eol = <<LF>>],
   [Line(<<"X-A">>, <<"v">>) EXCEPT !.sep = <<>>],
   Line(<<"content-length">>, <<"n2">>),
   Line(<<"Connection">>, <<"close">>),
   Line(<<"connection">>, <<"Upgrade", Comma, SP, "keep-alive">>),
   Line(<<"Transfer-Encoding">>, <<"gzip">>),
   Line(<<"Trailer">>, <<"x-a", Comma, SP, "X-B">>)}

MCLines ==
  MCPairs \union
  {Line(<<"X-B">>, <<>>), Line(<<"Content-Length">>, <<"x">>), Line(<<"Trailer">>, <<"Host">>),
   Line(<<"Transfer-Encoding">>, <<"identity">>), Line(<<"X-A", SP>>, <<"v">>),
   Line(<<SP, "X-A">>, <<"v">>), Line(<<"Content-Type">>, <<"text">>),
   Line(<<"User-Agent">>, <<"u">>), Line(<<"Cookie">>, <<"k", "=", "v">>)}

Request(lines) ==
  [lead |-> <<>>, method |-> <<"POST">>, uri |-> <<"/x">>, proto |-> <<"HTTP/1.1">>,
   eol |-> CRLF, lines |-> lines, body |-> <<"b1", "b2">>]

Plain(requests) == [requests |-> requests, options |-> {}]

\* One request with two lines; one with one line, for old protocols, with empty
\* lines before it and for all options; two requests; malformed first lines; a
\* request with three folded lines, which may be larger than the buffer.
MCPipelines ==
  {Plain(<<Request(<<a, b>>)>>) : a, b \in MCPairs}
  \union {[requests |-> <<[Request(<<a>>) EXCEPT !.proto = proto, !.lead = CRLF \o <<LF>>,
                                                 !.eol = <<LF>>, !.body = <<>>]>>,
           options |-> options] :
            a \in MCLines, proto \in {<<>>, <<"HTTP/1.1">>},
            options \in {{}, {"special"}, {"normalizing"}}}
  \union {Plain(<<Request(<<a, Line(<<"Content-Length">>, <<"n2">>)>>), Request(<<>>)>>) :
            a \in {l \in MCLines : l.folds = <<>> /\ l.value # <<"gzip">>}}
  \union {Plain(<<[Request(<<>>) EXCEPT ![field] = <<>>]>>) : field \in {"method", "uri"}}
  \union {Plain(<<Request(<<a, b, a>>)>>) : a, b \in {l \in MCPairs : l.folds # <<>>}}

Call(field, arg) == [field |-> field, arg |-> arg]

MCRequestCalls ==
  {Call("method", <<"PUT">>), Call("requestURI", <<"/y">>), Call("proto", <<"HTTP/1.0">>),
   Call("host", <<"h">>), Call("userAgent", <<"u">>), Call("contentType", <<"text">>)}

MCStatusText == 200 :> "200 OK" @@ 404 :> "404 Not Found"

\* Chunked or with a length; -2, documented as identity, is chunked too.
MCLengths == {-1, 2}

Header(key, value) == [key |-> <<key>>, value |-> value]

MCAddCalls ==
  {Header("x-a", <<"v">>), Header("X-B", <<"w">>), Header("Trailer", <<"x-a">>),
   Header("Connection", <<"keep-alive">>), Header("Connection", <<"close">>),
   Header("Content-Length", <<"n2">>), Header("Content-Type", <<"t">>),
   Header("Cookie", <<"k", "=", "v">>), Header("Transfer-Encoding", <<"gzip">>),
   Header("Host", <<"h">>), Header("User-Agent", <<"u">>)}

-----------------------------------------------------------------------------
(* Cookie *)

MCDates == [d1 |-> 10]

MCEscapes == "%2F" :> "/"

MCCookieCalls ==
  {Call("key", <<"k">>), Call("value", <<"v">>), Call("value", <<"v", "=", SP, "w">>),
   Call("expire", 10), Call("expire", 13), Call("maxAge", 0), Call("maxAge", 2),
   Call("domain", <<"d">>)}
  \union [field : {"httpOnly", "secure"}, arg : BOOLEAN]

\* With quotes and spaces, an empty text, and a number that is none.
MCCookieTexts ==
  {<<>>,
   <<"k", "=", Quote, "v", Quote, ";", SP, "path", "=", "/", ";", "HttpOnly">>,
   <<"v", ";", "max-age", "=", "x", ";", "secure">>,
   <<SP, "k", SP, "=", SP, "v", ";", ";", "domain", "=", "d", ";", "expires", "=", "d1", ";",
     "SameSite", "=", "Lax", ";">>}

MCPathParts == {<<"/">>, <<".">>, <<".", ".">>, <<"a">>, <<"%2F">>}

-----------------------------------------------------------------------------
(* DnsMessage: bytes of four bits, names of which one ends another, and the  *)
(* root.                                                                     *)

MCName == <<<<1>>, <<2, 3>>>>
MCParent == <<<<2, 3>>>>

Question(name) == [name |-> name, fixed |-> <<0, 1, 0, 1>>]

Resource(name, data) == [name |-> name, fixed |-> <<0, 1, 0, 1, 0, 0, 0, 9>>, data |-> data]

MCResources == {Resource(MCName, <<5>>), Resource(MCParent, <<>>), Resource(<<>>, <<5, 14, 12>>)}

MCDnsMessages ==
  {[questions |-> q, answers |-> a, authorities |-> <<>>, additionals |-> x] :
     q \in {<<Question(MCName)>>, <<Question(MCParent), Question(MCName)>>},
     a \in SeqOf(MCResources, 2), x \in {<<>>, <<Resource(MCParent, <<7>>)>>}}

MCPackets ==
  [message : MCDnsMessages, encoding : {"plain", "compressed"}, cut : {0, 1, 2, 4, 7, 11, 14, 40}]

\* The last two are no names: a dot in a label, and a label that is too long.
MCQueries ==
  {<<Question(name)>> : name \in {MCName, MCParent, <<>>, <<<<1, 14>>>>, <<<<1, 2, 3, 1>>>>}}
=============================================================================

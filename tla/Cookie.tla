------------------------------- MODULE Cookie -------------------------------
(***************************************************************************)
(* httpx/cookie.go: a response cookie, its setters, the text of a          *)
(* Set-Cookie header written from it and parsed into it, and the list of   *)
(* cookies in a request.  A path is spelled out character by character,    *)
(* because normalizePath looks for dots and slashes; other words are       *)
(* tokens.                                                                 *)
(***************************************************************************)
EXTENDS HttpScan

CONSTANTS
  Numbers,      \* the numeral tokens, and what they stand for
  Dates,        \* the date tokens, and the whole second they stand for
  Second,       \* ticks in a second
  Escapes,      \* the percent escapes, and the characters they stand for
  CookieCalls,  \* the calls of setters: functions and arguments
  CookieTexts,  \* what Parse is given
  PathParts,    \* the pieces that paths are made of
  MaxWork       \* bound: calls of setters and pieces of paths

VARIABLES
  cookie,     \* the Cookie
  pathGiven,  \* what its path was set to, before normalization
  work        \* calls so far, for MaxWork

cookieVars == <<cookie, pathGiven, work>>

ZeroTime == 0

ZeroCookie ==
  [key |-> <<>>, value |-> <<>>, expire |-> ZeroTime, maxAge |-> 0, domain |-> <<>>,
   path |-> <<>>, httpOnly |-> FALSE, secure |-> FALSE, sameSite |-> "Disabled"]

CookieInit == cookie = ZeroCookie /\ pathGiven = <<>> /\ work = 0

-----------------------------------------------------------------------------
(* cookieScanner.next, for a header and for a request *)

Quote == "quote"

\* decodeCookieArg with skipQuotes
Unquote(b) ==
  IF Len(b) > 1 /\ b[1] = Quote /\ Last(b) = Quote THEN SubSeq(b, 2, Len(b) - 1) ELSE b

\* One part of a cookie text: a key if there is a "=", and a value.
CookiePart(part) ==
  LET eq == IndexOf(part, "=")
  IN  [key |-> StripSpace(UpTo(part, eq - 1)), value |-> Unquote(StripSpace(From(part, eq + 1)))]

\* The parts of a text; nothing is found after a last ";".
CookieParts(src) ==
  LET parts == Split(src, ";")
      found == IF Last(parts) = <<>> THEN Front(parts) ELSE parts
  IN  [i \in DOMAIN found |-> CookiePart(found[i])]

\* parseRequestCookies
ParseRequestCookies(cookies, src) ==
  cookies \o SelectSeq(CookieParts(src), LAMBDA kv : kv.key # <<>> \/ kv.value # <<>>)

KeyAndValue(key, value) == IF key = <<>> THEN value ELSE key \o <<"=">> \o value

Between(parts, sep) ==
  FlattenSeq([i \in DOMAIN parts |-> IF i = 1 THEN parts[i] ELSE sep \o parts[i]])

AppendRequestCookieBytes(cookies) ==
  Between([i \in DOMAIN cookies |-> KeyAndValue(cookies[i].key, cookies[i].value)], <<";", SP>>)

-----------------------------------------------------------------------------
(* normalizePath *)

Slash == "/"
Dot == "."

\* strings.Index; 0 is "not found".
Index(b, sub) ==
  LET at == {i \in DOMAIN b : IsPrefix(sub, From(b, i))} IN IF at = {} THEN 0 ELSE Min(at)

\* b without its elements i .. j
Cut(b, i, j) == UpTo(b, i - 1) \o From(b, j + 1)

DecodeArgAppendNoPlus(src) ==
  [i \in DOMAIN src |-> IF src[i] \in DOMAIN Escapes THEN Escapes[src[i]] ELSE src[i]]

RECURSIVE RemoveSlashSlash(_)
RemoveSlashSlash(b) ==
  LET n == Index(b, <<Slash, Slash>>) IN IF n = 0 THEN b ELSE RemoveSlashSlash(Cut(b, n, n))

RECURSIVE RemoveDots(_)
RemoveDots(b) ==
  LET n == Index(b, <<Slash, Dot, Slash>>) IN IF n = 0 THEN b ELSE RemoveDots(Cut(b, n, n + 1))

\* The slash before the element that ends before n, or the first character.
ParentOf(b, n) == Max({1, LastIndexOf(UpTo(b, n - 1), Slash)})

RECURSIVE RemoveDotDots(_)
RemoveDotDots(b) ==
  LET n == Index(b, <<Slash, Dot, Dot, Slash>>)
  IN  IF n = 0 THEN b ELSE RemoveDotDots(Cut(b, ParentOf(b, n), n + 2))

\* Mutant of RemoveTrailing: a trailing "/.." stays.
RemoveTrailingNot(b) == b

RemoveTrailing(b) ==
  LET n == Len(b) - 2
  IN  IF n < 1 \/ From(b, n) # <<Slash, Dot, Dot>> THEN b
      ELSE IF LastIndexOf(UpTo(b, n - 1), Slash) = 0 THEN <<Slash>>
      ELSE UpTo(b, ParentOf(b, n))

NormalizePath(src) ==
  LET rooted == IF src = <<>> \/ src[1] # Slash THEN <<Slash>> ELSE <<>>
      plain  == rooted \o DecodeArgAppendNoPlus(src)
  IN  RemoveTrailing(RemoveDotDots(RemoveDots(RemoveSlashSlash(plain))))

-----------------------------------------------------------------------------
(* The text of a cookie *)

NumberText(n) == CHOOSE s \in DOMAIN Numbers : Numbers[s] = n

\* AppendHTTPDate: fractions of a second are lost.
HTTPDate(time) == CHOOSE s \in DOMAIN Dates : Dates[s] = time - (time % Second)

CookieAppendBytes(c) ==
  LET attribute(name, value, given) == IF given THEN <<";", SP>> \o KeyAndValue(name, value) ELSE <<>>
  IN  KeyAndValue(c.key, c.value)
        \o attribute(<<"max-age">>, <<NumberText(c.maxAge)>>, c.maxAge > 0)
        \o attribute(<<"expires">>, <<HTTPDate(c.expire)>>, c.maxAge <= 0 /\ c.expire # ZeroTime)
        \o attribute(<<"domain">>, c.domain, c.domain # <<>>)
        \o attribute(<<"path">>, c.path, c.path # <<>>)
        \o attribute(<<>>, <<"HttpOnly">>, c.httpOnly)
        \o attribute(<<>>, <<"secure">>, c.secure)
        \o attribute(<<>>, <<"SameSite">>, c.sameSite = "DefaultMode")
        \o attribute(<<"SameSite">>, <<c.sameSite>>, c.sameSite \in {"Lax", "Strict", "None"})

\* What ParseBytes does with a part after the first.  Domains and paths are
\* appended to what an earlier part gave.
TakePart(c, kv) ==
  CASE kv.key = <<"max-age">> -> [c EXCEPT !.maxAge = Numbers[kv.value[1]]]
    [] kv.key = <<"expires">> -> [c EXCEPT !.expire = Dates[kv.value[1]]]
    [] kv.key = <<"domain">> -> [c EXCEPT !.domain = @ \o kv.value]
    [] kv.key = <<"path">> -> [c EXCEPT !.path = @ \o kv.value]
    [] kv.key = <<"SameSite">> /\ kv.value \in {<<"Lax">>, <<"Strict">>, <<"None">>} ->
         [c EXCEPT !.sameSite = kv.value[1]]
    [] kv = [key |-> <<>>, value |-> <<"HttpOnly">>] -> [c EXCEPT !.httpOnly = TRUE]
    [] kv = [key |-> <<>>, value |-> <<"secure">>] -> [c EXCEPT !.secure = TRUE]
    [] kv = [key |-> <<>>, value |-> <<"SameSite">>] -> [c EXCEPT !.sameSite = "DefaultMode"]
    [] OTHER -> c

\* A number or a date that does not parse ends ParseBytes.
Unparsable(kv) ==
  \/ kv.key = <<"max-age">> /\ ~\E s \in DOMAIN Numbers : kv.value = <<s>>
  \/ kv.key = <<"expires">> /\ ~\E s \in DOMAIN Dates : kv.value = <<s>>

\* Mutant of ParseBytes: the cookie is not reset first.
ParseBytesOver(src) ==
  LET parts == CookieParts(src)
      first == [cookie EXCEPT !.key = parts[1].key, !.value = parts[1].value]
  IN  IF parts = <<>> THEN ZeroCookie ELSE FoldLeft(TakePart, first, Tail(parts))

\* The cookie that ParseBytes leaves, also when it returns an error.
ParseBytes(src) ==
  LET parts == CookieParts(src)
      bad   == {i \in DOMAIN parts : i > 1 /\ Unparsable(parts[i])}
      taken == IF bad = {} THEN parts ELSE UpTo(parts, Min(bad) - 1)
      first == [ZeroCookie EXCEPT !.key = parts[1].key, !.value = parts[1].value]
  IN  IF parts = <<>> THEN ZeroCookie ELSE FoldLeft(TakePart, first, Tail(taken))

-----------------------------------------------------------------------------
(* Calls in any order *)

\* The setters that copy their argument to a field.
SetField(c, field, v) ==
  /\ cookie' = [c EXCEPT ![field] = v]
  /\ work' = work + 1
  /\ UNCHANGED pathGiven

\* SetSameSite
SetSameSite(mode) == SetField([cookie EXCEPT !.secure = @ \/ mode = "None"], "sameSite", mode)

SetPath(parts) ==
  /\ pathGiven' = FlattenSeq(parts)
  /\ cookie' = [cookie EXCEPT !.path = NormalizePath(pathGiven')]
  /\ work' = work + 1 + Len(parts)

\* Parse; a path that it finds is not normalized.
ParseCookie(src) ==
  /\ cookie' = ParseBytes(src)
  /\ pathGiven' = <<>>
  /\ work' = work + 1

ResetCookie ==
  /\ cookie' = ZeroCookie
  /\ pathGiven' = <<>>
  /\ work' = 0

CookieNext ==
  \/ /\ work < MaxWork
     /\ \/ \E call \in CookieCalls : SetField(cookie, call.field, call.arg)
        \/ \E mode \in {"Disabled", "DefaultMode", "Lax", "Strict", "None"} : SetSameSite(mode)
        \/ \E n \in 0 .. MaxWork - work - 1 : \E parts \in [1 .. n -> PathParts] : SetPath(parts)
        \/ \E src \in CookieTexts : ParseCookie(src)
  \/ ResetCookie

-----------------------------------------------------------------------------
(* Properties *)

\* What a path stands for when it is walked from the root, element by element.
\* An element after the last slash is a file; ".." there is its directory.
Walk(path) ==
  LET elements == Tail(Split(path, Slash))
      step(dirs, e) == IF e \in {<<>>, <<Dot>>} THEN dirs
                       ELSE IF e # <<Dot, Dot>> THEN Append(dirs, e)
                       ELSE IF dirs = <<>> THEN dirs ELSE Front(dirs)
      file == Last(elements)
      dirs == FoldLeft(step, <<>>, IF file = <<Dot, Dot>> THEN elements ELSE Front(elements))
  IN  <<Slash>> \o FlattenSeq([i \in DOMAIN dirs |-> dirs[i] \o <<Slash>>])
        \o (IF file = <<Dot, Dot>> THEN <<>> ELSE file)

\* normalizePath removes what it looks for in passes over the text; however
\* slashes, dots and escapes follow on each other, the path it leaves is the
\* one that walking over the elements gives.
PathIsWalked ==
  pathGiven # <<>> =>
    cookie.path = Walk((IF pathGiven[1] = Slash THEN <<>> ELSE <<Slash>>)
                         \o DecodeArgAppendNoPlus(pathGiven))

\* In whatever order the setters and the parser were called with values that have
\* neither quotes nor ";" and no negative max-age, the text that AppendBytes writes
\* parses to the same cookie; only an expiry that a max-age overrides and fractions
\* of a second are lost.  (Without a key, a "=" in the value is taken for the one
\* after a key.)
ParseIsInverse ==
  LET kept == [cookie EXCEPT !.expire = IF cookie.maxAge > 0 THEN ZeroTime ELSE @ - (@ % Second)]
  IN  cookie # ZeroCookie /\ (cookie.key # <<>> \/ ~Contains(cookie.value, "=")) =>
        ParseBytes(CookieAppendBytes(cookie)) = kept
=============================================================================

------------------------------ MODULE HttpScan ------------------------------
(***************************************************************************)
(* The scanner of httpx/header_parse.go: from the bytes in a bufio.Reader  *)
(* to the lines of a header block.  Text is a sequence of tokens, the      *)
(* characters that the scanner looks for and whole words between them.     *)
(* The scanner works in place: it normalizes keys and joins the lines of   *)
(* folded values in the reader's own buffer.                               *)
(***************************************************************************)
EXTENDS Integers, SequencesExt

CONSTANT Canonical  \* the keys that normalizeHeaderKey changes, and into what

CR == "CR"
LF == "LF"
SP == "SP"
TAB == "TAB"
Colon == ":"
Comma == ","
CRLF == <<CR, LF>>

\* bytes.IndexByte and strings.LastIndexByte; 0 is "not found".
IndexOf(b, c) == SelectInSeq(b, LAMBDA x : x = c)

LastIndexOf(b, c) == SelectLastInSeq(b, LAMBDA x : x = c)

From(b, i) == SubSeq(b, i, Len(b))

UpTo(b, i) == SubSeq(b, 1, i)

TrimRight(b) == UpTo(b, Max({0} \union {i \in DOMAIN b : b[i] # SP}))

TrimLeft(b) == From(b, Min({Len(b) + 1} \union {i \in DOMAIN b : b[i] # SP}))

StripSpace(b) == TrimLeft(TrimRight(b))

\* The parts of b between separators.
RECURSIVE Split(_, _)
Split(b, sep) ==
  LET i == IndexOf(b, sep)
  IN  IF i = 0 THEN <<b>> ELSE <<UpTo(b, i - 1)>> \o Split(From(b, i + 1), sep)

NormalizeHeaderKey(key, disableNormalizing) ==
  IF ~disableNormalizing /\ key \in DOMAIN Canonical THEN Canonical[key] ELSE key

DropLast(b, c) == IF b # <<>> /\ Last(b) = c THEN Front(b) ELSE b

-----------------------------------------------------------------------------
(* The first line and the extent of the block *)

\* parseFirstLine: empty lines before it are skipped.  len is how far it got.
RECURSIVE ParseFirstLine(_)
ParseFirstLine(buf) ==
  LET nl   == IndexOf(buf, LF)
      line == DropLast(UpTo(buf, nl - 1), CR)
      n    == IndexOf(line, SP)
      rest == From(line, n + 1)
      k    == LastIndexOf(rest, SP)
  IN  CASE nl = 0 -> [err |-> "errNeedMore"]
        [] nl # 0 /\ line = <<>> ->
             LET later == ParseFirstLine(From(buf, nl + 1))
             IN  IF later.err # "nil" THEN later ELSE [later EXCEPT !.len = @ + nl]
        [] line # <<>> /\ (n <= 1 \/ k = 1) -> [err |-> "error"]
        [] line # <<>> /\ n > 1 /\ k # 1 ->
             [err |-> "nil", len |-> nl, method |-> UpTo(line, n - 1),
              uri |-> IF k = 0 THEN rest ELSE UpTo(rest, k - 1),
              proto |-> IF k = 0 THEN <<"HTTP/1.0">> ELSE From(rest, k + 1)]

\* Mutant of BlockEnds: two line feeds in a row, whatever is between.
BlockEndsLoose(buf) ==
  {i \in DOMAIN buf : buf[i] = LF /\ (i <= 2 \/ buf[i - 1] = LF \/ (i > 3 /\ buf[i - 3] = LF))}

\* Where an empty line ends.
BlockEnds(buf) ==
  {i \in DOMAIN buf :
     /\ buf[i] = LF
     /\ \/ i = 1 \/ buf[i - 1] = LF
        \/ buf[i - 1] = CR /\ (i = 2 \/ buf[i - 2] = LF)}

\* readRawHeaders: the block up to and including its empty line; nothing is
\* kept of a block that has no other line.
ReadRawHeaders(buf) ==
  LET ends == BlockEnds(buf)
  IN  IF ends = {} THEN [err |-> "errNeedMore", raw |-> <<>>]
      ELSE [err |-> "nil", raw |-> IF Min(ends) <= 2 THEN <<>> ELSE UpTo(buf, Min(ends))]

-----------------------------------------------------------------------------
(* headerScanner.next *)

\* The scanner's b is buf[off + 1 .. end]; hLen counts what it has consumed.
Scanner(buf, off, disableNormalizing) ==
  [buf |-> buf, off |-> off, end |-> Len(buf), hLen |-> 0, key |-> <<>>, value |-> <<>>,
   more |-> TRUE, err |-> "nil", nextColon |-> 0, nextNewLine |-> 0,
   disableNormalizing |-> disableNormalizing]

Consume(s, n) == [s EXCEPT !.off = @ + n, !.hLen = @ + n]

Left(s) == SubSeq(s.buf, s.off + 1, s.end)

StopScan(s, err) == [s EXCEPT !.more = FALSE, !.err = err]

\* Where the value ends that starts b and whose first line ends at n, and what
\* the loop learns of the line after it when that starts with a space but has a
\* colon, and so begins another header.
RECURSIVE ValueEnd(_, _)
ValueEnd(b, n) ==
  LET line == From(b, n + 1)
      d    == IndexOf(line, LF)
      c    == IndexOf(UpTo(line, d - 1), Colon)
  IN  IF line = <<>> \/ line[1] \notin {SP, TAB} \/ d = 0
      THEN [n |-> n, colon |-> 0, newLine |-> 0]
      ELSE IF c # 0 THEN [n |-> n, colon |-> c, newLine |-> d - c]
      ELSE ValueEnd(b, n + d)

\* A folded value without its line ends, and with a tab that starts a line
\* turned into a space.
Unfold(v) ==
  LET starts(i) == \E j \in 1 .. i - 1 : v[j] = LF /\ \A k \in j + 1 .. i - 1 : v[k] \in {TAB, CR, LF}
      word(i) == IF v[i] = TAB /\ starts(i) THEN SP ELSE v[i]
      kept == SelectSeq([i \in DOMAIN v |-> i], LAMBDA i : v[i] \notin {CR, LF})
  IN  [i \in DOMAIN kept |-> word(kept[i])]

\* normalizeHeaderValue: the value at s.off is replaced by its unfolded form and
\* the rest of the buffer, the body included, moves up; the buffer keeps its
\* length, and its last bytes stay where they were as well.  n is the length of
\* the value before spaces at its end were cut off.
NormalizeHeaderValue(s, value, n) ==
  LET v      == Unfold(value)
      shrunk == Len(value) - Len(v)
      after  == SubSeq(s.buf, s.off + Len(value) + 1, s.end)
      whole  == UpTo(s.buf, s.off) \o v \o after
      skip   == IF IsPrefix(CRLF, after) THEN 2 ELSE IF after[1] \in {CR, LF} THEN 1 ELSE 0
  IN  [s EXCEPT !.value = v, !.buf = whole \o From(s.buf, Len(whole) + 1),
                !.off = @ + Len(v) + skip, !.end = @ - shrunk, !.hLen = @ + n - shrunk]

\* The value of a header whose key has been scanned: b starts with it and nl is
\* the index of the line feed that ends its first line.
ScanValue(s, b, nl) ==
  LET ve    == ValueEnd(b, nl)
      value == TrimRight(DropLast(UpTo(b, ve.n - 1), CR))
      s1    == [s EXCEPT !.nextColon = ve.colon, !.nextNewLine = ve.newLine]
  IN  IF ve.n = nl THEN Consume([s1 EXCEPT !.value = value], nl)
      ELSE NormalizeHeaderValue(s1, value, ve.n)

\* The key ends at n; spaces after the colon are skipped.
ScanKey(s, n) ==
  LET b     == Left(s)
      rest  == From(b, n + 1)
      value == TrimLeft(rest)
      skip  == Len(rest) - Len(value)
      key   == [i \in 1 .. n - 1 |-> NormalizeHeaderKey(b[i], s.disableNormalizing)]
      s1    == Consume([s EXCEPT !.key = key,
                                 !.buf = UpTo(s.buf, s.off) \o key \o From(s.buf, s.off + n)],
                       n + skip)
      nl    == IF s.nextNewLine > skip THEN s.nextNewLine - skip ELSE IndexOf(value, LF)
  IN  IF nl = 0 THEN StopScan(s1, "errNeedMore")
      ELSE ScanValue([s1 EXCEPT !.nextColon = 0, !.nextNewLine = 0], value, nl)

ScanNext(s) ==
  LET b == Left(s)
      n == IF s.nextColon > 0 THEN s.nextColon ELSE IndexOf(b, Colon)
      x == IndexOf(b, LF)
  IN  CASE IsPrefix(CRLF, b) -> StopScan(Consume(s, 2), "nil")
        [] IsPrefix(<<LF>>, b) -> StopScan(Consume(s, 1), "nil")
        [] OTHER -> IF x = 0 \/ n = 0 THEN StopScan(s, "errNeedMore")
                    ELSE IF x < n THEN StopScan(s, "errInvalidName")
                    ELSE ScanKey(s, n)
=============================================================================

----------------------------- MODULE RingProofs -----------------------------
(* Proofs about Ring: the indices stay in range, and a ring that is never     *)
(* asked for zero bytes implements a bounded FIFO queue of any capacity.      *)
EXTENDS Ring, SequenceTheorems, TLAPS

\* What Free returns lies within the buffer, so Buffered does too.
LEMMA FreeBounds ==
  ASSUME NEW r \in Rings, r.off < BufLen
  PROVE  /\ Free(r) \in 0 .. BufLen
         /\ Buffered(r) \in 0 .. BufLen
         /\ Buffered(r) = BufLen - Free(r)
  BY RingAssumption, SMT DEF Rings, Free, Buffered

\* copy leaves a buffer of bytes.
LEMMA CopyInType ==
  ASSUME NEW buf \in [0 .. BufLen - 1 -> Byte], NEW b \in Seq(Byte),
         NEW at \in Nat, NEW from \in Nat, NEW n \in Nat, from + n <= Len(b)
  PROVE  CopyIn(buf, at, b, from, n) \in [0 .. BufLen - 1 -> Byte]
  <1> SUFFICES ASSUME NEW i \in 0 .. BufLen - 1
               PROVE  (IF at <= i /\ i < at + n THEN b[from + (i - at) + 1] ELSE buf[i])
                        \in Byte
      BY DEF CopyIn
  <1>1. CASE at <= i /\ i < at + n
    <2>1. from + (i - at) + 1 \in 1 .. Len(b)
      BY <1>1, RingAssumption, SMT
    <2> QED BY <2>1, <1>1
  <1>2. CASE ~(at <= i /\ i < at + n)
    BY <1>2
  <1> QED BY <1>1, <1>2

\* A write that fits leaves a ring with off where it was.
LEMMA WrittenType ==
  ASSUME NEW r \in Rings, r.off < BufLen, NEW b \in Seq(Byte), WriteFits(r, b)
  PROVE  /\ Written(r, b) \in Rings
         /\ Written(r, b).off = r.off
  <1>0. /\ r = [buf |-> r.buf, off |-> r.off, end |-> r.end]
        /\ r.buf \in [0 .. BufLen - 1 -> Byte]
        /\ r.off \in 0 .. BufLen - 1
        /\ r.end \in 0 .. BufLen
        /\ r.end \in Nat /\ 0 \in Nat
        /\ Len(b) \in Nat
        /\ BufLen \in Nat \ {0}
    BY RingAssumption DEF Rings
  <1>1. CASE MidFree(r) > 0
    <2> DEFINE n == MinOf(r.off - r.end, Len(b))
    <2>1. n \in Nat /\ 0 + n <= Len(b) /\ r.end + n \in 0 .. BufLen
      BY <1>0, <1>1 DEF MidFree, MinOf
    <2>2. CopyIn(r.buf, r.end, b, 0, n) \in [0 .. BufLen - 1 -> Byte]
      <3> HIDE DEF n
      <3> QED BY <2>1, <1>0, CopyInType, Zenon
    <2> QED BY <1>0, <1>1, <2>1, <2>2 DEF Written, WriteMid, Rings
  <1>2. CASE ~(MidFree(r) > 0)
    <2> DEFINE n  == MinOf(BufLen - r.end, Len(b))
               n2 == MinOf(BufLen, Len(b) - n)
               b1 == CopyIn(r.buf, r.end, b, 0, n)
    <2>1. /\ n \in Nat /\ 0 + n <= Len(b) /\ r.end + n \in 0 .. BufLen
          /\ n2 \in 0 .. BufLen /\ n2 \in Nat /\ n + n2 <= Len(b)
      BY <1>0 DEF MinOf
    <2>2. b1 \in [0 .. BufLen - 1 -> Byte]
      <3> HIDE DEF n
      <3> QED BY <2>1, <1>0, CopyInType, Zenon DEF b1
    <2>3. CopyIn(b1, 0, b, n, n2) \in [0 .. BufLen - 1 -> Byte]
      <3> HIDE DEF n, n2, b1
      <3> QED BY <2>1, <2>2, <1>0, CopyInType, Zenon
    <2> QED BY <1>0, <1>2, <2>1, <2>2, <2>3 DEF Written, WriteWrap, Rings
  <1> QED BY <1>1, <1>2

\* The fields of a ring, for the steps that reason about them one by one.
LEMMA RingFields ==
  ASSUME NEW r \in Rings, r.off < BufLen
  PROVE  /\ r = [buf |-> r.buf, off |-> r.off, end |-> r.end]
         /\ r.buf \in [0 .. BufLen - 1 -> Byte]
         /\ r.off \in 0 .. BufLen - 1
         /\ r.end \in 0 .. BufLen
         /\ BufLen \in Nat \ {0}
  BY RingAssumption DEF Rings

\* The wrap-around at the end of Read, field by field.
LEMMA OnReadEndIs ==
  ASSUME NEW r \in Rings
  PROVE  LET e == IF r.end = BufLen THEN 0 ELSE r.end
             o == IF r.off = BufLen THEN 0 ELSE r.off
             s == OnReadEnd(r)
         IN  /\ s \in Rings
             /\ s.buf = r.buf
             /\ s.off = IF o = e THEN 0 ELSE o
             /\ s.end = IF o = e THEN 0 ELSE e
  <1>1. /\ r.buf \in [0 .. BufLen - 1 -> Byte]
        /\ r.off \in 0 .. BufLen /\ r.end \in 0 .. BufLen
        /\ BufLen \in Nat \ {0}
    BY RingAssumption DEF Rings
  <1>2. CASE (IF r.end = BufLen THEN 0 ELSE r.end) = (IF r.off = BufLen THEN 0 ELSE r.off)
    BY <1>1, <1>2 DEF OnReadEnd, Cleared, Rings
  <1>3. CASE (IF r.end = BufLen THEN 0 ELSE r.end) # (IF r.off = BufLen THEN 0 ELSE r.off)
    BY <1>1, <1>3 DEF OnReadEnd, Rings
  <1> QED BY <1>2, <1>3

\* Where the copies of a Read leave off, before the wrap-around.
MovedOff(r, k) ==
  LET n == MinOf(k, BufLen - r.off)
  IN  IF r.end > r.off THEN r.off + MinOf(k, r.end - r.off)
      ELSE IF n < k THEN MinOf(k - n, r.end)
      ELSE r.off + n

\* Read moves off and then wraps.
LEMMA ReadRestSteps ==
  ASSUME NEW r \in Rings, r.off < BufLen, NEW k \in Nat
  PROVE  LET m == [r EXCEPT !.off = MovedOff(r, k)]
         IN  /\ ReadRest(r, k) = OnReadEnd(m)
             /\ m \in Rings
             /\ m.off = MovedOff(r, k) /\ m.end = r.end /\ m.buf = r.buf
  <1>1. MovedOff(r, k) \in 0 .. BufLen
    BY RingFields DEF MovedOff, MinOf
  <1>2. LET m == [r EXCEPT !.off = MovedOff(r, k)]
        IN  /\ m \in Rings
            /\ m.off = MovedOff(r, k) /\ m.end = r.end /\ m.buf = r.buf
    BY <1>1 DEF Rings
  <1>3. ReadRest(r, k) = OnReadEnd([r EXCEPT !.off = MovedOff(r, k)])
    BY DEF ReadRest, MovedOff
  <1> QED BY <1>2, <1>3

\* Read leaves a ring with off inside the buffer, whatever it was asked for.
LEMMA ReadRestType ==
  ASSUME NEW r \in Rings, r.off < BufLen, NEW k \in Nat
  PROVE  /\ ReadRest(r, k) \in Rings
         /\ ReadRest(r, k).off < BufLen
         /\ ReadRest(r, k).buf = r.buf
  <1> DEFINE m == [r EXCEPT !.off = MovedOff(r, k)]
  <1>1. ReadRest(r, k) = OnReadEnd(m) /\ m \in Rings /\ m.buf = r.buf
    BY ReadRestSteps
  <1> HIDE DEF m
  <1>2. m.off \in 0 .. BufLen /\ BufLen \in Nat \ {0}
    BY <1>1, RingAssumption DEF Rings
  <1> QED BY <1>1, <1>2, OnReadEndIs

\* Read takes as many bytes as were asked for, or all there are.
LEMMA ReadCountIs ==
  ASSUME NEW r \in Rings, r.off < BufLen, Buffered(r) # 0, NEW k \in Nat
  PROVE  ReadCount(r, k) = IF k < Buffered(r) THEN k ELSE Buffered(r)
  BY RingFields, SMT DEF ReadCount, Buffered, Free, MinOf

\* A Read of at least one byte shortens the contents by what it returned and
\* moves off past it, cyclically; the zero-byte Read of a full ring does not.
LEMMA ReadRestIs ==
  ASSUME NEW r \in Rings, r.off < BufLen, Buffered(r) # 0,
         NEW k \in Nat, k # 0
  PROVE  LET n == ReadCount(r, k)
             s == ReadRest(r, k)
         IN  /\ Buffered(s) = Buffered(r) - n
             /\ Buffered(s) # 0 =>
                  s.off = IF r.off + n < BufLen THEN r.off + n
                          ELSE r.off + n - BufLen
  <1> DEFINE m == [r EXCEPT !.off = MovedOff(r, k)]
             s == ReadRest(r, k)
  <1>1. /\ s = OnReadEnd(m) /\ m \in Rings
        /\ m.off = MovedOff(r, k) /\ m.end = r.end
    BY ReadRestSteps
  <1>2. LET e == IF m.end = BufLen THEN 0 ELSE m.end
            o == IF m.off = BufLen THEN 0 ELSE m.off
        IN  /\ s.off = IF o = e THEN 0 ELSE o
            /\ s.end = IF o = e THEN 0 ELSE e
    <2> HIDE DEF m
    <2> QED BY <1>1, OnReadEndIs
  <1> HIDE DEF m, s
  <1>3. /\ Buffered(s) = Buffered(r) - ReadCount(r, k)
        /\ Buffered(s) # 0 =>
             s.off = IF r.off + ReadCount(r, k) < BufLen THEN r.off + ReadCount(r, k)
                     ELSE r.off + ReadCount(r, k) - BufLen
    BY <1>1, <1>2, RingFields, SMTT(30) DEF MovedOff, ReadCount, Buffered, Free, MinOf
  <1> QED BY <1>3 DEF s

\* A Write that fits lengthens the contents by what was written.
LEMMA WrittenLength ==
  ASSUME NEW r \in Rings, r.off < BufLen, NEW b \in Seq(Byte), WriteFits(r, b)
  PROVE  Buffered(Written(r, b)) = Buffered(r) + Len(b)
  <1>1. Len(b) \in Nat
    OBVIOUS
  <1> QED
    BY <1>1, RingFields, SMT
    DEF Written, WriteMid, WriteWrap, WriteFits, MidFree, Buffered, Free, MinOf
\* What a Write that fits puts in each position: the new bytes from end on,
\* cyclically, and the old ones everywhere else.
LEMMA WrittenBuf ==
  ASSUME NEW r \in Rings, r.off < BufLen, NEW b \in Seq(Byte), WriteFits(r, b),
         NEW j \in 0 .. BufLen - 1
  PROVE  Written(r, b).buf[j] =
           IF r.end <= j /\ j < r.end + Len(b) THEN b[j - r.end + 1]
           ELSE IF r.end > r.off \/ r.off = 0 \/ r.end = r.off THEN
                  IF j < r.end + Len(b) - BufLen THEN b[BufLen - r.end + j + 1]
                  ELSE r.buf[j]
           ELSE r.buf[j]
  <1>0. Len(b) \in Nat
    OBVIOUS
  <1>1. CASE MidFree(r) > 0
    <2> DEFINE n == MinOf(r.off - r.end, Len(b))
    <2>1. n = Len(b) /\ ~(r.end > r.off) /\ r.off # 0 /\ r.end # r.off
      BY <1>0, <1>1, RingFields DEF MidFree, MinOf, WriteFits, Free
    <2>2. Written(r, b).buf = CopyIn(r.buf, r.end, b, 0, n)
      BY <1>1, RingFields DEF Written, WriteMid
    <2>3. Written(r, b).buf[j] =
            IF r.end <= j /\ j < r.end + n THEN b[0 + (j - r.end) + 1] ELSE r.buf[j]
      BY <2>2 DEF CopyIn
    <2>4. 0 + (j - r.end) + 1 = j - r.end + 1
      BY RingFields
    <2> HIDE DEF n
    <2> QED BY <2>1, <2>3, <2>4
  <1>2. CASE ~(MidFree(r) > 0)
    <2> DEFINE n  == MinOf(BufLen - r.end, Len(b))
               n2 == MinOf(BufLen, Len(b) - n)
               b1 == CopyIn(r.buf, r.end, b, 0, n)
    <2>1. r.end > r.off \/ r.off = 0 \/ r.end = r.off
      BY <1>2, RingFields DEF MidFree
    <2>2. Written(r, b).buf = IF n < Len(b) THEN CopyIn(b1, 0, b, n, n2) ELSE b1
      BY <1>2, RingFields DEF Written, WriteWrap
    <2>3. b1[j] = IF r.end <= j /\ j < r.end + n THEN b[0 + (j - r.end) + 1] ELSE r.buf[j]
      BY DEF CopyIn
    <2>4. CopyIn(b1, 0, b, n, n2)[j] =
            IF 0 <= j /\ j < 0 + n2 THEN b[n + (j - 0) + 1] ELSE b1[j]
      BY DEF CopyIn
    <2>5. 0 + (j - r.end) + 1 = j - r.end + 1
      BY RingFields
    <2>6. CASE n < Len(b)
      <3>1. n = BufLen - r.end /\ n2 = r.end + Len(b) - BufLen /\ n2 <= r.end
        BY <1>0, <2>6, RingFields DEF MinOf, WriteFits, Free
      <3>2. n + (j - 0) + 1 = BufLen - r.end + j + 1
        BY <3>1, RingFields
      <3>3. Written(r, b).buf[j] =
            IF 0 <= j /\ j < 0 + n2 THEN b[BufLen - r.end + j + 1]
            ELSE IF r.end <= j /\ j < r.end + n THEN b[j - r.end + 1] ELSE r.buf[j]
        BY <2>2, <2>3, <2>4, <2>5, <2>6, <3>2
      <3>4. r.end <= j => ~(j < n2)
        BY <3>1, RingFields
      <3>5. r.end + n = BufLen /\ j < BufLen /\ r.end + Len(b) >= BufLen
        BY <1>0, <2>6, <3>1, RingFields
      <3>6. CASE j < n2
        BY <2>1, <3>1, <3>3, <3>4, <3>6, RingFields
      <3>7. CASE ~(j < n2)
        BY <2>1, <3>1, <3>3, <3>5, <3>7, RingFields
      <3> QED BY <3>6, <3>7
    <2>7. CASE ~(n < Len(b))
      <3>1. n = Len(b) /\ r.end + Len(b) <= BufLen
        BY <1>0, <2>7, RingFields DEF MinOf
      <3>2. Written(r, b).buf[j] =
              IF r.end <= j /\ j < r.end + n THEN b[j - r.end + 1] ELSE r.buf[j]
        BY <2>2, <2>3, <2>5, <2>7
      <3> HIDE DEF n, n2, b1
      <3> QED BY <1>0, <2>1, <3>1, <3>2, RingFields
    <2> QED BY <2>6, <2>7
  <1> QED BY <1>1, <1>2

\* Position by position, a Write that fits appends.
LEMMA WrittenAt ==
  ASSUME NEW r \in Rings, r.off < BufLen, NEW b \in Seq(Byte), WriteFits(r, b),
         NEW i \in 1 .. Buffered(r) + Len(b)
  PROVE  At(Written(r, b), i) =
           IF i <= Buffered(r) THEN At(r, i) ELSE b[i - Buffered(r)]
  <1> DEFINE w == Written(r, b)
  <1>0. Len(b) \in Nat /\ w.off = r.off /\ Buffered(r) + Len(b) <= BufLen
    BY WrittenType, RingFields, FreeBounds DEF WriteFits
  <1>1. Buffered(r) \in 0 .. BufLen /\ r.off \in 0 .. BufLen - 1 /\ r.end \in 0 .. BufLen
        /\ BufLen \in Nat \ {0} /\ i \in 1 .. BufLen
    BY <1>0, FreeBounds, RingFields
  <1>2. PICK j \in 0 .. BufLen - 1 :
          j = IF r.off + i <= BufLen THEN r.off + i - 1 ELSE r.off + i - 1 - BufLen
    BY <1>1
  <1>3. At(w, i) = w.buf[j] /\ At(r, i) = r.buf[j]
    BY <1>0, <1>1, <1>2 DEF At
  <1>4. w.buf[j] =
           IF r.end <= j /\ j < r.end + Len(b) THEN b[j - r.end + 1]
           ELSE IF r.end > r.off \/ r.off = 0 \/ r.end = r.off THEN
                  IF j < r.end + Len(b) - BufLen THEN b[BufLen - r.end + j + 1]
                  ELSE r.buf[j]
           ELSE r.buf[j]
    BY WrittenBuf
  <1>5. Buffered(r) = IF r.off = 0 THEN r.end
                      ELSE IF r.off < r.end THEN r.end - r.off
                      ELSE BufLen - (r.off - r.end)
    BY <1>1 DEF Buffered, Free
  <1> DEFINE o == r.off
             e == r.end
             l == Len(b)
             m == Buffered(r)
             wrapped == e > o \/ o = 0 \/ e = o
  <1>6. /\ BufLen \in Nat /\ o \in 0 .. BufLen - 1 /\ e \in 0 .. BufLen
        /\ l \in Nat /\ m \in 0 .. BufLen /\ m + l <= BufLen
        /\ i \in 1 .. m + l /\ j \in 0 .. BufLen - 1
        /\ m = IF o = 0 THEN e ELSE IF o < e THEN e - o ELSE BufLen - (o - e)
        /\ j = IF o + i <= BufLen THEN o + i - 1 ELSE o + i - 1 - BufLen
    BY <1>0, <1>1, <1>2, <1>5
  \* The index arithmetic, apart from the records.
  <1>7. /\ i <= m =>
             /\ ~(e <= j /\ j < e + l)
             /\ ~(wrapped /\ j < e + l - BufLen)
        /\ i > m =>
             \/ e <= j /\ j < e + l /\ j - e + 1 = i - m
             \/ /\ ~(e <= j /\ j < e + l)
                /\ wrapped
                /\ j < e + l - BufLen
                /\ BufLen - e + j + 1 = i - m
    <2> HIDE DEF o, e, l, m
    <2> QED BY <1>6, SMT
  <1> HIDE DEF w
  <1>8. CASE i <= Buffered(r)
    BY <1>3, <1>4, <1>7, <1>8 DEF w
  <1>9. CASE i > Buffered(r)
    BY <1>1, <1>3, <1>4, <1>7, <1>9 DEF w
  <1> QED BY <1>1, <1>8, <1>9
\* The byte at each position of the contents is a byte.
LEMMA AtType ==
  ASSUME NEW r \in Rings, r.off < BufLen, NEW i \in 1 .. BufLen
  PROVE  At(r, i) \in Byte
  <1>1. \/ r.off + i <= BufLen /\ r.off + i - 1 \in 0 .. BufLen - 1
        \/ ~(r.off + i <= BufLen) /\ r.off + i - 1 - BufLen \in 0 .. BufLen - 1
    BY RingFields
  <1> QED BY <1>1, RingFields DEF At

\* The contents are a byte string of the length Buffered tells.
LEMMA ContentsType ==
  ASSUME NEW r \in Rings, r.off < BufLen
  PROVE  Contents(r) \in Seq(Byte) /\ Len(Contents(r)) = Buffered(r)
  <1>1. Buffered(r) \in Nat /\ \A i \in 1 .. Buffered(r) : i \in 1 .. BufLen
    BY FreeBounds, RingFields
  <1>2. \A i \in 1 .. Buffered(r) : At(r, i) \in Byte
    BY <1>1, AtType
  <1> QED BY <1>1, <1>2 DEF Contents

\* A Write that fits appends its bytes to the contents.
LEMMA WrittenContents ==
  ASSUME NEW r \in Rings, r.off < BufLen, NEW b \in Seq(Byte), WriteFits(r, b)
  PROVE  Contents(Written(r, b)) = Contents(r) \o b
  <1> DEFINE w == Written(r, b)
             c == Contents(r)
  <1>1. Buffered(w) = Buffered(r) + Len(b)
    BY WrittenLength
  <1>2. c \in Seq(Byte) /\ Len(c) = Buffered(r)
    BY ContentsType
  <1>3. Contents(w) = [i \in 1 .. Len(c) + Len(b) |-> At(w, i)]
    BY <1>1, <1>2 DEF Contents
  <1>4. \A i \in 1 .. Len(c) + Len(b) :
          At(w, i) = IF i <= Len(c) THEN At(r, i) ELSE b[i - Len(c)]
    BY <1>2, WrittenAt
  <1>5. \A i \in 1 .. Len(c) : c[i] = At(r, i)
    BY <1>2 DEF Contents
  <1> HIDE DEF w, c
  <1>6. \A i \in 1 .. Len(c) + Len(b) :
          At(w, i) = IF i <= Len(c) THEN c[i] ELSE b[i - Len(c)]
    BY <1>2, <1>4, <1>5
  <1>7. Contents(w) = c \o b
    <2>1. /\ c \o b \in Seq(Byte) /\ Len(c \o b) = Len(c) + Len(b)
          /\ \A i \in 1 .. Len(c) + Len(b) :
               (c \o b)[i] = IF i <= Len(c) THEN c[i] ELSE b[i - Len(c)]
      BY <1>2, ConcatProperties
    <2>2. /\ Contents(w) \in Seq(Byte) /\ Len(Contents(w)) = Len(c) + Len(b)
          /\ \A i \in 1 .. Len(c) + Len(b) : Contents(w)[i] = (c \o b)[i]
      <3>1. w \in Rings /\ w.off < BufLen
        BY WrittenType DEF w
      <3> QED BY <1>1, <1>2, <1>3, <1>6, <2>1, <3>1, ContentsType
    <2> QED BY <2>1, <2>2, SeqEqual
  <1> QED BY <1>7 DEF w, c

\* Position by position, a Read drops the bytes it returned.
LEMMA ReadAt ==
  ASSUME NEW r \in Rings, r.off < BufLen, Buffered(r) # 0,
         NEW k \in Nat, k # 0,
         NEW i \in 1 .. Buffered(ReadRest(r, k))
  PROVE  At(ReadRest(r, k), i) = At(r, ReadCount(r, k) + i)
  <1> DEFINE s == ReadRest(r, k)
             n == ReadCount(r, k)
             m == Buffered(r)
             o == r.off
             p == s.off
  <1>1. /\ s.buf = r.buf
        /\ Buffered(s) = m - n
        /\ Buffered(s) # 0 => p = IF o + n < BufLen THEN o + n ELSE o + n - BufLen
    BY ReadRestType, ReadRestIs
  <1>2. /\ BufLen \in Nat /\ o \in 0 .. BufLen - 1 /\ m \in 0 .. BufLen
        /\ n \in 0 .. m /\ i \in 1 .. m - n
    BY <1>1, RingFields, FreeBounds, ReadCountIs
  <1>3. p = IF o + n < BufLen THEN o + n ELSE o + n - BufLen
    BY <1>1, <1>2
  <1>4. \/ /\ p + i <= BufLen /\ o + (n + i) <= BufLen
           /\ p + i - 1 = o + (n + i) - 1
        \/ /\ p + i <= BufLen /\ ~(o + (n + i) <= BufLen)
           /\ p + i - 1 = o + (n + i) - 1 - BufLen
        \/ /\ ~(p + i <= BufLen) /\ ~(o + (n + i) <= BufLen)
           /\ p + i - 1 - BufLen = o + (n + i) - 1 - BufLen
    <2> HIDE DEF s, n, m, o, p
    <2> QED BY <1>2, <1>3, SMT
  <1> QED BY <1>1, <1>4 DEF At

\* A Read of at least one byte takes a prefix of the contents and returns it.
LEMMA ReadContents ==
  ASSUME NEW r \in Rings, r.off < BufLen, Buffered(r) # 0,
         NEW k \in Nat, k # 0
  PROVE  LET c == Contents(r)
             n == IF k < Len(c) THEN k ELSE Len(c)
         IN  /\ ReadCount(r, k) = n
             /\ ReadData(r, k) = SubSeq(c, 1, n)
             /\ Contents(ReadRest(r, k)) = SubSeq(c, n + 1, Len(c))
  <1> DEFINE c == Contents(r)
             n == ReadCount(r, k)
             s == ReadRest(r, k)
  <1>1. c \in Seq(Byte) /\ Len(c) = Buffered(r) /\ Len(c) \in Nat
    BY ContentsType
  <1>2. n = IF k < Len(c) THEN k ELSE Len(c)
    BY <1>1, ReadCountIs
  <1>3. Buffered(s) = Len(c) - n
    BY <1>1, ReadRestIs
  <1>4. n \in 0 .. Len(c)
    BY <1>1, <1>2
  <1>5. \A i \in 1 .. Len(c) : c[i] = At(r, i)
    BY <1>1 DEF Contents
  <1>6. \A i \in 1 .. Len(c) - n : At(s, i) = At(r, n + i)
    BY <1>3, ReadAt
  <1>7. ReadData(r, k) = [i \in 1 .. n |-> At(r, i)]
    BY DEF ReadData
  <1>8. Contents(s) = [i \in 1 .. Len(c) - n |-> At(s, i)]
    BY <1>3 DEF Contents
  <1> HIDE DEF c, n, s
  <1>9. ReadData(r, k) = SubSeq(c, 1, n)
    <2>1. SubSeq(c, 1, n) = [i \in 1 .. n |-> c[i]]
      BY <1>1, <1>4
    <2>2. \A i \in 1 .. n : c[i] = At(r, i)
      BY <1>1, <1>4, <1>5
    <2> QED BY <1>7, <2>1, <2>2
  <1>10. Contents(s) = SubSeq(c, n + 1, Len(c))
    <2>1. SubSeq(c, n + 1, Len(c)) = [i \in 1 .. Len(c) - n |-> c[n + i]]
      BY <1>1, <1>4
    <2>2. \A i \in 1 .. Len(c) - n : c[n + i] = At(s, i)
      BY <1>1, <1>4, <1>5, <1>6
    <2> QED BY <1>8, <2>1, <2>2
  <1> QED BY <1>2, <1>9, <1>10 DEF c, n, s

-----------------------------------------------------------------------------
\* The index invariant of the ring, for every capacity: no sequence of Writes,
\* Reads (of any length, zero included) and Resets takes off or end out of buf.
THEOREM TypeCorrect == Spec => []TypeOK
  <1>1. Init => TypeOK
    BY RingAssumption DEF Init, TypeOK, Rings, Result
  <1>2. TypeOK /\ [Next]_vars => TypeOK'
    <2> SUFFICES ASSUME TypeOK, [Next]_vars PROVE TypeOK'
      OBVIOUS
    <2>0. /\ ring \in Rings /\ ring.off < BufLen
          /\ ret.n \in Nat /\ ret.data \in Seq(Byte) /\ ret.err \in {"nil", "full", "EOF"}
      BY DEF TypeOK
    <2>1. ASSUME NEW b \in Inputs, Write(b) PROVE TypeOK'
      <3>1. b \in Seq(Byte)
        BY RingAssumption
      <3>2. CASE WriteFits(ring, b) /\ ring' = Written(ring, b)
                 /\ ret' = Result(Len(b), <<>>, "nil")
        BY <2>0, <3>1, <3>2, WrittenType DEF TypeOK, Result
      <3>3. CASE ret' = Result(0, <<>>, "full") /\ UNCHANGED ring
        BY <2>0, <3>3 DEF TypeOK, Result
      <3> QED BY <2>1, <3>2, <3>3 DEF Write
    <2>2. ASSUME NEW k \in Requests, Read(k) PROVE TypeOK'
      <3>1. k \in Nat
        BY RingAssumption
      <3>2. CASE /\ Buffered(ring) # 0 /\ ring' = ReadRest(ring, k)
                 /\ ret' = Result(ReadCount(ring, k), ReadData(ring, k), "nil")
        <4>1. ReadCount(ring, k) \in Nat /\ ReadCount(ring, k) <= BufLen
          BY <2>0, <3>1, <3>2, ReadCountIs, FreeBounds, RingAssumption
        <4>2. \A i \in 1 .. ReadCount(ring, k) : i \in 1 .. BufLen
          BY <4>1, RingAssumption
        <4>3. ReadData(ring, k) \in Seq(Byte)
          BY <2>0, <4>1, <4>2, AtType DEF ReadData
        <4> QED BY <2>0, <3>1, <3>2, <4>1, <4>3, ReadRestType DEF TypeOK, Result
      <3>3. CASE ret' = Result(0, <<>>, "EOF") /\ UNCHANGED ring
        BY <2>0, <3>3 DEF TypeOK, Result
      <3> QED BY <2>2, <3>2, <3>3 DEF Read
    <2>3. CASE Reset
      BY <2>0, <2>3, RingAssumption DEF Reset, Cleared, TypeOK, Rings
    <2>4. CASE UNCHANGED vars
      BY <2>4 DEF vars, TypeOK
    <2> QED BY <2>1, <2>2, <2>3, <2>4 DEF Next
  <1> QED BY <1>1, <1>2, PTL DEF Spec

\* ring.Write, ring.Read and ring.Reset implement a bounded FIFO queue of the
\* buffer's length, for every length, provided no caller reads zero bytes.
THEOREM ImplementsFifo ==
  ASSUME 0 \notin Requests
  PROVE  Spec => FifoSpec
  <1>1. Init => Queue!Init
    <2> SUFFICES ASSUME Init PROVE Queue!Init
      OBVIOUS
    <2>1. ring \in Rings /\ ring.off = 0 /\ ring.end = 0 /\ ret = Result(0, <<>>, "nil")
      BY DEF Init
    <2>2. Buffered(ring) = 0 /\ ring.off < BufLen
      BY <2>1, RingAssumption DEF Buffered, Free
    <2>3. Contents(ring) \in Seq(Byte) /\ Len(Contents(ring)) = 0
      BY <2>1, <2>2, ContentsType
    <2>4. Contents(ring) = <<>>
      BY <2>3
    <2> QED BY <2>1, <2>4 DEF Queue!Init, Queue!Result, Result
  <1>2. TypeOK /\ [Next]_vars => [Queue!Next]_(Queue!vars)
    <2> SUFFICES ASSUME TypeOK, [Next]_vars PROVE [Queue!Next]_(Queue!vars)
      OBVIOUS
    <2>0. /\ ring \in Rings /\ ring.off < BufLen
          /\ Contents(ring) \in Seq(Byte)
          /\ Len(Contents(ring)) = Buffered(ring)
          /\ Len(Contents(ring)) \in Nat
          /\ Free(ring) = BufLen - Len(Contents(ring))
      BY ContentsType, FreeBounds, RingAssumption DEF TypeOK
    <2>1. ASSUME NEW b \in Inputs, Write(b) PROVE Queue!Next
      <3>1. b \in Seq(Byte)
        BY RingAssumption
      <3>2. CASE WriteFits(ring, b) /\ ring' = Written(ring, b)
                 /\ ret' = Result(Len(b), <<>>, "nil")
        <4>1. Contents(ring') = Contents(ring) \o b
          BY <2>0, <3>1, <3>2, WrittenContents
        <4>2. Len(b) <= BufLen - Len(Contents(ring))
          BY <2>0, <3>2 DEF WriteFits
        <4>3. Queue!WriteOk(b)
          BY <3>2, <4>1, <4>2 DEF Queue!WriteOk, Queue!Result, Result
        <4> QED BY <4>3 DEF Queue!Next
      <3>3. CASE ~WriteFits(ring, b) /\ ret' = Result(0, <<>>, "full") /\ UNCHANGED ring
        <4>1. Len(b) > BufLen - Len(Contents(ring))
          BY <2>0, <3>1, <3>3, FreeBounds, RingAssumption DEF WriteFits
        <4>2. Queue!WriteFull(b)
          BY <3>3, <4>1 DEF Queue!WriteFull, Queue!Result, Result
        <4> QED BY <4>2 DEF Queue!Next
      <3> QED BY <2>1, <3>2, <3>3 DEF Write
    <2>2. ASSUME NEW k \in Requests, Read(k) PROVE Queue!Next
      <3>1. k \in Nat /\ k # 0
        BY RingAssumption
      <3>2. CASE /\ Buffered(ring) # 0 /\ ring' = ReadRest(ring, k)
                 /\ ret' = Result(ReadCount(ring, k), ReadData(ring, k), "nil")
        <4>1. LET c == Contents(ring)
                  n == IF k < Len(c) THEN k ELSE Len(c)
              IN  /\ ReadCount(ring, k) = n
                  /\ ReadData(ring, k) = SubSeq(c, 1, n)
                  /\ Contents(ring') = SubSeq(c, n + 1, Len(c))
          BY <2>0, <3>1, <3>2, ReadContents
        <4>2. Contents(ring) # <<>>
          BY <2>0, <3>2
        <4>3. Queue!ReadOk(k)
          BY <3>2, <4>1, <4>2 DEF Queue!ReadOk, Queue!Result, Result
        <4> QED BY <4>3 DEF Queue!Next
      <3>3. CASE Buffered(ring) = 0 /\ ret' = Result(0, <<>>, "EOF") /\ UNCHANGED ring
        <4>1. Contents(ring) = <<>>
          BY <2>0, <3>3
        <4>2. Queue!ReadEmpty(k)
          BY <3>3, <4>1 DEF Queue!ReadEmpty, Queue!Result, Result
        <4> QED BY <4>2 DEF Queue!Next
      <3> QED BY <2>2, <3>2, <3>3 DEF Read
    <2>3. CASE Reset
      <3>1. ring' \in Rings /\ ring'.off = 0 /\ ring'.end = 0 /\ ret' = ret
        BY <2>0, <2>3, RingAssumption DEF Reset, Cleared, Rings
      <3>2. Buffered(ring') = 0 /\ ring'.off < BufLen
        BY <3>1, RingAssumption DEF Buffered, Free
      <3>3. Contents(ring') \in Seq(Byte) /\ Len(Contents(ring')) = 0
        BY <3>1, <3>2, ContentsType
      <3>4. Contents(ring') = <<>>
        BY <3>3
      <3> QED BY <3>1, <3>4 DEF Queue!Next, Queue!Reset
    <2>4. CASE UNCHANGED vars
      BY <2>4 DEF vars, Queue!vars
    <2> QED BY <2>1, <2>2, <2>3, <2>4 DEF Next
  <1> QED BY <1>1, <1>2, TypeCorrect, PTL DEF Spec, FifoSpec, Queue!Spec
=============================================================================

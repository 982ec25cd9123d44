------------------------- MODULE HttpExchangeProofs -------------------------
(***************************************************************************)
(* Theorems about HttpExchange, for any requests and any sizes: a client   *)
(* that waits for its answers gets the right ones, whole and in order.     *)
(***************************************************************************)
EXTENDS HttpExchange, FiniteSetTheorems, SequenceTheorems, WellFoundedInduction, TLAPS

SentUnits == [answer : Nat, part : {"head", "file"}, unit : Nat]
HeadUnits == [answer : Nat, part : {"head"}, unit : Nat]

-----------------------------------------------------------------------------
(* Sequences.                                                              *)
LEMMA Splits ==
  ASSUME NEW S, NEW s \in Seq(S), NEW k \in 0 .. Len(s)
  PROVE  /\ SubSeq(s, 1, k) \in Seq(S)
         /\ SubSeq(s, k + 1, Len(s)) \in Seq(S)
         /\ Len(SubSeq(s, k + 1, Len(s))) = Len(s) - k
         /\ SubSeq(s, 1, k) \o SubSeq(s, k + 1, Len(s)) = s
<1>0. Len(s) \in Nat /\ \A i \in 1 .. Len(s) : s[i] \in S
  BY LenProperties, ElementOfSeq
<1>1. SubSeq(s, 1, k) \in Seq(S)
  BY <1>0, SubSeqProperties
<1>2. /\ SubSeq(s, k + 1, Len(s)) \in Seq(S)
      /\ Len(SubSeq(s, k + 1, Len(s))) = Len(s) - k
  BY <1>0, SubSeqProperties
<1>3. SubSeq(s, 1, k) \o SubSeq(s, k + 1, Len(s)) = SubSeq(s, 1, Len(s))
  <2>1. /\ 1 \in 1 .. Len(s) + 1 /\ k \in 1 - 1 .. Len(s)
        /\ Len(s) \in k .. Len(s)
    BY <1>0
  <2> QED
    BY <1>0, <2>1, ConcatAdjacentSubSeq
<1> QED
  BY <1>1, <1>2, <1>3, SubSeqFull

From(s, k) == SubSeq(s, k + 1, Len(s))

LEMMA FromFacts ==
  ASSUME NEW S, NEW s \in Seq(S), NEW k \in Nat
  PROVE  /\ From(s, k) \in Seq(S)
         /\ Len(From(s, k)) = IF k < Len(s) THEN Len(s) - k ELSE 0
         /\ \A i \in 1 .. Len(s) - k : From(s, k)[i] = s[k + i]
<1>1. Len(s) \in Nat /\ \A i \in 1 .. Len(s) : s[i] \in S
  BY LenProperties, ElementOfSeq
<1>2. k + 1 \in Int /\ Len(s) \in Int /\ \A i \in k + 1 .. Len(s) : s[i] \in S
  BY <1>1
<1>3. /\ From(s, k) \in Seq(S)
      /\ Len(From(s, k)) = IF k + 1 <= Len(s) THEN Len(s) - (k + 1) + 1 ELSE 0
      /\ \A i \in 1 .. Len(s) - (k + 1) + 1 : From(s, k)[i] = s[k + 1 + i - 1]
  BY <1>2, SubSeqProperties DEF From
<1> HIDE DEF From
<1> QED
  BY <1>1, <1>3

\* A sequence that begins with s and goes on with t.
LEMMA ConcatIs ==
  ASSUME NEW S, NEW s \in Seq(S), NEW t \in Seq(S), NEW u \in Seq(S),
         Len(u) = Len(s) + Len(t),
         \A i \in 1 .. Len(s) : u[i] = s[i],
         \A i \in 1 .. Len(t) : u[Len(s) + i] = t[i]
  PROVE  u = s \o t
<1>0. Len(s) \in Nat /\ Len(t) \in Nat
  BY LenProperties
<1>1. s \o t \in Seq(S) /\ Len(s \o t) = Len(s) + Len(t)
  BY ConcatProperties
<1>2. ASSUME NEW i \in 1 .. Len(u) PROVE u[i] = (s \o t)[i]
  <2>1. CASE i <= Len(s)
    BY <1>0, <2>1
  <2>2. CASE i > Len(s)
    <3>1. i - Len(s) \in 1 .. Len(t) /\ i = Len(s) + (i - Len(s))
      BY <1>0, <2>2
    <3> QED
      BY <1>0, <3>1, <2>2
  <2> QED
    BY <1>0, <2>1, <2>2
<1> QED
  BY <1>1, <1>2, SeqEqual

\* What is behind the first n elements of s followed by t.
Past(s, n) == IF n > Len(s) THEN n - Len(s) ELSE 0

LEMMA BehindConcat ==
  ASSUME NEW S, NEW s \in Seq(S), NEW t \in Seq(S), NEW n \in Nat
  PROVE  From(s \o t, n) = From(s, n) \o From(t, Past(s, n))
<1> DEFINE m == Past(s, n)
           a == From(s, n)
           b == From(t, m)
           c == From(s \o t, n)
<1>0. Len(s) \in Nat /\ Len(t) \in Nat
  BY LenProperties
<1>m. m \in Nat /\ m = IF n > Len(s) THEN n - Len(s) ELSE 0
  BY <1>0 DEF Past
<1> HIDE DEF m
<1>1. s \o t \in Seq(S) /\ Len(s \o t) = Len(s) + Len(t)
  BY ConcatProperties
<1>2. a \in Seq(S) /\ b \in Seq(S) /\ c \in Seq(S)
  BY <1>1, <1>m, FromFacts
<1>3. Len(a) = IF n < Len(s) THEN Len(s) - n ELSE 0
  BY FromFacts
<1>4. Len(b) = IF m < Len(t) THEN Len(t) - m ELSE 0
  BY <1>m, FromFacts
<1>5. Len(c) = IF n < Len(s) + Len(t) THEN Len(s) + Len(t) - n ELSE 0
  <2>1. Len(c) = IF n < Len(s \o t) THEN Len(s \o t) - n ELSE 0
    BY <1>1, FromFacts
  <2> QED
    BY <1>1, <2>1
<1>6. \A i \in 1 .. Len(s) - n : a[i] = s[n + i]
  BY FromFacts
<1>7. \A i \in 1 .. Len(t) - m : b[i] = t[m + i]
  BY <1>m, FromFacts
<1>8. \A i \in 1 .. Len(s) + Len(t) - n : c[i] = (s \o t)[n + i]
  <2>1. \A i \in 1 .. Len(s \o t) - n : c[i] = (s \o t)[n + i]
    BY <1>1, FromFacts
  <2> QED
    BY <1>1, <2>1
<1>9. /\ \A i \in 1 .. Len(s) : (s \o t)[i] = s[i]
      /\ \A i \in 1 .. Len(t) : (s \o t)[Len(s) + i] = t[i]
  BY <1>0, ConcatProperties
<1> HIDE DEF a, b, c
<1>10. Len(c) = Len(a) + Len(b)
  <2>1. CASE n <= Len(s)
    <3>1. m = 0 /\ Len(a) = Len(s) - n
      BY <1>0, <1>m, <1>3, <2>1
    <3>2. Len(b) = Len(t)
      BY <1>0, <1>4, <3>1
    <3> QED
      BY <1>0, <1>5, <2>1, <3>1, <3>2
  <2>2. CASE n > Len(s)
    <3>1. m = n - Len(s) /\ Len(a) = 0
      BY <1>0, <1>m, <1>3, <2>2
    <3>2. Len(b) = IF n - Len(s) < Len(t) THEN Len(t) - (n - Len(s)) ELSE 0
      BY <1>4, <3>1
    <3> QED
      BY <1>0, <1>5, <2>2, <3>1, <3>2
  <2> QED
    BY <1>0, <2>1, <2>2
<1>11. \A i \in 1 .. Len(a) : c[i] = a[i]
  <2> TAKE i \in 1 .. Len(a)
  <2>1. i \in 1 .. Len(s) - n /\ i \in 1 .. Len(s) + Len(t) - n /\ n + i \in 1 .. Len(s)
    BY <1>0, <1>3
  <2> QED
    BY <2>1, <1>6, <1>8, <1>9
<1>12. \A i \in 1 .. Len(b) : c[Len(a) + i] = b[i]
  <2> TAKE i \in 1 .. Len(b)
  <2>1. /\ i \in 1 .. Len(t) - m /\ Len(a) + i \in 1 .. Len(s) + Len(t) - n
        /\ m + i \in 1 .. Len(t) /\ n + (Len(a) + i) = Len(s) + (m + i)
    BY <1>0, <1>m, <1>3, <1>4
  <2>2. c[Len(a) + i] = (s \o t)[n + (Len(a) + i)]
    BY <2>1, <1>8
  <2>3. (s \o t)[Len(s) + (m + i)] = t[m + i] /\ b[i] = t[m + i]
    BY <2>1, <1>7, <1>9
  <2> QED
    BY <2>1, <2>2, <2>3
<1>13. c = a \o b
  BY <1>2, <1>10, <1>11, <1>12, ConcatIs
<1> QED
  BY <1>13 DEF a, b, c, m

-----------------------------------------------------------------------------
(* What is to be sent.                                                     *)
LEMMA PartFacts ==
  ASSUME NEW a \in Nat, NEW n \in Nat
  PROVE  /\ Part(a, "head", n) \in Seq(HeadUnits)
         /\ Part(a, "head", n) \in Seq(SentUnits)
         /\ Part(a, "file", n) \in Seq(SentUnits)
         /\ Len(Part(a, "head", n)) = n /\ Len(Part(a, "file", n)) = n
<1>1. /\ Part(a, "head", n) \in [1 .. n -> HeadUnits]
      /\ Part(a, "head", n) \in [1 .. n -> SentUnits]
      /\ Part(a, "file", n) \in [1 .. n -> SentUnits]
  BY DEF Part, HeadUnits, SentUnits
<1>2. /\ Part(a, "head", n) \in Seq(HeadUnits)
      /\ Part(a, "head", n) \in Seq(SentUnits)
      /\ Part(a, "file", n) \in Seq(SentUnits)
  BY <1>1, SeqDef
<1>3. DOMAIN Part(a, "head", n) = 1 .. n /\ DOMAIN Part(a, "file", n) = 1 .. n
  BY DEF Part
<1> QED
  BY <1>2, <1>3, LenProperties

\* What is left of the file a from an offset on.
LEMMA RestFacts ==
  ASSUME NEW a \in Nat, NEW n \in Nat, NEW o \in Nat
  PROVE  /\ SubSeq(Part(a, "file", n), o + 1, n) \in Seq(SentUnits)
         /\ Len(SubSeq(Part(a, "file", n), o + 1, n)) = IF o < n THEN n - o ELSE 0
         /\ \A i \in 1 .. n - o :
              SubSeq(Part(a, "file", n), o + 1, n)[i] = Part(a, "file", n)[o + i]
<1>1. \A i \in o + 1 .. n : Part(a, "file", n)[i] \in SentUnits
  BY DEF Part, SentUnits
<1> QED
  BY <1>1, SubSeqProperties

\* What is to be sent when the head is out and the file a is sent up to o.
RestOf(a, n, o) == SubSeq(Part(a, "file", n), o + 1, n)

LEMMA QueueFacts ==
  ASSUME NEW out \in Seq(HeadUnits), NEW a \in Nat, NEW n \in Nat, NEW o \in Nat
  PROVE  LET rest == RestOf(a, n, o) IN
         /\ out \in Seq(SentUnits) /\ rest \in Seq(SentUnits)
         /\ out \o rest \in Seq(SentUnits)
         /\ Len(out) \in Nat
         /\ Len(rest) = IF o < n THEN n - o ELSE 0
         /\ Len(out \o rest) = Len(out) + Len(rest)
         /\ out \o rest = << >> <=> Len(out \o rest) = 0
<1> DEFINE rest == RestOf(a, n, o)
<1>1. out \in Seq(SentUnits)
  <2>1. HeadUnits \subseteq SentUnits
    BY DEF HeadUnits, SentUnits
  <2> QED
    BY <2>1, SeqMonotonic
<1>2. rest \in Seq(SentUnits) /\ Len(rest) = IF o < n THEN n - o ELSE 0
  BY RestFacts DEF RestOf
<1> HIDE DEF rest
<1>3. out \o rest \in Seq(SentUnits) /\ Len(out \o rest) = Len(out) + Len(rest)
  BY <1>1, <1>2, ConcatProperties
<1>4. out \o rest = << >> <=> Len(out \o rest) = 0
  BY <1>3, EmptySeq
<1>5. Len(out) \in Nat
  BY <1>1, LenProperties
<1> QED
  BY <1>1, <1>2, <1>3, <1>4, <1>5 DEF rest

LEMMA PendingFacts ==
  ASSUME TypeOK
  PROVE  /\ output \in Seq(SentUnits) /\ FileRest \in Seq(SentUnits)
         /\ Pending \in Seq(SentUnits)
         /\ Len(output) \in Nat
         /\ Len(FileRest) = IF offset < file.size THEN file.size - offset ELSE 0
         /\ Len(Pending) = Len(output) + Len(FileRest)
         /\ Pending = << >> <=> Len(Pending) = 0
<1>1. output \in Seq(HeadUnits) /\ file.answer \in Nat /\ file.size \in Nat /\ offset \in Nat
  BY DEF TypeOK, HeadUnits
<1>2. FileRest = RestOf(file.answer, file.size, offset) /\ Pending = output \o FileRest
  BY Zenon DEF FileRest, Pending, RestOf
<1> QED
  BY <1>1, <1>2, QueueFacts

\* The same of the next state.
LEMMA PendingFactsNext ==
  ASSUME output' \in Seq(HeadUnits), file'.answer \in Nat, file'.size \in Nat,
         offset' \in Nat
  PROVE  /\ Len(output') \in Nat
         /\ Len(FileRest') = IF offset' < file'.size THEN file'.size - offset' ELSE 0
         /\ Len(Pending') = Len(output') + Len(FileRest')
         /\ Pending' = << >> <=> Len(Pending') = 0
<1>1. /\ FileRest' = RestOf(file'.answer, file'.size, offset')
      /\ Pending' = output' \o FileRest'
  BY Zenon DEF FileRest, Pending, RestOf
<1> QED
  BY <1>1, QueueFacts

\* n units are sent: what is left is what was to be sent without them.
LEMMA SendingSplits ==
  ASSUME TypeOK, NEW n \in 1 .. Len(Pending), Sent(n)
  PROVE  /\ wire' \in Seq(SentUnits) /\ output' \in Seq(HeadUnits)
         /\ Len(output') = IF n < Len(output) THEN Len(output) - n ELSE 0
         /\ FromFile(n) \in Nat
         /\ FromFile(n) = IF n > Len(output) THEN n - Len(output) ELSE 0
         /\ wire' = wire \o SubSeq(Pending, 1, n)
         /\ wire' \o (output' \o From(FileRest, FromFile(n))) = wire \o Pending
<1>0. /\ Len(output) \in Nat /\ n \in Nat
      /\ output \in Seq(SentUnits) /\ FileRest \in Seq(SentUnits)
      /\ Pending \in Seq(SentUnits) /\ n \in 0 .. Len(Pending)
  BY PendingFacts
<1>1. output \in Seq(HeadUnits) /\ wire \in Seq(SentUnits)
  BY DEF TypeOK, HeadUnits, SentUnits
<1>2. FromFile(n) \in Nat /\ FromFile(n) = IF n > Len(output) THEN n - Len(output) ELSE 0
  BY <1>0 DEF FromFile
<1>3. wire' = wire \o SubSeq(Pending, 1, n) /\ output' = From(output, n)
  BY DEF Sent, HeadRest, From
<1>4. output' \in Seq(HeadUnits) /\ Len(output') = IF n < Len(output) THEN Len(output) - n ELSE 0
  BY <1>0, <1>1, <1>3, FromFacts
<1>5. From(Pending, n) = output' \o From(FileRest, FromFile(n))
  <2>1. From(output \o FileRest, n) = From(output, n) \o From(FileRest, FromFile(n))
    <3>1. From(output \o FileRest, n) = From(output, n) \o From(FileRest, Past(output, n))
      BY <1>0, BehindConcat
    <3>2. FromFile(n) = Past(output, n)
      BY DEF FromFile, Past
    <3> QED
      BY <3>1, <3>2, Zenon
  <2> QED
    BY <2>1, <1>3, Zenon DEF Pending
<1>6. /\ SubSeq(Pending, 1, n) \in Seq(SentUnits)
      /\ From(Pending, n) \in Seq(SentUnits)
      /\ SubSeq(Pending, 1, n) \o From(Pending, n) = Pending
  BY <1>0, Splits DEF From
<1>7. (wire \o SubSeq(Pending, 1, n)) \o From(Pending, n) = wire \o Pending
  <2>1. (wire \o SubSeq(Pending, 1, n)) \o From(Pending, n)
          = wire \o (SubSeq(Pending, 1, n) \o From(Pending, n))
    BY <1>1, <1>6, ConcatAssociative
  <2> QED
    BY <2>1, <1>6, Zenon
<1>8. wire' \in Seq(SentUnits)
  BY <1>1, <1>3, <1>6, ConcatProperties
<1> QED
  BY <1>2, <1>3, <1>4, <1>5, <1>7, <1>8

\* The rest of a file, from an offset moved on by k.
LEMMA RestMoves ==
  ASSUME NEW a \in Nat, NEW n \in Nat, NEW o \in Nat, NEW k \in Nat
  PROVE  From(SubSeq(Part(a, "file", n), o + 1, n), k)
           = SubSeq(Part(a, "file", n), (o + k) + 1, n)
<1> DEFINE old == SubSeq(Part(a, "file", n), o + 1, n)
           new == SubSeq(Part(a, "file", n), (o + k) + 1, n)
<1>0. o + k \in Nat
  OBVIOUS
<1>1. old \in Seq(SentUnits) /\ Len(old) = IF o < n THEN n - o ELSE 0
  BY RestFacts
<1>2. \A i \in 1 .. n - o : old[i] = Part(a, "file", n)[o + i]
  BY RestFacts
<1>3. new \in Seq(SentUnits) /\ Len(new) = IF o + k < n THEN n - (o + k) ELSE 0
  BY <1>0, RestFacts
<1>4. \A i \in 1 .. n - (o + k) : new[i] = Part(a, "file", n)[(o + k) + i]
  BY <1>0, RestFacts
<1> HIDE DEF old, new
<1>5. /\ From(old, k) \in Seq(SentUnits)
      /\ Len(From(old, k)) = IF k < Len(old) THEN Len(old) - k ELSE 0
  BY <1>1, FromFacts
<1>6. \A i \in 1 .. Len(old) - k : From(old, k)[i] = old[k + i]
  BY <1>1, FromFacts
<1>7. Len(From(old, k)) = Len(new)
  BY <1>1, <1>3, <1>5
<1>8. ASSUME NEW i \in 1 .. Len(new) PROVE From(old, k)[i] = new[i]
  <2>1. /\ i \in 1 .. n - (o + k) /\ i \in 1 .. Len(old) - k /\ k + i \in 1 .. n - o
        /\ o + (k + i) = (o + k) + i
    BY <1>1, <1>3
  <2> QED
    BY <2>1, <1>2, <1>4, <1>6
<1>9. From(old, k) = new
  BY <1>3, <1>5, <1>7, <1>8, SeqEqual
<1> QED
  BY <1>9 DEF old, new

-----------------------------------------------------------------------------
(* What has been read.                                                     *)
LEMMA UnitFacts ==
  /\ CRLF \in Units
  /\ \A r : Start(r) # CRLF /\ Start(r).kind = "start" /\ Start(r).request = r
  /\ \A f : Header(f) # CRLF
  /\ \A u \in Units : u.kind = "start" => u.request \in Requests
<1>1. \A r : Start(r).kind = "start" /\ Start(r).request = r
  BY DEF Start
<1>2. \A f : Header(f).kind = "header"
  BY DEF Header
<1>3. CRLF.kind = "crlf"
  BY DEF CRLF
<1>4. \A u \in Units : u.kind = "start" => u.request \in Requests
  BY <1>1, <1>2, <1>3 DEF Units
<1> QED
  BY <1>1, <1>2, <1>3, <1>4 DEF Units

LEMMA EncodeFacts ==
  ASSUME NEW r \in Requests
  PROVE  /\ Len(r.headers) \in Nat
         /\ Encode(r) \in Seq(Units)
         /\ Len(Encode(r)) = 2 * Len(r.headers) + 3
         /\ Encode(r)[1] = Start(r) /\ Encode(r)[2] = CRLF
         /\ \A i \in 1 .. Len(r.headers) :
              /\ Encode(r)[2 * i + 1] = Header(r.headers[i])
              /\ Encode(r)[2 * i + 2] = CRLF
         /\ Encode(r)[2 * Len(r.headers) + 3] = CRLF
<1> DEFINE h == r.headers
           mid == [i \in 1 .. 2 * Len(h) |->
                     IF i % 2 = 1 THEN Header(h[(i + 1) \div 2]) ELSE CRLF]
<1>1. h \in Seq(Fields) /\ Len(h) \in Nat /\ 2 * Len(h) \in Nat
  <2>1. h \in Seq(Fields)
    BY HttpAssumption
  <2> QED
    BY <2>1, LenProperties
<1>2. \A i \in 1 .. Len(h) : h[i] \in Fields
  BY <1>1, ElementOfSeq
<1>3. mid \in [1 .. 2 * Len(h) -> Units]
  <2>1. ASSUME NEW i \in 1 .. 2 * Len(h), i % 2 = 1
        PROVE  (i + 1) \div 2 \in 1 .. Len(h)
    BY <1>1, <2>1
  <2>2. ASSUME NEW i \in 1 .. 2 * Len(h), i % 2 = 1
        PROVE  Header(h[(i + 1) \div 2]) \in Units
    BY <1>2, <2>1, <2>2 DEF Units
  <2> QED
    BY <2>2, UnitFacts
<1>4. mid \in Seq(Units) /\ Len(mid) = 2 * Len(h)
  BY <1>1, <1>3, SeqDef, LenProperties
<1>5. \A i \in 1 .. Len(h) : mid[2 * i - 1] = Header(h[i]) /\ mid[2 * i] = CRLF
  <2> TAKE i \in 1 .. Len(h)
  <2>1. /\ 2 * i - 1 \in 1 .. 2 * Len(h) /\ 2 * i \in 1 .. 2 * Len(h)
        /\ (2 * i - 1) % 2 = 1 /\ (2 * i) % 2 # 1 /\ ((2 * i - 1) + 1) \div 2 = i
    BY <1>1
  <2> QED
    BY <2>1
<1> HIDE DEF mid
<1>6. Encode(r) = <<Start(r), CRLF>> \o mid \o <<CRLF>>
  BY DEF Encode, mid
<1>7. <<Start(r), CRLF>> \in Seq(Units) /\ <<CRLF>> \in Seq(Units)
  BY UnitFacts DEF Units
<1>8. /\ <<Start(r), CRLF>> \o mid \in Seq(Units)
      /\ Len(<<Start(r), CRLF>> \o mid) = 2 * Len(h) + 2
      /\ \A i \in 1 .. 2 : (<<Start(r), CRLF>> \o mid)[i] = <<Start(r), CRLF>>[i]
      /\ \A i \in 1 .. 2 * Len(h) : (<<Start(r), CRLF>> \o mid)[i + 2] = mid[i]
  BY <1>1, <1>4, <1>7, ConcatProperties
<1> DEFINE front == <<Start(r), CRLF>> \o mid
<1>f. front \in Seq(Units) /\ Len(front) = 2 * Len(h) + 2
  BY <1>8
<1>s. front[1] = Start(r) /\ front[2] = CRLF
  BY <1>8
<1> HIDE DEF front
<1>9. /\ front \o <<CRLF>> \in Seq(Units)
      /\ Len(front \o <<CRLF>>) = 2 * Len(h) + 3
      /\ \A i \in 1 .. 2 * Len(h) + 2 : (front \o <<CRLF>>)[i] = front[i]
      /\ (front \o <<CRLF>>)[2 * Len(h) + 3] = CRLF
  <2> DEFINE last == <<CRLF>>
  <2>1. last \in Seq(Units) /\ Len(last) = 1 /\ last[1] = CRLF
    BY <1>7
  <2> HIDE DEF last
  <2>2. /\ front \o last \in Seq(Units) /\ Len(front \o last) = Len(front) + Len(last)
        /\ \A i \in 1 .. Len(front) + Len(last) :
             (front \o last)[i] = IF i <= Len(front) THEN front[i] ELSE last[i - Len(front)]
    BY <1>f, <2>1, ConcatProperties
  <2>3. (front \o last)[2 * Len(h) + 3] = CRLF
    BY <1>1, <1>f, <2>1, <2>2
  <2>4. \A i \in 1 .. 2 * Len(h) + 2 : (front \o last)[i] = front[i]
    BY <1>1, <1>f, <2>1, <2>2
  <2>5. Len(front \o last) = 2 * Len(h) + 3
    BY <1>1, <1>f, <2>1, <2>2
  <2> QED
    BY <2>2, <2>3, <2>4, <2>5, Zenon DEF last
<1>10. /\ Encode(r) \in Seq(Units)
       /\ Len(Encode(r)) = 2 * Len(h) + 3
       /\ \A i \in 1 .. 2 * Len(h) + 2 : Encode(r)[i] = front[i]
       /\ Encode(r)[2 * Len(h) + 3] = CRLF
  BY <1>6, <1>9, Zenon DEF front
<1>11. Encode(r)[1] = Start(r) /\ Encode(r)[2] = CRLF
  BY <1>1, <1>s, <1>10
<1>12. ASSUME NEW i \in 1 .. Len(h)
       PROVE  Encode(r)[2 * i + 1] = Header(h[i]) /\ Encode(r)[2 * i + 2] = CRLF
  <2>1. /\ 2 * i + 1 \in 1 .. 2 * Len(h) + 2 /\ 2 * i + 2 \in 1 .. 2 * Len(h) + 2
        /\ 2 * i - 1 \in 1 .. 2 * Len(h) /\ 2 * i \in 1 .. 2 * Len(h)
        /\ 2 * i + 1 = (2 * i - 1) + 2
    BY <1>1
  <2>2. front[2 * i + 1] = mid[2 * i - 1] /\ front[2 * i + 2] = mid[2 * i]
    BY <1>8, <2>1 DEF front
  <2> QED
    BY <1>5, <1>10, <2>1, <2>2
<1> QED
  BY <1>1, <1>10, <1>11, <1>12

\* The number of lines in front of an empty one.
LEMMA HeaderNumberFacts ==
  ASSUME NEW s \in Seq(Units)
  PROVE  /\ HeaderNumber(s) \in Nat
         /\ \A k \in Nat : (\A i \in 1 .. k : IsLine(s, i)) /\ ~IsLine(s, k + 1)
                             => HeaderNumber(s) = k
<1> DEFINE Lines == {k \in 1 .. Len(s) : \A i \in 1 .. k : IsLine(s, i)}
<1>1. Len(s) \in Nat
  BY LenProperties
<1>2. IsFiniteSet(1 .. Len(s))
  BY <1>1, FS_Interval
<1>3. Lines \in SUBSET (1 .. Len(s))
  OBVIOUS
<1>4. IsFiniteSet(Lines)
  BY <1>2, <1>3, FS_Subset
<1>5. HeaderNumber(s) \in Nat
  BY <1>4, FS_CardinalityType DEF HeaderNumber
<1>6. ASSUME NEW k \in Nat, \A i \in 1 .. k : IsLine(s, i), ~IsLine(s, k + 1)
      PROVE  HeaderNumber(s) = k
  <2>1. k <= Len(s)
    BY <1>1, <1>6 DEF IsLine
  <2>2. ASSUME NEW j \in Lines PROVE j \in 1 .. k
    BY <1>1, <1>6, <2>2
  <2>3. ASSUME NEW j \in 1 .. k PROVE j \in Lines
    BY <1>1, <1>6, <2>1
  <2>4. Lines = 1 .. k
    BY <2>2, <2>3
  <2>5. Cardinality(1 .. k) = k
    BY FS_Interval
  <2> QED
    BY <2>4, <2>5 DEF HeaderNumber
<1> QED
  BY <1>5, <1>6

LEMMA BehindType ==
  ASSUME NEW s \in Seq(Units)
  PROVE  Behind(s) \in Seq(Units)
BY HeadTailProperties DEF Behind

LEMMA ArrivedType ==
  ASSUME TypeOK, NEW n \in 1 .. Len(stream)
  PROVE  /\ Arrived(n) \in Seq(Units)
         /\ SubSeq(stream, n + 1, Len(stream)) \in Seq(Units)
<1>1. stream \in Seq(Units) /\ input \in Seq(Units) /\ n \in 0 .. Len(stream)
  BY DEF TypeOK
<1>2. /\ SubSeq(stream, 1, n) \in Seq(Units)
      /\ SubSeq(stream, n + 1, Len(stream)) \in Seq(Units)
  BY <1>1, Splits
<1>3. input \o SubSeq(stream, 1, n) \in Seq(Units)
  BY <1>1, <1>2, ConcatProperties
<1>4. Behind(input \o SubSeq(stream, 1, n)) \in Seq(Units)
  BY <1>3, BehindType
<1> QED
  BY <1>2, <1>3, <1>4, Zenon DEF Arrived

LEMMA ParseTypes ==
  ASSUME NEW t \in Seq(Units), parse_headers(t)
  PROVE  input' \in Seq(Units) /\ skip' \in BOOLEAN
<1>1. HeaderNumber(t) \in Nat /\ 2 * HeaderNumber(t) \in Nat
  BY HeaderNumberFacts
<1>2. BehindFields(t) = From(t, 2 * HeaderNumber(t))
  BY DEF BehindFields, From
<1>3. BehindFields(t) \in Seq(Units)
  BY <1>1, <1>2, FromFacts
<1>4. Behind(BehindFields(t)) \in Seq(Units)
  BY <1>3, BehindType
<1> QED
  BY <1>4 DEF parse_headers

\* A request that is read as a whole is taken from the buffer as a whole.
LEMMA ParseRequest ==
  ASSUME NEW r \in Requests, r.headers # << >>,
         parse_headers(SubSeq(Encode(r), 3, Len(Encode(r))))
  PROVE  input' = << >> /\ skip' = FALSE
<1> DEFINE h == Len(r.headers)
           t == SubSeq(Encode(r), 3, Len(Encode(r)))
<1>1. /\ h \in Nat /\ Encode(r) \in Seq(Units) /\ Len(Encode(r)) = 2 * h + 3
      /\ \A i \in 1 .. h : Encode(r)[2 * i + 1] = Header(r.headers[i])
      /\ \A i \in 1 .. h : Encode(r)[2 * i + 2] = CRLF
      /\ Encode(r)[2 * h + 3] = CRLF
  BY EncodeFacts
<1>2. h > 0
  <2>1. r.headers \in Seq(Fields)
    BY HttpAssumption
  <2> QED
    BY <1>1, <2>1, EmptySeq
<1>3. t = From(Encode(r), 2)
  BY DEF From
<1>4. t \in Seq(Units) /\ Len(t) = 2 * h + 1 /\ \A i \in 1 .. 2 * h + 1 : t[i] = Encode(r)[i + 2]
  <2>1. Encode(r) \in Seq(Units) /\ 2 \in Nat
    BY <1>1
  <2> HIDE DEF t, h
  <2>2. t \in Seq(Units)
    BY <1>3, <2>1, FromFacts
  <2>3. Len(t) = IF 2 < Len(Encode(r)) THEN Len(Encode(r)) - 2 ELSE 0
    BY <1>3, <2>1, FromFacts
  <2>4. \A i \in 1 .. Len(Encode(r)) - 2 : t[i] = Encode(r)[2 + i]
    BY <1>3, <2>1, FromFacts
  <2>5. Len(t) = 2 * h + 1 /\ Len(Encode(r)) - 2 = 2 * h + 1
    BY <1>1, <2>3
  <2>6. \A i \in 1 .. 2 * h + 1 : t[i] = Encode(r)[i + 2]
    <3> TAKE i \in 1 .. 2 * h + 1
    <3>1. i \in 1 .. Len(Encode(r)) - 2 /\ 2 + i = i + 2
      BY <2>5
    <3> QED
      BY <2>4, <3>1
  <2> QED
    BY <2>2, <2>5, <2>6
<1>5. parse_headers(t)
  OBVIOUS
<1> HIDE DEF t, h
<1>6. ASSUME NEW i \in 1 .. h PROVE IsLine(t, i)
  <2>1. 2 * i - 1 \in 1 .. 2 * h + 1 /\ 2 * i \in 1 .. 2 * h + 1
    BY <1>1
  <2>2. t[2 * i - 1] = Encode(r)[2 * i + 1] /\ t[2 * i] = Encode(r)[2 * i + 2]
    <3>1. (2 * i - 1) + 2 = 2 * i + 1
      BY <1>1
    <3> QED
      BY <1>4, <2>1, <3>1
  <2>3. t[2 * i - 1] # CRLF /\ t[2 * i] = CRLF
    BY <1>1, <2>2, UnitFacts
  <2> QED
    BY <1>1, <1>4, <2>3 DEF IsLine
<1>7. ~IsLine(t, h + 1)
  BY <1>1, <1>4 DEF IsLine
<1>8. HeaderNumber(t) = h
  BY <1>1, <1>4, <1>6, <1>7, HeaderNumberFacts
<1>9. BehindFields(t) \in Seq(Units) /\ Len(BehindFields(t)) = 1 /\ BehindFields(t)[1] = CRLF
  <2>1. BehindFields(t) = From(t, 2 * h)
    BY <1>8 DEF BehindFields, From
  <2>2. 2 * h \in Nat
    BY <1>1
  <2> DEFINE k == 2 * h
  <2>3. k \in Nat /\ t \in Seq(Units) /\ Len(t) = k + 1
    BY <1>4, <2>2
  <2>4. BehindFields(t) = From(t, k) /\ t[k + 1] = CRLF
    <3>1. t[k + 1] = Encode(r)[2 * h + 3]
      <4>1. 2 * h + 1 \in 1 .. 2 * h + 1 /\ (2 * h + 1) + 2 = 2 * h + 3
        BY <1>1
      <4> QED
        BY <1>4, <4>1
    <3> QED
      BY <1>1, <2>1, <3>1
  <2> HIDE DEF k
  <2>5. From(t, k) \in Seq(Units)
    BY <2>3, FromFacts
  <2>6. Len(From(t, k)) = IF k < Len(t) THEN Len(t) - k ELSE 0
    BY <2>3, FromFacts
  <2>7. \A i \in 1 .. Len(t) - k : From(t, k)[i] = t[k + i]
    BY <2>3, FromFacts
  <2>8. Len(From(t, k)) = 1 /\ 1 \in 1 .. Len(t) - k
    BY <2>3, <2>6
  <2>9. From(t, k)[1] = t[k + 1]
    BY <2>7, <2>8
  <2> QED
    BY <2>4, <2>5, <2>8, <2>9
<1>10. BehindFields(t) # << >> /\ Behind(BehindFields(t)) = Tail(BehindFields(t))
  BY <1>9, EmptySeq DEF Behind
<1>11. Tail(BehindFields(t)) = << >>
  <2>1. Tail(BehindFields(t)) \in Seq(Units) /\ Len(Tail(BehindFields(t))) = 0
    BY <1>9, <1>10, HeadTailProperties
  <2> QED
    BY <2>1, EmptySeq
<1> QED
  BY <1>1, <1>2, <1>5, <1>8, <1>10, <1>11 DEF parse_headers

-----------------------------------------------------------------------------
(* Steps keep the types.                                                   *)
LEMMA AnswerFacts ==
  ASSUME NEW r \in Requests \union {NoRequest}
  PROVE  onRequest(r).status \in {0, 200, 403, 404, 501} /\ onRequest(r).size \in Nat
<1>1. FileSize["file"] \in Nat /\ FileSize["404.html"] \in Nat
  BY HttpAssumption
<1>2. \A st, n : Answer(st, n).status = st /\ Answer(st, n).size = n
  BY DEF Answer
<1>3. CASE r.method # "GET"
  BY <1>2, <1>3 DEF onRequest
<1>4. CASE r.method = "GET"
  <2>1. r.target \in Targets
    BY <1>4, HttpAssumption DEF NoRequest
  <2> QED
    BY <1>1, <1>2, <1>4, <2>1 DEF onRequest, Targets
<1> QED
  BY <1>3, <1>4

OutputTypes ==
  /\ answers \in Seq({0, 200, 403, 404, 501}) /\ output \in Seq(HeadUnits)
  /\ promised \in Seq(SentUnits) /\ wire \in Seq(SentUnits)
  /\ file \in [answer : Nat, size : Nat] /\ offset \in Nat /\ mapped \in Nat
  /\ writeEnabled \in BOOLEAN /\ shut \in BOOLEAN
  /\ failure \in {"none", "parse", "header", "SIGPIPE"}

InputTypes ==
  /\ sent \in Seq(Requests) /\ stream \in Seq(Units) /\ input \in Seq(Units)
  /\ skip \in BOOLEAN /\ orderly \in BOOLEAN

LEMMA TypeParts ==
  /\ TypeOK <=> InputTypes /\ OutputTypes
  /\ TypeOK' <=> InputTypes' /\ OutputTypes'
BY DEF TypeOK, InputTypes, OutputTypes, HeadUnits, SentUnits

LEMMA RespondTypes ==
  ASSUME OutputTypes, NEW r \in Requests \union {NoRequest}, NEW fields, Respond(r, fields),
         file # NoFile => mapped > 0
  PROVE  OutputTypes'
<1> DEFINE a == Len(answers) + 1
           size == onRequest(r).size
<1>1. a \in Nat /\ size \in Nat /\ onRequest(r).status \in {0, 200, 403, 404, 501}
  BY AnswerFacts, LenProperties DEF OutputTypes
<1>2. /\ Part(a, "head", HeadSize) \in Seq(HeadUnits)
      /\ Part(a, "head", HeadSize) \in Seq(SentUnits)
      /\ Part(a, "file", size) \in Seq(SentUnits)
  <2>1. HeadSize \in Nat
    BY HttpAssumption
  <2> HIDE DEF a, size
  <2> QED
    BY <1>1, <2>1, PartFacts
<1>3. output \in Seq(HeadUnits) /\ promised \in Seq(SentUnits) /\ wire \in Seq(SentUnits)
  BY DEF OutputTypes
<1>4. output' \in Seq(HeadUnits)
  BY <1>2, <1>3, ConcatProperties DEF Respond
<1>5. promised' \in Seq(SentUnits)
  <2>1. promised \o Part(a, "head", HeadSize) \in Seq(SentUnits)
    BY <1>2, <1>3, ConcatProperties
  <2> QED
    BY <1>2, <2>1, ConcatProperties DEF Respond
<1>6. answers' \in Seq({0, 200, 403, 404, 501})
  BY <1>1 DEF Respond, OutputTypes
<1>7. file' \in [answer : Nat, size : Nat] /\ offset' \in Nat /\ mapped' \in Nat
  BY <1>1 DEF Respond, OutputTypes
<1>8. shut' \in BOOLEAN
  BY DEF Respond
<1> QED
  BY <1>3, <1>4, <1>5, <1>6, <1>7, <1>8 DEF Respond, OutputTypes

LEMMA ReadTypes ==
  ASSUME TypeOK, OutputInv, NEW n \in 1 .. Len(stream), handle_read(n)
  PROVE  TypeOK'
<1> DEFINE s == Arrived(n)
           t == SubSeq(s, 3, Len(s))
<1>1. s \in Seq(Units) /\ t \in Seq(Units)
  <2>1. s \in Seq(Units)
    BY ArrivedType
  <2>2. t = From(s, 2)
    BY DEF From
  <2> HIDE DEF s, t
  <2> QED
    BY <2>1, <2>2, FromFacts
<1>2. HasLine(s) => s[1] \in Units
  BY <1>1 DEF HasLine
<1>3. file # NoFile => mapped > 0
  BY DEF OutputInv
<1>4. stream' \in Seq(Units) /\ sent' \in Seq(Requests) /\ orderly' \in BOOLEAN
  <2>1. Receive(n)
    BY DEF handle_read, ReadPart, ReadRequest, ReadHeader, ReadFails
  <2> QED
    BY <2>1, ArrivedType DEF Receive, TypeOK
<1> HIDE DEF s, t
<1>9. OutputTypes
  BY TypeParts
<1>5. CASE ReadPart(n)
  <2>1. input' \in Seq(Units) /\ skip' \in BOOLEAN
    BY <1>1, <1>5 DEF ReadPart, s
  <2>2. Respond(NoRequest, << >>)
    BY <1>5 DEF ReadPart
  <2> QED
    BY <1>3, <1>4, <1>9, <2>1, <2>2, RespondTypes, TypeParts DEF InputTypes
<1>6. CASE ReadRequest(n)
  <2>1. input' \in Seq(Units) /\ skip' \in BOOLEAN
    BY <1>1, <1>6, ParseTypes DEF ReadRequest, s, t
  <2>2. Respond(s[1].request, HeaderFields(t)) /\ s[1].request \in Requests
    BY <1>2, <1>6, UnitFacts DEF ReadRequest, s, t
  <2> QED
    BY <1>3, <1>4, <1>9, <2>1, <2>2, RespondTypes, TypeParts DEF InputTypes
<1>7. CASE ReadHeader(n)
  <2>1. input' \in Seq(Units) /\ skip' \in BOOLEAN
    BY <1>1, <1>7, ParseTypes DEF ReadHeader, s, t
  <2>2. Respond(NoRequest, HeaderFields(t))
    BY <1>7 DEF ReadHeader, s, t
  <2> QED
    BY <1>3, <1>4, <1>9, <2>1, <2>2, RespondTypes, TypeParts DEF InputTypes
<1>8. CASE ReadFails(n)
  BY <1>4, <1>8 DEF ReadFails, reading, sending, TypeOK
<1> QED
  BY <1>5, <1>6, <1>7, <1>8 DEF handle_read

-----------------------------------------------------------------------------
(* Reading: what is answered is appended to what is to be sent.            *)
LEMMA NothingPending ==
  ASSUME TypeOK, OutputInv, WireIsAnswers, orderly, Pending = << >>
  PROVE  output = << >> /\ file = NoFile /\ offset = 0 /\ mapped = 0 /\ wire = promised
<1>1. Len(output) = 0 /\ Len(FileRest) = 0
  BY PendingFacts
<1>2. output = << >>
  BY <1>1, PendingFacts, EmptySeq
<1>3. file = NoFile
  BY <1>1, PendingFacts DEF OutputInv, TypeOK
<1>4. wire = promised
  <2>1. wire \in Seq(SentUnits)
    BY DEF TypeOK, SentUnits
  <2>2. wire \o << >> = wire
    BY <2>1, ConcatEmptySeq
  <2> QED
    BY <2>2 DEF WireIsAnswers
<1> QED
  BY <1>2, <1>3, <1>4 DEF OutputInv

LEMMA RespondIsPushed ==
  ASSUME TypeOK, TypeOK', NEW r \in Requests \union {NoRequest}, NEW fields,
         Respond(r, fields)
  PROVE  OutputIsPushed'
<1> DEFINE head == Part(Len(answers) + 1, "head", HeadSize)
<1>1. head \in Seq(HeadUnits) /\ Len(head) > 0
  <2>1. Len(answers) + 1 \in Nat /\ HeadSize \in Nat /\ HeadSize > 0
    BY HttpAssumption, LenProperties DEF TypeOK
  <2> QED
    BY <2>1, PartFacts
<1>2. output' = output \o head /\ writeEnabled' = TRUE
  BY DEF Respond
<1>3. output \in Seq(HeadUnits) /\ Len(output) \in Nat
  BY LenProperties DEF TypeOK, HeadUnits
<1> HIDE DEF head
<1>4. Len(output') > 0
  <2>1. Len(output \o head) = Len(output) + Len(head)
    BY <1>1, <1>3, ConcatProperties
  <2> QED
    BY <1>1, <1>2, <1>3, <2>1, LenProperties
<1>5. Pending' # << >>
  <2>1. /\ output' \in Seq(HeadUnits) /\ file'.answer \in Nat /\ file'.size \in Nat
        /\ offset' \in Nat
    BY DEF TypeOK, HeadUnits
  <2>2. /\ Len(Pending') = Len(output') + Len(FileRest')
        /\ Len(FileRest') = IF offset' < file'.size THEN file'.size - offset' ELSE 0
        /\ Pending' = << >> <=> Len(Pending') = 0
        /\ Len(output') \in Nat
    BY <2>1, PendingFactsNext
  <2> QED
    BY <1>4, <2>1, <2>2
<1> QED
  BY <1>2, <1>5 DEF OutputIsPushed

LEMMA RespondInOrder ==
  ASSUME TypeOK, OutputInv, WireIsAnswers, orderly, Pending = << >>,
         NEW r \in Requests \union {NoRequest}, NEW fields, Respond(r, fields)
  PROVE  /\ wire' \o Pending' = promised'
         /\ IF file' = NoFile THEN offset' = 0 /\ mapped' = 0
                              ELSE offset' < file'.size /\ mapped' = 1
<1> DEFINE a == Len(answers) + 1
           size == onRequest(r).size
           head == Part(a, "head", HeadSize)
           body == Part(a, "file", size)
<1>0. output = << >> /\ file = NoFile /\ offset = 0 /\ mapped = 0 /\ wire = promised
  BY NothingPending
<1>1. a \in Nat \ {0} /\ size \in Nat /\ HeadSize \in Nat
  BY AnswerFacts, HttpAssumption, LenProperties DEF TypeOK
<1>2. /\ output' = output \o head /\ promised' = promised \o head \o body
      /\ offset' = 0 /\ wire' = wire
  BY <1>0 DEF Respond
<1>3. /\ size > 0 => file' = [answer |-> a, size |-> size] /\ mapped' = 1
      /\ size = 0 => file' = NoFile /\ mapped' = 0
  BY <1>0, <1>1 DEF Respond
<1> HIDE DEF a, size
<1>4. head \in Seq(SentUnits) /\ body \in Seq(SentUnits) /\ Len(body) = size
  BY <1>1, PartFacts
<1>5. FileRest' = body
  <2>1. CASE size > 0
    <3>1. file'.answer = a /\ file'.size = size
      BY <1>3, <2>1
    <3>2. FileRest' = SubSeq(body, 1, size)
      BY <1>2, <3>1 DEF FileRest
    <3> HIDE DEF body
    <3> QED
      BY <1>4, <3>2, SubSeqFull
  <2>2. CASE size = 0
    <3>1. file'.answer = 0 /\ file'.size = 0
      BY <1>3, <2>2 DEF NoFile
    <3>2. FileRest' = SubSeq(Part(0, "file", 0), 1, 0)
      BY <1>2, <3>1 DEF FileRest
    <3>3. FileRest' = << >>
      BY <3>2, SubSeqEmpty
    <3>4. body = << >>
      BY <1>4, <2>2, EmptySeq
    <3> QED
      BY <3>3, <3>4
  <2> QED
    BY <1>1, <2>1, <2>2
<1>6. output' = head
  BY <1>0, <1>2, <1>4, ConcatEmptySeq
<1> HIDE DEF head, body
<1>7. wire' \o Pending' = promised'
  <2>1. wire \in Seq(SentUnits)
    BY DEF TypeOK, SentUnits
  <2>2. (wire \o head) \o body = wire \o (head \o body)
    BY <1>4, <2>1, ConcatAssociative
  <2> QED
    BY <1>0, <1>2, <1>5, <1>6, <2>2, Zenon DEF Pending
<1>8. IF file' = NoFile THEN offset' = 0 /\ mapped' = 0
                        ELSE offset' < file'.size /\ mapped' = 1
  BY <1>1, <1>2, <1>3 DEF NoFile
<1> QED
  BY <1>7, <1>8

-----------------------------------------------------------------------------
(* Writing: what is taken is what is no longer to be sent.                 *)
LEMMA WritePartKeeps ==
  ASSUME TypeOK, OutputInv, WireIsAnswers, NEW n \in 1 .. Len(Pending) - 1, WritePart(n)
  PROVE  TypeOK' /\ OutputInv' /\ WireIsAnswers'
<1> DEFINE F == FromFile(n)
<1>0. n \in 1 .. Len(Pending) /\ n < Len(Pending) /\ Sent(n)
  BY PendingFacts DEF WritePart
<1>1. /\ wire' \in Seq(SentUnits) /\ output' \in Seq(HeadUnits)
      /\ Len(output') = IF n < Len(output) THEN Len(output) - n ELSE 0
      /\ F \in Nat /\ F = IF n > Len(output) THEN n - Len(output) ELSE 0
      /\ wire' \o (output' \o From(FileRest, F)) = wire \o Pending
  BY <1>0, SendingSplits
<1>2. /\ offset' = offset + F /\ writeEnabled = TRUE
      /\ UNCHANGED <<arriving, reading, answers, file, mapped, writeEnabled, shut,
                     promised, orderly, failure>>
  BY DEF WritePart, CanWrite, TypeOK
<1>3. offset \in Nat /\ file \in [answer : Nat, size : Nat] /\ file.answer \in Nat /\ file.size \in Nat
  BY DEF TypeOK
<1> HIDE DEF F
<1>4. TypeOK'
  BY <1>1, <1>2, <1>3 DEF TypeOK, arriving, reading, HeadUnits, SentUnits
<1>5. FileRest' = From(FileRest, F)
  <2>1. From(SubSeq(Part(file.answer, "file", file.size), offset + 1, file.size), F)
          = SubSeq(Part(file.answer, "file", file.size), (offset + F) + 1, file.size)
    <3>1. file.answer \in Nat /\ file.size \in Nat /\ offset \in Nat /\ F \in Nat
      BY <1>1, <1>3
    <3> QED
      BY <3>1, RestMoves
  <2> QED
    BY <1>2, <2>1 DEF FileRest
<1>6. WireIsAnswers'
  <2>1. wire' \o Pending' = wire \o Pending
    BY <1>1, <1>5, Zenon DEF Pending
  <2> QED
    BY <1>2, <2>1 DEF WireIsAnswers
<1>7. F > 0 => offset + F < file.size
  BY <1>0, <1>1, <1>3, PendingFacts
<1>8. Pending' # << >>
  <2>1. /\ file'.answer \in Nat /\ file'.size \in Nat /\ offset' \in Nat
        /\ output' \in Seq(HeadUnits)
    BY <1>1, <1>2, <1>3
  <2>2. /\ Len(Pending') = Len(output') + Len(FileRest')
        /\ Len(FileRest') = IF offset' < file'.size THEN file'.size - offset' ELSE 0
        /\ Pending' = << >> <=> Len(Pending') = 0
    BY <2>1, PendingFactsNext
  <2>3. /\ Len(output) \in Nat /\ Len(Pending) = Len(output) + Len(FileRest)
        /\ Len(FileRest) = IF offset < file.size THEN file.size - offset ELSE 0
    BY PendingFacts
  <2>4. CASE n < Len(output)
    BY <1>0, <1>1, <2>1, <2>2, <2>3, <2>4
  <2>5. CASE ~(n < Len(output))
    <3>1. offset < file.size /\ n < Len(output) + (file.size - offset)
      BY <1>0, <1>3, <2>3, <2>5
    <3>2. F = n - Len(output) /\ Len(output') = 0
      BY <1>0, <1>1, <2>3, <2>5
    <3>3. offset' < file'.size
      BY <1>0, <1>2, <1>3, <2>3, <3>1, <3>2
    <3> QED
      BY <2>1, <2>2, <3>2, <3>3
  <2> QED
    BY <2>4, <2>5
<1>9. orderly' => IF file' = NoFile THEN offset' = 0 /\ mapped' = 0
                                    ELSE offset' < file'.size /\ mapped' = 1
  <2>1. CASE F = 0
    BY <1>2, <1>3, <2>1 DEF OutputInv
  <2>2. CASE F > 0
    <3>1. offset' < file'.size /\ file.size > 0
      BY <1>1, <1>2, <1>3, <1>7, <2>2
    <3>2. file # NoFile
      BY <3>1 DEF NoFile
    <3>3. orderly => mapped = 1
      BY <3>2 DEF OutputInv
    <3> QED
      BY <1>2, <3>1, <3>2, <3>3
  <2> QED
    BY <1>1, <2>1, <2>2
<1> QED
  BY <1>2, <1>4, <1>6, <1>8, <1>9 DEF OutputInv, OutputIsPushed

LEMMA FreeFacts ==
  ASSUME TypeOK, OutputInv, buffer_file_free
  PROVE  /\ file' = NoFile /\ offset' = 0 /\ mapped' \in Nat /\ FileRest' = << >>
         /\ orderly => mapped' = 0
<1>1. file' = NoFile /\ offset' = 0 /\ mapped' = IF file = NoFile THEN mapped ELSE mapped - 1
  BY DEF buffer_file_free
<1>2. mapped' \in Nat /\ (orderly => mapped' = 0)
  BY <1>1 DEF TypeOK, OutputInv
<1>3. FileRest' = SubSeq(Part(0, "file", 0), 1, 0)
  BY <1>1 DEF FileRest, NoFile
<1> QED
  BY <1>1, <1>2, <1>3, SubSeqEmpty

LEMMA WriteRestKeeps ==
  ASSUME TypeOK, OutputInv, WireIsAnswers, WriteRest
  PROVE  TypeOK' /\ OutputInv' /\ WireIsAnswers'
<1> DEFINE n == Len(Pending)
<1>1. n \in 1 .. Len(Pending) /\ Sent(n)
  <2>1. Pending # << >>
    BY DEF WriteRest, CanWrite, OutputInv, OutputIsPushed
  <2> QED
    BY <2>1, PendingFacts DEF WriteRest, TypeOK
<1>2. /\ wire' \in Seq(SentUnits) /\ output' \in Seq(HeadUnits)
      /\ Len(output') = IF n < Len(output) THEN Len(output) - n ELSE 0
      /\ wire' = wire \o SubSeq(Pending, 1, n)
  BY <1>1, SendingSplits
<1>3. wire' = wire \o Pending
  BY <1>2, PendingFacts, SubSeqFull
<1>4. output' = << >>
  <2>1. Len(output') = 0
    BY <1>2, PendingFacts DEF TypeOK
  <2> QED
    BY <1>2, <2>1, EmptySeq
<1>5. /\ file' = NoFile /\ offset' = 0 /\ mapped' \in Nat /\ FileRest' = << >>
      /\ orderly => mapped' = 0
  BY FreeFacts DEF WriteRest
<1>6. /\ writeEnabled' = FALSE
      /\ UNCHANGED <<arriving, reading, answers, shut, promised, orderly, failure>>
  BY DEF WriteRest
<1>7. TypeOK'
  BY <1>2, <1>5, <1>6 DEF TypeOK, arriving, reading, HeadUnits, SentUnits, NoFile
<1>8. Pending' = << >>
  <2>1. << >> \in Seq(SentUnits)
    BY EmptySeq
  <2> QED
    BY <1>4, <1>5, <2>1, ConcatEmptySeq DEF Pending
<1>9. WireIsAnswers'
  <2>1. wire' \o << >> = wire'
    BY <1>2, ConcatEmptySeq
  <2> QED
    BY <1>3, <1>6, <1>8, <2>1 DEF WireIsAnswers
<1> QED
  BY <1>5, <1>6, <1>7, <1>8, <1>9 DEF OutputInv, OutputIsPushed

LEMMA WriteFailsKeeps ==
  ASSUME TypeOK, OutputInv, WireIsAnswers, WriteFails
  PROVE  TypeOK' /\ OutputInv' /\ WireIsAnswers'
<1>1. /\ file' = NoFile /\ offset' = 0 /\ mapped' \in Nat /\ FileRest' = << >>
      /\ orderly => mapped' = 0
  BY FreeFacts DEF WriteFails
<1>2. UNCHANGED <<arriving, reading, answers, output, writeEnabled, wire, shut,
                  promised, orderly, failure>>
  BY DEF WriteFails
<1>3. ~orderly
  BY DEF WriteFails, Sendable, OutputInv, NoFile, TypeOK
<1>4. TypeOK'
  BY <1>1, <1>2 DEF TypeOK, arriving, reading, NoFile
<1>5. Pending' = Pending
  <2>1. Len(FileRest) = 0
    BY PendingFacts DEF WriteFails, Sendable, TypeOK
  <2>2. FileRest = << >>
    BY <2>1, PendingFacts, EmptySeq
  <2> QED
    BY <1>1, <1>2, <2>2 DEF Pending
<1> QED
  BY <1>1, <1>2, <1>3, <1>4, <1>5 DEF OutputInv, OutputIsPushed, WireIsAnswers

-----------------------------------------------------------------------------
(* The heads in a sequence.                                                *)
\* Induction, stated of a set: one that has 0, and with each number the next,
\* has them all.
LEMMA Climbs ==
  ASSUME NEW n \in Nat, NEW T, 0 \in T, \A k \in 1 .. n : k - 1 \in T => k \in T
  PROVE  \A k \in 0 .. n : k \in T
<1> DEFINE Missing == {k \in 0 .. n : k \notin T}
           R       == OpToRel(<, Nat)
<1> SUFFICES ASSUME Missing # {} PROVE FALSE
  OBVIOUS
<1>0. Missing \in SUBSET Nat
  OBVIOUS
<1>1. IsWellFoundedOn(R, Nat)
  BY NatLessThanWellFounded
<1>2. PICK k \in Missing : \A i \in Missing : ~(<<i, k>> \in R)
  <2> HIDE DEF Missing, R
  <2> QED
    BY <1>0, <1>1, WFMin
<1>3. k \in 1 .. n /\ k - 1 \in 0 .. n /\ <<k - 1, k>> \in R
  BY <1>2 DEF OpToRel
<1>4. k - 1 \notin Missing
  <2> HIDE DEF Missing, R
  <2> QED
    BY <1>2, <1>3
<1> QED
  BY <1>2, <1>3, <1>4

FileUnits == [answer : Nat, part : {"file"}, unit : Nat]

\* The recursive function of Heads(s): the heads among the first i units.
HeadRun(s) ==
  CHOOSE heads : heads = [i \in 0 .. Len(s) |->
    IF i = 0 THEN << >>
    ELSE IF s[i].part = "head" THEN Append(heads[i - 1], s[i]) ELSE heads[i - 1]]

\* It is what its definition says.
LEMMA HeadRunUnfolds ==
  ASSUME NEW s \in Seq(SentUnits)
  PROVE  /\ HeadRun(s)[0] = << >>
         /\ \A i \in 1 .. Len(s) :
              HeadRun(s)[i] = IF s[i].part = "head" THEN Append(HeadRun(s)[i - 1], s[i])
                                                    ELSE HeadRun(s)[i - 1]
         /\ \A i \in 0 .. Len(s) : HeadRun(s)[i] \in Seq(HeadUnits)
<1> DEFINE n      == Len(s)
           IsIt(h) == h = [i \in 0 .. n |->
             IF i = 0 THEN << >>
             ELSE IF s[i].part = "head" THEN Append(h[i - 1], s[i]) ELSE h[i - 1]]
<1>1. n \in Nat /\ \A i \in 1 .. n : s[i] \in SentUnits
  BY LenProperties, ElementOfSeq
<1>2. \E h : IsIt(h)
  <2> DEFINE next(v, i)  == IF s[i].part = "head" THEN Append(v, s[i]) ELSE v
             IsRun(h, m) == h = [i \in 0 .. m |-> IF i = 0 THEN << >> ELSE next(h[i - 1], i)]
             T           == {m \in 0 .. n : \E h : IsRun(h, m)}
  <2>1. 0 \in T
    <3>1. IsRun([i \in 0 .. 0 |-> << >>], 0)
      OBVIOUS
    <3> HIDE DEF IsRun
    <3> QED
      BY <1>1, <3>1
  <2>2. n \in T => \E h : IsIt(h)
    OBVIOUS
  <2> HIDE DEF next, n
  <2>3. ASSUME NEW m \in 1 .. n, m - 1 \in T PROVE m \in T
    <3>1. PICK h : IsRun(h, m - 1)
      BY <2>3
    <3> DEFINE h2 == [i \in 0 .. m |-> IF i = m THEN next(h[m - 1], m) ELSE h[i]]
    <3>2. h2[m] = next(h[m - 1], m) /\ \A i \in 0 .. m - 1 : h2[i] = h[i]
      OBVIOUS
    <3>3. \A i \in 0 .. m - 1 : h[i] = IF i = 0 THEN << >> ELSE next(h[i - 1], i)
      BY <3>1
    <3>4. ASSUME NEW i \in 0 .. m PROVE h2[i] = IF i = 0 THEN << >> ELSE next(h2[i - 1], i)
      <4> HIDE DEF h2
      <4>1. CASE i = m
        BY <3>2, <4>1
      <4>2. CASE i # m
        <5>1. i \in 0 .. m - 1 /\ (i # 0 => i - 1 \in 0 .. m - 1)
          BY <4>2
        <5> QED
          BY <3>2, <3>3, <5>1
      <4> QED
        BY <4>1, <4>2
    <3>5. h2 = [i \in 0 .. m |-> h2[i]]
      OBVIOUS
    <3> HIDE DEF h2
    <3>6. IsRun(h2, m)
      BY <3>4, <3>5
    <3> QED
      BY <3>6
  <2> HIDE DEF T
  <2>4. \A k \in 0 .. n : k \in T
    BY <1>1, <2>1, <2>3, Climbs
  <2>5. n \in T
    BY <1>1, <2>4
  <2> QED
    BY <2>2, <2>5
<1>3. HeadRun(s) = CHOOSE h : IsIt(h)
  BY DEF HeadRun
<1>4. IsIt(HeadRun(s))
  <2> HIDE DEF IsIt
  <2> QED
    BY <1>2, <1>3
<1>5. HeadRun(s)[0] = << >>
  BY <1>1, <1>4
<1>6. ASSUME NEW i \in 1 .. n
      PROVE  HeadRun(s)[i] = IF s[i].part = "head" THEN Append(HeadRun(s)[i - 1], s[i])
                                                   ELSE HeadRun(s)[i - 1]
  <2>1. i \in 0 .. n /\ i # 0
    BY <1>1
  <2> HIDE DEF n
  <2> QED
    BY <1>4, <2>1
<1>7. \A i \in 0 .. n : HeadRun(s)[i] \in Seq(HeadUnits)
  <2> DEFINE T == {i \in 0 .. n : HeadRun(s)[i] \in Seq(HeadUnits)}
  <2>1. 0 \in T
    <3>1. << >> \in Seq(HeadUnits) /\ 0 \in 0 .. n
      BY <1>1, EmptySeq
    <3> QED
      BY <1>5, <3>1
  <2>2. ASSUME NEW k \in 1 .. n, k - 1 \in T PROVE k \in T
    <3>1. s[k].part = "head" => s[k] \in HeadUnits
      BY <1>1 DEF SentUnits, HeadUnits
    <3>2. HeadRun(s)[k - 1] \in Seq(HeadUnits) /\ k \in 0 .. n
      BY <1>1, <2>2
    <3>3. s[k].part = "head" => Append(HeadRun(s)[k - 1], s[k]) \in Seq(HeadUnits)
      BY <3>1, <3>2, AppendProperties
    <3>4. HeadRun(s)[k] \in Seq(HeadUnits)
      BY <1>6, <3>2, <3>3
    <3> QED
      BY <3>2, <3>4
  <2> HIDE DEF T
  <2>3. \A k \in 0 .. n : k \in T
    BY <1>1, <2>1, <2>2, Climbs
  <2> QED
    BY <2>3 DEF T
<1> QED
  BY <1>5, <1>6, <1>7

\* Two sequences that begin alike begin with the same heads.
LEMMA HeadRunAgrees ==
  ASSUME NEW s \in Seq(SentUnits), NEW t \in Seq(SentUnits),
         NEW n \in 0 .. Len(s), n <= Len(t), \A i \in 1 .. n : s[i] = t[i]
  PROVE  HeadRun(s)[n] = HeadRun(t)[n]
<1> DEFINE T == {i \in 0 .. n : HeadRun(s)[i] = HeadRun(t)[i]}
<1>0. n \in Nat /\ Len(s) \in Nat /\ Len(t) \in Nat
  BY LenProperties
<1>1. 0 \in T
  BY <1>0, HeadRunUnfolds
<1>2. ASSUME NEW k \in 1 .. n, k - 1 \in T PROVE k \in T
  <2>1. k \in 1 .. Len(s) /\ k \in 1 .. Len(t) /\ k \in 0 .. n /\ s[k] = t[k]
    BY <1>0
  <2>2. HeadRun(s)[k - 1] = HeadRun(t)[k - 1]
    BY <1>2
  <2>3. HeadRun(s)[k] = HeadRun(t)[k]
    BY <2>1, <2>2, HeadRunUnfolds
  <2> QED
    BY <2>1, <2>3
<1>3. n \in T
  <2> HIDE DEF T
  <2>1. \A k \in 0 .. n : k \in T
    BY <1>0, <1>1, <1>2, Climbs
  <2> QED
    BY <1>0, <2>1
<1> QED
  BY <1>3

\* Heads in terms of its recursive function.
LEMMA HeadsIsRun ==
  ASSUME NEW s \in Seq(SentUnits)
  PROVE  Heads(s) = HeadRun(s)[Len(s)] /\ Heads(s) \in Seq(HeadUnits)
<1>1. Heads(s) = HeadRun(s)[Len(s)]
  BY DEF Heads, HeadRun
<1>2. Len(s) \in 0 .. Len(s)
  BY LenProperties
<1> QED
  BY <1>1, <1>2, HeadRunUnfolds

\* Appending to the second of two sequences.
LEMMA AppendBehind ==
  ASSUME NEW a \in Seq(HeadUnits), NEW b \in Seq(HeadUnits), NEW e \in HeadUnits
  PROVE  Append(a \o b, e) = a \o Append(b, e)
<1>1. a \o b \in Seq(HeadUnits) /\ <<e>> \in Seq(HeadUnits)
  BY ConcatProperties
<1>2. Append(a \o b, e) = (a \o b) \o <<e>> /\ Append(b, e) = b \o <<e>>
  BY <1>1, AppendIsConcat
<1>3. (a \o b) \o <<e>> = a \o (b \o <<e>>)
  BY <1>1, ConcatAssociative
<1> QED
  BY <1>2, <1>3, Zenon

\* The heads of two sequences are those of the first and then of the second.
LEMMA HeadsConcat ==
  ASSUME NEW s \in Seq(SentUnits), NEW t \in Seq(SentUnits)
  PROVE  Heads(s \o t) = Heads(s) \o Heads(t)
<1> DEFINE both == s \o t
           m == Len(s)
           n == Len(t)
           T == {k \in 0 .. n : HeadRun(both)[m + k] = Heads(s) \o HeadRun(t)[k]}
<1>0. m \in Nat /\ n \in Nat
  BY LenProperties
<1>1. /\ both \in Seq(SentUnits) /\ Len(both) = m + n
      /\ \A i \in 1 .. m + n : both[i] = IF i <= m THEN s[i] ELSE t[i - m]
  BY ConcatProperties
<1>2. Heads(s) \in Seq(HeadUnits) /\ Heads(s) = HeadRun(s)[m]
  BY HeadsIsRun
<1> HIDE DEF both, m, n
<1>3. 0 \in T
  <2>1. HeadRun(s)[m] = HeadRun(both)[m]
    <3>1. m \in 0 .. Len(s) /\ m <= Len(both) /\ \A i \in 1 .. m : s[i] = both[i]
      BY <1>0, <1>1 DEF m
    <3> QED
      BY <1>1, <3>1, HeadRunAgrees
  <2>2. HeadRun(t)[0] = << >>
    BY HeadRunUnfolds
  <2>3. Heads(s) \o << >> = Heads(s)
    BY <1>2, ConcatEmptySeq
  <2>4. m + 0 = m /\ 0 \in 0 .. n
    BY <1>0
  <2>5. HeadRun(both)[m + 0] = Heads(s) \o HeadRun(t)[0]
    BY <1>2, <2>1, <2>2, <2>3, <2>4, Zenon
  <2> QED
    BY <2>4, <2>5
<1>4. ASSUME NEW k \in 1 .. n, k - 1 \in T PROVE k \in T
  <2>1. /\ k \in 1 .. Len(t) /\ k - 1 \in 0 .. Len(t) /\ m + k \in 1 .. Len(both)
        /\ m + k \in 1 .. m + n /\ m + (k - 1) = (m + k) - 1 /\ ~(m + k <= m)
        /\ (m + k) - m = k /\ k \in 0 .. n
    BY <1>0, <1>1 DEF n
  <2>2. HeadRun(both)[(m + k) - 1] = Heads(s) \o HeadRun(t)[k - 1]
    BY <1>4, <2>1
  <2>3. both[m + k] = t[k]
    BY <1>1, <2>1
  <2>4. HeadRun(t)[k - 1] \in Seq(HeadUnits)
    BY <2>1, HeadRunUnfolds
  <2>5. /\ HeadRun(both)[m + k] = IF t[k].part = "head"
             THEN Append(HeadRun(both)[(m + k) - 1], t[k]) ELSE HeadRun(both)[(m + k) - 1]
        /\ HeadRun(t)[k] = IF t[k].part = "head"
             THEN Append(HeadRun(t)[k - 1], t[k]) ELSE HeadRun(t)[k - 1]
    BY <1>1, <2>1, <2>3, HeadRunUnfolds
  <2>6. CASE t[k].part = "head"
    <3>1. t[k] \in HeadUnits
      <4>1. t[k] \in SentUnits
        BY <2>1, ElementOfSeq
      <4> QED
        BY <2>6, <4>1 DEF SentUnits, HeadUnits
    <3>2. Append(Heads(s) \o HeadRun(t)[k - 1], t[k])
            = Heads(s) \o Append(HeadRun(t)[k - 1], t[k])
      BY <1>2, <2>4, <3>1, AppendBehind
    <3>3. HeadRun(both)[m + k] = Heads(s) \o HeadRun(t)[k]
      BY <2>2, <2>5, <2>6, <3>2, Zenon
    <3> QED
      BY <2>1, <3>3
  <2>7. CASE t[k].part # "head"
    BY <2>1, <2>2, <2>5, <2>7
  <2> QED
    BY <2>6, <2>7
<1>5. HeadRun(both)[m + n] = Heads(s) \o HeadRun(t)[n]
  <2> HIDE DEF T
  <2>1. \A k \in 0 .. n : k \in T
    BY <1>0, <1>3, <1>4, Climbs
  <2>2. n \in T
    BY <1>0, <2>1
  <2> QED
    BY <2>2 DEF T
<1>6. Heads(both) = HeadRun(both)[m + n] /\ Heads(t) = HeadRun(t)[n]
  BY <1>1, HeadsIsRun DEF n
<1> QED
  BY <1>5, <1>6 DEF both

\* Of a sequence of heads nothing is left out.
LEMMA HeadsOfHead ==
  ASSUME NEW s \in Seq(HeadUnits)
  PROVE  Heads(s) = s
<1> DEFINE n == Len(s)
           T == {k \in 0 .. n : HeadRun(s)[k] = SubSeq(s, 1, k)}
<1>0. s \in Seq(SentUnits) /\ n \in Nat
  <2>1. HeadUnits \subseteq SentUnits
    BY DEF HeadUnits, SentUnits
  <2> QED
    BY <2>1, SeqMonotonic, LenProperties
<1>1. 0 \in T
  <2>1. SubSeq(s, 1, 0) = << >>
    BY SubSeqEmpty
  <2> QED
    BY <1>0, <2>1, HeadRunUnfolds
<1>2. ASSUME NEW k \in 1 .. n, k - 1 \in T PROVE k \in T
  <2>1. /\ s[k] \in HeadUnits /\ s[k].part = "head" /\ k \in 0 .. n
        /\ 1 \in 1 .. n /\ k \in 1 .. Len(s) /\ k - 1 \in 0 .. Len(s)
    <3>1. k \in 1 .. Len(s)
      OBVIOUS
    <3>2. s[k] \in HeadUnits
      BY <3>1, ElementOfSeq
    <3> HIDE DEF T
    <3> QED
      BY <1>0, <3>1, <3>2 DEF HeadUnits
  <2>2. HeadRun(s)[k] = Append(HeadRun(s)[k - 1], s[k]) /\ HeadRun(s)[k - 1] \in Seq(HeadUnits)
    BY <1>0, <2>1, HeadRunUnfolds
  <2>3. Append(HeadRun(s)[k - 1], s[k]) = HeadRun(s)[k - 1] \o <<s[k]>>
    BY <2>1, <2>2, AppendIsConcat
  <2>4. SubSeq(s, 1, k) = SubSeq(s, 1, k - 1) \o <<s[k]>>
    BY <2>1, SubSeqRecursiveSecond
  <2>5. HeadRun(s)[k - 1] = SubSeq(s, 1, k - 1)
    BY <1>2
  <2>6. HeadRun(s)[k] = SubSeq(s, 1, k)
    BY <2>2, <2>3, <2>4, <2>5, Zenon
  <2> QED
    BY <2>1, <2>6
<1>3. n \in T
  <2> HIDE DEF T
  <2>1. \A k \in 0 .. n : k \in T
    BY <1>0, <1>1, <1>2, Climbs
  <2> QED
    BY <1>0, <2>1
<1>4. HeadRun(s)[n] = SubSeq(s, 1, n)
  BY <1>3
<1> QED
  BY <1>0, <1>4, HeadsIsRun, SubSeqFull

\* In a part of a file there are no heads.
LEMMA HeadsOfFile ==
  ASSUME NEW s \in Seq(FileUnits)
  PROVE  Heads(s) = << >>
<1> DEFINE n == Len(s)
           T == {k \in 0 .. n : HeadRun(s)[k] = << >>}
<1>0. s \in Seq(SentUnits) /\ n \in Nat
  <2>1. FileUnits \subseteq SentUnits
    BY DEF FileUnits, SentUnits
  <2> QED
    BY <2>1, SeqMonotonic, LenProperties
<1>1. 0 \in T
  BY <1>0, HeadRunUnfolds
<1>2. ASSUME NEW k \in 1 .. n, k - 1 \in T PROVE k \in T
  <2>1. k \in 1 .. Len(s) /\ k \in 0 .. n /\ s[k].part # "head"
    <3>1. k \in 1 .. Len(s)
      OBVIOUS
    <3>2. s[k] \in FileUnits
      BY <3>1, ElementOfSeq
    <3> HIDE DEF T
    <3> QED
      BY <1>0, <3>1, <3>2 DEF FileUnits
  <2>2. HeadRun(s)[k] = HeadRun(s)[k - 1]
    BY <1>0, <2>1, HeadRunUnfolds
  <2> QED
    BY <1>2, <2>1, <2>2
<1>3. n \in T
  <2> HIDE DEF T
  <2>1. \A k \in 0 .. n : k \in T
    BY <1>0, <1>1, <1>2, Climbs
  <2> QED
    BY <1>0, <2>1
<1> QED
  BY <1>0, <1>3, HeadsIsRun

\* What is left of a file is units of files.
LEMMA RestIsFile ==
  ASSUME NEW a \in Nat, NEW n \in Nat, NEW o \in Nat
  PROVE  /\ SubSeq(Part(a, "file", n), o + 1, n) \in Seq(FileUnits)
         /\ Part(a, "file", n) \in Seq(FileUnits)
<1>1. \A i \in 1 .. n : Part(a, "file", n)[i] \in FileUnits
  BY DEF Part, FileUnits
<1>2. \A i \in o + 1 .. n : Part(a, "file", n)[i] \in FileUnits
  BY <1>1
<1>3. Part(a, "file", n) \in [1 .. n -> FileUnits]
  BY DEF Part, FileUnits
<1> QED
  BY <1>2, <1>3, SubSeqProperties, SeqDef

\* Of what goes first, when a head is followed by a file, the heads are what
\* the head then lacks.
LEMMA HeadsOfSent ==
  ASSUME NEW out \in Seq(HeadUnits), NEW rest \in Seq(FileUnits),
         NEW n \in 1 .. Len(out \o rest)
  PROVE  Heads(SubSeq(out \o rest, 1, n)) \o From(out, n) = out
<1>0. /\ out \in Seq(SentUnits) /\ rest \in Seq(SentUnits)
      /\ Len(out) \in Nat /\ Len(rest) \in Nat /\ Len(out \o rest) = Len(out) + Len(rest)
  <2>1. HeadUnits \subseteq SentUnits /\ FileUnits \subseteq SentUnits
    BY DEF HeadUnits, FileUnits, SentUnits
  <2>2. out \in Seq(SentUnits) /\ rest \in Seq(SentUnits)
    BY <2>1, SeqMonotonic
  <2> QED
    BY <2>2, LenProperties, ConcatProperties
<1>1. CASE n <= Len(out)
  <2>1. 1 \in 1 .. Len(out) /\ n \in 1 .. Len(out) /\ n \in 0 .. Len(out)
    BY <1>0, <1>1
  <2>2. SubSeq(out \o rest, 1, n) = SubSeq(out, 1, n)
    BY <1>0, <2>1, SubSeqOfConcat1
  <2>3. /\ SubSeq(out, 1, n) \in Seq(HeadUnits)
        /\ SubSeq(out, 1, n) \o From(out, n) = out
    BY <2>1, Splits DEF From
  <2>4. Heads(SubSeq(out, 1, n)) = SubSeq(out, 1, n)
    BY <2>3, HeadsOfHead
  <2> QED
    BY <2>2, <2>3, <2>4, Zenon
<1>2. CASE n > Len(out)
  <2> DEFINE k    == n - Len(out)
             some == SubSeq(rest, 1, k)
             u    == SubSeq(out \o rest, 1, n)
  <2>1. k \in 0 .. Len(rest) /\ k \in Nat /\ n = Len(out) + k /\ n \in 0 .. Len(out \o rest)
    BY <1>0, <1>2
  <2> HIDE DEF k
  <2>2. some \in Seq(FileUnits) /\ some \in Seq(SentUnits)
    BY <1>0, <2>1, Splits
  <2>3. Len(some) = k /\ \A i \in 1 .. k : some[i] = rest[i]
    <3>1. \A i \in 1 .. k : rest[i] \in FileUnits
      BY <1>0, <2>1, ElementOfSeq
    <3> QED
      BY <2>1, <3>1, SubSeqProperties
  <2>4. u \in Seq(SentUnits) /\ Len(u) = n /\ \A i \in 1 .. n : u[i] = (out \o rest)[i]
    <3>1. out \o rest \in Seq(SentUnits)
      BY <1>0, ConcatProperties
    <3>2. \A i \in 1 .. n : (out \o rest)[i] \in SentUnits
      BY <2>1, <3>1, ElementOfSeq
    <3> QED
      BY <3>2, SubSeqProperties
  <2>5. /\ \A i \in 1 .. Len(out) : (out \o rest)[i] = out[i]
        /\ \A i \in 1 .. k : (out \o rest)[Len(out) + i] = rest[i]
    <3>1. \A i \in 1 .. Len(out) + Len(rest) :
            (out \o rest)[i] = IF i <= Len(out) THEN out[i] ELSE rest[i - Len(out)]
      BY <1>0, ConcatProperties
    <3> QED
      BY <1>0, <2>1, <3>1
  <2>6. u = out \o some
    <3> HIDE DEF u, some
    <3>1. /\ Len(u) = Len(out) + Len(some)
          /\ \A i \in 1 .. Len(out) : u[i] = out[i]
          /\ \A i \in 1 .. Len(some) : u[Len(out) + i] = some[i]
      <4>1. ASSUME NEW i \in 1 .. Len(out) PROVE u[i] = out[i]
        <5>1. i \in 1 .. n
          BY <1>0, <2>1
        <5> QED
          BY <2>4, <2>5, <5>1, Zenon
      <4>2. ASSUME NEW i \in 1 .. k PROVE u[Len(out) + i] = some[i]
        <5>1. Len(out) + i \in 1 .. n
          BY <1>0, <2>1
        <5> QED
          BY <2>3, <2>4, <2>5, <5>1, Zenon
      <4>3. Len(u) = Len(out) + Len(some)
        BY <2>1, <2>3, <2>4
      <4> QED
        BY <2>3, <4>1, <4>2, <4>3, Zenon
    <3> QED
      BY <1>0, <2>2, <2>4, <3>1, ConcatIs
  <2>7. Heads(u) = out
    <3> HIDE DEF u, some
    <3>1. Heads(out \o some) = Heads(out) \o Heads(some)
      BY <1>0, <2>2, HeadsConcat
    <3>2. Heads(out) = out /\ Heads(some) = << >>
      BY <2>2, HeadsOfHead, HeadsOfFile
    <3>3. out \o << >> = out
      BY ConcatEmptySeq
    <3> QED
      BY <2>6, <3>1, <3>2, <3>3, Zenon
  <2>8. From(out, n) = << >>
    <3>1. From(out, n) \in Seq(HeadUnits) /\ Len(From(out, n)) = 0
      BY <1>0, <1>2, <2>1, FromFacts
    <3> QED
      BY <3>1, EmptySeq
  <2>9. out \o << >> = out
    BY ConcatEmptySeq
  <2> QED
    BY <2>7, <2>8, <2>9, Zenon
<1> QED
  BY <1>0, <1>1, <1>2

\* Three sequences of heads, one after the other.
LEMMA HeadsAssociate ==
  ASSUME NEW a \in Seq(HeadUnits), NEW b \in Seq(HeadUnits), NEW c \in Seq(HeadUnits)
  PROVE  (a \o b) \o c = a \o (b \o c)
BY ConcatAssociative

\* Whatever a write takes, no unit of a head is lost or moved.
LEMMA SendingKeepsHeads ==
  ASSUME TypeOK, HeadsAreSent, NEW n \in 1 .. Len(Pending), Sent(n), promised' = promised
  PROVE  HeadsAreSent'
<1> DEFINE sub == SubSeq(Pending, 1, n)
<1>1. output \in Seq(HeadUnits) /\ wire \in Seq(SentUnits)
  BY DEF TypeOK, HeadUnits, SentUnits
<1>2. FileRest \in Seq(FileUnits)
  BY RestIsFile DEF FileRest, TypeOK
<1>3. sub \in Seq(SentUnits)
  <2>1. Pending \in Seq(SentUnits) /\ n \in 0 .. Len(Pending)
    BY PendingFacts
  <2> QED
    BY <2>1, Splits
<1>4. wire' = wire \o sub /\ output' = From(output, n)
  BY DEF Sent, HeadRest, From
<1>5. Heads(sub) \o From(output, n) = output
  <2>1. Pending = output \o FileRest
    BY Zenon DEF Pending
  <2>2. n \in 1 .. Len(output \o FileRest)
    BY <2>1
  <2>3. Heads(SubSeq(output \o FileRest, 1, n)) \o From(output, n) = output
    BY <1>1, <1>2, <2>2, HeadsOfSent
  <2> QED
    BY <2>1, <2>3, Zenon
<1> HIDE DEF sub
<1>6. Heads(wire \o sub) = Heads(wire) \o Heads(sub)
  BY <1>1, <1>3, HeadsConcat
<1>7. (Heads(wire) \o Heads(sub)) \o From(output, n)
        = Heads(wire) \o (Heads(sub) \o From(output, n))
  <2>1. /\ Heads(wire) \in Seq(HeadUnits) /\ Heads(sub) \in Seq(HeadUnits)
        /\ From(output, n) \in Seq(HeadUnits)
    BY <1>1, <1>3, HeadsIsRun, FromFacts
  <2> QED
    BY <2>1, HeadsAssociate
<1>8. Heads(wire') \o output' = Heads(promised')
  BY <1>4, <1>5, <1>6, <1>7, Zenon DEF HeadsAreSent
<1> QED
  BY <1>8, Zenon DEF HeadsAreSent

\* An answer adds the same head to what is promised and to what is to be sent.
LEMMA RespondKeepsHeads ==
  ASSUME TypeOK, HeadsAreSent, NEW r \in Requests \union {NoRequest}, NEW fields,
         Respond(r, fields)
  PROVE  HeadsAreSent'
<1> DEFINE head == Part(Len(answers) + 1, "head", HeadSize)
           body == Part(Len(answers) + 1, "file", onRequest(r).size)
<1>1. /\ head \in Seq(HeadUnits) /\ head \in Seq(SentUnits)
      /\ body \in Seq(FileUnits) /\ body \in Seq(SentUnits)
  <2>1. Len(answers) + 1 \in Nat /\ HeadSize \in Nat /\ onRequest(r).size \in Nat
    BY HttpAssumption, LenProperties, AnswerFacts DEF TypeOK
  <2> QED
    BY <2>1, PartFacts, RestIsFile
<1>2. /\ output \in Seq(HeadUnits) /\ wire \in Seq(SentUnits) /\ promised \in Seq(SentUnits)
  BY DEF TypeOK, HeadUnits, SentUnits
<1>3. output' = output \o head /\ promised' = (promised \o head) \o body /\ wire' = wire
  BY DEF Respond
<1> HIDE DEF head, body
<1>4. Heads((promised \o head) \o body) = Heads(promised) \o head
  <2>1. promised \o head \in Seq(SentUnits)
    BY <1>1, <1>2, ConcatProperties
  <2>2. /\ Heads((promised \o head) \o body) = Heads(promised \o head) \o Heads(body)
        /\ Heads(promised \o head) = Heads(promised) \o Heads(head)
    BY <1>1, <1>2, <2>1, HeadsConcat
  <2>3. Heads(head) = head /\ Heads(body) = << >>
    BY <1>1, HeadsOfHead, HeadsOfFile
  <2>4. Heads(promised \o head) \o << >> = Heads(promised \o head)
    BY <2>1, HeadsIsRun, ConcatEmptySeq
  <2> QED
    BY <2>2, <2>3, <2>4, Zenon
<1>5. Heads(wire) \o (output \o head) = (Heads(wire) \o output) \o head
  <2>1. Heads(wire) \in Seq(HeadUnits)
    BY <1>2, HeadsIsRun
  <2> QED
    BY <1>1, <1>2, <2>1, HeadsAssociate
<1>6. Heads(wire') \o output' = Heads(promised')
  BY <1>3, <1>4, <1>5, Zenon DEF HeadsAreSent
<1> QED
  BY <1>6, Zenon DEF HeadsAreSent

\* Steps that touch none of the three.
LEMMA HeadsStay ==
  ASSUME HeadsAreSent, wire' = wire, output' = output, promised' = promised
  PROVE  HeadsAreSent'
BY Zenon DEF HeadsAreSent

-----------------------------------------------------------------------------
(* Reading in an orderly exchange.                                         *)
LEMMA ArrivedIsRequest ==
  ASSUME Inv, NEW n \in 1 .. Len(stream), Receive(n), orderly'
  PROVE  /\ orderly /\ Pending = << >> /\ stream' = << >>
         /\ Len(sent) = Len(answers) + 1 /\ Len(sent) \in Nat
         /\ sent[Len(sent)] \in Requests /\ sent[Len(sent)].headers # << >>
         /\ Arrived(n) = Encode(sent[Len(sent)])
<1>1. orderly /\ n = Len(stream) /\ stream' = SubSeq(stream, n + 1, n)
  BY DEF Receive, Inv, TypeOK
<1>2. stream \in Seq(Units) /\ sent \in Seq(Requests) /\ answers \in Seq({0, 200, 403, 404, 501})
  BY DEF Inv, TypeOK
<1>3. stream # << >> /\ Len(stream) \in Nat /\ Len(sent) \in Nat /\ Len(answers) \in Nat
  BY <1>2, EmptySeq, LenProperties
<1>4. /\ input = << >> /\ ~skip
      /\ Len(sent) = Len(answers) + 1 /\ Pending = << >>
      /\ stream = Encode(sent[Len(sent)]) /\ sent[Len(sent)].headers # << >>
  BY <1>1, <1>3 DEF Inv, InputInv
<1>5. sent[Len(sent)] \in Requests
  BY <1>2, <1>3, <1>4, ElementOfSeq
<1>6. Arrived(n) = stream
  <2>1. SubSeq(stream, 1, n) = stream /\ << >> \o stream = stream
    BY <1>1, <1>2, SubSeqFull, ConcatEmptySeq
  <2> QED
    BY <1>4, <2>1 DEF Arrived
<1>7. stream' = << >>
  BY <1>1, <1>3, SubSeqEmpty
<1> QED
  BY <1>1, <1>3, <1>4, <1>5, <1>6, <1>7

\* Only ReadRequest is possible, and it takes the request.
LEMMA ReadIsOrderly ==
  ASSUME Inv, NEW n \in 1 .. Len(stream), handle_read(n), orderly'
  PROVE  LET r == sent[Len(sent)] IN
         /\ input' = << >> /\ ~skip'
         /\ \E fields : Respond(r, fields)
<1> DEFINE r == sent[Len(sent)]
<1>1. Receive(n)
  BY DEF handle_read, ReadPart, ReadRequest, ReadHeader, ReadFails
<1>2. r \in Requests /\ r.headers # << >> /\ Arrived(n) = Encode(r)
  BY <1>1, ArrivedIsRequest
<1> HIDE DEF r
<1>3. /\ Encode(r)[1] = Start(r) /\ Encode(r)[2] = CRLF /\ Len(Encode(r)) >= 2
      /\ Len(Encode(r)) \in Nat
  BY <1>2, EncodeFacts
<1>4. HasLine(Arrived(n)) /\ Arrived(n)[1].kind = "start" /\ Arrived(n)[1].request = r
  BY <1>2, <1>3, UnitFacts DEF HasLine
<1>5. ReadRequest(n)
  BY <1>4 DEF handle_read, ReadPart, ReadHeader, ReadFails
<1>6. parse_headers(SubSeq(Encode(r), 3, Len(Encode(r))))
  BY <1>2, <1>5 DEF ReadRequest
<1>7. input' = << >> /\ skip' = FALSE
  BY <1>2, <1>6, ParseRequest
<1>8. \E fields : Respond(r, fields)
  BY <1>4, <1>5 DEF ReadRequest
<1> QED
  BY <1>7, <1>8 DEF r

\* onRequest has no state of its own.
LEMMA MatchPrimed ==
  ASSUME orderly' => Len(answers') <= Len(sent'),
         orderly' => \A i \in 1 .. Len(answers') : answers'[i] = onRequest(sent'[i]).status
  PROVE  AnswersMatchRequests'
BY Zenon DEF AnswersMatchRequests, onRequest

LEMMA ReadKeepsInput ==
  ASSUME Inv, NEW n \in 1 .. Len(stream), handle_read(n)
  PROVE  InputInv' /\ AnswersMatchRequests'
<1> SUFFICES ASSUME orderly' PROVE InputInv' /\ AnswersMatchRequests'
  BY DEF InputInv, AnswersMatchRequests
<1> DEFINE r == sent[Len(sent)]
<1>1. Receive(n)
  BY DEF handle_read, ReadPart, ReadRequest, ReadHeader, ReadFails
<1>2. /\ orderly /\ stream' = << >> /\ sent' = sent
      /\ Len(sent) = Len(answers) + 1 /\ Len(sent) \in Nat
  BY <1>1, ArrivedIsRequest DEF Receive
<1>3. input' = << >> /\ ~skip' /\ answers' = Append(answers, onRequest(r).status)
  BY ReadIsOrderly DEF Respond
<1>4. /\ Len(answers) \in Nat /\ Len(answers') = Len(answers) + 1
      /\ answers'[Len(answers) + 1] = onRequest(r).status
      /\ \A i \in 1 .. Len(answers) : answers'[i] = answers[i]
  BY <1>3 DEF Inv, TypeOK
<1>5. InputInv'
  BY <1>2, <1>3, <1>4 DEF InputInv
<1>6. ASSUME NEW i \in 1 .. Len(answers') PROVE answers'[i] = onRequest(sent[i]).status
  <2>1. CASE i = Len(sent)
    BY <1>2, <1>4, <2>1
  <2>2. CASE i # Len(sent)
    <3>1. i \in 1 .. Len(answers)
      BY <1>2, <1>4, <2>2
    <3> QED
      BY <1>2, <1>4, <3>1 DEF Inv, AnswersMatchRequests
  <2> QED
    BY <2>1, <2>2
<1>7. Len(answers') <= Len(sent')
  BY <1>2, <1>4
<1>8. ASSUME NEW i \in 1 .. Len(answers')
      PROVE  answers'[i] = onRequest(sent'[i]).status
  <2>1. answers'[i] = onRequest(sent[i]).status
    BY <1>6
  <2> QED
    BY <1>2, <2>1
<1>9. AnswersMatchRequests'
  BY <1>7, <1>8, MatchPrimed
<1> QED
  BY <1>5, <1>9

LEMMA ReadKeepsOutput ==
  ASSUME Inv, TypeOK', NEW n \in 1 .. Len(stream), handle_read(n)
  PROVE  OutputInv' /\ WireIsAnswers' /\ HeadsAreSent'
<1>1. Receive(n)
  BY DEF handle_read, ReadPart, ReadRequest, ReadHeader, ReadFails
<1>2. TypeOK /\ OutputInv /\ WireIsAnswers /\ HeadsAreSent
  BY DEF Inv
<1>3. CASE ReadFails(n)
  <2>1. UNCHANGED sending /\ promised' = promised /\ (orderly' => orderly)
    BY <1>1, <1>3 DEF ReadFails, Receive
  <2>2. Pending' = Pending
    BY <2>1 DEF sending, Pending, FileRest
  <2>3. HeadsAreSent'
    BY <1>2, <2>1, HeadsStay DEF sending
  <2> QED
    BY <1>2, <2>1, <2>2, <2>3 DEF OutputInv, OutputIsPushed, WireIsAnswers, sending
<1>4. CASE ~ReadFails(n)
  <2>1. PICK q \in Requests \union {NoRequest} : \E fields : Respond(q, fields)
    <3>1. CASE ReadPart(n) \/ ReadHeader(n)
      BY <3>1 DEF ReadPart, ReadHeader
    <3>2. CASE ReadRequest(n)
      <4>1. Arrived(n) \in Seq(Units) /\ Arrived(n)[1] \in Units
        BY <1>2, <3>2, ArrivedType DEF ReadRequest, HasLine
      <4>2. Arrived(n)[1].request \in Requests
        BY <3>2, <4>1, UnitFacts DEF ReadRequest
      <4> QED
        BY <3>2, <4>2 DEF ReadRequest
    <3> QED
      BY <1>4, <3>1, <3>2 DEF handle_read
  <2>2. PICK fields : Respond(q, fields)
    BY <2>1
  <2>3. OutputIsPushed'
    BY <1>2, <2>2, RespondIsPushed
  <2>4. file' # NoFile => mapped' > 0
    BY <1>2, <2>2 DEF Respond, OutputInv, TypeOK
  <2>5. orderly' => /\ wire' \o Pending' = promised'
                    /\ IF file' = NoFile THEN offset' = 0 /\ mapped' = 0
                                         ELSE offset' < file'.size /\ mapped' = 1
    BY <1>1, <1>2, <2>2, ArrivedIsRequest, RespondInOrder
  <2>6. HeadsAreSent'
    BY <1>2, <2>2, RespondKeepsHeads
  <2> QED
    BY <2>3, <2>4, <2>5, <2>6 DEF OutputInv, WireIsAnswers
<1> QED
  BY <1>3, <1>4

-----------------------------------------------------------------------------
(* The other steps.                                                        *)
LEMMA SendKeeps ==
  ASSUME Inv, NEW r \in Requests, Send(r)
  PROVE  Inv'
<1>1. /\ sent' = Append(sent, r) /\ stream' = stream \o Encode(r)
      /\ orderly' = (orderly /\ Waiting /\ r.headers # << >>)
      /\ UNCHANGED <<reading, answers, sending, shut, promised, failure>>
  BY DEF Send
<1>2. Encode(r) \in Seq(Units) /\ Encode(r) # << >> /\ Len(r.headers) \in Nat
  BY EncodeFacts, EmptySeq
<1>3. TypeOK'
  <2>1. stream' \in Seq(Units)
    BY <1>1, <1>2, ConcatProperties DEF Inv, TypeOK
  <2>2. sent' \in Seq(Requests) /\ orderly' \in BOOLEAN
    BY <1>1 DEF Inv, TypeOK
  <2> QED
    BY <1>1, <2>1, <2>2 DEF Inv, TypeOK, reading, sending
<1>4. Pending' = Pending
  BY <1>1 DEF sending, Pending, FileRest
<1>5. OutputInv' /\ WireIsAnswers'
  BY <1>1, <1>4 DEF Inv, OutputInv, OutputIsPushed, WireIsAnswers, sending
<1>6. ASSUME orderly' PROVE InputInv' /\ AnswersMatchRequests'
  <2>1. /\ orderly /\ stream = << >> /\ Pending = << >> /\ Len(answers) = Len(sent)
        /\ r.headers # << >>
    BY <1>1, <1>6 DEF Waiting
  <2>2. sent \in Seq(Requests) /\ Len(sent) \in Nat
    BY LenProperties DEF Inv, TypeOK
  <2>3. /\ Len(sent') = Len(sent) + 1 /\ sent'[Len(sent')] = r
        /\ \A i \in 1 .. Len(sent) : sent'[i] = sent[i]
    BY <1>1, <2>2
  <2>4. stream' = Encode(r)
    BY <1>1, <1>2, <2>1, ConcatEmptySeq
  <2>5. InputInv'
    BY <1>1, <1>2, <1>4, <2>1, <2>2, <2>3, <2>4 DEF Inv, InputInv, reading, Encode
  <2>6. answers' = answers
    BY <1>1
  <2>7. ASSUME NEW i \in 1 .. Len(answers')
        PROVE  answers'[i] = onRequest(sent'[i]).status
    <3>1. i \in 1 .. Len(sent) /\ i \in 1 .. Len(answers)
      BY <2>1, <2>6, <2>7
    <3>2. sent'[i] = sent[i]
      BY <2>3, <3>1
    <3>3. answers[i] = onRequest(sent[i]).status
      BY <2>1, <3>1 DEF Inv, AnswersMatchRequests
    <3> QED
      BY <2>6, <3>2, <3>3
  <2>8. Len(answers') <= Len(sent')
    BY <2>1, <2>2, <2>3, <2>6
  <2>9. AnswersMatchRequests'
    BY <2>7, <2>8, MatchPrimed
  <2> QED
    BY <2>5, <2>9
<1>7. InputInv' /\ AnswersMatchRequests'
  BY <1>6 DEF InputInv, AnswersMatchRequests
<1>8. HeadsAreSent'
  BY <1>1, HeadsStay DEF Inv, sending
<1> QED
  BY <1>3, <1>5, <1>7, <1>8 DEF Inv

\* What a write leaves alone.
LEMMA WriteKeepsInput ==
  ASSUME Inv, writeEnabled, UNCHANGED <<arriving, reading, answers, orderly>>
  PROVE  InputInv' /\ AnswersMatchRequests'
<1>1. orderly => stream = << >>
  BY DEF Inv, InputInv, OutputInv, OutputIsPushed
<1>2. /\ sent' = sent /\ stream' = stream /\ input' = input /\ skip' = skip
      /\ answers' = answers /\ orderly' = orderly
  BY DEF arriving, reading
<1>3. InputInv'
  <2>1. orderly => input = << >> /\ ~skip /\ Len(sent) = Len(answers)
    BY <1>1 DEF Inv, InputInv
  <2> QED
    BY <1>1, <1>2, <2>1 DEF InputInv
<1>4. AnswersMatchRequests'
  <2>1. ASSUME orderly', NEW i \in 1 .. Len(answers')
        PROVE  answers'[i] = onRequest(sent'[i]).status
    BY <1>2, <2>1 DEF Inv, AnswersMatchRequests
  <2>2. orderly' => Len(answers') <= Len(sent')
    BY <1>2 DEF Inv, AnswersMatchRequests
  <2> QED
    BY <2>1, <2>2, MatchPrimed
<1> QED
  BY <1>3, <1>4

LEMMA SameSending ==
  ASSUME Inv, TypeOK', UNCHANGED <<arriving, reading, answers, sending, promised, orderly>>
  PROVE  Inv'
<1>1. Pending' = Pending
  BY DEF sending, Pending, FileRest
<1>2. OutputInv' /\ WireIsAnswers'
  BY <1>1 DEF Inv, OutputInv, OutputIsPushed, WireIsAnswers, sending
<1>3. InputInv'
  BY <1>1 DEF Inv, InputInv, Encode, arriving, reading
<1>4. AnswersMatchRequests'
  <2>1. /\ sent' = sent /\ answers' = answers /\ orderly' = orderly
    BY DEF arriving
  <2>2. ASSUME orderly', NEW i \in 1 .. Len(answers')
        PROVE  answers'[i] = onRequest(sent'[i]).status
    BY <2>1, <2>2 DEF Inv, AnswersMatchRequests
  <2>3. orderly' => Len(answers') <= Len(sent')
    BY <2>1 DEF Inv, AnswersMatchRequests
  <2> QED
    BY <2>2, <2>3, MatchPrimed
<1>5. HeadsAreSent'
  BY HeadsStay DEF Inv, sending
<1> QED
  BY <1>2, <1>3, <1>4, <1>5 DEF Inv

LEMMA StepKeepsInv ==
  ASSUME Inv, [Next]_vars
  PROVE  Inv'
<1>0. TypeOK /\ OutputInv /\ WireIsAnswers /\ HeadsAreSent
  BY DEF Inv
<1>1. ASSUME NEW r \in Requests, Send(r) PROVE Inv'
  BY <1>1, SendKeeps
<1>2. ASSUME NEW n \in 1 .. Len(stream), handle_read(n) PROVE Inv'
  <2>1. TypeOK'
    BY <1>0, <1>2, ReadTypes
  <2> QED
    BY <1>2, <2>1, ReadKeepsInput, ReadKeepsOutput DEF Inv
<1>3. ASSUME NEW n \in 1 .. Len(Pending) - 1, WritePart(n) PROVE Inv'
  <2>1. TypeOK' /\ OutputInv' /\ WireIsAnswers'
    BY <1>0, <1>3, WritePartKeeps
  <2>2. InputInv' /\ AnswersMatchRequests'
    BY <1>3, WriteKeepsInput DEF WritePart, CanWrite
  <2>3. HeadsAreSent'
    <3>1. n \in 1 .. Len(Pending) /\ Sent(n) /\ promised' = promised
      BY <1>0, <1>3, PendingFacts DEF WritePart
    <3> QED
      BY <1>0, <3>1, SendingKeepsHeads
  <2> QED
    BY <2>1, <2>2, <2>3 DEF Inv
<1>4. CASE WriteRest
  <2>1. TypeOK' /\ OutputInv' /\ WireIsAnswers'
    BY <1>0, <1>4, WriteRestKeeps
  <2>2. InputInv' /\ AnswersMatchRequests'
    BY <1>4, WriteKeepsInput DEF WriteRest, CanWrite
  <2>3. HeadsAreSent'
    <3>1. Len(Pending) \in 1 .. Len(Pending) /\ Sent(Len(Pending)) /\ promised' = promised
      BY <1>0, <1>4, PendingFacts, EmptySeq DEF WriteRest, CanWrite, OutputInv, OutputIsPushed
    <3> QED
      BY <1>0, <3>1, SendingKeepsHeads
  <2> QED
    BY <2>1, <2>2, <2>3 DEF Inv
<1>5. CASE WriteFails
  <2>1. TypeOK' /\ OutputInv' /\ WireIsAnswers'
    BY <1>0, <1>5, WriteFailsKeeps
  <2>2. InputInv' /\ AnswersMatchRequests'
    BY <1>5, WriteKeepsInput DEF WriteFails, CanWrite
  <2>3. HeadsAreSent'
    BY <1>0, <1>5, HeadsStay DEF WriteFails
  <2> QED
    BY <2>1, <2>2, <2>3 DEF Inv
<1>6. CASE WriteToShut
  <2>1. TypeOK'
    BY <1>0, <1>6 DEF WriteToShut, TypeOK, arriving, reading, sending
  <2> QED
    BY <1>6, <2>1, SameSending DEF WriteToShut
<1>7. CASE UNCHANGED vars
  <2>1. TypeOK'
    BY <1>0, <1>7 DEF vars, TypeOK, arriving, reading, sending
  <2> QED
    BY <1>7, <2>1, SameSending DEF vars
<1> QED
  BY <1>1, <1>2, <1>3, <1>4, <1>5, <1>6, <1>7 DEF Next, HandleRead, http_handle_write

LEMMA InitInv == Init => Inv
<1> SUFFICES ASSUME Init PROVE Inv
  OBVIOUS
<1>1. TypeOK
  <2>1. << >> \in Seq(Requests) /\ << >> \in Seq(Units)
    BY EmptySeq
  <2>2. << >> \in Seq({0, 200, 403, 404, 501})
    BY EmptySeq
  <2>3. /\ << >> \in Seq([answer : Nat, part : {"head"}, unit : Nat])
        /\ << >> \in Seq([answer : Nat, part : {"head", "file"}, unit : Nat])
    BY EmptySeq
  <2>4. NoFile \in [answer : Nat, size : Nat]
    BY DEF NoFile
  <2> QED
    BY <2>1, <2>2, <2>3, <2>4, Zenon DEF Init, TypeOK
<1>2. Pending = << >>
  <2>1. FileRest = SubSeq(Part(0, "file", 0), 1, 0)
    BY DEF Init, FileRest, NoFile
  <2>2. FileRest = << >>
    BY <2>1, SubSeqEmpty
  <2>3. << >> \in Seq(SentUnits) /\ << >> \o << >> = << >>
    BY EmptySeq, ConcatEmptySeq
  <2> QED
    BY <2>2, <2>3 DEF Init, Pending
<1>3. OutputInv
  BY <1>2 DEF Init, OutputInv, OutputIsPushed
<1>4. WireIsAnswers
  <2>1. << >> \in Seq(SentUnits) /\ << >> \o << >> = << >>
    BY EmptySeq, ConcatEmptySeq
  <2> QED
    BY <1>2, <2>1 DEF Init, WireIsAnswers
<1>5. InputInv /\ AnswersMatchRequests
  BY DEF Init, InputInv, AnswersMatchRequests
<1>6. HeadsAreSent
  <2>1. << >> \in Seq(HeadUnits) /\ << >> \o << >> = << >>
    BY EmptySeq, ConcatEmptySeq
  <2>2. Heads(<< >>) = << >>
    BY <2>1, HeadsOfHead
  <2>3. wire = << >> /\ output = << >> /\ promised = << >>
    BY DEF Init
  <2> QED
    BY <2>1, <2>2, <2>3, Zenon DEF HeadsAreSent
<1> QED
  BY <1>1, <1>3, <1>4, <1>5, <1>6 DEF Inv

-----------------------------------------------------------------------------
\* The inductive invariant holds for any requests and sizes.
THEOREM Invariance == Spec => []Inv
<1>1. Inv /\ [Next]_vars => Inv'
  BY StepKeepsInv
<1> QED
  BY InitInv, <1>1, PTL DEF Spec, SafeSpec

\* In an orderly exchange -- the client waits for each answer, its requests have
\* a header, and each is read as a whole -- nothing of a request is left behind
\* in the input buffer, and the i-th answer is the answer to the i-th request.
THEOREM RequestsAreAnswered == Spec => [](InputIsConsumed /\ AnswersMatchRequests)
<1>1. Inv => InputIsConsumed /\ AnswersMatchRequests
  BY DEF Inv, InputInv, InputIsConsumed
<1> QED
  BY Invariance, <1>1, PTL

\* In an orderly exchange, what the socket has taken and what is still to be
\* written are the answers, whichever parts of head and file the writes have sent.
THEOREM AnswersAreWhole == Spec => []WireIsAnswers
<1>1. Inv => WireIsAnswers
  BY DEF Inv
<1> QED
  BY Invariance, <1>1, PTL

\* Every head that was answered is sent or still to be sent, each once and in
\* order, whatever becomes of the files between them.
THEOREM HeadsAreWhole == Spec => []HeadsAreSent
<1>1. Inv => HeadsAreSent
  BY DEF Inv
<1> QED
  BY Invariance, <1>1, PTL

\* Write events are on exactly as long as something is to be written
\* (http_onMessage, http_handle_write).
THEOREM WritesArePushed == Spec => []OutputIsPushed
<1>1. Inv => OutputIsPushed
  BY DEF Inv, OutputInv
<1> QED
  BY Invariance, <1>1, PTL

\* In an orderly exchange, when an answer has been written, its file is no longer
\* mapped.
THEOREM FilesAreReleased == Spec => []FilesAreUnmapped
<1>1. Inv => FilesAreUnmapped
  BY NothingPending DEF Inv, FilesAreUnmapped
<1> QED
  BY Invariance, <1>1, PTL
=============================================================================

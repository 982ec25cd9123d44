----------------------------- MODULE LintLemmas -----------------------------
(***************************************************************************)
(* What the operators of cpplint's model do, for texts of any length: what *)
(* is left of a line is a line, the blocks around one are lists and stay   *)
(* so, they follow the braces, the checks report lists of errors, and      *)
(* stacks that differ in where classes end are read alike.                 *)
(* The loops of the program are functions on 0 .. n; RecursionExists, or   *)
(* climbing to n, says that there is one for every step, and each loop has *)
(* a lemma that unfolds it.                                                *)
(***************************************************************************)
EXTENDS LintProperties, SequenceTheorems, FiniteSetTheorems, WellFoundedInduction, TLAPS

-----------------------------------------------------------------------------
(* Numbers, in the place of induction: a set of naturals has a least       *)
(* element, so a claim that fails for some number fails for a first one.   *)
\* A set of naturals that is not empty has a least element.
LEMMA LeastNatural ==
  ASSUME NEW T \in SUBSET Nat, T # {}
  PROVE  \E m \in T : \A n \in T : m <= n
<1> DEFINE R == OpToRel(<, Nat)
<1>1. IsWellFoundedOn(R, Nat)
  BY NatLessThanWellFounded
<1>2. \A i, j \in Nat : i < j => <<i, j>> \in R
  BY DEF OpToRel
<1> HIDE DEF R
<1>3. PICK m \in T : \A n \in T : ~(<<n, m>> \in R)
  BY <1>1, WFMin
<1>4. \A n \in T : n \in Nat /\ m \in Nat /\ ~(n < m)
  BY <1>2, <1>3
<1> QED
  BY <1>4

\* The greatest of some numbers up to n.
LEMMA MaxUpTo ==
  ASSUME NEW n \in Nat, NEW T \in SUBSET (0..n), T # {}
  PROVE  Max(T) \in T /\ \A k \in T : k <= Max(T)
<1> DEFINE U == {n - k : k \in T}
<1>1. U \in SUBSET Nat /\ U # {}
  <2>1. \A k \in T : n - k \in Nat
    OBVIOUS
  <2> QED
    BY <2>1
<1>2. PICK m \in U : \A k \in U : m <= k
  <2> HIDE DEF U
  <2> QED
    BY <1>1, LeastNatural
<1>3. PICK j \in T : m = n - j
  BY <1>2
<1>4. \A k \in T : k <= j
  BY <1>2, <1>3
<1>5. \E j2 \in T : \A k \in T : k <= j2
  BY <1>4
<1> QED
  BY <1>5 DEF Max

\* Induction, stated of a set: one that has 0, and with each number the next,
\* has them all.
LEMMA Climbs ==
  ASSUME NEW n \in Nat, NEW T, 0 \in T, \A k \in 1 .. n : k - 1 \in T => k \in T
  PROVE  \A k \in 0 .. n : k \in T
<1> DEFINE Missing == {k \in 0 .. n : k \notin T}
<1> SUFFICES ASSUME Missing # {} PROVE FALSE
  OBVIOUS
<1>1. Missing \in SUBSET Nat
  OBVIOUS
<1>2. PICK k \in Missing : \A i \in Missing : k <= i
  <2> HIDE DEF Missing
  <2> QED
    BY <1>1, LeastNatural
<1>3. k \in 1 .. n /\ k - 1 \notin Missing /\ k - 1 \in 0 .. n
  BY <1>2
<1> QED
  BY <1>2, <1>3

\* What is in a set at the start and stays in it at every step.
LEMMA RunStays ==
  ASSUME NEW n \in Nat, NEW S, NEW g, g[0] \in S,
         \A k \in 1 .. n : g[k - 1] \in S => g[k] \in S
  PROVE  \A k \in 0 .. n : g[k] \in S
<1> DEFINE T == {k \in 0 .. n : g[k] \in S}
<1>1. 0 \in T
  OBVIOUS
<1>2. \A k \in 1 .. n : k - 1 \in T => k \in T
  OBVIOUS
<1>3. \A k \in 0 .. n : k \in T
  <2> HIDE DEF T
  <2> QED
    BY <1>1, <1>2, Climbs
<1> QED
  BY <1>3

\* What h[0] .. h[n] are when each is made from the one before.
Unrolls(n, S, a, f, h) ==
  h \in [0 .. n -> S] /\ h[0] = a /\ \A i \in 1 .. n : h[i] = f[i][h[i - 1]]

\* A function can be defined by recursion over the first n numbers.
LEMMA RecursionExists ==
  ASSUME NEW n \in Nat, NEW S, NEW a \in S, NEW f,
         \A i \in 1 .. n : \A v \in S : f[i][v] \in S
  PROVE  \E h : Unrolls(n, S, a, f, h)
<1> DEFINE T == {m \in 0 .. n : \E h : Unrolls(m, S, a, f, h)}
<1>1. 0 \in T
  <2>1. Unrolls(0, S, a, f, [k \in 0 .. 0 |-> a])
    BY DEF Unrolls
  <2> QED
    BY <2>1
<1>2. ASSUME NEW m \in 1 .. n, m - 1 \in T PROVE m \in T
  <2>1. PICK h : Unrolls(m - 1, S, a, f, h)
    BY <1>2
  <2> HIDE DEF T
  <2> DEFINE h2 == [k \in 0 .. m |-> IF k = m THEN f[m][h[m - 1]] ELSE h[k]]
  <2>2. \A k \in 0 .. m - 1 : h[k] \in S /\ h2[k] = h[k]
    <3>1. \A k \in 0 .. m - 1 : k \in 0 .. m /\ k # m
      OBVIOUS
    <3> QED
      BY <2>1, <3>1 DEF Unrolls
  <2>3. h2[m] = f[m][h2[m - 1]] /\ h2[m] \in S
    <3>1. m \in 0 .. m /\ m - 1 \in 0 .. m - 1
      OBVIOUS
    <3>2. h2[m] = f[m][h[m - 1]]
      BY <3>1
    <3> HIDE DEF h2
    <3> QED
      BY <2>2, <3>1, <3>2
  <2>4. h2 \in [0 .. m -> S]
    <3>1. ASSUME NEW k \in 0 .. m PROVE h2[k] \in S
      <4> HIDE DEF h2
      <4>1. k = m \/ k \in 0 .. m - 1
        OBVIOUS
      <4> QED
        BY <2>2, <2>3, <4>1
    <3>2. h2 = [k \in 0 .. m |-> h2[k]]
      OBVIOUS
    <3> HIDE DEF h2
    <3> QED
      BY <3>1, <3>2
  <2>5. ASSUME NEW k \in 1 .. m PROVE h2[k] = f[k][h2[k - 1]]
    <3> HIDE DEF h2
    <3>1. CASE k = m
      BY <2>3, <3>1
    <3>2. CASE k # m
      <4>1. k \in 1 .. m - 1 /\ k \in 0 .. m - 1 /\ k - 1 \in 0 .. m - 1
        BY <3>2
      <4>2. h[k] = f[k][h[k - 1]]
        BY <2>1, <4>1 DEF Unrolls
      <4> QED
        BY <2>2, <4>1, <4>2
    <3> QED
      BY <3>1, <3>2
  <2>6. h2[0] = a
    BY <2>1, <2>2 DEF Unrolls
  <2> HIDE DEF h2
  <2>7. Unrolls(m, S, a, f, h2)
    BY <2>4, <2>5, <2>6 DEF Unrolls
  <2> QED
    BY <2>7 DEF T
<1>3. n \in T
  <2> HIDE DEF T
  <2> QED
    BY <1>1, <1>2, Climbs
<1> QED
  BY <1>3

\* Functions on 1 .. n are sequences.
LEMMA OnNumbers ==
  ASSUME NEW S, NEW n \in Nat, NEW s \in [1..n -> S]
  PROVE  s \in Seq(S) /\ Len(s) = n
<1>1. s \in Seq(S)
  BY SeqDef
<1>2. Len(s) \in Nat /\ DOMAIN s = 1..Len(s)
  BY <1>1, LenProperties
<1>3. 1..Len(s) = 1..n
  BY <1>2
<1> QED
  BY <1>1, <1>2, <1>3

-----------------------------------------------------------------------------
(* What is read of a file: raw strings, comments and strings are taken out *)
(* of its lines.                                                           *)
\* The least of a set of naturals, the positions that are found in a line, and the
\* parts before and behind them.
LEMMA MinOfNaturals ==
  ASSUME NEW T \in SUBSET Nat, T # {}
  PROVE  Min(T) \in T /\ \A k \in T : Min(T) <= k
<1>1. PICK m \in T : \A k \in T : m <= k
  BY LeastNatural
<1> QED
  BY <1>1 DEF Min

\* The tokens of a file, and those that the program writes into it.
Line == Seq(Alphabet)

\* The first token of a set in a line: its position, and that it is one of the set.
LEMMA FindType ==
  ASSUME NEW line \in Line, NEW T
  PROVE  /\ Find(line, T) \in 0..Len(line)
         /\ Find(line, T) # 0 => /\ Find(line, T) \in 1..Len(line)
                               /\ line[Find(line, T)] \in Alphabet \cap T
<1> DEFINE I == {i \in 1..Len(line) : line[i] \in T}
<1>1. Len(line) \in Nat /\ \A i \in 1..Len(line) : line[i] \in Alphabet
  BY LenProperties, ElementOfSeq DEF Line
<1>2. Find(line, T) = IF I # {} THEN Min(I) ELSE 0
  BY DEF Find, SelectInSeq
<1>3. I # {} => Min(I) \in I
  <2>1. I \in SUBSET Nat
    BY <1>1
  <2> HIDE DEF I
  <2> QED
    BY <2>1, MinOfNaturals
<1> QED
  BY <1>1, <1>2, <1>3

\* What is behind a position of a line is a line,
LEMMA AfterType ==
  ASSUME NEW line \in Line, NEW i \in Nat
  PROVE  After(line, i) \in Line
<1>1. Len(line) \in Nat /\ \A k \in 1..Len(line) : line[k] \in Alphabet
  BY LenProperties, ElementOfSeq DEF Line
<1>2. \A k \in (i + 1)..Len(line) : line[k] \in Alphabet
  BY <1>1
<1>3. i + 1 \in Int /\ Len(line) \in Int
  BY <1>1
<1> QED
  BY <1>2, <1>3, SubSeqProperties DEF After, Line

\* and so is what is before it,
LEMMA BeforeType ==
  ASSUME NEW line \in Line, NEW i \in 0..Len(line)
  PROVE  Before(line, i) \in Line
<1>1. Len(line) \in Nat /\ \A k \in 1..Len(line) : line[k] \in Alphabet
  BY LenProperties, ElementOfSeq DEF Line
<1>2. \A k \in 1..(i - 1) : line[k] \in Alphabet
  BY <1>1
<1>3. i - 1 \in Int /\ 1 \in Int
  BY <1>1
<1> QED
  BY <1>2, <1>3, SubSeqProperties DEF Before, Line

\* and two lines make a line,
LEMMA LinesJoin ==
  ASSUME NEW a \in Line, NEW b \in Line
  PROVE  a \o b \in Line
BY ConcatProperties DEF Line

\* as do two tokens.
LEMMA Pairs ==
  ASSUME NEW S, NEW t \in S, NEW u \in S
  PROVE  <<t, u>> \in Seq(S)
<1>1. <<t, u>> \in [1..2 -> S]
  OBVIOUS
<1> QED
  BY <1>1, OnNumbers

\* The shortest lines.
LEMMA ShortLines ==
  /\ <<>> \in Line
  /\ EmptyString \in Line /\ Cleared \in Line
  /\ \A t, u \in Alphabet : <<t, u>> \in Line
<1>1. \A t, u \in Alphabet : <<t, u>> \in Line
  BY Pairs DEF Line
<1>2. EmptyString \in Line
  BY <1>1 DEF Alphabet, EmptyString
<1>3. "/*" \in CommentMarks /\ "*/" \in CommentMarks
  BY Zenon DEF CommentMarks
<1>4. <<"/*", "*/">> \in Seq(CommentMarks)
  BY <1>3, Pairs, Zenon
<1>5. Cleared \in Seq(CommentMarks)
  BY <1>4, Zenon DEF Cleared
<1>6. CommentMarks \subseteq Alphabet
  BY DEF Alphabet
<1>7. Cleared \in Line
  BY <1>5, <1>6, SeqMonotonic DEF Line
<1> QED
  BY <1>1, <1>2, <1>7, EmptySeq DEF Line

\* Where the delimiter of a raw string starts, and what is behind it.
LEMMA DelimiterType ==
  ASSUME NEW line \in Line, NEW opener
  PROVE  /\ FindDelimiter(line, opener) \in Nat
         /\ After(line, FindDelimiter(line, opener) + Len(Closer(opener)) - 1) \in Line
<1> DEFINE d     == Closer(opener)
           found == {i \in 1..(Len(line) - Len(d) + 1) : SubSeq(line, i, i + Len(d) - 1) = d}
<1>1. Len(d) \in Nat /\ Len(d) >= 1
  BY DEF Closer
<1>2. Len(line) \in Nat
  BY LenProperties DEF Line
<1>3. FindDelimiter(line, opener) = IF found = {} THEN 0 ELSE Min(found)
  BY DEF FindDelimiter
<1>4. found # {} => Min(found) \in found
  <2>1. found \in SUBSET Nat
    BY <1>1, <1>2
  <2> HIDE DEF found
  <2> QED
    BY <2>1, MinOfNaturals
<1>5. FindDelimiter(line, opener) \in Nat
  BY <1>1, <1>2, <1>3, <1>4
<1>6. FindDelimiter(line, opener) + Len(d) - 1 \in Nat
  BY <1>1, <1>5
<1> QED
  BY <1>5, <1>6, AfterType

\* Emptying one raw string of a line, or reading on in one, leaves a line.
RawLines == [line : Line, open : Alphabet \cup {NONE}]

\* The first raw string of a line is emptied.
LEMMA EmptyRawStringType ==
  ASSUME NEW acc \in RawLines
  PROVE  EmptyRawString(acc) \in RawLines
<1> DEFINE line == acc.line
           i    == Find(line, {RAW, RAWX})
           tail == After(line, i)
           end  == FindDelimiter(tail, line[i])
           rest == After(tail, end + Len(Closer(line[i])) - 1)
<1>1. line \in Line /\ acc.open \in Alphabet \cup {NONE}
  BY DEF RawLines
<1>2. i \in 0..Len(line) /\ i \in Nat /\ (i # 0 => line[i] \in Alphabet)
  BY <1>1, FindType, LenProperties DEF Line
<1>3. Before(line, i) \in Line /\ tail \in Line
  BY <1>1, <1>2, BeforeType, AfterType
<1>4. rest \in Line
  BY <1>3, DelimiterType
<1>5. EmptyString \in Line
  BY ShortLines
<1>6. Before(line, i) \o EmptyString \in Line
  BY <1>3, <1>5, LinesJoin
<1>7. Before(line, i) \o EmptyString \o rest \in Line
  BY <1>4, <1>6, LinesJoin
<1>8. EmptyRawString(acc) =
        IF i = 0 \/ InLineComment(Before(line, i)) THEN acc
        ELSE IF end = 0 THEN [line |-> Before(line, i) \o EmptyString, open |-> line[i]]
        ELSE [acc EXCEPT !.line = Before(line, i) \o EmptyString \o rest]
  BY DEF EmptyRawString
<1> DEFINE cut   == Before(line, i) \o EmptyString
           whole == Before(line, i) \o EmptyString \o rest
<1>9. \/ EmptyRawString(acc) = acc
      \/ i # 0 /\ EmptyRawString(acc) = [line |-> cut, open |-> line[i]]
      \/ EmptyRawString(acc) = [acc EXCEPT !.line = whole]
  BY <1>8
<1>10. cut \in Line /\ whole \in Line
  BY <1>6, <1>7
<1> HIDE DEF i, tail, end, rest, cut, whole
<1> QED
  BY <1>2, <1>9, <1>10 DEF RawLines

\* All of them.
LEMMA RawStringsType ==
  ASSUME NEW line \in Line
  PROVE  RawStringsOfLine(line) \in RawLines
<1> DEFINE n == Len(line)
           S == RawLines
           step(v, k) == EmptyRawString(v)
           IsIt(h) == h = [k \in 0..n |-> IF k = 0 THEN [line |-> line, open |-> NONE] ELSE step(h[k - 1], k)]
           run == CHOOSE h : IsIt(h)
<1>1. n \in Nat /\ [line |-> line, open |-> NONE] \in S
  BY LenProperties DEF Line, RawLines
<1>2. \A k \in 1..n : \A v \in S : step(v, k) \in S
  BY EmptyRawStringType
<1>3. RawStringsOfLine(line) = run[n]
  BY DEF RawStringsOfLine, Loop
<1> HIDE DEF step, n, S
<1>4. PICK h : IsIt(h)
  <2> DEFINE f == [k \in 1..n |-> [v \in S |-> step(v, k)]]
  <2>1. \A k \in 1..n : \A v \in S : f[k][v] = step(v, k) /\ f[k][v] \in S
    BY <1>2
  <2> HIDE DEF f
  <2>2. PICK h : Unrolls(n, S, [line |-> line, open |-> NONE], f, h)
    BY <1>1, <2>1, RecursionExists
  <2>3. h \in [0..n -> S] /\ h[0] = [line |-> line, open |-> NONE] /\ \A k \in 1..n : h[k] = f[k][h[k - 1]]
    BY <2>2 DEF Unrolls
  <2>4. \A k \in 1..n : h[k - 1] \in S
    BY <1>1, <2>3
  <2>5. \A k \in 1..n : h[k] = step(h[k - 1], k)
    BY <2>1, <2>3, <2>4
  <2>6. \A k \in 0..n : k = 0 \/ k \in 1..n
    BY <1>1
  <2> QED
    BY <2>3, <2>5, <2>6
<1>5. IsIt(run)
  <2> HIDE DEF IsIt
  <2> QED
    BY <1>4
<1> HIDE DEF run
<1>6. run[0] = [line |-> line, open |-> NONE] /\ \A k \in 1..n : run[k] = step(run[k - 1], k)
  BY <1>1, <1>5
<1>7. \A k \in 0..n : run[k] \in S
  <2>1. \A k \in 1..n : run[k - 1] \in S => run[k] \in S
    BY <1>2, <1>6
  <2> QED
    BY <1>1, <1>6, <2>1, RunStays
<1> QED
  BY <1>1, <1>3, <1>7 DEF S

\* A line of a file, after what the lines before it have left open.
LEMMA RawStepType ==
  ASSUME NEW line \in Line, NEW acc, acc.open \in Alphabet \cup {NONE}, acc.lines \in Seq(Line)
  PROVE  /\ RawStep(acc, line).open \in Alphabet \cup {NONE}
         /\ RawStep(acc, line).lines \in Seq(Line)
         /\ Len(RawStep(acc, line).lines) = Len(acc.lines) + 1
<1> DEFINE end  == FindDelimiter(line, acc.open)
           rest == EmptyString \o After(line, end + Len(Closer(acc.open)) - 1)
           new  == IF acc.open = NONE THEN RawStringsOfLine(line)
                   ELSE IF end = 0 THEN [line |-> EmptyString, open |-> acc.open]
                   ELSE RawStringsOfLine(rest)
<1>1. EmptyString \in Line
  BY ShortLines
<1>2. rest \in Line
  BY <1>1, DelimiterType, LinesJoin
<1>3. RawStringsOfLine(line) \in RawLines /\ RawStringsOfLine(rest) \in RawLines
  BY <1>2, RawStringsType
<1>4. RawStep(acc, line) = [lines |-> Append(acc.lines, new.line), open |-> new.open]
  BY DEF RawStep
<1> HIDE DEF end, rest
<1>5. new.line \in Line /\ new.open \in Alphabet \cup {NONE}
  BY <1>1, <1>3 DEF RawLines
<1> HIDE DEF new
<1>6. Append(acc.lines, new.line) \in Seq(Line) /\ Len(Append(acc.lines, new.line)) = Len(acc.lines) + 1
  BY <1>5, AppendProperties
<1> QED
  BY <1>4, <1>5, <1>6

\* All lines, one for one.
LEMMA CleansedType ==
  ASSUME NEW lines \in Seq(Line)
  PROVE  CleanseRawStrings(lines) \in Seq(Line) /\ Len(CleanseRawStrings(lines)) = Len(lines)
<1> DEFINE n == Len(lines)
           S == [lines : Seq(Line), open : Alphabet \cup {NONE}]
           step(v, k) == RawStep(v, lines[k])
           IsIt(h) == h = [k \in 0..n |-> IF k = 0 THEN [lines |-> <<>>, open |-> NONE] ELSE step(h[k - 1], k)]
           run == CHOOSE h : IsIt(h)
<1>1. n \in Nat /\ [lines |-> <<>>, open |-> NONE] \in S
  BY LenProperties, EmptySeq
<1>2. \A k \in 1..n : \A v \in S : step(v, k) \in S
  BY <1>1, ElementOfSeq, RawStepType DEF RawStep
<1>3. CleanseRawStrings(lines) = run[n].lines
  BY DEF CleanseRawStrings, Loop
<1>0. \A k \in 1..n : \A v \in S : Len(step(v, k).lines) = Len(v.lines) + 1
  BY <1>1, ElementOfSeq, RawStepType
<1>9. Len(<<>>) = 0 /\ [lines |-> <<>>, open |-> NONE].lines = <<>>
  BY EmptySeq
<1> HIDE DEF step, n, S
<1>4. PICK h : IsIt(h)
  <2> DEFINE f == [k \in 1..n |-> [v \in S |-> step(v, k)]]
  <2>1. \A k \in 1..n : \A v \in S : f[k][v] = step(v, k) /\ f[k][v] \in S
    BY <1>2
  <2> HIDE DEF f
  <2>2. PICK h : Unrolls(n, S, [lines |-> <<>>, open |-> NONE], f, h)
    BY <1>1, <2>1, RecursionExists
  <2>3. h \in [0..n -> S] /\ h[0] = [lines |-> <<>>, open |-> NONE] /\ \A k \in 1..n : h[k] = f[k][h[k - 1]]
    BY <2>2 DEF Unrolls
  <2>4. \A k \in 1..n : h[k - 1] \in S
    BY <1>1, <2>3
  <2>5. \A k \in 1..n : h[k] = step(h[k - 1], k)
    BY <2>1, <2>3, <2>4
  <2>6. \A k \in 0..n : k = 0 \/ k \in 1..n
    BY <1>1
  <2> QED
    BY <2>3, <2>5, <2>6
<1>5. IsIt(run)
  <2> HIDE DEF IsIt
  <2> QED
    BY <1>4
<1> HIDE DEF run
<1>6. run[0] = [lines |-> <<>>, open |-> NONE] /\ \A k \in 1..n : run[k] = step(run[k - 1], k)
  BY <1>1, <1>5
<1>7. \A k \in 0..n : run[k] \in S
  <2>1. \A k \in 1..n : run[k - 1] \in S => run[k] \in S
    BY <1>2, <1>6
  <2> QED
    BY <1>1, <1>6, <2>1, RunStays
<1>8. Len(run[n].lines) = n
  <2> DEFINE T == {k \in 0..n : Len(run[k].lines) = k}
  <2>1. 0 \in T
    BY <1>1, <1>6, <1>9
  <2>2. ASSUME NEW k \in 1..n, k - 1 \in T PROVE k \in T
    <3>1. run[k - 1] \in S /\ k - 1 \in 0..n /\ k \in 0..n
      BY <1>1, <1>7
    <3>2. Len(run[k].lines) = Len(run[k - 1].lines) + 1
      BY <1>0, <1>6, <3>1
    <3> QED
      BY <2>2, <3>1, <3>2
  <2> HIDE DEF T
  <2>3. n \in Nat
    BY <1>1
  <2>4. \A k \in 0..n : k \in T
    BY <2>1, <2>2, <2>3, Climbs
  <2>5. n \in T
    BY <2>3, <2>4
  <2> QED
    BY <2>5 DEF T
<1> QED
  BY <1>1, <1>3, <1>7, <1>8 DEF S, n

\* A comment of several lines is cleared in lines of the same number.
Removals(n) == {acc \in [lines : Seq(Line), from : Nat, unclosed : Nat] : Len(acc.lines) = n}

\* One comment of several lines is taken out: the number of lines stays.
LEMMA ClearCommentType ==
  ASSUME NEW n \in Nat, NEW acc \in Removals(n)
  PROVE  ClearComment(acc) \in Removals(n)
<1> DEFINE I == {i \in acc.from..n : OpensComment(acc.lines[i])}
           b == IF I # {} THEN Min(I) ELSE 0
           J == {i \in b..n : ClosesComment(acc.lines[i])}
           e == IF J # {} THEN Min(J) ELSE 0
           cleared == [i \in DOMAIN acc.lines |-> IF i \in b..e THEN Cleared ELSE acc.lines[i]]
<1>1. acc.lines \in Seq(Line) /\ Len(acc.lines) = n /\ acc.from \in Nat /\ acc.unclosed \in Nat
  BY DEF Removals
<1>2. b \in Nat
  <2>1. I \in SUBSET Nat
    BY <1>1
  <2> HIDE DEF I
  <2> QED
    BY <2>1, MinOfNaturals
<1>3. e \in Nat
  <2>1. J \in SUBSET Nat
    BY <1>2
  <2> HIDE DEF J
  <2> QED
    BY <2>1, MinOfNaturals
<1>4. cleared \in Seq(Line) /\ Len(cleared) = n
  <2>1. DOMAIN acc.lines = 1..n /\ \A i \in 1..n : acc.lines[i] \in Line
    BY <1>1, LenProperties, ElementOfSeq
  <2>2. cleared \in [1..n -> Line]
    BY <2>1, ShortLines
  <2> HIDE DEF cleared
  <2> QED
    BY <2>2, OnNumbers
<1>5. /\ SelectInSubSeq(acc.lines, acc.from, n, OpensComment) = b
      /\ SelectInSubSeq(acc.lines, b, n, ClosesComment) = e
  BY DEF SelectInSubSeq
<1>6. \/ ClearComment(acc) = acc
      \/ ClearComment(acc) = [acc EXCEPT !.unclosed = b]
      \/ ClearComment(acc) = [acc EXCEPT !.lines = cleared, !.from = e + 1]
  BY <1>1, <1>5 DEF ClearComment
<1> HIDE DEF b, e, cleared
<1>7. e + 1 \in Nat
  BY <1>3
<1> QED
  BY <1>1, <1>2, <1>4, <1>6, <1>7 DEF Removals

\* All comments.
LEMMA RemovedType ==
  ASSUME NEW lines \in Seq(Line)
  PROVE  RemoveMultiLineComments(lines).lines \in Seq(Line)
<1> DEFINE n == Len(lines)
           S == Removals(Len(lines))
           step(v, k) == ClearComment(v)
           IsIt(h) == h = [k \in 0..n |-> IF k = 0 THEN [lines |-> lines, from |-> 1, unclosed |-> 0] ELSE step(h[k - 1], k)]
           run == CHOOSE h : IsIt(h)
<1>1. n \in Nat /\ [lines |-> lines, from |-> 1, unclosed |-> 0] \in S
  BY LenProperties DEF Removals
<1>2. \A k \in 1..n : \A v \in S : step(v, k) \in S
  BY <1>1, ClearCommentType
<1>3. RemoveMultiLineComments(lines) = run[n]
  BY DEF RemoveMultiLineComments, Loop
<1> HIDE DEF step, n, S
<1>4. PICK h : IsIt(h)
  <2> DEFINE f == [k \in 1..n |-> [v \in S |-> step(v, k)]]
  <2>1. \A k \in 1..n : \A v \in S : f[k][v] = step(v, k) /\ f[k][v] \in S
    BY <1>2
  <2> HIDE DEF f
  <2>2. PICK h : Unrolls(n, S, [lines |-> lines, from |-> 1, unclosed |-> 0], f, h)
    BY <1>1, <2>1, RecursionExists
  <2>3. h \in [0..n -> S] /\ h[0] = [lines |-> lines, from |-> 1, unclosed |-> 0] /\ \A k \in 1..n : h[k] = f[k][h[k - 1]]
    BY <2>2 DEF Unrolls
  <2>4. \A k \in 1..n : h[k - 1] \in S
    BY <1>1, <2>3
  <2>5. \A k \in 1..n : h[k] = step(h[k - 1], k)
    BY <2>1, <2>3, <2>4
  <2>6. \A k \in 0..n : k = 0 \/ k \in 1..n
    BY <1>1
  <2> QED
    BY <2>3, <2>5, <2>6
<1>5. IsIt(run)
  <2> HIDE DEF IsIt
  <2> QED
    BY <1>4
<1> HIDE DEF run
<1>6. run[0] = [lines |-> lines, from |-> 1, unclosed |-> 0] /\ \A k \in 1..n : run[k] = step(run[k - 1], k)
  BY <1>1, <1>5
<1>7. \A k \in 0..n : run[k] \in S
  <2>1. \A k \in 1..n : run[k - 1] \in S => run[k] \in S
    BY <1>2, <1>6
  <2> QED
    BY <1>1, <1>6, <2>1, RunStays
<1> QED
  BY <1>1, <1>3, <1>7 DEF S, Removals

\* What has been read of a line, and what is left.
Splits == [done : Line, rest : Line]

\* One comment within a line is taken out.
LEMMA DropCommentType ==
  ASSUME NEW acc \in Splits
  PROVE  DropComment(acc) \in Splits
<1> DEFINE o == Find(acc.rest, {"/*"})
           tail == After(acc.rest, o)
           c == Find(tail, {"*/"})
           done == acc.done \o Before(acc.rest, o)
           rest == After(acc.rest, o + c)
<1>1. acc.done \in Line /\ acc.rest \in Line
  BY DEF Splits
<1>2. o \in 0..Len(acc.rest) /\ o \in Nat
  BY <1>1, FindType, LenProperties DEF Line
<1>3. tail \in Line
  BY <1>1, <1>2, AfterType
<1>4. c \in Nat
  BY <1>3, FindType, LenProperties DEF Line
<1>5. done \in Line /\ rest \in Line
  BY <1>1, <1>2, <1>4, AfterType, BeforeType, LinesJoin
<1>6. DropComment(acc) = acc \/ DropComment(acc) = [done |-> done, rest |-> rest]
  BY Zenon DEF DropComment
<1> HIDE DEF done, rest
<1> QED
  BY <1>5, <1>6 DEF Splits

\* Dropping all comments of a line.
LEMMA DropCStyleType ==
  ASSUME NEW line \in Line
  PROVE  DropCStyle(line) \in Line
<1> DEFINE n == Len(line)
           S == Splits
           step(v, k) == DropComment(v)
           IsIt(h) == h = [k \in 0..n |-> IF k = 0 THEN [done |-> <<>>, rest |-> line] ELSE step(h[k - 1], k)]
           run == CHOOSE h : IsIt(h)
<1>1. n \in Nat /\ [done |-> <<>>, rest |-> line] \in S
  BY LenProperties, ShortLines DEF Line, Splits
<1>2. \A k \in 1..n : \A v \in S : step(v, k) \in S
  BY DropCommentType
<1>3. DropCStyle(line) = run[n].done \o run[n].rest
  BY DEF DropCStyle, Loop
<1> HIDE DEF step, n, S
<1>4. PICK h : IsIt(h)
  <2> DEFINE f == [k \in 1..n |-> [v \in S |-> step(v, k)]]
  <2>1. \A k \in 1..n : \A v \in S : f[k][v] = step(v, k) /\ f[k][v] \in S
    BY <1>2
  <2> HIDE DEF f
  <2>2. PICK h : Unrolls(n, S, [done |-> <<>>, rest |-> line], f, h)
    BY <1>1, <2>1, RecursionExists
  <2>3. h \in [0..n -> S] /\ h[0] = [done |-> <<>>, rest |-> line] /\ \A k \in 1..n : h[k] = f[k][h[k - 1]]
    BY <2>2 DEF Unrolls
  <2>4. \A k \in 1..n : h[k - 1] \in S
    BY <1>1, <2>3
  <2>5. \A k \in 1..n : h[k] = step(h[k - 1], k)
    BY <2>1, <2>3, <2>4
  <2>6. \A k \in 0..n : k = 0 \/ k \in 1..n
    BY <1>1
  <2> QED
    BY <2>3, <2>5, <2>6
<1>5. IsIt(run)
  <2> HIDE DEF IsIt
  <2> QED
    BY <1>4
<1> HIDE DEF run
<1>6. run[0] = [done |-> <<>>, rest |-> line] /\ \A k \in 1..n : run[k] = step(run[k - 1], k)
  BY <1>1, <1>5
<1>7. \A k \in 0..n : run[k] \in S
  <2>1. \A k \in 1..n : run[k - 1] \in S => run[k] \in S
    BY <1>2, <1>6
  <2> QED
    BY <1>1, <1>6, <2>1, RunStays
<1> QED
  BY <1>1, <1>3, <1>7, LinesJoin DEF S, Splits

\* All comments of a line.
LEMMA CleanseCommentsType ==
  ASSUME NEW line \in Line
  PROVE  CleanseComments(line) \in Line
<1> DEFINE i == Find(line, {"//"})
           l == IF i # 0 /\ ~IsCppString(Before(line, i)) THEN Before(line, i) ELSE line
<1>1. l \in Line
  BY FindType, BeforeType
<1>2. CleanseComments(line) = DropCStyle(l)
  BY Zenon DEF CleanseComments
<1> HIDE DEF l
<1> QED
  BY <1>1, <1>2, DropCStyleType

-----------------------------------------------------------------------------
(* Lists, and the blocks around a line.                                    *)
\* A position that is found, or 0, is a natural number.
LEMMA FindIsNatural ==
  ASSUME NEW line \in Line, NEW T
  PROVE  Find(line, T) \in Nat
BY FindType, LenProperties DEF Line

\* The greatest of a set of naturals that are bounded.
LEMMA MaxOfNaturals ==
  ASSUME NEW n \in Int, NEW T \in SUBSET (1..n), T # {}
  PROVE  Max(T) \in T
<1> DEFINE U == {n - k : k \in T}
<1>1. U \in SUBSET Nat /\ U # {}
  <2>1. \A k \in T : n - k \in Nat
    OBVIOUS
  <2>2. PICK k \in T : TRUE
    OBVIOUS
  <2> QED
    BY <2>1, <2>2
<1>2. PICK m \in U : \A k \in U : m <= k
  <2> HIDE DEF U
  <2> QED
    BY <1>1, LeastNatural
<1>3. PICK j \in T : m = n - j
  BY <1>2
<1>4. \A k \in T : k <= j
  BY <1>2, <1>3
<1> QED
  BY <1>3, <1>4 DEF Max

\* A list is a function on the numbers up to its length.
LEMMA ListOf ==
  ASSUME NEW n \in Nat, NEW s, s = [i \in 1..n |-> s[i]]
  PROVE  IsList(s) /\ Len(s) = n
<1>1. \A i \in 1..n : s[i] \in Range(s)
  BY DEF Range
<1>2. s \in [1..n -> Range(s)]
  BY <1>1
<1> QED
  BY <1>2, OnNumbers DEF IsList

\* What is a sequence of anything is a list, and its length is a number.
LEMMA SeqIsList ==
  ASSUME NEW S, NEW s \in Seq(S)
  PROVE  IsList(s)
<1>1. Len(s) \in Nat /\ s = [i \in 1..Len(s) |-> s[i]]
  BY LenProperties
<1> QED
  BY <1>1, ListOf

\* The parts of a list.
LEMMA ListFacts ==
  ASSUME NEW s, IsList(s)
  PROVE  /\ Len(s) \in Nat /\ DOMAIN s = 1..Len(s)
         /\ s = [i \in 1..Len(s) |-> s[i]]
         /\ s # <<>> => Len(s) \in Nat \ {0}
<1>1. Len(s) \in Nat /\ DOMAIN s = 1..Len(s) /\ s = [i \in 1..Len(s) |-> s[i]]
  BY LenProperties DEF IsList
<1>2. s # <<>> => Len(s) # 0
  BY EmptySeq DEF IsList
<1> QED
  BY <1>1, <1>2

\* Lists of none and of one.
LEMMA ShortLists ==
  /\ IsList(<<>>)
  /\ \A x : IsList(<<x>>)
<1>1. IsList(<<>>)
  BY EmptySeq, SeqIsList
<1>2. ASSUME NEW x PROVE IsList(<<x>>)
  <2>1. <<x>> \in Seq({x})
    OBVIOUS
  <2> QED
    BY <2>1, SeqIsList
<1> QED
  BY <1>1, <1>2

\* What stands in one without and with one element.
LEMMA ShortRanges ==
  /\ Range(<<>>) = {}
  /\ \A x : Range(<<x>>) = {x}
<1>1. Range(<<>>) = {}
  BY EmptySeq DEF Range
<1>2. ASSUME NEW x PROVE Range(<<x>>) = {x}
  <2>1. DOMAIN <<x>> = {1} /\ <<x>>[1] = x
    OBVIOUS
  <2> QED
    BY <2>1 DEF Range
<1> QED
  BY <1>1, <1>2

\* What is appended to a list comes behind it.
LEMMA ListAppend ==
  ASSUME NEW s, IsList(s), NEW x
  PROVE  /\ IsList(Append(s, x)) /\ Len(Append(s, x)) = Len(s) + 1
         /\ \A i \in 1..Len(s) : Append(s, x)[i] = s[i]
         /\ Append(s, x)[Len(s) + 1] = x
<1> DEFINE S == Range(s) \cup {x}
<1>1. s \in Seq(S)
  BY SeqMonotonic DEF IsList
<1>2. x \in S
  OBVIOUS
<1> HIDE DEF S
<1>3. Append(s, x) \in Seq(S)
  BY <1>1, <1>2, AppendProperties
<1>4. /\ Len(Append(s, x)) = Len(s) + 1
      /\ \A i \in 1..Len(s) : Append(s, x)[i] = s[i]
      /\ Append(s, x)[Len(s) + 1] = x
  BY <1>1, <1>2, AppendProperties
<1> QED
  BY <1>3, <1>4, SeqIsList

\* Two lists make a list.
LEMMA ListConcat ==
  ASSUME NEW s, NEW t, IsList(s), IsList(t)
  PROVE  IsList(s \o t)
<1> DEFINE S == Range(s) \cup Range(t)
<1>1. s \in Seq(S) /\ t \in Seq(S)
  BY SeqMonotonic DEF IsList
<1> HIDE DEF S
<1>2. s \o t \in Seq(S)
  BY <1>1, ConcatProperties
<1> QED
  BY <1>2, SeqIsList

\* What is in either of two lists, and in both one behind the other.
LEMMA ListRange ==
  ASSUME NEW s, NEW t, IsList(s), IsList(t)
  PROVE  Range(s \o t) = Range(s) \cup Range(t)
<1> DEFINE S == Range(s) \cup Range(t)
<1>1. s \in Seq(S) /\ t \in Seq(S)
  BY SeqMonotonic DEF IsList
<1>2. DOMAIN s = 1..Len(s) /\ DOMAIN t = 1..Len(t) /\ Len(s) \in Nat /\ Len(t) \in Nat
  BY ListFacts
<1> HIDE DEF S
<1>3. /\ s \o t \in Seq(S) /\ Len(s \o t) = Len(s) + Len(t)
      /\ \A i \in 1..(Len(s) + Len(t)) : (s \o t)[i] = IF i <= Len(s) THEN s[i] ELSE t[i - Len(s)]
  BY <1>1, ConcatProperties
<1>4. DOMAIN (s \o t) = 1..(Len(s) + Len(t))
  BY <1>3, LenProperties
<1> DEFINE u == s \o t
<1> HIDE DEF u
<1>5. ASSUME NEW i \in DOMAIN u PROVE u[i] \in Range(s) \cup Range(t)
  <2>1. CASE i <= Len(s)
    BY <1>2, <1>3, <1>4, <1>5, <2>1 DEF Range, u
  <2>2. CASE ~(i <= Len(s))
    <3>1. i - Len(s) \in 1..Len(t) /\ u[i] = t[i - Len(s)]
      BY <1>2, <1>3, <1>4, <1>5, <2>2 DEF u
    <3> QED
      BY <1>2, <3>1 DEF Range
  <2> QED
    BY <2>1, <2>2
<1>6. ASSUME NEW i \in DOMAIN s PROVE s[i] \in Range(u)
  <2>1. i \in DOMAIN u /\ u[i] = s[i]
    BY <1>2, <1>3, <1>4, <1>6 DEF u
  <2> QED
    BY <2>1 DEF Range
<1>7. ASSUME NEW i \in DOMAIN t PROVE t[i] \in Range(u)
  <2>1. i + Len(s) \in DOMAIN u /\ u[i + Len(s)] = t[i]
    BY <1>2, <1>3, <1>4, <1>7 DEF u
  <2> QED
    BY <2>1 DEF Range
<1>8. Range(u) = Range(s) \cup Range(t)
  <2>1. Range(u) \subseteq Range(s) \cup Range(t)
    BY <1>5 DEF Range
  <2>2. Range(s) \subseteq Range(u)
    BY <1>6 DEF Range
  <2>3. Range(t) \subseteq Range(u)
    BY <1>7 DEF Range
  <2> QED
    BY <2>1, <2>2, <2>3
<1> QED
  BY <1>8 DEF u

\* Errors of line n.
IsReport(e, n) == IsList(e) /\ \A x \in Range(e) : x.line = n

\* None and one.
LEMMA ShortReports ==
  ASSUME NEW n
  PROVE  /\ IsReport(<<>>, n)
         /\ \A category, confidence : IsReport(<<Err(n, category, confidence)>>, n)
<1>1. Range(<<>>) = {} /\ \A x : Range(<<x>>) = {x}
  BY ShortRanges
<1>2. \A category, confidence : Err(n, category, confidence).line = n
  BY DEF Err
<1>3. IsReport(<<>>, n)
  BY <1>1, ShortLists DEF IsReport
<1>4. ASSUME NEW e, e.line = n PROVE IsReport(<<e>>, n)
  BY <1>1, <1>4, ShortLists DEF IsReport
<1> QED
  BY <1>2, <1>3, <1>4

\* Two reports of a line make one.
LEMMA ReportConcat ==
  ASSUME NEW n, NEW s, NEW t, IsReport(s, n), IsReport(t, n)
  PROVE  IsReport(s \o t, n)
<1>1. IsList(s) /\ IsList(t) /\ IsList(s \o t)
  BY ListConcat DEF IsReport
<1>2. Range(s \o t) = Range(s) \cup Range(t)
  BY <1>1, ListRange
<1> DEFINE u == s \o t
<1> HIDE DEF u
<1>3. IsReport(u, n)
  BY <1>1, <1>2 DEF IsReport, u
<1> QED
  BY <1>3 DEF u

\* The errors of the checks that are looked for apart, and reports without them.
Watched == {FnSize, BuildInclude, IncludeOrder}

IsAside(e, n) == IsReport(e, n) /\ \A x \in Range(e) : x.category \notin Watched

\* The categories of the other checks are others.
LEMMA OtherCategories ==
  {Nolint, EndOfNamespace, NamespaceIndent, MultilineComment, MultilineString, BlankLine, Copyright,
   IncludeSubdir, IncludeAlpha} \cap Watched = {}
BY DEF Watched, Nolint, EndOfNamespace, NamespaceIndent, MultilineComment, MultilineString, BlankLine,
       Copyright, IncludeSubdir, IncludeAlpha, FnSize, BuildInclude, IncludeOrder

\* None and one, of others.
LEMMA ShortAsides ==
  ASSUME NEW n
  PROVE  /\ IsAside(<<>>, n)
         /\ \A category, confidence : category \notin Watched => IsAside(<<Err(n, category, confidence)>>, n)
<1>1. Range(<<>>) = {} /\ \A x : Range(<<x>>) = {x}
  BY ShortRanges
<1>2. IsAside(<<>>, n)
  BY <1>1, ShortReports DEF IsAside
<1>3. ASSUME NEW category, NEW confidence, category \notin Watched
      PROVE  IsAside(<<Err(n, category, confidence)>>, n)
  <2> DEFINE e == Err(n, category, confidence)
  <2>1. e.category = category
    BY DEF Err
  <2>2. IsReport(<<e>>, n)
    BY ShortReports
  <2> HIDE DEF e
  <2>3. IsAside(<<e>>, n)
    BY <1>1, <1>3, <2>1, <2>2 DEF IsAside
  <2> QED
    BY <2>3 DEF e
<1> QED
  BY <1>2, <1>3

\* Two such reports of a line make one.
LEMMA AsideConcat ==
  ASSUME NEW n, NEW s, NEW t, IsAside(s, n), IsAside(t, n)
  PROVE  IsAside(s \o t, n)
<1>1. IsReport(s \o t, n)
  BY ReportConcat DEF IsAside
<1>2. Range(s \o t) = Range(s) \cup Range(t)
  BY ListRange DEF IsAside, IsReport
<1> DEFINE u == s \o t
<1> HIDE DEF u
<1>3. IsAside(u, n)
  BY <1>1, <1>2 DEF IsAside, u
<1> QED
  BY <1>3 DEF u

\* A list without its last element is one of the same elements.
LEMMA ListFront ==
  ASSUME NEW s, IsList(s), s # <<>>
  PROVE  IsList(Front(s)) /\ \A i \in 1..Len(Front(s)) : Front(s)[i] = s[i] /\ i \in 1..Len(s)
<1>1. Len(s) \in Nat \ {0}
  BY ListFacts
<1>2. \A i \in 1..(Len(s) - 1) : s[i] \in Range(s)
  BY <1>1, ListFacts DEF Range
<1>3. Front(s) = SubSeq(s, 1, Len(s) - 1)
  BY DEF Front
<1>4. SubSeq(s, 1, Len(s) - 1) = [i \in 1..(Len(s) - 1) |-> s[i]]
  BY <1>1
<1>5. Len(s) - 1 \in Nat
  BY <1>1
<1> DEFINE f == [i \in 1..(Len(s) - 1) |-> s[i]]
<1>6. f = [i \in 1..(Len(s) - 1) |-> f[i]] /\ \A i \in 1..(Len(s) - 1) : f[i] = s[i]
  OBVIOUS
<1>7. IsList(f) /\ Len(f) = Len(s) - 1
  <2> HIDE DEF f
  <2> QED
    BY <1>5, <1>6, ListOf
<1>8. Front(s) = f
  BY <1>3, <1>4
<1> HIDE DEF f
<1> QED
  BY <1>1, <1>6, <1>7, <1>8

\* Putting another element in place of the last one.
LEMMA ListOnTop ==
  ASSUME NEW s, IsList(s), s # <<>>, NEW b
  PROVE  /\ IsList(OnTop(s, b))
         /\ \A i \in 1..Len(OnTop(s, b)) : OnTop(s, b)[i] = b \/ \E k \in 1..Len(s) : OnTop(s, b)[i] = s[k]
<1>1. IsList(Front(s)) /\ \A i \in 1..Len(Front(s)) : Front(s)[i] = s[i] /\ i \in 1..Len(s)
  BY ListFront
<1> DEFINE f == Front(s)
<1> HIDE DEF f
<1>2. OnTop(s, b) = Append(f, b)
  BY DEF OnTop, f
<1>3. IsList(f) /\ \A i \in 1..Len(f) : f[i] = s[i] /\ i \in 1..Len(s)
  BY <1>1 DEF f
<1>4. /\ IsList(Append(f, b)) /\ Len(Append(f, b)) = Len(f) + 1 /\ Len(f) \in Nat
      /\ \A i \in 1..Len(f) : Append(f, b)[i] = f[i]
      /\ Append(f, b)[Len(f) + 1] = b
  BY <1>3, ListAppend, ListFacts
<1>5. ASSUME NEW i \in 1..Len(Append(f, b))
      PROVE  Append(f, b)[i] = b \/ \E k \in 1..Len(s) : Append(f, b)[i] = s[k]
  <2>1. i \in 1..Len(f) \/ i = Len(f) + 1
    BY <1>4
  <2> QED
    BY <1>3, <1>4, <2>1
<1> QED
  BY <1>2, <1>4, <1>5

\* The digits and words behind the separators of a number are tokens of the line.
LEMMA DigitsType ==
  ASSUME NEW line \in Line, NEW q \in Nat, q > 1
  PROVE  LET n == Separators(line, q)
         IN  n \in Nat /\ Digits(line, q, n) \in Line
<1> DEFINE Runs == {n \in 0..Len(line) : \A j \in 1..n : IsSeparator(line, q + 2 * j - 2)}
           n == Separators(line, q)
           digits == Digits(line, q, n)
<1>1. Len(line) \in Nat /\ \A k \in 1..Len(line) : line[k] \in Alphabet
  BY LenProperties, ElementOfSeq DEF Line
<1>2. Runs \in SUBSET (0..Len(line)) /\ Runs # {}
  <2>1. 0 \in Runs
    BY <1>1
  <2> QED
    BY <2>1
<1>3. n = Max(Runs)
  BY DEF Separators
<1>4. n \in Runs
  <2> HIDE DEF Runs, n
  <2> QED
    BY <1>1, <1>2, <1>3, MaxUpTo
<1>5. n \in Nat /\ \A j \in 1..n : IsSeparator(line, q + 2 * j - 2)
  BY <1>1, <1>4
<1>6. digits = [j \in 1..n |-> line[q + 2 * j - 1]]
  BY DEF Digits
<1> HIDE DEF n, digits
<1>7. ASSUME NEW j \in 1..n PROVE line[q + 2 * j - 1] \in Alphabet
  <2>1. q + 2 * j - 2 < Len(line)
    BY <1>5, <1>7 DEF IsSeparator
  <2>2. q + 2 * j - 1 \in 1..Len(line)
    BY <1>1, <1>5, <1>7, <2>1
  <2> QED
    BY <1>1, <2>2
<1>8. digits \in Seq(Alphabet)
  BY <1>5, <1>6, <1>7, IsASeq
<1> QED
  BY <1>5, <1>8 DEF Line, n, digits

\* The first string of what is left of a line is emptied.
LEMMA EmptyFirstType ==
  ASSUME NEW acc \in Splits
  PROVE  EmptyFirst(acc) \in Splits
<1> DEFINE line == acc.rest
           q == Find(line, {DQ, SQ})
           tail == After(line, q)
           second == Find(tail, {line[q]})
           front == acc.done \o Before(line, q)
           pair == <<line[q], line[q]>>
           done == front \o pair
           rest == After(line, q + second)
           n == IF q > 1 /\ line[q - 1] = NUM THEN Separators(line, q) ELSE 0
           joined == front \o Digits(line, q, n)
           behind == After(line, q + 2 * n - 1)
<1>1. acc.done \in Line /\ line \in Line
  BY DEF Splits
<1>2. q \in 0..Len(line) /\ q \in Nat /\ (q # 0 => line[q] \in Alphabet)
  BY <1>1, FindType, LenProperties DEF Line
<1>3. tail \in Line /\ front \in Line
  BY <1>1, <1>2, AfterType, BeforeType, LinesJoin
<1>4. second \in Nat
  BY <1>3, FindType, LenProperties DEF Line
<1>5. rest \in Line
  BY <1>1, <1>2, <1>4, AfterType
<1>6. q # 0 => done \in Line
  BY <1>2, <1>3, ShortLines, LinesJoin
<1>7. \/ EmptyFirst(acc) = acc
      \/ n > 0 /\ EmptyFirst(acc) = [done |-> joined, rest |-> behind]
      \/ q # 0 /\ EmptyFirst(acc) = [done |-> done, rest |-> rest]
  BY Zenon DEF EmptyFirst
<1>8. n > 0 => n = Separators(line, q) /\ q > 1
  OBVIOUS
<1>9. n > 0 => joined \in Line /\ behind \in Line
  <2>1. n > 0 => Digits(line, q, n) \in Line /\ n \in Nat
    BY <1>1, <1>2, <1>8, DigitsType
  <2>2. n > 0 => q + 2 * n - 1 \in Nat
    BY <1>2, <2>1
  <2> QED
    BY <1>1, <1>3, <2>1, <2>2, AfterType, LinesJoin
<1> HIDE DEF q, tail, front, done, rest, n, joined, behind
<1> QED
  BY <1>5, <1>6, <1>7, <1>9 DEF Splits

\* Emptying all strings of a line.
LEMMA EmptyStringsType ==
  ASSUME NEW line \in Line
  PROVE  EmptyStrings(line) \in Line
<1> DEFINE n == Len(line)
           S == Splits
           step(v, k) == EmptyFirst(v)
           IsIt(h) == h = [k \in 0..n |-> IF k = 0 THEN [done |-> <<>>, rest |-> line] ELSE step(h[k - 1], k)]
           run == CHOOSE h : IsIt(h)
<1>1. n \in Nat /\ [done |-> <<>>, rest |-> line] \in S
  BY LenProperties, ShortLines DEF Line, Splits
<1>2. \A k \in 1..n : \A v \in S : step(v, k) \in S
  BY EmptyFirstType
<1>3. EmptyStrings(line) = run[n].done \o run[n].rest
  BY DEF EmptyStrings, Loop
<1> HIDE DEF step, n, S
<1>4. PICK h : IsIt(h)
  <2> DEFINE f == [k \in 1..n |-> [v \in S |-> step(v, k)]]
  <2>1. \A k \in 1..n : \A v \in S : f[k][v] = step(v, k) /\ f[k][v] \in S
    BY <1>2
  <2> HIDE DEF f
  <2>2. PICK h : Unrolls(n, S, [done |-> <<>>, rest |-> line], f, h)
    BY <1>1, <2>1, RecursionExists
  <2>3. h \in [0..n -> S] /\ h[0] = [done |-> <<>>, rest |-> line] /\ \A k \in 1..n : h[k] = f[k][h[k - 1]]
    BY <2>2 DEF Unrolls
  <2>4. \A k \in 1..n : h[k - 1] \in S
    BY <1>1, <2>3
  <2>5. \A k \in 1..n : h[k] = step(h[k - 1], k)
    BY <2>1, <2>3, <2>4
  <2>6. \A k \in 0..n : k = 0 \/ k \in 1..n
    BY <1>1
  <2> QED
    BY <2>3, <2>5, <2>6
<1>5. IsIt(run)
  <2> HIDE DEF IsIt
  <2> QED
    BY <1>4
<1> HIDE DEF run
<1>6. run[0] = [done |-> <<>>, rest |-> line] /\ \A k \in 1..n : run[k] = step(run[k - 1], k)
  BY <1>1, <1>5
<1>7. \A k \in 0..n : run[k] \in S
  <2>1. \A k \in 1..n : run[k - 1] \in S => run[k] \in S
    BY <1>2, <1>6
  <2> QED
    BY <1>1, <1>6, <2>1, RunStays
<1> QED
  BY <1>1, <1>3, <1>7, LinesJoin DEF S, Splits

\* A line without strings is a line.
LEMMA CollapseType ==
  ASSUME NEW line \in Line
  PROVE  _CollapseStrings(line) \in Line
<1>1. _CollapseStrings(line) = line \/ _CollapseStrings(line) = EmptyStrings(line)
  BY Zenon DEF _CollapseStrings
<1> QED
  BY <1>1, EmptyStringsType

\* The lines of a file, and what is read of them.
LEMMA CleansedLinesType ==
  ASSUME NEW lines \in Seq(Line)
  PROVE  /\ CleansedLines(lines).raw = lines
         /\ CleansedLines(lines).elided \in Seq(Line)
         /\ Len(CleansedLines(lines).elided) = Len(lines)
         /\ CleansedLines(lines).lines \in Seq(Line)
         /\ Len(CleansedLines(lines).lines) = Len(lines)
<1> DEFINE noraw == CleanseRawStrings(lines)
           clean == [i \in DOMAIN noraw |-> CleanseComments(noraw[i])]
           elided == [i \in DOMAIN noraw |-> CleanseComments(_CollapseStrings(noraw[i]))]
<1>1. noraw \in Seq(Line) /\ Len(noraw) = Len(lines)
  BY CleansedType
<1>2. /\ CleansedLines(lines).raw = lines /\ CleansedLines(lines).elided = elided
       /\ CleansedLines(lines).lines = clean
  BY DEF CleansedLines, LinesWithout
<1> HIDE DEF noraw
<1>3. Len(noraw) \in Nat /\ DOMAIN noraw = 1..Len(noraw) /\ \A i \in 1..Len(noraw) : noraw[i] \in Line
  BY <1>1, LenProperties, ElementOfSeq
<1>4. \A i \in 1..Len(noraw) : /\ CleanseComments(_CollapseStrings(noraw[i])) \in Line
                              /\ CleanseComments(noraw[i]) \in Line
  BY <1>3, CollapseType, CleanseCommentsType
<1>5. elided \in [1..Len(noraw) -> Line] /\ clean \in [1..Len(noraw) -> Line]
  BY <1>3, <1>4
<1> HIDE DEF elided, clean
<1>6. /\ elided \in Seq(Line) /\ Len(elided) = Len(noraw)
      /\ clean \in Seq(Line) /\ Len(clean) = Len(noraw)
  BY <1>3, <1>5, OnNumbers
<1> QED
  BY <1>1, <1>2, <1>6

\* A line of a file without assembly has no mark of it.
IsText(line, calm) == line \in Line /\ (calm => ~Has(line, "asm"))

\* What is behind a position of such a line is such a line.
LEMMA TextAfter ==
  ASSUME NEW calm, NEW line, IsText(line, calm), NEW i \in Nat
  PROVE  IsText(After(line, i), calm)
<1>1. After(line, i) \in Line
  BY AfterType DEF IsText
<1>2. line \in Seq(Alphabet) /\ Len(line) \in Nat
  BY LenProperties DEF IsText, Line
<1>3. ASSUME NEW k \in DOMAIN After(line, i)
      PROVE  \E j \in DOMAIN line : After(line, i)[k] = line[j]
  <2>1. k \in 1..(Len(line) - i) /\ After(line, i)[k] = line[i + k]
    BY <1>2, <1>3 DEF After
  <2>2. i + k \in DOMAIN line
    BY <1>2, <2>1, LenProperties
  <2> QED
    BY <2>1, <2>2
<1>4. Has(After(line, i), "asm") => Has(line, "asm")
  BY <1>3 DEF Has
<1> QED
  BY <1>1, <1>4 DEF IsText

\* A block on a stack, and nothing else that is not on it,
LEMMA StackAppend ==
  ASSUME NEW calm, NEW s, IsStack(s, calm), NEW b, IsSound(b, calm)
  PROVE  IsStack(Append(s, b), calm)
<1>1. IsList(s) /\ (\A i \in 1..Len(s) : IsSound(s[i], calm)) /\ Len(s) \in Nat
  BY ListFacts DEF IsStack
<1> DEFINE t == Append(s, b)
<1>2. /\ IsList(t) /\ Len(t) = Len(s) + 1
      /\ \A i \in 1..Len(s) : t[i] = s[i]
      /\ t[Len(s) + 1] = b
  BY <1>1, ListAppend
<1>3. DOMAIN t = 1..Len(t)
  BY <1>2, ListFacts
<1> HIDE DEF t
<1>4. \A i \in 1..Len(t) : i \in 1..Len(s) \/ i = Len(s) + 1
  BY <1>1, <1>2
<1>5. \A i \in 1..Len(t) : IsSound(t[i], calm)
  BY <1>1, <1>2, <1>4
<1>6. IsStack(t, calm)
  BY <1>2, <1>3, <1>5 DEF IsStack
<1> QED
  BY <1>6 DEF t

\* a stack without its top,
LEMMA StackFront ==
  ASSUME NEW calm, NEW s, IsStack(s, calm), s # <<>>
  PROVE  IsStack(Front(s), calm)
<1>1. IsList(s) /\ \A i \in 1..Len(s) : IsSound(s[i], calm)
  BY ListFacts DEF IsStack
<1> DEFINE t == Front(s)
<1>2. IsList(t) /\ \A i \in 1..Len(t) : t[i] = s[i] /\ i \in 1..Len(s)
  BY <1>1, ListFront
<1>3. DOMAIN t = 1..Len(t)
  BY <1>2, ListFacts
<1> HIDE DEF t
<1>4. IsStack(t, calm)
  BY <1>1, <1>2, <1>3 DEF IsStack
<1> QED
  BY <1>4 DEF t

\* and one with another top.
LEMMA StackOnTop ==
  ASSUME NEW calm, NEW s, IsStack(s, calm), s # <<>>, NEW b, IsSound(b, calm)
  PROVE  IsStack(OnTop(s, b), calm)
<1>1. IsStack(Front(s), calm)
  BY StackFront
<1> DEFINE f == Front(s)
<1>2. OnTop(s, b) = Append(f, b)
  BY DEF OnTop
<1> HIDE DEF f
<1> QED
  BY <1>1, <1>2, StackAppend DEF f

\* The top of a stack.
LEMMA StackLast ==
  ASSUME NEW calm, NEW s, IsStack(s, calm), s # <<>>
  PROVE  IsSound(Last(s), calm)
<1>1. Len(s) \in Nat \ {0} /\ DOMAIN s = 1..Len(s)
  BY ListFacts DEF IsStack
<1>2. Len(s) \in DOMAIN s
  BY <1>1
<1> QED
  BY <1>2 DEF IsStack, Last

\* A block stays sound,
LEMMA SoundStays ==
  ASSUME NEW calm, NEW b, IsSound(b, calm), NEW x
  PROVE  /\ IsSound([b EXCEPT !.open = TRUE], calm) /\ IsSound([b EXCEPT !.asm = "no"], calm)
         /\ IsSound([b EXCEPT !.last = x], calm)
<1>1. ASSUME NEW c, \/ c = [b EXCEPT !.open = TRUE] \/ c = [b EXCEPT !.asm = "no"]
                    \/ c = [b EXCEPT !.last = x]
      PROVE  IsSound(c, calm)
  <2>1. CASE c = [b EXCEPT !.open = TRUE]
    BY <2>1 DEF IsSound, IsBlock
  <2>2. CASE c = [b EXCEPT !.asm = "no"]
    BY <2>2 DEF IsSound, IsBlock
  <2>3. CASE c = [b EXCEPT !.last = x]
    BY <2>3 DEF IsSound, IsBlock
  <2> QED
    BY <1>1, <2>1, <2>2, <2>3
<1> QED
  BY <1>1, Zenon

\* also with other parentheses.
LEMMA SoundCount ==
  ASSUME NEW calm, NEW b, IsSound(b, calm), NEW parens \in Int, NEW asm,
         asm = "inside" => parens # 0, calm => asm = "no"
  PROVE  IsSound([b EXCEPT !.parens = parens, !.asm = asm], calm)
<1>1. ASSUME NEW c, c = [b EXCEPT !.parens = parens, !.asm = asm] PROVE IsSound(c, calm)
  BY <1>1 DEF IsSound, IsBlock
<1> QED
  BY <1>1, Zenon

\* No block, and a new one.
LEMMA NewBlocks ==
  ASSUME NEW calm
  PROVE  /\ IsStack(<<>>, calm)
         /\ \A name, number, open : IsSound(_NamespaceInfo(name, number, open), calm)
         /\ \A elided, number : IsSound(_ClassInfo(elided, number), calm)
         /\ \A number : /\ IsSound(_ExternCInfo(number), calm)
                        /\ IsSound(_BlockInfo("block", number, TRUE), calm)
                        /\ ~calm => IsSound([_BlockInfo("block", number, TRUE) EXCEPT !.asm = "block"], calm)
<1>1. IsStack(<<>>, calm)
  BY ShortLists, EmptySeq DEF IsStack
<1>2. \A kind, number, open : IsSound(_BlockInfo(kind, number, open), calm)
  BY DEF IsSound, IsBlock, _BlockInfo
<1>3. \A name, number, open : IsSound(_NamespaceInfo(name, number, open), calm)
  BY DEF IsSound, IsBlock, _BlockInfo, _NamespaceInfo
<1>4. \A elided, number : IsSound(_ClassInfo(elided, number), calm)
  <2> TAKE elided, number
  <2>1. PICK k : _ClassInfo(elided, number) = [_BlockInfo("class", number, FALSE) EXCEPT !.last = k]
    BY Zenon DEF _ClassInfo
  <2>2. IsSound([_BlockInfo("class", number, FALSE) EXCEPT !.last = k], calm)
    BY <1>2, SoundStays, Zenon
  <2> QED
    BY <2>1, <2>2, Zenon
<1>5. \A number : ~calm => IsSound([_BlockInfo("block", number, TRUE) EXCEPT !.asm = "block"], calm)
  <2> TAKE number
  <2>1. IsBlock(_BlockInfo("block", number, TRUE)) /\ _BlockInfo("block", number, TRUE).parens = 0
    BY DEF IsBlock, _BlockInfo
  <2>2. ASSUME ~calm, NEW b, IsBlock(b), b.parens = 0, NEW c, c = [b EXCEPT !.asm = "block"]
        PROVE  IsSound(c, calm)
    BY <2>2 DEF IsSound, IsBlock
  <2> QED
    BY <2>1, <2>2, Zenon
<1> QED
  BY <1>1, <1>2, <1>3, <1>4, <1>5 DEF _ExternCInfo

\* No assembly begins in the lines.
LEMMA NoAsm ==
  ASSUME NEW calm, NEW line, IsText(line, calm)
  PROVE  calm => ~MatchAsm(line)
<1>1. MatchAsm(line) => Len(line) > 1 /\ line[1] = "asm"
  BY Zenon DEF MatchAsm
<1>2. DOMAIN line = 1..Len(line) /\ Len(line) \in Nat
  BY LenProperties DEF IsText, Line
<1>3. Len(line) > 1 => 1 \in DOMAIN line
  BY <1>2
<1> QED
  BY <1>1, <1>3, Zenon DEF IsText, Has

\* Taking a namespace from the front of what is left of a line.
LEMMA TakeNamespaceKeeps ==
  ASSUME NEW calm, NEW acc, IsStack(acc.stack, calm), IsText(acc.line, calm), NEW number
  PROVE  /\ IsStack(TakeNamespace(acc, number).stack, calm)
         /\ IsText(TakeNamespace(acc, number).line, calm)
<1> DEFINE named == Len(acc.line) > 1 /\ IsWord(acc.line[2])
           count == IF named THEN 2 ELSE 1
           rest  == After(acc.line, count)
           brace == Find(rest, {"{"})
           new   == _NamespaceInfo(IF named THEN acc.line[2] ELSE NONE, number, brace # 0)
           stack == Append(acc.stack, new)
           line  == After(rest, brace)
<1>1. count \in Nat
  OBVIOUS
<1>2. IsText(rest, calm)
  <2> HIDE DEF count
  <2> QED
    BY <1>1, TextAfter
<1>3. brace \in Nat
  <2> HIDE DEF rest
  <2> QED
    BY <1>2, FindIsNatural, Zenon DEF IsText
<1>4. IsText(line, calm)
  <2> HIDE DEF rest, brace
  <2> QED
    BY <1>2, <1>3, TextAfter
<1>5. IsStack(stack, calm)
  <2>1. IsSound(new, calm)
    BY NewBlocks
  <2> HIDE DEF new
  <2> QED
    BY <2>1, StackAppend
<1>6. TakeNamespace(acc, number) = acc \/ TakeNamespace(acc, number) = [stack |-> stack, line |-> line]
  BY Zenon DEF TakeNamespace
<1> HIDE DEF stack, line
<1> QED
  BY <1>4, <1>5, <1>6

\* Taking all of them: one after the other,
LEMMA NamespacesUnroll ==
  ASSUME NEW stack, NEW line \in Line, NEW number
  PROVE  \E run : /\ run[0] = [stack |-> stack, line |-> line]
                  /\ \A k \in 1..Len(line) : run[k] = TakeNamespace(run[k - 1], number)
                  /\ TakeNamespaces(stack, line, number) = run[Len(line)]
<1> DEFINE n == Len(line)
           x == [stack |-> stack, line |-> line]
           step(v, k) == TakeNamespace(v, number)
           IsRun(h, m) == h = [k \in 0..m |-> IF k = 0 THEN x ELSE step(h[k - 1], k)]
           run == CHOOSE h : IsRun(h, n)
<1>1. n \in Nat
  BY LenProperties DEF Line
<1>3. TakeNamespaces(stack, line, number) = run[n]
  BY DEF TakeNamespaces, Loop
<1> HIDE DEF step, n, x
<1>4. \E h : IsRun(h, n)
  <2> DEFINE T == {m \in 0..n : \E h : IsRun(h, m)}
  <2>1. 0 \in T
    <3> DEFINE h == [k \in 0..0 |-> x]
    <3>0. \A k \in 0..0 : x = IF k = 0 THEN x ELSE step(h[k - 1], k)
      OBVIOUS
    <3>1. IsRun(h, 0)
      BY <3>0
    <3> HIDE DEF h, IsRun
    <3> QED
      BY <1>1, <3>1
  <2>2. ASSUME NEW m \in 1..n, m - 1 \in T PROVE m \in T
    <3>1. PICK h : IsRun(h, m - 1)
      BY <2>2
    <3> DEFINE h2 == [k \in 0..m |-> IF k = m THEN step(h[m - 1], m) ELSE h[k]]
    <3>2. h2[m] = step(h[m - 1], m) /\ \A k \in 0..(m - 1) : h2[k] = h[k]
      OBVIOUS
    <3>3. \A k \in 0..(m - 1) : h[k] = IF k = 0 THEN x ELSE step(h[k - 1], k)
      BY <3>1
    <3>4. ASSUME NEW k \in 0..m PROVE h2[k] = IF k = 0 THEN x ELSE step(h2[k - 1], k)
      <4> HIDE DEF h2
      <4>1. CASE k = m
        BY <3>2, <4>1
      <4>2. CASE k # m
        <5>1. k \in 0..(m - 1) /\ (k # 0 => k - 1 \in 0..(m - 1))
          BY <4>2
        <5> QED
          BY <3>2, <3>3, <5>1
      <4> QED
        BY <4>1, <4>2
    <3>5. h2 = [k \in 0..m |-> h2[k]]
      OBVIOUS
    <3> HIDE DEF h2
    <3>6. IsRun(h2, m)
      BY <3>4, <3>5
    <3> QED
      BY <3>6
  <2> HIDE DEF T
  <2>3. \A k \in 0..n : k \in T
    BY <1>1, <2>1, <2>2, Climbs
  <2>4. n \in T
    BY <1>1, <2>3
  <2> QED
    BY <2>4 DEF T
<1>5. IsRun(run, n)
  <2> HIDE DEF IsRun
  <2> QED
    BY <1>4
<1> HIDE DEF run
<1>6. run[0] = x /\ \A k \in 1..n : run[k] = step(run[k - 1], k)
  BY <1>1, <1>5
<1> HIDE DEF IsRun
<1> QED
  BY <1>3, <1>6 DEF x, n, step

\* which leaves a list and a line.
LEMMA NamespacesKeep ==
  ASSUME NEW calm, NEW stack, IsStack(stack, calm), NEW line, IsText(line, calm), NEW number
  PROVE  /\ IsStack(TakeNamespaces(stack, line, number).stack, calm)
         /\ IsText(TakeNamespaces(stack, line, number).line, calm)
<1> DEFINE n == Len(line)
           P(v) == IsStack(v.stack, calm) /\ IsText(v.line, calm)
<1>1. n \in Nat /\ line \in Line
  BY LenProperties DEF Line, IsText
<1>2. PICK run : /\ run[0] = [stack |-> stack, line |-> line]
                 /\ \A k \in 1..n : run[k] = TakeNamespace(run[k - 1], number)
                 /\ TakeNamespaces(stack, line, number) = run[n]
  BY <1>1, NamespacesUnroll
<1> DEFINE T == {k \in 0..n : P(run[k])}
<1> HIDE DEF n
<1>3. 0 \in T
  BY <1>1, <1>2
<1>4. ASSUME NEW k \in 1..n, k - 1 \in T PROVE k \in T
  <2>1. P(run[k - 1])
    BY <1>4
  <2>2. P(TakeNamespace(run[k - 1], number))
    BY <2>1, TakeNamespaceKeeps
  <2> QED
    BY <1>2, <2>2
<1>5. n \in T
  <2> HIDE DEF T
  <2>1. \A k \in 0..n : k \in T
    BY <1>1, <1>3, <1>4, Climbs
  <2> QED
    BY <1>1, <2>1
<1> QED
  BY <1>2, <1>5

\* The head of a class ends at a position of the line.
LEMMA DeclarationEndType ==
  ASSUME NEW line \in Line
  PROVE  DeclarationEnd(line) \in Nat
<1> DEFINE inTemplate(i) ==
             /\ i > 3 /\ line[1] = "template" /\ line[2] = "<" /\ line[i - 1] = ">"
             /\ \A k \in 3..(i - 2) : IsWord(line[k]) \/ line[k] \in {"<", ">", ",", ":", "="}
           starts == {i \in 1..(Len(line) - 1) :
                        line[i] = "class" /\ IsWord(line[i + 1]) /\ (i = 1 \/ inTemplate(i))}
           name == Max(starts) + 1
<1>1. Len(line) \in Nat
  BY LenProperties DEF Line
<1>2. starts \subseteq 1..(Len(line) - 1)
  OBVIOUS
<1>3. \/ starts = {} /\ DeclarationEnd(line) = 0
      \/ starts # {} /\ DeclarationEnd(line) = name
      \/ starts # {} /\ DeclarationEnd(line) = name + 1
  BY Zenon DEF DeclarationEnd
<1> HIDE DEF starts
<1>4. starts # {} => Max(starts) \in starts
  <2>1. Len(line) - 1 \in Int
    BY <1>1
  <2> QED
    BY <1>2, <2>1, MaxOfNaturals
<1>7. \A i \in starts : i \in Nat
  BY <1>1, <1>2
<1>5. starts # {} => Max(starts) \in Nat
  BY <1>4, <1>7, Zenon
<1>6. starts # {} => Max(starts) + 1 \in Nat
  BY <1>5
<1> HIDE DEF name
<1> QED
  BY <1>3, <1>5, <1>6 DEF name

\* Taking a class from the front of what is left.
LEMMA TakeClassKeeps ==
  ASSUME NEW calm, NEW acc, IsStack(acc.stack, calm), IsText(acc.line, calm), NEW elided, NEW number
  PROVE  /\ IsStack(TakeClass(acc, elided, number).stack, calm)
         /\ IsText(TakeClass(acc, elided, number).line, calm)
<1> DEFINE end == DeclarationEnd(acc.line)
           new == _ClassInfo(elided, number)
           stack == Append(acc.stack, new)
           line == After(acc.line, end)
<1>1. end \in Nat
  BY DeclarationEndType DEF IsText
<1>2. IsText(line, calm)
  <2> HIDE DEF end
  <2> QED
    BY <1>1, TextAfter
<1>3. IsStack(stack, calm)
  <2>1. IsSound(new, calm)
    BY NewBlocks
  <2> HIDE DEF new
  <2> QED
    BY <2>1, StackAppend
<1>4. TakeClass(acc, elided, number) = acc
        \/ TakeClass(acc, elided, number) = [stack |-> stack, line |-> line]
  BY Zenon DEF TakeClass
<1> HIDE DEF stack, line
<1> QED
  BY <1>2, <1>3, <1>4

\* What one token does to the stack.
LEMMA TakeTokenKeeps ==
  ASSUME NEW calm, NEW stack, IsStack(stack, calm), NEW t \in {"{", ";", ")", "}"},
         NEW line, IsText(line, calm), NEW number
  PROVE  IsStack(TakeToken(stack, t, line, number), calm)
<1> DEFINE new == IF MatchExternC(line) THEN _ExternCInfo(number)
                  ELSE [_BlockInfo("block", number, TRUE) EXCEPT
                          !.asm = IF MatchAsm(line) THEN "block" ELSE "no"]
           seen == OnTop(stack, [Last(stack) EXCEPT !.open = TRUE])
<1>1. IsStack(Append(stack, new), calm)
  <2>1. \/ new = _ExternCInfo(number)
        \/ new = [_BlockInfo("block", number, TRUE) EXCEPT !.asm = "no"]
        \/ ~calm /\ new = [_BlockInfo("block", number, TRUE) EXCEPT !.asm = "block"]
    BY NoAsm, Zenon
  <2>2. /\ IsSound(_ExternCInfo(number), calm)
        /\ IsSound([_BlockInfo("block", number, TRUE) EXCEPT !.asm = "no"], calm)
        /\ ~calm => IsSound([_BlockInfo("block", number, TRUE) EXCEPT !.asm = "block"], calm)
    BY NewBlocks, SoundStays, Zenon
  <2>3. IsSound(new, calm)
    BY <2>1, <2>2, Zenon
  <2> HIDE DEF new
  <2> QED
    BY <2>3, StackAppend
<1>2. ~SeenOpenBrace(stack) => stack # <<>>
  BY Zenon DEF SeenOpenBrace
<1>3. stack # <<>> => IsStack(Front(stack), calm) /\ IsStack(seen, calm)
  <2>1. stack # <<>> => IsSound([Last(stack) EXCEPT !.open = TRUE], calm)
    BY StackLast, SoundStays, Zenon
  <2> QED
    BY <2>1, StackFront, StackOnTop
<1>4. \/ TakeToken(stack, t, line, number) = Append(stack, new)
      \/ ~SeenOpenBrace(stack) /\ TakeToken(stack, t, line, number) = seen
      \/ TakeToken(stack, t, line, number) = stack
      \/ stack # <<>> /\ TakeToken(stack, t, line, number) = Front(stack)
  <2>1. CASE t = "{" /\ ~SeenOpenBrace(stack)
    BY <2>1 DEF TakeToken
  <2>2. CASE t = "{" /\ SeenOpenBrace(stack)
    BY <2>2 DEF TakeToken
  <2>3. CASE t \in {";", ")"}
    BY <1>2, <2>3 DEF TakeToken
  <2>4. CASE t = "}"
    BY <2>4 DEF TakeToken
  <2> QED
    BY <2>1, <2>2, <2>3, <2>4
<1> HIDE DEF new, seen
<1> QED
  BY <1>1, <1>2, <1>3, <1>4

\* The parts of what is known of the blocks around a line.
LEMMA NestingIs ==
  ASSUME NEW calm,
         NEW s, s = [stack |-> s.stack, previous_stack_top |-> s.previous_stack_top,
                     pp_stack |-> s.pp_stack],
         IsStack(s.stack, calm), IsList(s.pp_stack),
         \A i \in 1..Len(s.pp_stack) : IsCheckpoint(s.pp_stack[i], calm)
  PROVE  IsNesting(s, calm)
BY ListFacts DEF IsNesting

\* The end of a block reports at most that its comment is missing.
LEMMA CheckEndIsReport ==
  ASSUME NEW block, NEW raw, NEW number
  PROVE  IsAside(CheckEnd(block, raw, number), number)
<1>1. CheckEnd(block, raw, number) = <<>> \/ CheckEnd(block, raw, number) = <<Err(number, EndOfNamespace, 5)>>
  BY Zenon DEF CheckEnd
<1> QED
  BY <1>1, ShortAsides, OtherCategories

\* Taking one brace, semicolon or parenthesis from what is left.
LEMMA TakeBraceKeeps ==
  ASSUME NEW calm, NEW number, NEW raw,
         NEW acc, IsStack(acc.stack, calm), IsText(acc.line, calm), IsAside(acc.errors, number)
  PROVE  /\ IsStack(TakeBrace(acc, raw, number).stack, calm)
         /\ IsText(TakeBrace(acc, raw, number).line, calm)
         /\ IsAside(TakeBrace(acc, raw, number).errors, number)
<1> DEFINE i == Find(acc.line, {"{", ";", ")", "}"})
           t == acc.line[i]
           ended == IF t = "}" /\ acc.stack # <<>> THEN CheckEnd(Last(acc.stack), raw, number)
                    ELSE <<>>
           stack == TakeToken(acc.stack, t, acc.line, number)
           line == After(acc.line, i)
           errors == acc.errors \o ended
<1>1. i \in Nat /\ (i # 0 => t \in {"{", ";", ")", "}"})
  BY FindType, FindIsNatural, Zenon DEF IsText
<1>2. IsAside(ended, number)
  <2>1. ended = CheckEnd(Last(acc.stack), raw, number) \/ ended = <<>>
    OBVIOUS
  <2> QED
    BY <2>1, CheckEndIsReport, ShortAsides
<1>3. i # 0 => IsStack(stack, calm)
  <2> HIDE DEF t
  <2> QED
    BY <1>1, TakeTokenKeeps
<1>4. IsText(line, calm)
  <2> HIDE DEF i
  <2> QED
    BY <1>1, TextAfter
<1>5. IsAside(errors, number)
  <2> HIDE DEF ended
  <2> QED
    BY <1>2, AsideConcat
<1>6. \/ TakeBrace(acc, raw, number) = acc
      \/ i # 0 /\ TakeBrace(acc, raw, number) = [stack |-> stack, line |-> line, errors |-> errors]
  BY Zenon DEF TakeBrace
<1> HIDE DEF i, stack, line, errors
<1> QED
  BY <1>3, <1>4, <1>5, <1>6

\* Taking all of them: one after the other,
LEMMA BracesUnroll ==
  ASSUME NEW heads, heads.line \in Line, NEW raw, NEW number
  PROVE  \E run : /\ run[0] = [stack |-> heads.stack, line |-> heads.line, errors |-> <<>>]
                  /\ \A k \in 1..Len(heads.line) : run[k] = TakeBrace(run[k - 1], raw, number)
                  /\ TakeBraces(heads, raw, number) = run[Len(heads.line)]
<1> DEFINE n == Len(heads.line)
           x == [stack |-> heads.stack, line |-> heads.line, errors |-> <<>>]
           step(v, k) == TakeBrace(v, raw, number)
           IsRun(h, m) == h = [k \in 0..m |-> IF k = 0 THEN x ELSE step(h[k - 1], k)]
           run == CHOOSE h : IsRun(h, n)
<1>1. n \in Nat
  BY LenProperties DEF Line
<1>3. TakeBraces(heads, raw, number) = run[n]
  BY DEF TakeBraces, Loop
<1> HIDE DEF step, n, x
<1>4. \E h : IsRun(h, n)
  <2> DEFINE T == {m \in 0..n : \E h : IsRun(h, m)}
  <2>1. 0 \in T
    <3> DEFINE h == [k \in 0..0 |-> x]
    <3>0. \A k \in 0..0 : x = IF k = 0 THEN x ELSE step(h[k - 1], k)
      OBVIOUS
    <3>1. IsRun(h, 0)
      BY <3>0
    <3> HIDE DEF h, IsRun
    <3> QED
      BY <1>1, <3>1
  <2>2. ASSUME NEW m \in 1..n, m - 1 \in T PROVE m \in T
    <3>1. PICK h : IsRun(h, m - 1)
      BY <2>2
    <3> DEFINE h2 == [k \in 0..m |-> IF k = m THEN step(h[m - 1], m) ELSE h[k]]
    <3>2. h2[m] = step(h[m - 1], m) /\ \A k \in 0..(m - 1) : h2[k] = h[k]
      OBVIOUS
    <3>3. \A k \in 0..(m - 1) : h[k] = IF k = 0 THEN x ELSE step(h[k - 1], k)
      BY <3>1
    <3>4. ASSUME NEW k \in 0..m PROVE h2[k] = IF k = 0 THEN x ELSE step(h2[k - 1], k)
      <4> HIDE DEF h2
      <4>1. CASE k = m
        BY <3>2, <4>1
      <4>2. CASE k # m
        <5>1. k \in 0..(m - 1) /\ (k # 0 => k - 1 \in 0..(m - 1))
          BY <4>2
        <5> QED
          BY <3>2, <3>3, <5>1
      <4> QED
        BY <4>1, <4>2
    <3>5. h2 = [k \in 0..m |-> h2[k]]
      OBVIOUS
    <3> HIDE DEF h2
    <3>6. IsRun(h2, m)
      BY <3>4, <3>5
    <3> QED
      BY <3>6
  <2> HIDE DEF T
  <2>3. \A k \in 0..n : k \in T
    BY <1>1, <2>1, <2>2, Climbs
  <2>4. n \in T
    BY <1>1, <2>3
  <2> QED
    BY <2>4 DEF T
<1>5. IsRun(run, n)
  <2> HIDE DEF IsRun
  <2> QED
    BY <1>4
<1> HIDE DEF run
<1>6. run[0] = x /\ \A k \in 1..n : run[k] = step(run[k - 1], k)
  BY <1>1, <1>5
<1> HIDE DEF IsRun
<1> QED
  BY <1>3, <1>6 DEF x, n, step

\* which leaves a list and reports errors of the line.
LEMMA BracesKeep ==
  ASSUME NEW calm, NEW number, NEW raw, NEW heads, IsStack(heads.stack, calm), IsText(heads.line, calm)
  PROVE  /\ IsStack(TakeBraces(heads, raw, number).stack, calm)
         /\ IsAside(TakeBraces(heads, raw, number).errors, number)
<1> DEFINE n == Len(heads.line)
           P(v) == IsStack(v.stack, calm) /\ IsText(v.line, calm) /\ IsAside(v.errors, number)
<1>1. n \in Nat /\ heads.line \in Line
  BY LenProperties DEF Line, IsText
<1>2. PICK run : /\ run[0] = [stack |-> heads.stack, line |-> heads.line, errors |-> <<>>]
                 /\ \A k \in 1..n : run[k] = TakeBrace(run[k - 1], raw, number)
                 /\ TakeBraces(heads, raw, number) = run[n]
  BY <1>1, BracesUnroll
<1> DEFINE T == {k \in 0..n : P(run[k])}
<1> HIDE DEF n
<1>3. 0 \in T
  BY <1>1, <1>2, ShortAsides
<1>4. ASSUME NEW k \in 1..n, k - 1 \in T PROVE k \in T
  <2>1. P(run[k - 1])
    BY <1>4
  <2>2. P(TakeBrace(run[k - 1], raw, number))
    BY <2>1, TakeBraceKeeps
  <2> QED
    BY <1>2, <2>2
<1>5. n \in T
  <2> HIDE DEF T
  <2>1. \A k \in 0..n : k \in T
    BY <1>1, <1>3, <1>4, Climbs
  <2> QED
    BY <1>1, <2>1
<1> QED
  BY <1>2, <1>5

\* A conditional saves lists of blocks and brings such lists back.
LEMMA PreprocessorKeeps ==
  ASSUME NEW calm, NEW s, IsNesting(s, calm), NEW line
  PROVE  IsNesting(UpdatePreprocessor(RememberTop(s), line), calm)
<1> DEFINE r == RememberTop(s)
<1>1. /\ r = [stack |-> r.stack, previous_stack_top |-> r.previous_stack_top, pp_stack |-> r.pp_stack]
      /\ r.stack = s.stack /\ r.pp_stack = s.pp_stack
  BY DEF RememberTop, IsNesting
<1> HIDE DEF r
<1>2. /\ IsStack(r.stack, calm) /\ IsList(r.pp_stack)
      /\ \A i \in 1..Len(r.pp_stack) : IsCheckpoint(r.pp_stack[i], calm)
  BY <1>1, ListFacts DEF IsNesting
<1> DEFINE p == Last(r.pp_stack)
           q == IF p.seen_else THEN p ELSE [p EXCEPT !.seen_else = TRUE, !.before_else = r.stack]
           new == _PreprocessorInfo(r.stack)
           opened == Append(r.pp_stack, new)
           top == OnTop(r.pp_stack, q)
           rest == Front(r.pp_stack)
<1>3. IsNesting([r EXCEPT !.pp_stack = opened], calm)
  <2>1. IsCheckpoint(new, calm)
    BY <1>2, NewBlocks DEF _PreprocessorInfo, IsCheckpoint
  <2>2. IsList(opened) /\ Len(opened) = Len(r.pp_stack) + 1 /\ Len(r.pp_stack) \in Nat
    BY <1>2, ListAppend, ListFacts
  <2>3. (\A i \in 1..Len(r.pp_stack) : opened[i] = r.pp_stack[i]) /\ opened[Len(r.pp_stack) + 1] = new
    BY <1>2, ListAppend
  <2> HIDE DEF new, opened
  <2>4. \A i \in 1..Len(opened) : i \in 1..Len(r.pp_stack) \/ i = Len(r.pp_stack) + 1
    BY <2>2
  <2>5. \A i \in 1..Len(opened) : IsCheckpoint(opened[i], calm)
    BY <1>2, <2>1, <2>3, <2>4
  <2> QED
    BY <1>1, <1>2, <2>2, <2>5, NestingIs
<1>4. r.pp_stack # <<>> => p.before_if = r.pp_stack[Len(r.pp_stack)].before_if /\ IsCheckpoint(p, calm)
  BY <1>2, ListFacts DEF Last
<1>5. r.pp_stack # <<>> => IsCheckpoint(q, calm)
  BY <1>2, <1>4 DEF IsCheckpoint
<1>6. r.pp_stack # <<>> =>
        IsNesting([stack |-> p.before_if, previous_stack_top |-> NoObject, pp_stack |-> top], calm)
  <2> SUFFICES ASSUME r.pp_stack # <<>>
               PROVE  IsNesting([stack |-> p.before_if, previous_stack_top |-> NoObject, pp_stack |-> top], calm)
    OBVIOUS
  <2>1. IsStack(p.before_if, calm) /\ IsCheckpoint(q, calm)
    BY <1>4, <1>5 DEF IsCheckpoint
  <2> HIDE DEF p, q
  <2>2. /\ IsList(top)
        /\ \A i \in 1..Len(top) : top[i] = q \/ \E k \in 1..Len(r.pp_stack) : top[i] = r.pp_stack[k]
    BY <1>2, ListOnTop
  <2> HIDE DEF top
  <2>3. \A i \in 1..Len(top) : IsCheckpoint(top[i], calm)
    BY <1>2, <2>1, <2>2
  <2> QED
    BY <2>1, <2>2, <2>3, NestingIs
<1>7. r.pp_stack # <<>> =>
        /\ IsNesting([stack |-> p.before_else, previous_stack_top |-> NoObject, pp_stack |-> rest], calm)
        /\ IsNesting([r EXCEPT !.pp_stack = rest], calm)
  <2> SUFFICES ASSUME r.pp_stack # <<>>
               PROVE  /\ IsNesting([stack |-> p.before_else, previous_stack_top |-> NoObject,
                                    pp_stack |-> rest], calm)
                      /\ IsNesting([r EXCEPT !.pp_stack = rest], calm)
    OBVIOUS
  <2>1. IsStack(p.before_else, calm)
    BY <1>4 DEF IsCheckpoint
  <2>2. IsList(rest) /\ \A i \in 1..Len(rest) : rest[i] = r.pp_stack[i] /\ i \in 1..Len(r.pp_stack)
    BY <1>2, ListFront
  <2> HIDE DEF rest, p
  <2>3. \A i \in 1..Len(rest) : IsCheckpoint(rest[i], calm)
    BY <1>2, <2>2
  <2> QED
    BY <1>1, <1>2, <2>1, <2>2, <2>3, NestingIs
<1>8. IsNesting(r, calm)
  BY <1>1, <1>2, NestingIs
<1>9. \/ UpdatePreprocessor(r, line) = r
      \/ UpdatePreprocessor(r, line) = [r EXCEPT !.pp_stack = opened]
      \/ r.pp_stack # <<>> /\ UpdatePreprocessor(r, line) =
           [stack |-> p.before_if, previous_stack_top |-> NoObject, pp_stack |-> top]
      \/ r.pp_stack # <<>> /\ UpdatePreprocessor(r, line) =
           [stack |-> p.before_else, previous_stack_top |-> NoObject, pp_stack |-> rest]
      \/ r.pp_stack # <<>> /\ UpdatePreprocessor(r, line) = [r EXCEPT !.pp_stack = rest]
  BY DEF UpdatePreprocessor
<1> HIDE DEF p, top, rest, opened
<1>10. IsNesting(UpdatePreprocessor(r, line), calm)
  BY <1>3, <1>6, <1>7, <1>8, <1>9
<1> QED
  BY <1>10 DEF r

\* How often a token is in a line.
LEMMA CountIs ==
  ASSUME NEW line \in Line, NEW t
  PROVE  Count(line, t) \in Nat
<1>1. IsFiniteSet(1..Len(line)) /\ DOMAIN line = 1..Len(line)
  BY LenProperties, FS_Interval DEF Line
<1> QED
  BY <1>1, FS_Subset, FS_CardinalityType DEF Count

\* The parentheses of a line change the innermost block only.
LEMMA ParenthesesKeep ==
  ASSUME NEW calm, NEW stack, IsStack(stack, calm), NEW line, IsText(line, calm)
  PROVE  IsStack(CountParentheses(stack, line), calm)
<1> DEFINE b      == Last(stack)
           change == Count(line, "(") - Count(line, ")")
           parens == b.parens + change
           asm    == IF b.asm \in {"no", "end"}
                       THEN IF change # 0 /\ parens = 1 /\ MatchAsm(line) THEN "inside" ELSE "no"
                     ELSE IF b.asm = "inside" /\ parens = 0 THEN "end" ELSE b.asm
           new    == [b EXCEPT !.parens = parens, !.asm = asm]
<1>1. CountParentheses(stack, line) = IF stack = <<>> THEN stack ELSE OnTop(stack, new)
  BY Zenon DEF CountParentheses
<1>2. calm => ~MatchAsm(line)
  BY NoAsm
<1>3. stack # <<>> => IsSound(b, calm)
  BY StackLast
<1>4. change \in Int
  BY CountIs DEF IsText
<1> HIDE DEF b, change
<1>5. stack # <<>> => parens \in Int /\ (asm = "inside" => parens # 0) /\ (calm => asm = "no")
  <2>1. stack # <<>> => parens \in Int /\ (calm => b.asm = "no") /\ (b.asm = "inside" => b.parens # 0)
    BY <1>3, <1>4 DEF IsSound
  <2> HIDE DEF parens
  <2> QED
    BY <1>2, <2>1
<1> HIDE DEF parens, asm
<1>6. stack # <<>> => IsSound(new, calm)
  BY <1>3, <1>5, SoundCount
<1> HIDE DEF new
<1> QED
  BY <1>1, <1>6, StackOnTop

\* A line leaves lists of blocks, and what it reports is a list.
LEMMA UpdateKeeps ==
  ASSUME NEW calm, NEW s, IsNesting(s, calm), NEW lines, lines.elided \in Seq(Line),
         NEW number \in 1..Len(lines.elided), calm => ~Has(lines.elided[number], "asm")
  PROVE  IsNesting(Update(s, lines, number).nesting, calm) /\ IsAside(Update(s, lines, number).errors, number)
<1> DEFINE line   == lines.elided[number]
           pp     == UpdatePreprocessor(RememberTop(s), line)
           count  == CountParentheses(pp.stack, line)
           spaces == TakeNamespaces(count, line, number)
           heads  == TakeClass(spaces, lines.elided, number)
           braces == TakeBraces(heads, lines.raw[number], number)
           next   == [pp EXCEPT !.stack = braces.stack]
<1>1. IsText(line, calm)
  BY ElementOfSeq DEF IsText
<1>2. IsNesting(pp, calm)
  BY PreprocessorKeeps
<1>3. Update(s, lines, number) = [nesting |-> next, errors |-> braces.errors]
  BY Zenon DEF Update, Updated, TakeHeads
<1> HIDE DEF pp, line
<1>4. IsStack(pp.stack, calm)
  BY <1>2 DEF IsNesting
<1>5. IsStack(count, calm)
  BY <1>1, <1>4, ParenthesesKeep
<1> HIDE DEF count
<1>6. IsStack(spaces.stack, calm) /\ IsText(spaces.line, calm)
  BY <1>1, <1>5, NamespacesKeep
<1> HIDE DEF spaces
<1>7. IsStack(heads.stack, calm) /\ IsText(heads.line, calm)
  BY <1>6, TakeClassKeeps
<1> HIDE DEF heads
<1>8. IsStack(braces.stack, calm) /\ IsAside(braces.errors, number)
  BY <1>7, BracesKeep
<1> HIDE DEF braces
<1>9. IsNesting(next, calm)
  <2>1. /\ next = [stack |-> next.stack, previous_stack_top |-> next.previous_stack_top,
                   pp_stack |-> next.pp_stack]
        /\ next.stack = braces.stack /\ next.pp_stack = pp.pp_stack
    BY <1>2 DEF IsNesting
  <2> HIDE DEF next
  <2> QED
    BY <1>2, <1>8, <2>1 DEF IsNesting
<1> QED
  BY <1>3, <1>8, <1>9

-----------------------------------------------------------------------------
(* The tokens of a line and its braces.                                    *)
\* The tokens that change the stack of blocks, and two of them.
Opening == "{"

Closing == "}"

Stops == {"{", ";", ")", "}"}

\* Which token is which: names and heads are none of those that end a head.
LEMMA TokensDiffer ==
  /\ Opening # Closing /\ Opening \in Answering /\ Closing \notin Answering
  /\ Stops = Answering \cup {Closing}
  /\ \A t \in Declaring : t \notin Stops /\ t \notin Separating
  /\ \A t \in Separating : t \notin Stops
  /\ \A t : IsWord(t) => t \notin Stops /\ t \notin Separating
  /\ "class" \in Declaring /\ "namespace" \in Declaring
<1>1. Opening # Closing /\ Opening \in Answering /\ Closing \notin Answering
  BY Zenon DEF Opening, Closing, Answering
<1>2. Stops = Answering \cup {Closing}
  BY Zenon DEF Closing, Stops, Answering
<1>3. \A t \in Declaring : t \notin Stops /\ t \notin Separating
  BY Zenon DEF Declaring, Stops, Separating
<1>4. \A t \in Separating : t \notin Stops
  BY Zenon DEF Separating, Stops
<1>5. \A t : IsWord(t) => t \notin Stops /\ t \notin Separating
  BY Zenon DEF IsWord, Punctuation, Stops, Separating
<1>6. "class" \in Declaring /\ "namespace" \in Declaring
  BY DEF Declaring
<1> QED
  BY <1>1, <1>2, <1>3, <1>4, <1>5, <1>6

\* What a token does to the braces that are open.
LEMMA BehindToken ==
  ASSUME NEW d \in Nat, NEW t
  PROVE  /\ OpenBehind(d, t) \in Nat
         /\ OpenBehind(d, t) = IF t = Opening THEN d + 1 ELSE IF t = Closing /\ d > 0 THEN d - 1 ELSE d
<1>1. OpenBehind(d, t) = IF t = Opening THEN d + 1 ELSE IF t = Closing /\ d > 0 THEN d - 1 ELSE d
  BY Zenon DEF OpenBehind, Opening, Closing
<1> QED
  BY <1>1

\* The braces along a line, token by token,
LEMMA BracesAlongUnfolds ==
  ASSUME NEW line \in Line, NEW d \in Nat
  PROVE  /\ BracesAlong(line, d)[0] = d
         /\ \A i \in 1..Len(line) : BracesAlong(line, d)[i] = OpenBehind(BracesAlong(line, d)[i - 1], line[i])
         /\ \A i \in 0..Len(line) : BracesAlong(line, d)[i] \in Nat
<1> DEFINE n == Len(line)
           IsIt(h) == h = [i \in 0..n |-> IF i = 0 THEN d ELSE OpenBehind(h[i - 1], line[i])]
           along == BracesAlong(line, d)
<1>1. n \in Nat
  BY LenProperties DEF Line
<1>2. PICK h : IsIt(h) /\ \A i \in 0..n : h[i] \in Nat
  <2> DEFINE put == [i \in 1..n |-> [v \in Nat |-> OpenBehind(v, line[i])]]
  <2>1. \A i \in 1..n : \A v \in Nat : put[i][v] = OpenBehind(v, line[i])
    OBVIOUS
  <2>2. \A i \in 1..n : \A v \in Nat : put[i][v] \in Nat
    BY <2>1, BehindToken
  <2> HIDE DEF put, n
  <2>3. PICK h : Unrolls(n, Nat, d, put, h)
    BY <1>1, <2>2, RecursionExists
  <2>4. IsIt(h)
    <3>1. \A i \in 1..n : i - 1 \in 0..n /\ h[i - 1] \in Nat
      BY <1>1, <2>3 DEF Unrolls
    <3>2. \A i \in 0..n : h[i] = IF i = 0 THEN d ELSE OpenBehind(h[i - 1], line[i])
      BY <1>1, <2>1, <2>3, <3>1 DEF Unrolls
    <3> QED
      BY <2>3, <3>2 DEF Unrolls
  <2> QED
    BY <2>3, <2>4 DEF Unrolls
<1>3. along = CHOOSE g : IsIt(g)
  BY DEF BracesAlong
<1>4. IsIt(along)
  <2> HIDE DEF IsIt, along
  <2> QED
    BY <1>2, <1>3
<1> HIDE DEF along
<1>5. along[0] = d
  BY <1>1, <1>4
<1>6. ASSUME NEW i \in 1..n PROVE along[i] = OpenBehind(along[i - 1], line[i])
  <2>1. i \in 0..n /\ i # 0
    BY <1>1
  <2> HIDE DEF n
  <2> QED
    BY <1>4, <2>1
<1>7. \A i \in 0..n : along[i] \in Nat
  <2>1. \A i \in 1..n : along[i - 1] \in Nat => along[i] \in Nat
    BY <1>6, BehindToken
  <2> HIDE DEF n
  <2> QED
    BY <1>1, <1>5, <2>1, RunStays
<1> QED
  BY <1>5, <1>6, <1>7 DEF along

\* and behind the lines, line by line.
LEMMA OpenBracesUnfolds ==
  ASSUME NEW elided \in Seq(Line)
  PROVE  /\ OpenBraces(elided)[0] = 0
         /\ \A n \in 1..Len(elided) :
              OpenBraces(elided)[n] = BracesAlong(elided[n], OpenBraces(elided)[n - 1])[Len(elided[n])]
         /\ \A n \in 0..Len(elided) : OpenBraces(elided)[n] \in Nat
<1> DEFINE m == Len(elided)
           step(v, n) == BracesAlong(elided[n], v)[Len(elided[n])]
           IsIt(h) == h = [n \in 0..m |-> IF n = 0 THEN 0 ELSE step(h[n - 1], n)]
           braces == OpenBraces(elided)
<1>1. m \in Nat /\ \A n \in 1..m : elided[n] \in Line
  BY LenProperties, ElementOfSeq
<1>2. ASSUME NEW n \in 1..m, NEW v \in Nat PROVE step(v, n) \in Nat
  <2>1. elided[n] \in Line
    BY <1>1
  <2>2. Len(elided[n]) \in Nat
    BY <2>1, LenProperties DEF Line
  <2> QED
    BY <2>1, <2>2, BracesAlongUnfolds
<1>3. braces = CHOOSE g : IsIt(g)
  BY DEF OpenBraces
<1> HIDE DEF step
<1>4. PICK h : IsIt(h) /\ \A n \in 0..m : h[n] \in Nat
  <2> DEFINE put == [n \in 1..m |-> [v \in Nat |-> step(v, n)]]
  <2>1. \A n \in 1..m : \A v \in Nat : put[n][v] = step(v, n)
    OBVIOUS
  <2>2. \A n \in 1..m : \A v \in Nat : put[n][v] \in Nat
    BY <1>2, <2>1
  <2> HIDE DEF put, m
  <2>3. PICK h : Unrolls(m, Nat, 0, put, h)
    BY <1>1, <2>2, RecursionExists
  <2>4. IsIt(h)
    <3>1. \A n \in 1..m : n - 1 \in 0..m /\ h[n - 1] \in Nat
      BY <1>1, <2>3 DEF Unrolls
    <3>2. \A n \in 0..m : h[n] = IF n = 0 THEN 0 ELSE step(h[n - 1], n)
      BY <1>1, <2>1, <2>3, <3>1 DEF Unrolls
    <3> QED
      BY <2>3, <3>2 DEF Unrolls
  <2> QED
    BY <2>3, <2>4 DEF Unrolls
<1>5. IsIt(braces)
  <2> HIDE DEF IsIt, braces
  <2> QED
    BY <1>3, <1>4
<1> HIDE DEF braces
<1>6. braces[0] = 0
  BY <1>1, <1>5
<1>7. ASSUME NEW n \in 1..m PROVE braces[n] = step(braces[n - 1], n)
  <2>1. n \in 0..m /\ n # 0
    BY <1>1
  <2> HIDE DEF m
  <2> QED
    BY <1>5, <2>1
<1>8. \A n \in 0..m : braces[n] \in Nat
  <2>1. \A n \in 1..m : braces[n - 1] \in Nat => braces[n] \in Nat
    BY <1>2, <1>7
  <2>2. m \in Nat /\ 0 \in Nat
    BY <1>1
  <2> HIDE DEF m
  <2> QED
    BY <1>6, <2>1, <2>2, RunStays
<1> QED
  BY <1>6, <1>7, <1>8 DEF braces, step

\* Tokens that are no braces leave them as they are.
LEMMA BracesStay ==
  ASSUME NEW line \in Line, NEW d \in Nat, NEW o \in 0..Len(line), NEW e \in o..Len(line),
         \A i \in (o + 1)..e : line[i] # Opening /\ line[i] # Closing
  PROVE  BracesAlong(line, d)[e] = BracesAlong(line, d)[o]
<1> DEFINE along == BracesAlong(line, d)
           T == {k \in 0..(e - o) : along[o + k] = along[o]}
<1>1. Len(line) \in Nat /\ o \in Nat /\ e \in Nat /\ e - o \in Nat
  BY LenProperties DEF Line
<1>2. /\ \A i \in 1..Len(line) : along[i] = OpenBehind(along[i - 1], line[i])
      /\ \A i \in 0..Len(line) : along[i] \in Nat
  BY BracesAlongUnfolds
<1> HIDE DEF along
<1>3. 0 \in T
  BY <1>1
<1>4. ASSUME NEW k \in 1..(e - o), k - 1 \in T PROVE k \in T
  <2>1. /\ along[o + (k - 1)] = along[o] /\ o + k \in (o + 1)..e /\ o + k \in 1..Len(line)
        /\ (o + k) - 1 = o + (k - 1) /\ o + (k - 1) \in 0..Len(line) /\ k \in 0..(e - o)
    BY <1>1, <1>4
  <2>2. along[o + k] = OpenBehind(along[o + (k - 1)], line[o + k])
    BY <1>2, <2>1
  <2>3. OpenBehind(along[o + (k - 1)], line[o + k]) = along[o + (k - 1)]
    BY <1>2, <2>1, BehindToken
  <2> QED
    BY <2>1, <2>2, <2>3
<1>5. e - o \in T
  <2> HIDE DEF T
  <2>1. \A k \in 0..(e - o) : k \in T
    BY <1>1, <1>3, <1>4, Climbs
  <2> QED
    BY <1>1, <2>1
<1> QED
  BY <1>1, <1>5 DEF along

\* What is left of a line behind its first o tokens.
IsRest(left, line, o) ==
  /\ left \in Line /\ Len(left) = Len(line) - o
  /\ \A i \in 1..(Len(line) - o) : left[i] = line[o + i]
  /\ \A k \in 0..(Len(line) - o) : After(left, k) = After(line, o + k)
  /\ o = 0 => left = line

\* After gives what is left.
LEMMA AfterTokens ==
  ASSUME NEW line \in Line, NEW o \in 0..Len(line)
  PROVE  IsRest(After(line, o), line, o)
<1>1. Len(line) \in Nat /\ o \in Nat /\ line = [i \in 1..Len(line) |-> line[i]]
  BY LenProperties DEF Line
<1>2. After(line, o) \in Line
  BY <1>1, AfterType
<1>3. Len(After(line, o)) = Len(line) - o
  BY <1>1 DEF After
<1>4. \A i \in 1..(Len(line) - o) : After(line, o)[i] = line[o + i]
  BY <1>1 DEF After
<1>5. ASSUME NEW k \in 0..(Len(line) - o) PROVE After(After(line, o), k) = After(line, o + k)
  <2> DEFINE a == After(line, o)
  <2>1. After(a, k) = [i \in 1..(Len(a) - k) |-> a[k + i]]
    BY <1>2, <1>3 DEF After, Line
  <2>2. After(line, o + k) = [i \in 1..(Len(line) - (o + k)) |-> line[(o + k) + i]]
    BY <1>1 DEF After
  <2>3. \A i \in 1..(Len(line) - (o + k)) : a[k + i] = line[(o + k) + i]
    <3>1. TAKE i \in 1..(Len(line) - (o + k))
    <3>2. k + i \in 1..(Len(line) - o) /\ o + (k + i) = (o + k) + i
      BY <1>1
    <3> HIDE DEF a
    <3> QED
      BY <1>4, <3>2 DEF a
  <2>4. Len(a) - k = Len(line) - (o + k)
    BY <1>1, <1>3
  <2> HIDE DEF a
  <2> QED
    BY <2>1, <2>2, <2>3, <2>4 DEF a
<1>6. o = 0 => After(line, o) = line
  BY <1>1 DEF After
<1> QED
  BY <1>2, <1>3, <1>4, <1>5, <1>6 DEF IsRest

\* No token before the one that Find finds is of the set, and none when it finds none.
LEMMA FindIsFirst ==
  ASSUME NEW line \in Line, NEW T
  PROVE  \A i \in 1..Len(line) : Find(line, T) = 0 \/ i < Find(line, T) => line[i] \notin T
<1> DEFINE I == {i \in 1..Len(line) : line[i] \in T}
<1>1. Len(line) \in Nat
  BY LenProperties DEF Line
<1>2. Find(line, T) = IF I # {} THEN Min(I) ELSE 0
  BY DEF Find, SelectInSeq
<1>3. I # {} => Min(I) \in I /\ \A i \in I : Min(I) <= i
  <2>1. I \in SUBSET Nat
    BY <1>1
  <2> HIDE DEF I
  <2> QED
    BY <2>1, MinOfNaturals
<1> QED
  BY <1>1, <1>2, <1>3

-----------------------------------------------------------------------------
(* The blocks and the braces.                                              *)
\* A stack on which all but the top have their brace,
IsOpenBelow(stack) ==
  IsList(stack) /\ \A i \in DOMAIN stack : IsBlock(stack[i]) /\ (stack[i].open \/ i = Len(stack))

\* when another block is put on it,
LEMMA PushedOn ==
  ASSUME NEW stack, IsOpenBelow(stack), SeenOpenBrace(stack), NEW b, IsBlock(b)
  PROVE  LET next == Append(stack, b)
         IN  /\ IsOpenBelow(next) /\ Len(next) = Len(stack) + 1
             /\ b.open => SeenOpenBrace(next)
             /\ SeenOpenBrace(next) => b.open
<1> DEFINE next == Append(stack, b)
<1>1. /\ IsList(stack) /\ Len(stack) \in Nat /\ DOMAIN stack = 1..Len(stack)
      /\ stack # <<>> => Len(stack) # 0
  BY ListFacts DEF IsOpenBelow
<1>2. /\ IsList(next) /\ Len(next) = Len(stack) + 1
      /\ \A i \in 1..Len(stack) : next[i] = stack[i]
      /\ next[Len(stack) + 1] = b
  BY <1>1, ListAppend
<1>3. DOMAIN next = 1..Len(next) /\ (next = <<>> => Len(next) = 0)
  BY <1>2, ListFacts, EmptySeq
<1> HIDE DEF next
<1>4. \A i \in 1..Len(stack) : IsBlock(stack[i]) /\ stack[i].open
  <2>1. TAKE i \in 1..Len(stack)
  <2>2. stack # <<>> /\ Last(stack).open
    <3>1. stack # <<>>
      BY <1>1, EmptySeq
    <3> QED
      BY <3>1 DEF SeenOpenBrace
  <2>3. stack[Len(stack)].open
    BY <2>2 DEF Last
  <2> QED
    BY <1>1, <2>3 DEF IsOpenBelow
<1>5. \A i \in 1..Len(next) : i \in 1..Len(stack) \/ i = Len(next)
  BY <1>1, <1>2
<1>6. IsOpenBelow(next)
  <2>1. \A i \in 1..Len(next) : IsBlock(next[i]) /\ (next[i].open \/ i = Len(next))
    BY <1>2, <1>4, <1>5
  <2> QED
    BY <1>2, <1>3, <2>1 DEF IsOpenBelow
<1>7. Last(next) = b /\ next # <<>>
  BY <1>1, <1>2, <1>3 DEF Last
<1>8. (b.open => SeenOpenBrace(next)) /\ (SeenOpenBrace(next) => b.open)
  BY <1>7 DEF SeenOpenBrace
<1> QED
  BY <1>2, <1>6, <1>8 DEF next

\* when its top is taken off,
LEMMA TakenOff ==
  ASSUME NEW stack, IsOpenBelow(stack), stack # <<>>
  PROVE  /\ IsOpenBelow(Front(stack)) /\ SeenOpenBrace(Front(stack))
         /\ Len(Front(stack)) = Len(stack) - 1 /\ Len(stack) \in Nat \ {0}
<1> DEFINE next == Front(stack)
<1>1. IsList(stack) /\ Len(stack) \in Nat \ {0} /\ DOMAIN stack = 1..Len(stack)
  BY ListFacts DEF IsOpenBelow
<1>2. IsList(next) /\ \A i \in 1..Len(next) : next[i] = stack[i]
  BY <1>1, ListFront
<1>3. Len(next) = Len(stack) - 1
  BY <1>1 DEF Front
<1>4. DOMAIN next = 1..Len(next) /\ (next # <<>> => Len(next) # 0)
  BY <1>2, ListFacts
<1> HIDE DEF next
<1>5. \A i \in 1..Len(next) : i \in 1..Len(stack) /\ i # Len(stack)
  <2> DEFINE n == Len(stack)
  <2>1. n \in Nat /\ Len(next) = n - 1
    BY <1>1, <1>3
  <2> HIDE DEF n
  <2>2. \A i \in 1..(n - 1) : i \in 1..n /\ i # n
    BY <2>1
  <2> QED
    BY <2>1, <2>2 DEF n
<1>6. \A i \in 1..Len(next) : IsBlock(next[i]) /\ next[i].open
  BY <1>1, <1>2, <1>5 DEF IsOpenBelow
<1>7. IsOpenBelow(next)
  BY <1>2, <1>4, <1>6 DEF IsOpenBelow
<1>8. next # <<>> => Last(next).open
  <2>1. next # <<>> => Len(next) \in 1..Len(next)
    BY <1>1, <1>3, <1>4
  <2> QED
    BY <1>6, <2>1 DEF Last
<1>9. SeenOpenBrace(next)
  BY <1>8 DEF SeenOpenBrace
<1> QED
  BY <1>1, <1>3, <1>7, <1>9 DEF next

\* and when its top is replaced.
LEMMA PutOnTop ==
  ASSUME NEW stack, IsOpenBelow(stack), stack # <<>>, NEW b, IsBlock(b)
  PROVE  LET next == OnTop(stack, b)
         IN  /\ IsOpenBelow(next) /\ Len(next) = Len(stack)
             /\ b.open => SeenOpenBrace(next)
             /\ SeenOpenBrace(next) => b.open
<1> DEFINE front == Front(stack)
<1>1. /\ IsOpenBelow(front) /\ SeenOpenBrace(front)
      /\ Len(front) = Len(stack) - 1 /\ Len(stack) \in Nat \ {0}
  BY TakenOff
<1>2. OnTop(stack, b) = Append(front, b)
  BY DEF OnTop
<1> HIDE DEF front
<1> DEFINE next == Append(front, b)
<1>3. /\ IsOpenBelow(next) /\ Len(next) = Len(front) + 1
      /\ b.open => SeenOpenBrace(next)
      /\ SeenOpenBrace(next) => b.open
  BY <1>1, PushedOn
<1> HIDE DEF next
<1> QED
  BY <1>1, <1>2, <1>3 DEF next

\* The top of such a stack is a block.
LEMMA TopIsBlock ==
  ASSUME NEW stack, IsOpenBelow(stack), stack # <<>>
  PROVE  IsBlock(Last(stack))
<1>1. Len(stack) \in DOMAIN stack
  BY ListFacts DEF IsOpenBelow
<1> QED
  BY <1>1 DEF IsOpenBelow, Last

\* A block whose brace is seen,
LEMMA OpenedBlock ==
  ASSUME NEW b, IsBlock(b), NEW c, c = [b EXCEPT !.open = TRUE]
  PROVE  IsBlock(c) /\ c.open
BY DEF IsBlock

\* one that holds assembly or not,
LEMMA CountedBlock ==
  ASSUME NEW b, IsBlock(b), NEW x, NEW c, c = [b EXCEPT !.asm = x]
  PROVE  IsBlock(c) /\ c.open = b.open
BY DEF IsBlock

\* and the blocks that the program makes.
LEMMA MadeBlocks ==
  /\ \A kind, number, open : IsBlock(_BlockInfo(kind, number, open)) /\ _BlockInfo(kind, number, open).open = open
  /\ \A name, number, open :
       IsBlock(_NamespaceInfo(name, number, open)) /\ _NamespaceInfo(name, number, open).open = open
  /\ \A elided, number : IsBlock(_ClassInfo(elided, number)) /\ _ClassInfo(elided, number).open = FALSE
<1>1. \A kind, number, open :
        IsBlock(_BlockInfo(kind, number, open)) /\ _BlockInfo(kind, number, open).open = open
  BY DEF IsBlock, _BlockInfo
<1>2. \A name, number, open :
        IsBlock(_NamespaceInfo(name, number, open)) /\ _NamespaceInfo(name, number, open).open = open
  <2> TAKE name, number, open
  <2> DEFINE b == _BlockInfo("namespace", number, open)
  <2>1. IsBlock(b) /\ b.open = open
    BY <1>1, Zenon
  <2>2. _NamespaceInfo(name, number, open) = [b EXCEPT !.name = name]
    BY Zenon DEF _NamespaceInfo
  <2> HIDE DEF b
  <2> QED
    BY <2>1, <2>2 DEF IsBlock
<1>3. \A elided, number : IsBlock(_ClassInfo(elided, number)) /\ _ClassInfo(elided, number).open = FALSE
  <2> TAKE elided, number
  <2> DEFINE b == _BlockInfo("class", number, FALSE)
  <2>1. IsBlock(b) /\ b.open = FALSE
    BY <1>1, Zenon
  <2>2. PICK k : _ClassInfo(elided, number) = [b EXCEPT !.last = k]
    BY Zenon DEF _ClassInfo
  <2> HIDE DEF b
  <2> QED
    BY <2>1, <2>2 DEF IsBlock
<1> QED
  BY <1>1, <1>2, <1>3

\* A line of a file whose heads are complete; the braces along it; and where the
\* blocks stand when its first o tokens are read.
IsFile(elided, n) ==
  elided \in Seq(Line) /\ n \in 1..Len(elided) /\ HeadsAreComplete(elided) /\ NoneEndsAhead(elided)

Along(elided, n) == BracesAlong(elided[n], OpenBraces(elided)[n - 1])

FollowsTo(elided, n, stack, o) == Follows(elided, stack, Along(elided, n)[o], <<n, o>>)

\* The braces along a line of a file.
LEMMA AlongUnfolds ==
  ASSUME NEW elided, NEW n, IsFile(elided, n)
  PROVE  /\ elided[n] \in Line /\ Len(elided[n]) \in Nat /\ OpenBraces(elided)[n - 1] \in Nat
         /\ DOMAIN elided[n] = 1..Len(elided[n]) /\ DOMAIN elided = 1..Len(elided) /\ n \in Nat
         /\ Along(elided, n)[0] = OpenBraces(elided)[n - 1]
         /\ Along(elided, n)[Len(elided[n])] = OpenBraces(elided)[n]
         /\ \A i \in 1..Len(elided[n]) : Along(elided, n)[i] = OpenBehind(Along(elided, n)[i - 1], elided[n][i])
         /\ \A i \in 0..Len(elided[n]) : Along(elided, n)[i] \in Nat
<1>1. elided \in Seq(Line) /\ n \in 1..Len(elided) /\ Len(elided) \in Nat /\ DOMAIN elided = 1..Len(elided)
  BY LenProperties DEF IsFile
<1>2. elided[n] \in Line
  BY <1>1, ElementOfSeq
<1>3. Len(elided[n]) \in Nat /\ DOMAIN elided[n] = 1..Len(elided[n])
  BY <1>2, LenProperties DEF Line
<1>4. n - 1 \in 0..Len(elided) /\ n \in Nat
  BY <1>1
<1>5. /\ OpenBraces(elided)[n - 1] \in Nat
      /\ OpenBraces(elided)[n] = BracesAlong(elided[n], OpenBraces(elided)[n - 1])[Len(elided[n])]
  BY <1>1, <1>4, OpenBracesUnfolds
<1> QED
  BY <1>1, <1>2, <1>3, <1>4, <1>5, BracesAlongUnfolds DEF Along

\* The places of a file.
LEMMA PlacesAre ==
  ASSUME NEW elided, elided \in Seq(Line)
  PROVE  /\ \A n \in 1..Len(elided) : \A i \in 1..Len(elided[n]) : <<n, i>> \in Places(elided)
         /\ \A p \in Places(elided) :
              p = <<p[1], p[2]>> /\ p[1] \in 1..Len(elided) /\ p[2] \in 1..Len(elided[p[1]])
<1>1. DOMAIN elided = 1..Len(elided)
  BY LenProperties
<1>2. \A n \in 1..Len(elided) : DOMAIN elided[n] = 1..Len(elided[n])
  BY ElementOfSeq, LenProperties DEF Line
<1> QED
  BY <1>1, <1>2 DEF Places

\* Reading on over tokens that change nothing.
LEMMA ReadsOn ==
  ASSUME NEW elided, NEW n, IsFile(elided, n), NEW o \in 0..Len(elided[n]), NEW e \in o..Len(elided[n]),
         \A i \in (o + 1)..e : elided[n][i] \notin Stops,
         NEW stack, FollowsTo(elided, n, stack, o)
  PROVE  FollowsTo(elided, n, stack, e)
<1> DEFINE line == elided[n]
           along == Along(elided, n)
<1>1. line \in Line /\ Len(line) \in Nat /\ OpenBraces(elided)[n - 1] \in Nat /\ n \in Nat
  BY AlongUnfolds
<1>2. along[e] = along[o]
  <2>1. \A i \in (o + 1)..e : line[i] # Opening /\ line[i] # Closing
    BY TokensDiffer
  <2> HIDE DEF line
  <2> QED
    BY <1>1, <2>1, BracesStay DEF Along, line
<1>3. elided \in Seq(Line)
  BY DEF IsFile
<1>4. ASSUME NEW p \in Places(elided), Waits(elided, p, <<n, o>>) PROVE Waits(elided, p, <<n, e>>)
  <2>1. p[1] \in Nat /\ p[2] \in Nat
    BY <1>3, PlacesAre
  <2>2. ~IsBefore(<<n, o>>, p) /\ IsHead(elided, p)
    BY <1>4 DEF Waits
  <2>3. ~IsBefore(<<n, e>>, p)
    BY <1>1, <2>1, <2>2 DEF IsBefore
  <2>4. ASSUME NEW r \in Places(elided), IsBefore(p, r), TokenAt(elided, r) \in Answering
        PROVE  IsBefore(<<n, e>>, r)
    <3>1. r[1] \in Nat /\ r[2] \in Nat
      BY <1>3, PlacesAre
    <3>2. IsBefore(<<n, o>>, r)
      BY <1>4, <2>4 DEF Waits
    <3>3. r[1] > n \/ (r[1] = n /\ r[2] > o)
      BY <3>2 DEF IsBefore
    <3>4. TokenAt(elided, r) \in Stops
      BY <2>4, TokensDiffer
    <3>5. ~(r[1] = n /\ r[2] \in (o + 1)..e)
      BY <3>4 DEF TokenAt
    <3> QED
      BY <1>1, <3>1, <3>3, <3>5 DEF IsBefore
  <2> QED
    BY <2>2, <2>3, <2>4 DEF Waits
<1> HIDE DEF along
<1> QED
  BY <1>2, <1>4 DEF FollowsTo, Follows, along

\* No head waits where a block ends or another one is declared.
LEMMA NobodyWaits ==
  ASSUME NEW elided, NEW n, IsFile(elided, n), NEW o \in 0..Len(elided[n]), NEW e \in (o + 1)..Len(elided[n]),
         \A i \in (o + 1)..(e - 1) : elided[n][i] \notin Stops,
         IsHead(elided, <<n, e>>) \/ elided[n][e] = Closing,
         NEW stack, FollowsTo(elided, n, stack, o)
  PROVE  SeenOpenBrace(stack)
<1> SUFFICES ASSUME ~SeenOpenBrace(stack) PROVE FALSE
  OBVIOUS
<1>1. elided \in Seq(Line) /\ n \in 1..Len(elided) /\ HeadsAreComplete(elided)
  BY DEF IsFile
<1>2. n \in Nat /\ Len(elided[n]) \in Nat
  BY AlongUnfolds
<1>3. e \in 1..Len(elided[n])
  BY <1>2
<1> DEFINE q == <<n, e>>
<1>4. q \in Places(elided)
  BY <1>1, <1>3, PlacesAre
<1>5. PICK p \in Places(elided) : Waits(elided, p, <<n, o>>)
  BY DEF FollowsTo, Follows
<1>6. p[1] \in Nat /\ p[2] \in Nat
  BY <1>1, PlacesAre
<1>7. IsBefore(p, q) /\ IsHead(elided, p)
  BY <1>2, <1>5, <1>6 DEF Waits, IsBefore
<1>8. IsHead(elided, q) \/ TokenAt(elided, q) = Closing
  BY DEF TokenAt
<1>9. \E r \in Places(elided) : IsBefore(p, r) /\ IsBefore(r, q) /\ TokenAt(elided, r) \in Answering
  <2> HIDE DEF q
  <2> QED
    BY Zenon, <1>1, <1>4, <1>7, <1>8 DEF HeadsAreComplete, Closing
<1>10. PICK r \in Places(elided) : IsBefore(p, r) /\ IsBefore(r, q) /\ TokenAt(elided, r) \in Answering
  BY <1>9
<1>11. r[1] \in Nat /\ r[2] \in Nat
  BY <1>1, PlacesAre
<1>12. IsBefore(<<n, o>>, r)
  BY <1>5, <1>10 DEF Waits
<1>13. r[1] = n /\ r[2] \in (o + 1)..(e - 1)
  BY <1>2, <1>10, <1>11, <1>12 DEF IsBefore
<1>14. elided[n][r[2]] \in Stops
  BY <1>10, <1>13, TokensDiffer DEF TokenAt
<1> QED
  BY <1>13, <1>14

\* What one token does to the stack.
LEMMA TokenTaken ==
  ASSUME NEW stack, NEW t, NEW line, NEW n
  PROVE  LET next == TakeToken(stack, t, line, n)
         IN  /\ t = Opening /\ ~SeenOpenBrace(stack) => next = OnTop(stack, [Last(stack) EXCEPT !.open = TRUE])
             /\ t \in Answering /\ t # Opening => next = IF SeenOpenBrace(stack) THEN stack ELSE Front(stack)
             /\ t = Closing => next = IF stack = <<>> THEN stack ELSE Front(stack)
<1> DEFINE next == TakeToken(stack, t, line, n)
<1>1. t = Opening /\ ~SeenOpenBrace(stack) => next = OnTop(stack, [Last(stack) EXCEPT !.open = TRUE])
  BY Zenon DEF TakeToken, Opening
<1>3. t \in Answering /\ t # Opening => next = IF SeenOpenBrace(stack) THEN stack ELSE Front(stack)
  BY Zenon DEF TakeToken, Opening, Answering
<1>4. t = Closing => next = IF stack = <<>> THEN stack ELSE Front(stack)
  BY Zenon DEF TakeToken, Closing
<1> HIDE DEF next
<1> QED
  BY <1>1, <1>3, <1>4 DEF next

\* An opening brace puts a block on the stack, unless a head waits for it.
LEMMA BlockPushed ==
  ASSUME NEW stack, SeenOpenBrace(stack), NEW line, NEW n
  PROVE  \E b : IsBlock(b) /\ b.open /\ TakeToken(stack, Opening, line, n) = Append(stack, b)
<1> DEFINE next   == TakeToken(stack, Opening, line, n)
           extern == _ExternCInfo(n)
           plain  == _BlockInfo("block", n, TRUE)
<1>1. IsBlock(extern) /\ extern.open /\ IsBlock(plain) /\ plain.open
  BY MadeBlocks DEF _ExternCInfo
<1>2. next = Append(stack, extern) \/ \E x : next = Append(stack, [plain EXCEPT !.asm = x])
  BY Zenon DEF TakeToken, Opening
<1> HIDE DEF extern, plain, next
<1>3. CASE next = Append(stack, extern)
  BY <1>1, <1>3 DEF next
<1>4. CASE \E x : next = Append(stack, [plain EXCEPT !.asm = x])
  <2>1. PICK x : next = Append(stack, [plain EXCEPT !.asm = x])
    BY <1>4
  <2> DEFINE b == [plain EXCEPT !.asm = x]
  <2>2. IsBlock(b) /\ b.open = plain.open
    BY <1>1, CountedBlock
  <2> HIDE DEF b
  <2>3. b.open /\ next = Append(stack, b)
    BY <1>1, <2>1, <2>2 DEF b
  <2> QED
    BY <2>2, <2>3 DEF next
<1> QED
  BY <1>2, <1>3, <1>4

\* It does to the stack what it does to the braces.
LEMMA StopFollows ==
  ASSUME NEW elided, NEW n, IsFile(elided, n), NEW o \in 0..Len(elided[n]), o < Len(elided[n]),
         elided[n][o + 1] \in Stops, NEW stack, FollowsTo(elided, n, stack, o), NEW line
  PROVE  FollowsTo(elided, n, TakeToken(stack, elided[n][o + 1], line, n), o + 1)
<1> DEFINE t == elided[n][o + 1]
           next == TakeToken(stack, t, line, n)
           along == Along(elided, n)
<1>1. Len(elided[n]) \in Nat /\ o + 1 \in 1..Len(elided[n]) /\ (o + 1) - 1 = o
  BY AlongUnfolds
<1>2. along[o] \in Nat /\ along[o + 1] = OpenBehind(along[o], t)
  BY <1>1, AlongUnfolds
<1>3. along[o + 1] = IF t = Opening THEN along[o] + 1 ELSE IF t = Closing /\ along[o] > 0 THEN along[o] - 1 ELSE along[o]
  BY <1>2, BehindToken
<1>4. IsOpenBelow(stack) /\ along[o] = IF SeenOpenBrace(stack) THEN Len(stack) ELSE Len(stack) - 1
  BY DEF FollowsTo, Follows, IsOpenBelow
<1>5. t = Closing => SeenOpenBrace(stack)
  <2>1. o + 1 \in (o + 1)..Len(elided[n]) /\ \A i \in (o + 1)..((o + 1) - 1) : FALSE
    BY <1>1
  <2> QED
    BY <2>1, NobodyWaits
<1>6. (~SeenOpenBrace(stack) => stack # <<>>) /\ SeenOpenBrace(<<>>) /\ Len(<<>>) = 0
  BY Zenon, EmptySeq DEF SeenOpenBrace
<1>7. SUFFICES /\ IsOpenBelow(next) /\ SeenOpenBrace(next) /\ along[o + 1] = Len(next)
  BY DEF FollowsTo, Follows, IsOpenBelow
<1>8. t \in Answering \/ t = Closing
  BY TokensDiffer
<1>9. Opening # Closing
  BY TokensDiffer
<1> HIDE DEF along
<1>10. CASE t = Opening /\ ~SeenOpenBrace(stack)
  <2> DEFINE b == [Last(stack) EXCEPT !.open = TRUE]
  <2>1. next = OnTop(stack, b)
    BY <1>10, TokenTaken
  <2>2. IsBlock(b) /\ b.open
    BY <1>4, <1>6, <1>10, TopIsBlock, OpenedBlock
  <2> HIDE DEF b, t, next
  <2>3. IsOpenBelow(next) /\ Len(next) = Len(stack) /\ SeenOpenBrace(next)
    BY <1>4, <1>6, <1>10, <2>1, <2>2, PutOnTop
  <2>4. Len(stack) \in Nat
    BY <1>4, ListFacts DEF IsOpenBelow
  <2> QED
    BY <1>3, <1>4, <1>10, <2>3, <2>4
<1>11. CASE t = Opening /\ SeenOpenBrace(stack)
  <2>1. PICK b : IsBlock(b) /\ b.open /\ next = Append(stack, b)
    <3>1. PICK b : IsBlock(b) /\ b.open /\ TakeToken(stack, Opening, line, n) = Append(stack, b)
      BY <1>11, BlockPushed
    <3>2. next = TakeToken(stack, Opening, line, n)
      BY <1>11
    <3> HIDE DEF next
    <3> QED
      BY <3>1, <3>2
  <2> HIDE DEF t, next
  <2>2. IsOpenBelow(next) /\ Len(next) = Len(stack) + 1 /\ SeenOpenBrace(next)
    BY <1>4, <1>11, <2>1, PushedOn
  <2> QED
    BY <1>3, <1>4, <1>11, <2>2
<1>12. CASE t \in Answering /\ t # Opening
  <2>1. next = IF SeenOpenBrace(stack) THEN stack ELSE Front(stack)
    BY <1>12, TokenTaken
  <2>2. t # Closing
    BY <1>12, TokensDiffer
  <2> HIDE DEF t, next
  <2>3. CASE SeenOpenBrace(stack)
    BY <1>3, <1>4, <1>12, <2>1, <2>2, <2>3
  <2>4. CASE ~SeenOpenBrace(stack)
    <3>1. /\ IsOpenBelow(Front(stack)) /\ SeenOpenBrace(Front(stack))
          /\ Len(Front(stack)) = Len(stack) - 1
      BY <1>4, <1>6, <2>4, TakenOff
    <3> QED
      BY <1>3, <1>4, <1>12, <2>1, <2>2, <2>4, <3>1
  <2> QED
    BY <2>3, <2>4
<1>13. CASE t = Closing
  <2>1. next = IF stack = <<>> THEN stack ELSE Front(stack)
    BY <1>13, TokenTaken
  <2> HIDE DEF t, next
  <2>2. CASE stack = <<>>
    <3>1. along[o] = 0
      BY <1>4, <1>6, <2>2
    <3>2. along[o + 1] = 0
      BY <1>3, <1>9, <1>13, <3>1
    <3>3. next = stack
      BY <2>1, <2>2
    <3> QED
      BY <1>4, <1>6, <2>2, <3>2, <3>3
  <2>3. CASE stack # <<>>
    <3>1. /\ IsOpenBelow(Front(stack)) /\ SeenOpenBrace(Front(stack))
          /\ Len(Front(stack)) = Len(stack) - 1 /\ Len(stack) \in Nat \ {0}
      BY <1>4, <2>3, TakenOff
    <3> QED
      BY <1>3, <1>4, <1>5, <1>9, <1>13, <2>1, <2>3, <3>1
  <2> QED
    BY <2>2, <2>3
<1> QED
  BY <1>8, <1>10, <1>11, <1>12, <1>13

\* A head whose brace is still to come,
LEMMA HeadFollows ==
  ASSUME NEW elided, NEW n, IsFile(elided, n), NEW o \in 0..Len(elided[n]), NEW e \in o..Len(elided[n]),
         \A i \in (o + 1)..e : elided[n][i] \notin Stops,
         NEW h \in (o + 1)..e, IsHead(elided, <<n, h>>),
         NEW stack, FollowsTo(elided, n, stack, o), NEW b, IsBlock(b), b.open = FALSE
  PROVE  FollowsTo(elided, n, Append(stack, b), e)
<1> DEFINE along == Along(elided, n)
           next == Append(stack, b)
<1>1. elided[n] \in Line /\ Len(elided[n]) \in Nat /\ OpenBraces(elided)[n - 1] \in Nat /\ n \in Nat
  BY AlongUnfolds
<1>2. elided \in Seq(Line) /\ n \in 1..Len(elided)
  BY DEF IsFile
<1>3. h \in 1..Len(elided[n]) /\ h \in (o + 1)..Len(elided[n]) /\ \A i \in (o + 1)..(h - 1) : i \in (o + 1)..e
  BY <1>1
<1>4. SeenOpenBrace(stack)
  BY <1>3, NobodyWaits
<1>5. IsOpenBelow(stack) /\ along[o] = Len(stack) /\ Len(stack) \in Nat
  BY <1>4, ListFacts DEF FollowsTo, Follows, IsOpenBelow
<1>6. IsOpenBelow(next) /\ Len(next) = Len(stack) + 1 /\ ~SeenOpenBrace(next)
  BY <1>4, <1>5, PushedOn
<1>7. along[e] = along[o]
  <2> DEFINE line == elided[n]
  <2>1. \A i \in (o + 1)..e : line[i] # Opening /\ line[i] # Closing
    BY TokensDiffer
  <2> HIDE DEF line
  <2> QED
    BY <1>1, <2>1, BracesStay DEF Along, line
<1>8. Waits(elided, <<n, h>>, <<n, e>>)
  <2>1. ~IsBefore(<<n, e>>, <<n, h>>)
    BY <1>1, <1>3 DEF IsBefore
  <2>2. ASSUME NEW r \in Places(elided), IsBefore(<<n, h>>, r), TokenAt(elided, r) \in Answering
        PROVE  IsBefore(<<n, e>>, r)
    <3>1. r[1] \in Nat /\ r[2] \in Nat
      BY <1>2, PlacesAre
    <3>2. r[1] > n \/ (r[1] = n /\ r[2] > h)
      BY <2>2 DEF IsBefore
    <3>3. TokenAt(elided, r) \in Stops
      BY <2>2, TokensDiffer
    <3>4. ~(r[1] = n /\ r[2] \in (o + 1)..e)
      BY <3>3 DEF TokenAt
    <3> QED
      BY <1>1, <1>3, <3>1, <3>2, <3>4 DEF IsBefore
  <2> QED
    BY <2>1, <2>2 DEF Waits
<1>9. <<n, h>> \in Places(elided)
  BY <1>2, <1>3, PlacesAre
<1> HIDE DEF next, along
<1>10. along[e] = Len(next) - 1
  BY <1>5, <1>6, <1>7
<1>11. FollowsTo(elided, n, next, e)
  BY <1>6, <1>8, <1>9, <1>10 DEF FollowsTo, Follows, IsOpenBelow, along
<1> QED
  BY <1>11 DEF next

\* and one together with its brace.
LEMMA OpenHeadFollows ==
  ASSUME NEW elided, NEW n, IsFile(elided, n), NEW o \in 0..Len(elided[n]), NEW e \in (o + 1)..Len(elided[n]),
         \A i \in (o + 1)..(e - 1) : elided[n][i] # Opening /\ elided[n][i] # Closing,
         elided[n][e] = Opening,
         NEW stack, SeenOpenBrace(stack), FollowsTo(elided, n, stack, o), NEW b, IsBlock(b), b.open
  PROVE  FollowsTo(elided, n, Append(stack, b), e)
<1> DEFINE along == Along(elided, n)
           next == Append(stack, b)
           line == elided[n]
<1>1. line \in Line /\ Len(line) \in Nat /\ OpenBraces(elided)[n - 1] \in Nat
  BY AlongUnfolds
<1>2. e \in 1..Len(line) /\ e - 1 \in o..Len(line)
  BY <1>1
<1>3. along[e - 1] = along[o]
  <2>1. \A i \in (o + 1)..(e - 1) : line[i] # Opening /\ line[i] # Closing
    OBVIOUS
  <2> HIDE DEF line
  <2> QED
    BY <1>1, <1>2, <2>1, BracesStay DEF Along, line
<1>4. along[o] \in Nat /\ along[e] = OpenBehind(along[e - 1], line[e])
  BY <1>2, AlongUnfolds
<1>5. along[e] = along[o] + 1
  BY <1>3, <1>4, BehindToken
<1>6. IsOpenBelow(stack) /\ along[o] = Len(stack)
  BY DEF FollowsTo, Follows, IsOpenBelow
<1>7. IsOpenBelow(next) /\ Len(next) = Len(stack) + 1 /\ SeenOpenBrace(next)
  BY <1>6, PushedOn
<1> HIDE DEF next, along
<1>8. along[e] = Len(next)
  BY <1>5, <1>6, <1>7
<1>9. FollowsTo(elided, n, next, e)
  BY <1>7, <1>8 DEF FollowsTo, Follows, IsOpenBelow, along
<1> QED
  BY <1>9 DEF next

\* Counting parentheses leaves the blocks as they follow.
LEMMA CountedFollow ==
  ASSUME NEW elided, NEW stack, NEW depth, NEW place, Follows(elided, stack, depth, place), NEW line
  PROVE  Follows(elided, CountParentheses(stack, line), depth, place)
<1> DEFINE b      == Last(stack)
           change == Count(line, "(") - Count(line, ")")
           parens == b.parens + change
           asm    == IF b.asm \in {"no", "end"}
                       THEN IF change # 0 /\ parens = 1 /\ MatchAsm(line) THEN "inside" ELSE "no"
                     ELSE IF b.asm = "inside" /\ parens = 0 THEN "end" ELSE b.asm
           c      == [b EXCEPT !.parens = parens, !.asm = asm]
           next   == CountParentheses(stack, line)
<1>1. next = IF stack = <<>> THEN stack ELSE OnTop(stack, c)
  BY Zenon DEF CountParentheses
<1> SUFFICES ASSUME stack # <<>> PROVE Follows(elided, next, depth, place)
  <2> HIDE DEF next
  <2> QED
    BY <1>1 DEF next
<1>2. IsOpenBelow(stack)
  BY DEF Follows, IsOpenBelow
<1>3. IsBlock(b)
  BY <1>2, TopIsBlock
<1> HIDE DEF b, next, parens, asm
<1>4. IsBlock(c) /\ c.open = b.open
  <2>1. c = [b EXCEPT !.parens = parens, !.asm = asm]
    OBVIOUS
  <2> HIDE DEF c
  <2> QED
    BY <1>3, <2>1 DEF IsBlock
<1>5. next = OnTop(stack, c)
  BY <1>1
<1> HIDE DEF c
<1>6. IsOpenBelow(next) /\ Len(next) = Len(stack) /\ (c.open => SeenOpenBrace(next)) /\ (SeenOpenBrace(next) => c.open)
  BY <1>2, <1>4, <1>5, PutOnTop
<1>7. (SeenOpenBrace(stack) => c.open) /\ (c.open => SeenOpenBrace(stack))
  BY <1>4 DEF SeenOpenBrace, b
<1>8. (SeenOpenBrace(stack) => SeenOpenBrace(next)) /\ (SeenOpenBrace(next) => SeenOpenBrace(stack))
  BY <1>6, <1>7
<1> QED
  BY <1>6, <1>8 DEF Follows, IsOpenBelow

\* What is left of a line, and the blocks up to there; between namespaces, it begins
\* with no argument of a template.
IsLeft(elided, n, stack, line) ==
  \E o \in 0..Len(elided[n]) : line = After(elided[n], o) /\ FollowsTo(elided, n, stack, o)

IsLeftByNames(elided, n, stack, line) ==
  \E o \in 0..Len(elided[n]) :
    line = After(elided[n], o) /\ FollowsTo(elided, n, stack, o) /\ (o > 0 => elided[n][o] \notin Separating)

\* Taking a namespace.
LEMMA NamespaceFollows ==
  ASSUME NEW elided, NEW n, IsFile(elided, n), NEW acc, IsLeftByNames(elided, n, acc.stack, acc.line)
  PROVE  LET next == TakeNamespace(acc, n) IN IsLeftByNames(elided, n, next.stack, next.line)
<1> DEFINE line  == elided[n]
           named == Len(acc.line) > 1 /\ IsWord(acc.line[2])
           count == IF named THEN 2 ELSE 1
           rest  == After(acc.line, count)
           brace == Find(rest, {Opening})
           b     == _NamespaceInfo(IF named THEN acc.line[2] ELSE NONE, n, brace # 0)
           stack == Append(acc.stack, b)
           left  == After(rest, brace)
<1>1. \/ TakeNamespace(acc, n) = acc
      \/ /\ acc.line # <<>> /\ Head(acc.line) = "namespace"
         /\ TakeNamespace(acc, n) = [stack |-> stack, line |-> left]
  BY Zenon DEF TakeNamespace, Opening
<1> SUFFICES ASSUME acc.line # <<>>, Head(acc.line) = "namespace"
             PROVE  IsLeftByNames(elided, n, stack, left)
  <2> HIDE DEF stack, left
  <2> QED
    BY <1>1
<1>2. line \in Line /\ Len(line) \in Nat /\ n \in Nat
  BY AlongUnfolds
<1>3. PICK o \in 0..Len(line) :
        /\ acc.line = After(line, o) /\ FollowsTo(elided, n, acc.stack, o)
        /\ o > 0 => line[o] \notin Separating
  BY DEF IsLeftByNames
<1> HIDE DEF b, line
<1>4. /\ acc.line \in Line /\ Len(acc.line) = Len(line) - o
      /\ \A i \in 1..(Len(line) - o) : acc.line[i] = line[o + i]
      /\ \A k \in 0..(Len(line) - o) : After(acc.line, k) = After(line, o + k)
  <2>1. IsRest(acc.line, line, o)
    BY <1>2, <1>3, AfterTokens
  <2> QED
    BY <2>1 DEF IsRest
<1>5. Len(acc.line) > 0 /\ acc.line[1] = "namespace"
  BY <1>4 DEF Line
<1> DEFINE h == o + 1
           r == o + count
<1>6. h \in 1..Len(line) /\ line[h] = "namespace" /\ line[h] \in Declaring
  BY <1>2, <1>4, <1>5, TokensDiffer
<1>7. count \in 1..2 /\ r \in h..Len(line) /\ count \in 0..(Len(line) - o)
  BY <1>2, <1>4, <1>5
<1>8. \A i \in h..r : line[i] \notin Stops /\ line[i] \notin Separating
  <2>1. named => line[o + 2] \notin Stops /\ line[o + 2] \notin Separating
    BY <1>2, <1>4, TokensDiffer
  <2>2. \A i \in h..r : i = h \/ (named /\ i = o + 2)
    BY <1>2
  <2>3. line[h] \notin Stops /\ line[h] \notin Separating
    BY <1>6, TokensDiffer
  <2> HIDE DEF h, r, named
  <2> QED
    BY <2>1, <2>2, <2>3 DEF h
<1>9. rest = After(line, r)
  BY <1>4, <1>7
<1> HIDE DEF count, rest, named
<1>10. /\ rest \in Line /\ Len(rest) = Len(line) - r
       /\ \A i \in 1..(Len(line) - r) : rest[i] = line[r + i]
       /\ \A k \in 0..(Len(line) - r) : After(rest, k) = After(line, r + k)
  <2>1. r \in 0..Len(line)
    BY <1>6, <1>7
  <2> HIDE DEF r
  <2>2. IsRest(rest, line, r)
    BY <1>2, <1>9, <2>1, AfterTokens
  <2> QED
    BY <2>2 DEF IsRest
<1>11. /\ brace \in 0..Len(rest) /\ (brace # 0 => brace \in 1..Len(rest) /\ rest[brace] = Opening)
       /\ \A i \in 1..Len(rest) : brace = 0 \/ i < brace => rest[i] # Opening
  BY <1>10, FindType, FindIsFirst
<1> HIDE DEF brace
<1>12. IsHead(elided, <<n, h>>)
  BY <1>3, <1>6 DEF IsHead, TokenAt, line
<1>13. h \in (o + 1)..Len(line) /\ \A i \in (o + 1)..(h - 1) : FALSE
  BY <1>6
<1>14. SeenOpenBrace(acc.stack)
  <2> HIDE DEF h
  <2> QED
    BY <1>3, <1>12, <1>13, NobodyWaits DEF line
<1>15. IsBlock(b) /\ b.open = (brace # 0)
  BY MadeBlocks DEF b
<1>16. left = After(line, r + brace) /\ r + brace \in 0..Len(line)
  BY <1>2, <1>6, <1>7, <1>10, <1>11
<1> HIDE DEF left
<1>17. CASE brace = 0
  <2>1. \A i \in (o + 1)..r : line[i] \notin Stops
    BY <1>8
  <2>2. r \in o..Len(line) /\ h \in (o + 1)..r
    BY <1>6, <1>7
  <2>3. b.open = FALSE
    BY <1>15, <1>17
  <2>4. FollowsTo(elided, n, stack, r)
    <3> HIDE DEF h, r, stack
    <3> QED
      BY <1>3, <1>12, <1>15, <2>1, <2>2, <2>3, HeadFollows DEF line, stack
  <2>5. line[r] \notin Separating /\ r + brace = r
    BY <1>6, <1>7, <1>8, <1>17
  <2> HIDE DEF stack, r
  <2> QED
    BY <1>16, <2>4, <2>5 DEF IsLeftByNames, line
<1>18. CASE brace # 0
  <2> DEFINE e == r + brace
  <2>1. e \in (o + 1)..Len(line) /\ line[e] = Opening /\ e \in 1..Len(line) /\ h < e
    BY <1>2, <1>6, <1>7, <1>10, <1>11, <1>18
  <2>2. \A i \in (o + 1)..(e - 1) : line[i] # Opening
    <3>1. TAKE i \in (o + 1)..(e - 1)
    <3>2. CASE i <= r
      BY <1>8, <3>2, TokensDiffer
    <3>3. CASE i > r
      <4>1. i - r \in 1..Len(rest) /\ i - r < brace /\ r + (i - r) = i /\ i - r \in 1..(Len(line) - r)
        BY <1>2, <1>6, <1>7, <1>10, <1>11, <3>3
      <4> QED
        BY <1>10, <1>11, <4>1
    <3> QED
      BY <1>6, <1>7, <3>2, <3>3
  <2>3. \A i \in (o + 1)..(e - 1) : line[i] # Closing
    <3>1. SUFFICES ASSUME NEW i \in (o + 1)..(e - 1), line[i] = Closing PROVE FALSE
      OBVIOUS
    <3>2. i \in 1..Len(line) /\ i < e /\ h < i
      <4>1. i # h
        BY <1>6, <3>1, TokensDiffer
      <4> QED
        BY <2>1, <4>1
    <3>3. \E l \in h..i : line[l] = Opening
      <4>1. NoneEndsAhead(elided) /\ n \in DOMAIN elided /\ DOMAIN elided[n] = 1..Len(line)
        BY AlongUnfolds DEF IsFile, line
      <4> HIDE DEF h, e
      <4> QED
        BY <1>6, <2>1, <3>1, <3>2, <4>1, Zenon DEF NoneEndsAhead, Opening, Closing, line
    <3>4. \A l \in h..i : l \in (o + 1)..(e - 1)
      <4> HIDE DEF e
      <4> QED
        BY <1>2, <2>1, <3>1
    <3> QED
      BY <2>2, <3>3, <3>4
  <2>4. b.open
    BY <1>15, <1>18
  <2>5. FollowsTo(elided, n, stack, e)
    <3> HIDE DEF h, r, e, stack
    <3> QED
      BY <1>3, <1>14, <1>15, <2>1, <2>2, <2>3, <2>4, OpenHeadFollows DEF line, stack
  <2>6. line[e] \notin Separating
    BY <2>1, TokensDiffer
  <2> HIDE DEF stack, r
  <2> QED
    BY <1>16, <2>5, <2>6 DEF IsLeftByNames, line
<1> QED
  BY <1>17, <1>18

\* and all of them.
LEMMA NamespacesFollow ==
  ASSUME NEW elided, NEW n, IsFile(elided, n), NEW stack, FollowsTo(elided, n, stack, 0)
  PROVE  LET next == TakeNamespaces(stack, elided[n], n) IN IsLeftByNames(elided, n, next.stack, next.line)
<1> DEFINE line == elided[n]
           m == Len(line)
           P(v) == IsLeftByNames(elided, n, v.stack, v.line)
<1>1. line \in Line /\ m \in Nat
  BY AlongUnfolds
<1>2. PICK run : /\ run[0] = [stack |-> stack, line |-> line]
                 /\ \A k \in 1..m : run[k] = TakeNamespace(run[k - 1], n)
                 /\ TakeNamespaces(stack, line, n) = run[m]
  BY <1>1, NamespacesUnroll
<1>3. IsLeftByNames(elided, n, stack, line)
  <2> DEFINE left == After(line, 0)
  <2>1. 0 \in 0..m
    BY <1>1
  <2>2. left = line
    BY <1>1, <2>1, AfterTokens DEF IsRest
  <2> QED
    BY <2>1, <2>2 DEF IsLeftByNames
<1> DEFINE T == {k \in 0..m : P(run[k])}
<1> HIDE DEF m
<1>4. 0 \in T
  BY <1>1, <1>2, <1>3
<1>5. ASSUME NEW k \in 1..m, k - 1 \in T PROVE k \in T
  <2>1. P(run[k - 1])
    BY <1>5
  <2>2. P(TakeNamespace(run[k - 1], n))
    BY <2>1, NamespaceFollows
  <2> QED
    BY <1>2, <2>2
<1>6. m \in T
  <2> HIDE DEF T
  <2>1. \A k \in 0..m : k \in T
    BY <1>1, <1>4, <1>5, Climbs
  <2> QED
    BY <1>1, <2>1
<1> QED
  BY <1>2, <1>6

\* The head of a class: behind it at most its name and a macro, before it at most a
\* list of parameters.
LEMMA HeadOfClass ==
  ASSUME NEW line \in Line, DeclarationEnd(line) # 0
  PROVE  /\ DeclarationEnd(line) \in 1..Len(line)
         /\ \E h \in 1..DeclarationEnd(line) :
              line[h] = "class" /\ (h > 1 => line[h - 1] \notin Separating)
         /\ \A i \in 1..DeclarationEnd(line) : line[i] \notin Stops
<1> DEFINE marks == {"<", ">", ",", ":", "="}
           inTemplate(i) ==
             /\ i > 3 /\ line[1] = "template" /\ line[2] = "<" /\ line[i - 1] = ">"
             /\ \A k \in 3..(i - 2) : IsWord(line[k]) \/ line[k] \in marks
           starts == {i \in 1..(Len(line) - 1) :
                        line[i] = "class" /\ IsWord(line[i + 1]) /\ (i = 1 \/ inTemplate(i))}
           h == Max(starts)
           name == h + 1
           end == DeclarationEnd(line)
<1>1. Len(line) \in Nat
  BY LenProperties DEF Line
<1>2. /\ starts # {}
      /\ \/ end = name
         \/ end = name + 1 /\ name < Len(line) /\ IsWord(line[name + 1])
  BY Zenon DEF DeclarationEnd
<1>3. \A t \in marks : t \notin Stops
  BY Zenon DEF Stops
<1>4. "<" \in marks /\ ">" \in marks /\ ">" \notin Separating /\ IsWord("template")
  BY Zenon DEF Separating, IsWord, Punctuation, DQ, SQ, RAW, RAWX
<1>5. h \in starts
  <2>1. starts \in SUBSET (1..(Len(line) - 1))
    <3> HIDE DEF marks
    <3> QED
      OBVIOUS
  <2>3. Len(line) - 1 \in Int
    BY <1>1
  <2>2. starts # {}
    BY <1>2
  <2> HIDE DEF starts
  <2> QED
    BY <2>1, <2>2, <2>3, MaxOfNaturals
<1> HIDE DEF marks
<1>6. h \in 1..(Len(line) - 1) /\ line[h] = "class" /\ IsWord(line[h + 1]) /\ (h = 1 \/ inTemplate(h))
  BY <1>5
<1> HIDE DEF h, starts, end
<1>7. h > 1 => line[h - 1] = ">"
  BY <1>6
<1>8. \A i \in 1..(h - 1) : line[i] \notin Stops
  <2> SUFFICES ASSUME NEW i \in 1..(h - 1) PROVE line[i] \notin Stops
    OBVIOUS
  <2>1. inTemplate(h)
    BY <1>6
  <2>2. i = 1 \/ i = 2 \/ i \in 3..(h - 2) \/ i = h - 1
    BY <1>6
  <2>3. i = 1 => IsWord(line[i])
    BY <1>4, <2>1
  <2>4. i = 2 => line[i] \in marks
    BY <1>4, <2>1
  <2>5. i \in 3..(h - 2) => IsWord(line[i]) \/ line[i] \in marks
    BY <2>1
  <2>6. i = h - 1 => line[i] \in marks
    BY <1>4, <2>1
  <2>7. IsWord(line[i]) \/ line[i] \in marks
    BY <2>2, <2>3, <2>4, <2>5, <2>6
  <2> QED
    BY <1>3, <2>7, TokensDiffer
<1>9. line[h] \in Declaring
  BY <1>6, TokensDiffer
<1>10. end \in 1..Len(line) /\ h \in 1..end
  BY <1>1, <1>2, <1>6
<1>11. \A i \in 1..end : line[i] \notin Stops
  <2> SUFFICES ASSUME NEW i \in 1..end PROVE line[i] \notin Stops
    OBVIOUS
  <2>1. i \in 1..(h - 1) \/ i = h \/ (i = h + 1 /\ IsWord(line[i])) \/ (i = h + 2 /\ IsWord(line[i]))
    BY <1>2, <1>6
  <2> QED
    BY <1>8, <1>9, <2>1, TokensDiffer
<1> QED
  BY <1>4, <1>6, <1>7, <1>10, <1>11 DEF end

\* Taking a class.
LEMMA ClassFollows ==
  ASSUME NEW elided, NEW n, IsFile(elided, n), NEW acc, IsLeftByNames(elided, n, acc.stack, acc.line)
  PROVE  LET next == TakeClass(acc, elided, n) IN IsLeft(elided, n, next.stack, next.line)
<1> DEFINE line  == elided[n]
           end   == DeclarationEnd(acc.line)
           b     == _ClassInfo(elided, n)
           stack == Append(acc.stack, b)
           left  == After(acc.line, end)
<1>1. \/ TakeClass(acc, elided, n) = acc
      \/ end # 0 /\ TakeClass(acc, elided, n) = [stack |-> stack, line |-> left]
  BY Zenon DEF TakeClass
<1>2. line \in Line /\ Len(line) \in Nat /\ n \in Nat
  BY AlongUnfolds
<1>3. PICK o \in 0..Len(line) :
        /\ acc.line = After(line, o) /\ FollowsTo(elided, n, acc.stack, o)
        /\ o > 0 => line[o] \notin Separating
  BY DEF IsLeftByNames
<1>4. IsLeft(elided, n, acc.stack, acc.line)
  BY <1>3 DEF IsLeft
<1> SUFFICES ASSUME end # 0 PROVE IsLeft(elided, n, stack, left)
  <2> HIDE DEF stack, left, end
  <2> QED
    BY <1>1, <1>4
<1> HIDE DEF b, line
<1>5. /\ acc.line \in Line /\ Len(acc.line) = Len(line) - o
      /\ \A i \in 1..(Len(line) - o) : acc.line[i] = line[o + i]
      /\ \A k \in 0..(Len(line) - o) : After(acc.line, k) = After(line, o + k)
  <2>1. IsRest(acc.line, line, o)
    BY <1>2, <1>3, AfterTokens
  <2> QED
    BY <2>1 DEF IsRest
<1>6. /\ end \in 1..Len(acc.line)
      /\ \E h \in 1..end : acc.line[h] = "class" /\ (h > 1 => acc.line[h - 1] \notin Separating)
      /\ \A i \in 1..end : acc.line[i] \notin Stops
  BY <1>5, HeadOfClass
<1> HIDE DEF end
<1>7. PICK k \in 1..end : acc.line[k] = "class" /\ (k > 1 => acc.line[k - 1] \notin Separating)
  BY <1>6
<1> DEFINE h == o + k
           e == o + end
<1>8. h \in (o + 1)..e /\ e \in o..Len(line) /\ left = After(line, e) /\ e \in 0..Len(line) /\ h \in Nat
  BY <1>2, <1>5, <1>6
<1>9. \A i \in (o + 1)..e : line[i] \notin Stops
  <2>1. TAKE i \in (o + 1)..e
  <2>2. i - o \in 1..end /\ i - o \in 1..(Len(line) - o) /\ o + (i - o) = i
    BY <1>2, <1>5, <1>6
  <2> QED
    BY <1>5, <1>6, <2>2
<1>10. line[h] = "class" /\ line[h] \in Declaring
  BY <1>5, <1>6, <1>7, TokensDiffer
<1>11. h > 1 => line[h - 1] \notin Separating
  <2>1. CASE k = 1
    <3>1. h - 1 = o
      BY <2>1
    <3> QED
      BY <1>3, <3>1
  <2>2. CASE k # 1
    <3>1. k - 1 \in 1..(Len(line) - o) /\ o + (k - 1) = h - 1 /\ k > 1
      BY <1>2, <1>5, <1>6, <2>2
    <3> QED
      BY <1>5, <1>7, <3>1
  <2> QED
    BY <2>1, <2>2
<1>12. IsHead(elided, <<n, h>>)
  BY <1>10, <1>11 DEF IsHead, TokenAt, line
<1>13. IsBlock(b) /\ b.open = FALSE
  BY MadeBlocks DEF b
<1>14. FollowsTo(elided, n, stack, e)
  <2> HIDE DEF h, e, stack
  <2> QED
    BY <1>3, <1>8, <1>9, <1>12, <1>13, HeadFollows DEF line, stack
<1> HIDE DEF stack, e, left
<1> QED
  BY <1>8, <1>14 DEF IsLeft, line

\* Taking one brace, semicolon or parenthesis: it is taken, or there is none.
LEMMA BraceFollows ==
  ASSUME NEW elided, NEW n, IsFile(elided, n), NEW raw, NEW acc, NEW o \in 0..Len(elided[n]),
         acc.line = After(elided[n], o), FollowsTo(elided, n, acc.stack, o)
  PROVE  LET next == TakeBrace(acc, raw, n)
         IN  \/ next = acc /\ \A i \in (o + 1)..Len(elided[n]) : elided[n][i] \notin Stops
             \/ \E e \in (o + 1)..Len(elided[n]) :
                  next.line = After(elided[n], e) /\ FollowsTo(elided, n, next.stack, e)
<1> DEFINE line == elided[n]
           i    == Find(acc.line, Stops)
           ended == IF acc.line[i] = "}" /\ acc.stack # <<>> THEN CheckEnd(Last(acc.stack), raw, n)
                    ELSE <<>>
           errors == acc.errors \o ended
           stack == TakeToken(acc.stack, acc.line[i], acc.line, n)
           left == After(acc.line, i)
           next == TakeBrace(acc, raw, n)
<1>1. \/ i = 0 /\ next = acc
      \/ i # 0 /\ next = [stack |-> stack, line |-> left, errors |-> errors]
  BY Zenon DEF TakeBrace, Stops
<1>2. line \in Line /\ Len(line) \in Nat
  BY AlongUnfolds
<1> HIDE DEF errors, next
<1>3. /\ acc.line \in Line /\ Len(acc.line) = Len(line) - o
      /\ \A k \in 1..(Len(line) - o) : acc.line[k] = line[o + k]
      /\ \A k \in 0..(Len(line) - o) : After(acc.line, k) = After(line, o + k)
  <2>1. IsRest(acc.line, line, o)
    BY <1>2, AfterTokens
  <2> QED
    BY <2>1 DEF IsRest
<1>4. /\ i \in 0..Len(acc.line) /\ (i # 0 => i \in 1..Len(acc.line) /\ acc.line[i] \in Stops)
      /\ \A k \in 1..Len(acc.line) : i = 0 \/ k < i => acc.line[k] \notin Stops
  BY <1>3, FindType, FindIsFirst
<1> HIDE DEF i
<1>5. CASE i = 0
  <2>1. \A k \in (o + 1)..Len(line) : k - o \in 1..(Len(line) - o) /\ o + (k - o) = k
    BY <1>2
  <2>2. \A k \in (o + 1)..Len(line) : line[k] \notin Stops
    BY <1>3, <1>4, <1>5, <2>1
  <2> QED
    BY <1>1, <1>5, <2>2 DEF next
<1>6. CASE i # 0
  <2> DEFINE e == o + i
             r == e - 1
  <2>1. /\ e \in (o + 1)..Len(line) /\ r \in o..Len(line) /\ r \in 0..Len(line) /\ r < Len(line) /\ r + 1 = e
        /\ left = After(line, e) /\ acc.line[i] = line[e] /\ line[e] \in Stops
    BY <1>2, <1>3, <1>4, <1>6
  <2>2. \A k \in (o + 1)..r : line[k] \notin Stops
    <3>1. TAKE k \in (o + 1)..r
    <3>2. k - o \in 1..(Len(line) - o) /\ o + (k - o) = k /\ k - o < i
      BY <1>2, <1>3, <1>4, <1>6
    <3> QED
      BY <1>3, <1>4, <3>2
  <2>3. FollowsTo(elided, n, acc.stack, r)
    <3> HIDE DEF r
    <3> QED
      BY <2>1, <2>2, ReadsOn
  <2>4. FollowsTo(elided, n, stack, e)
    <3>1. FollowsTo(elided, n, TakeToken(acc.stack, elided[n][r + 1], acc.line, n), r + 1)
      <4> HIDE DEF r, e
      <4> QED
        BY <2>1, <2>3, StopFollows
    <3> QED
      BY <2>1, <3>1
  <2>5. next.stack = stack /\ next.line = left
    BY <1>1, <1>6
  <2> HIDE DEF stack, e, r
  <2> QED
    BY <2>1, <2>4, <2>5 DEF next
<1> QED
  BY <1>5, <1>6

\* Taking all of them comes to the end of the line.
LEMMA BracesFollow ==
  ASSUME NEW elided, NEW n, IsFile(elided, n), NEW raw, NEW heads, IsLeft(elided, n, heads.stack, heads.line)
  PROVE  FollowsTo(elided, n, TakeBraces(heads, raw, n).stack, Len(elided[n]))
<1> DEFINE line == elided[n]
           m == Len(heads.line)
           Done(v, k, o) ==
             /\ v.line = After(line, o) /\ FollowsTo(elided, n, v.stack, o)
             /\ \/ Len(line) - o <= m - k
                \/ \A i \in (o + 1)..Len(line) : line[i] \notin Stops
<1>1. line \in Line /\ Len(line) \in Nat
  BY AlongUnfolds
<1>2. PICK a \in 0..Len(line) : heads.line = After(line, a) /\ FollowsTo(elided, n, heads.stack, a)
  BY DEF IsLeft
<1>3. heads.line \in Line /\ m = Len(line) - a /\ m \in Nat
  <2>1. IsRest(heads.line, line, a)
    BY <1>1, <1>2, AfterTokens
  <2> QED
    BY <1>1, <2>1 DEF IsRest
<1>0. heads.line \in Line
  BY <1>3
<1>4. PICK run : /\ run[0] = [stack |-> heads.stack, line |-> heads.line, errors |-> <<>>]
                 /\ \A k \in 1..m : run[k] = TakeBrace(run[k - 1], raw, n)
                 /\ TakeBraces(heads, raw, n) = run[m]
  BY <1>0, BracesUnroll
<1> DEFINE T == {k \in 0..m : \E o \in 0..Len(line) : Done(run[k], k, o)}
<1> HIDE DEF m
<1>5. 0 \in T
  <2>1. Done(run[0], 0, a)
    BY <1>1, <1>2, <1>3, <1>4
  <2> QED
    BY <1>3, <2>1
<1>6. ASSUME NEW k \in 1..m, k - 1 \in T PROVE k \in T
  <2>1. PICK o \in 0..Len(line) : Done(run[k - 1], k - 1, o)
    BY <1>6
  <2> DEFINE v == run[k - 1]
             next == TakeBrace(v, raw, n)
  <2>2. \/ next = v /\ \A i \in (o + 1)..Len(line) : line[i] \notin Stops
        \/ \E e \in (o + 1)..Len(line) : next.line = After(line, e) /\ FollowsTo(elided, n, next.stack, e)
    <3> HIDE DEF v
    <3> QED
      BY <2>1, BraceFollows DEF v
  <2>3. run[k] = next /\ k \in 0..m
    BY <1>3, <1>4
  <2> HIDE DEF next
  <2>4. CASE next = v /\ \A i \in (o + 1)..Len(line) : line[i] \notin Stops
    <3>1. Done(run[k], k, o)
      BY <2>1, <2>3, <2>4
    <3> QED
      BY <2>3, <3>1
  <2>5. CASE \E e \in (o + 1)..Len(line) : next.line = After(line, e) /\ FollowsTo(elided, n, next.stack, e)
    <3>1. PICK e \in (o + 1)..Len(line) : next.line = After(line, e) /\ FollowsTo(elided, n, next.stack, e)
      BY <2>5
    <3>2. e \in 0..Len(line)
      BY <1>1
    <3>3. \/ Len(line) - e <= m - k
          \/ \A i \in (e + 1)..Len(line) : line[i] \notin Stops
      <4>1. CASE Len(line) - o <= m - (k - 1)
        BY <1>1, <1>3, <4>1
      <4>2. CASE \A i \in (o + 1)..Len(line) : line[i] \notin Stops
        <5>1. \A i \in (e + 1)..Len(line) : i \in (o + 1)..Len(line)
          BY <1>1
        <5> QED
          BY <4>2, <5>1
      <4> QED
        BY <2>1, <4>1, <4>2
    <3>4. Done(run[k], k, e)
      BY <2>3, <3>1, <3>3
    <3> QED
      BY <2>3, <3>2, <3>4
  <2> QED
    BY <2>2, <2>4, <2>5
<1>7. m \in T
  <2> HIDE DEF T
  <2>1. \A k \in 0..m : k \in T
    BY <1>3, <1>5, <1>6, Climbs
  <2> QED
    BY <1>3, <2>1
<1>8. PICK o \in 0..Len(line) : Done(run[m], m, o)
  BY <1>7
<1>9. \A i \in (o + 1)..Len(line) : line[i] \notin Stops
  BY <1>1, <1>3, <1>8
<1>10. Len(line) \in o..Len(line)
  BY <1>1
<1> QED
  BY <1>4, <1>8, <1>9, <1>10, ReadsOn

\* A line without conditionals.
LEMMA LineFollows ==
  ASSUME NEW calm, NEW s, IsNesting(s, calm), NEW lines, NEW n, IsFile(lines.elided, n),
         Directive(lines.elided[n]) = NONE,
         Follows(lines.elided, s.stack, OpenBraces(lines.elided)[n - 1], <<n, 0>>)
  PROVE  Follows(lines.elided, Update(s, lines, n).nesting.stack, OpenBraces(lines.elided)[n], <<n + 1, 0>>)
<1> DEFINE elided == lines.elided
           line   == elided[n]
           r      == RememberTop(s)
           pp     == UpdatePreprocessor(r, line)
           count  == CountParentheses(pp.stack, line)
           spaces == TakeNamespaces(count, line, n)
           heads  == TakeClass(spaces, elided, n)
           braces == TakeBraces(heads, lines.raw[n], n)
           next   == [pp EXCEPT !.stack = braces.stack]
<1>1. /\ line \in Line /\ Len(line) \in Nat /\ n \in Nat
      /\ Along(elided, n)[0] = OpenBraces(elided)[n - 1]
      /\ Along(elided, n)[Len(line)] = OpenBraces(elided)[n]
  BY AlongUnfolds
<1>2. Update(s, lines, n) = [nesting |-> next, errors |-> braces.errors]
  BY Zenon DEF Update, Updated, TakeHeads
<1>3. /\ r = [stack |-> r.stack, previous_stack_top |-> r.previous_stack_top, pp_stack |-> r.pp_stack]
      /\ r.stack = s.stack
  BY DEF RememberTop, IsNesting
<1>4. pp = r
  BY DEF UpdatePreprocessor, NONE
<1> HIDE DEF pp, r
<1>5. FollowsTo(elided, n, pp.stack, 0)
  BY <1>1, <1>3, <1>4 DEF FollowsTo
<1>6. FollowsTo(elided, n, count, 0)
  BY <1>5, CountedFollow DEF FollowsTo
<1> HIDE DEF count
<1>7. IsLeftByNames(elided, n, spaces.stack, spaces.line)
  BY <1>6, NamespacesFollow
<1> HIDE DEF spaces
<1>8. IsLeft(elided, n, heads.stack, heads.line)
  BY <1>7, ClassFollows
<1> HIDE DEF heads
<1>9. FollowsTo(elided, n, braces.stack, Len(line))
  BY <1>8, BracesFollow
<1> HIDE DEF braces
<1>10. next.stack = braces.stack
  BY <1>3, <1>4
<1> HIDE DEF next
<1>11. Follows(elided, braces.stack, OpenBraces(elided)[n], <<n + 1, 0>>)
  <2>1. Follows(elided, braces.stack, OpenBraces(elided)[n], <<n, Len(line)>>)
    BY <1>1, <1>9 DEF FollowsTo
  <2>2. ASSUME NEW p \in Places(elided), Waits(elided, p, <<n, Len(line)>>)
        PROVE  Waits(elided, p, <<n + 1, 0>>)
    <3>1. elided \in Seq(Line)
      BY DEF IsFile
    <3>2. p[1] \in Nat /\ p[2] \in Nat
      BY <3>1, PlacesAre
    <3>3. ~IsBefore(<<n, Len(line)>>, p) /\ IsHead(elided, p)
      BY <2>2 DEF Waits
    <3>4. ~IsBefore(<<n + 1, 0>>, p)
      BY <1>1, <3>2, <3>3 DEF IsBefore
    <3>5. ASSUME NEW q \in Places(elided), IsBefore(p, q), TokenAt(elided, q) \in Answering
          PROVE  IsBefore(<<n + 1, 0>>, q)
      <4>1. q[1] \in Nat /\ q[2] \in Nat \ {0} /\ q[2] \in 1..Len(elided[q[1]])
        BY <3>1, PlacesAre
      <4>2. IsBefore(<<n, Len(line)>>, q)
        BY <2>2, <3>5 DEF Waits
      <4>3. q[1] > n \/ (q[1] = n /\ q[2] > Len(line))
        BY <4>2 DEF IsBefore
      <4>4. q[1] # n \/ q[2] <= Len(line)
        BY <1>1, <4>1
      <4> QED
        BY <1>1, <4>1, <4>3, <4>4 DEF IsBefore
    <3> QED
      BY <3>3, <3>4, <3>5 DEF Waits
  <2> QED
    BY <2>1, <2>2 DEF Follows
<1> QED
  BY <1>2, <1>10, <1>11

\* What it takes for the blocks to follow the braces behind a step.
LEMMA BlocksPass ==
  ASSUME pc' = "lines"
           /\ (\A n \in DOMAIN clean_lines'.elided : Directive(clean_lines'.elided[n]) = NONE)
           /\ HeadsAreComplete(clean_lines'.elided) /\ NoneEndsAhead(clean_lines'.elided)
         => Follows(clean_lines'.elided, nesting_state'.stack, OpenBraces(clean_lines'.elided)[linenum' - 1],
                    <<linenum', 0>>)
  PROVE  BlockInv'
<1>1. HeadsAreComplete(clean_lines.elided)' <=> HeadsAreComplete(clean_lines'.elided)
  BY Zenon DEF HeadsAreComplete, Places, IsBefore, IsHead, TokenAt, Declaring, Separating, Answering
<1>2. NoneEndsAhead(clean_lines.elided)' <=> NoneEndsAhead(clean_lines'.elided)
  BY Zenon DEF NoneEndsAhead
<1>3. Conditional' <=> ~(\A n \in DOMAIN clean_lines'.elided : Directive(clean_lines'.elided[n]) = NONE)
  BY Zenon DEF Conditional, Lines, Elided, Directive
<1>4. OpenBraces(clean_lines.elided)' = OpenBraces(clean_lines'.elided)
  BY Zenon DEF OpenBraces, BracesAlong, OpenBehind
<1>5. \A depth, place : Follows(clean_lines.elided, nesting_state.stack, depth, place)'
                          <=> Follows(clean_lines'.elided, nesting_state'.stack, depth, place)
  BY Zenon DEF Follows, IsBlock, SeenOpenBrace, Waits, IsHead, Places, IsBefore, TokenAt,
               Declaring, Separating, Answering
<1> QED
  BY <1>1, <1>2, <1>3, <1>4, <1>5 DEF BlockInv

-----------------------------------------------------------------------------
(* What the checks report.                                                 *)
\* The checks of a line report errors of that line: NOLINT of an unknown category.
LEMMA NolintIsReport ==
  ASSUME NEW raw, NEW n
  PROVE  IsAside(UnknownNolint(raw, n), n)
<1>1. UnknownNolint(raw, n) = <<>> \/ UnknownNolint(raw, n) = <<Err(n, Nolint, 5)>>
  BY Zenon DEF UnknownNolint
<1> QED
  BY <1>1, ShortAsides, OtherCategories

\* The indentation in namespaces: at most one error.
LEMMA IndentationIsReport ==
  ASSUME NEW s, NEW elided, NEW n, NEW indented
  PROVE  IsAside(CheckForNamespaceIndentation(s, elided, n, indented), n)
<1> DEFINE errors == CheckForNamespaceIndentation(s, elided, n, indented)
<1>1. errors = <<>> \/ errors = <<Err(n, NamespaceIndent, 4)>>
  BY Zenon DEF CheckForNamespaceIndentation
<1> QED
  BY <1>1, ShortAsides, OtherCategories

\* The length of functions: at most one error, however the line is read.
LEMMA LengthIsReport ==
  ASSUME NEW f, NEW lines, NEW n, NEW indented
  PROVE  IsReport(CheckForFunctionLengths(f, lines, n, indented).errors, n)
<1> DEFINE r == CheckForFunctionLengths(f, lines, n, indented)
           grown == [f EXCEPT !.lines_in_function = @ + (IF f.in_a_function THEN 1 ELSE 0)]
<1>1. IsReport(CheckLength(f, n), n)
  <2>1. CheckLength(f, n) = <<>> \/ \E level : CheckLength(f, n) = <<Err(n, FnSize, level)>>
    BY Zenon DEF CheckLength
  <2> QED
    BY <2>1, ShortReports
<1>2. \/ r = [state |-> f, errors |-> <<Err(n, FnSize, 5)>>]
      \/ r = [state |-> Begin(lines[n]), errors |-> <<>>]
      \/ r = [state |-> [f EXCEPT !.in_a_function = FALSE], errors |-> CheckLength(f, n)]
      \/ r = [state |-> grown, errors |-> <<>>]
      \/ r = [state |-> f, errors |-> <<>>]
  BY DEF CheckForFunctionLengths
<1> HIDE DEF r, grown
<1>3. \/ r.errors = <<Err(n, FnSize, 5)>> \/ r.errors = <<>> \/ r.errors = CheckLength(f, n)
  BY <1>2
<1> QED
  BY <1>1, <1>3, ShortReports DEF r

\* Comments and strings of several lines: at most one error each.
LEMMA MultilineIsReport ==
  ASSUME NEW line, NEW n
  PROVE  IsAside(CheckForMultilineCommentsAndStrings(line, n), n)
<1> DEFINE a == IF Count(line, "/*") > Count(line, "*/") THEN <<Err(n, MultilineComment, 5)>> ELSE <<>>
           b == IF Count(line, DQ) % 2 = 1 THEN <<Err(n, MultilineString, 5)>> ELSE <<>>
<1>1. CheckForMultilineCommentsAndStrings(line, n) = a \o b
  BY Zenon DEF CheckForMultilineCommentsAndStrings
<1>2. a = <<>> \/ a = <<Err(n, MultilineComment, 5)>>
  BY Zenon
<1>3. b = <<>> \/ b = <<Err(n, MultilineString, 5)>>
  BY Zenon
<1> HIDE DEF a, b
<1>4. IsAside(a, n) /\ IsAside(b, n)
  BY <1>2, <1>3, ShortAsides, OtherCategories
<1> QED
  BY <1>1, <1>4, AsideConcat

\* The sections of a class.
LEMMA StyleIsReport ==
  ASSUME NEW s, NEW lines, NEW n
  PROVE  IsAside(CheckStyle(s, lines, n), n)
<1> DEFINE k == Innermost(s.stack)
           e == CheckSectionSpacing(s.stack[k], lines, n)
<1>1. CheckStyle(s, lines, n) = <<>> \/ CheckStyle(s, lines, n) = e
  BY Zenon DEF CheckStyle
<1>2. e = <<>> \/ e = <<Err(n, BlankLine, 3)>>
  BY Zenon DEF CheckSectionSpacing
<1> QED
  BY <1>1, <1>2, ShortAsides, OtherCategories

\* The copyright, which is reported of no line.
LEMMA CopyrightIsReport ==
  ASSUME NEW lines
  PROVE  IsAside(CheckForCopyright(lines), 0)
<1>1. CheckForCopyright(lines) = <<>> \/ CheckForCopyright(lines) = <<Err(0, Copyright, 5)>>
  BY Zenon DEF CheckForCopyright
<1> QED
  BY <1>1, ShortAsides, OtherCategories

\* A finite set as a sequence: every element is in it.
LEMMA SetToSeqType ==
  ASSUME NEW S, IsFiniteSet(S)
  PROVE  IsList(SetToSeq(S)) /\ Range(SetToSeq(S)) = S
<1> DEFINE n == Cardinality(S)
           T == {f \in [1..n -> S] : IsInjective(f)}
<1>1. n \in Nat /\ ExistsBijection(1..n, S)
  BY FS_CardinalityType
<1>2. PICK g : g \in Bijection(1..n, S)
  BY <1>1 DEF ExistsBijection
<1>3. g \in [1..n -> S] /\ IsInjective(g)
  BY <1>2 DEF Bijection, Injection, IsInjective
<1>4. SetToSeq(S) = CHOOSE f \in [1..n -> S] : IsInjective(f)
  BY DEF SetToSeq
<1>5. SetToSeq(S) \in [1..n -> S] /\ IsInjective(SetToSeq(S))
  <2> HIDE DEF n
  <2> QED
    BY <1>3, <1>4
<1> HIDE DEF n
<1>6. SetToSeq(S) \in Seq(S)
  BY <1>1, <1>5, OnNumbers
<1>7. SetToSeq(S) \in Injection(1..n, S)
  BY <1>5 DEF Injection
<1>8. IsFiniteSet(1..n) /\ Cardinality(1..n) = n
  BY <1>1, FS_Interval
<1>9. SetToSeq(S) \in Surjection(1..n, S)
  BY <1>7, <1>8, FS_Injection DEF n
<1>10. Range(SetToSeq(S)) = S
  BY <1>5, <1>9 DEF Surjection, Range
<1> QED
  BY <1>6, <1>10, SeqIsList

\* What is wrong on a line: an error for each kind of token, and none is left out.
LEMMA OffencesIsReport ==
  ASSUME NEW line \in Line, NEW n
  PROVE  /\ IsAside(OffencesIn(line, n), n)
         /\ \A t \in DOMAIN Offences :
              Has(line, t) => Err(n, Offences[t].category, Offences[t].confidence) \in Range(OffencesIn(line, n))
<1> DEFINE S == Range(line) \cap DOMAIN Offences
           found == SetToSeq(S)
           e == [i \in DOMAIN found |-> Err(n, Offences[found[i]].category, Offences[found[i]].confidence)]
<1>1. IsFiniteSet(Range(line))
  <2>1. Len(line) \in Nat /\ DOMAIN line = 1..Len(line)
    BY LenProperties DEF Line
  <2>2. line \in Surjection(1..Len(line), Range(line))
    <3>1. line = [i \in 1..Len(line) |-> line[i]]
      BY LenProperties DEF Line
    <3>2. \A i \in 1..Len(line) : line[i] \in Range(line)
      BY <2>1 DEF Range
    <3>3. line \in [1..Len(line) -> Range(line)]
      BY <3>1, <3>2
    <3>4. \A x \in Range(line) : \E i \in 1..Len(line) : line[i] = x
      BY <2>1 DEF Range
    <3> QED
      BY <3>3, <3>4 DEF Surjection
  <2>3. IsFiniteSet(1..Len(line))
    BY <2>1, FS_Interval
  <2> QED
    BY <2>2, <2>3, FS_Surjection
<1>2. IsFiniteSet(S)
  BY <1>1, FS_Subset
<1>7. \A t \in DOMAIN Offences : Has(line, t) => t \in S
  BY DEF Has, Range
<1> HIDE DEF S
<1>3. IsList(found) /\ Range(found) = S
  BY <1>2, SetToSeqType
<1>4. Len(found) \in Nat /\ DOMAIN found = 1..Len(found)
  BY <1>3, ListFacts
<1>5. OffencesIn(line, n) = e
  BY DEF OffencesIn, S
<1> HIDE DEF found
<1>6. e = [i \in 1..Len(found) |-> e[i]]
  BY <1>4
<1>8. IsList(e) /\ DOMAIN e = 1..Len(found)
  BY <1>4, <1>6, ListOf
<1>9. \A i \in 1..Len(found) : e[i] = Err(n, Offences[found[i]].category, Offences[found[i]].confidence)
  BY <1>4
<1> HIDE DEF e
<1>10. \A x \in Range(e) : x.line = n /\ x.category \notin Watched
  <2>1. \A i \in 1..Len(found) : found[i] \in DOMAIN Offences
    BY <1>3, <1>4 DEF Range, S
  <2>2. \A i \in 1..Len(found) : Offences[found[i]].category \notin Watched
    BY <2>1, OffencesAssumption DEF Watched
  <2> QED
    BY <1>8, <1>9, <2>2 DEF Range, Err
<1>11. ASSUME NEW t \in DOMAIN Offences, Has(line, t)
       PROVE  Err(n, Offences[t].category, Offences[t].confidence) \in Range(e)
  <2>1. PICK i \in 1..Len(found) : found[i] = t
    BY <1>3, <1>4, <1>7, <1>11 DEF Range
  <2>2. e[i] = Err(n, Offences[t].category, Offences[t].confidence)
    BY <1>9, <2>1
  <2> QED
    BY <1>8, <2>2 DEF Range
<1> QED
  BY <1>5, <1>8, <1>10, <1>11 DEF IsAside, IsReport

\* An include: each of its errors at most once.
LEMMA IncludeIsReport ==
  ASSUME NEW s, NEW file, NEW elided, NEW n, NEW headerExts, NEW otherExts
  PROVE  IsReport(CheckIncludeLine(s, file, elided, n, headerExts, otherExts).errors, n)
<1> DEFINE i == Headers[elided[n][2]]
           subdir == IF ~i.system /\ i.dir = <<>> /\ i.ext = "h" /\ ~i.third
                     THEN <<Err(n, IncludeSubdir, 4)>> ELSE <<>>
           listed == [s EXCEPT !.include_list = OnTop(@, Append(Last(@), <<i.path, n>>))]
           next == CheckNextIncludeOrder(listed, _ClassifyInclude(file, i, headerExts, otherExts))
           order == IF next.bad THEN <<Err(n, IncludeOrder, 4)>> ELSE <<>>
           alpha == IF IsInAlphabeticalOrder(next.state, elided, n, i.rank) THEN <<>>
                    ELSE <<Err(n, IncludeAlpha, 4)>>
           again == [state |-> s, errors |-> subdir \o <<Err(n, BuildInclude, 4)>>]
           third == [state |-> s, errors |-> subdir]
           taken == [state |-> [next.state EXCEPT !.last_header = i.rank],
                     errors |-> subdir \o order \o alpha]
           r == CheckIncludeLine(s, file, elided, n, headerExts, otherExts)
<1>1. r = again \/ r = third \/ r = taken
  BY Zenon DEF CheckIncludeLine
<1>2. subdir = <<>> \/ subdir = <<Err(n, IncludeSubdir, 4)>>
  BY Zenon
<1>3. order = <<>> \/ order = <<Err(n, IncludeOrder, 4)>>
  BY Zenon
<1>4. alpha = <<>> \/ alpha = <<Err(n, IncludeAlpha, 4)>>
  BY Zenon
<1> HIDE DEF r, subdir, order, alpha
<1>5. /\ IsReport(subdir, n) /\ IsReport(order, n) /\ IsReport(alpha, n)
      /\ IsReport(<<Err(n, BuildInclude, 4)>>, n)
  BY <1>2, <1>3, <1>4, ShortReports
<1>6. IsReport(subdir \o <<Err(n, BuildInclude, 4)>>, n) /\ IsReport(subdir \o order, n)
  BY <1>5, ReportConcat
<1>7. IsReport(subdir \o order \o alpha, n)
  BY <1>5, <1>6, ReportConcat
<1>8. /\ again.errors = subdir \o <<Err(n, BuildInclude, 4)>>
      /\ third.errors = subdir /\ taken.errors = subdir \o order \o alpha
  OBVIOUS
<1> HIDE DEF again, third, taken
<1> QED
  BY <1>1, <1>5, <1>6, <1>7, <1>8 DEF r

\* A line is an include or is searched for offences.
LEMMA LanguageIsReport ==
  ASSUME NEW inc, NEW lines, NEW n, lines.elided[n] \in Line
  PROVE  /\ IsReport(CheckLanguage(inc, lines, n).errors, n)
         /\ ~IsInclude(lines.elided[n]) =>
              CheckLanguage(inc, lines, n).errors = OffencesIn(lines.elided[n], n)
<1> DEFINE line == lines.elided[n]
           a == CheckIncludeLine(inc, File, lines.elided, n, GetHeaderExtensions, GetNonHeaderExtensions)
           state == IF Directive(line) = NONE THEN inc ELSE ResetSection(inc, Directive(line))
           b == [state |-> state, errors |-> OffencesIn(line, n)]
<1>1. \/ IsInclude(line) /\ CheckLanguage(inc, lines, n) = a
      \/ ~IsInclude(line) /\ CheckLanguage(inc, lines, n) = b
  BY Zenon DEF CheckLanguage
<1>2. IsReport(a.errors, n)
  BY IncludeIsReport
<1> HIDE DEF a, state, line
<1>3. b.errors = OffencesIn(line, n)
  OBVIOUS
<1>4. IsReport(b.errors, n)
  BY <1>3, OffencesIsReport DEF line, IsAside
<1> HIDE DEF b
<1> QED
  BY <1>1, <1>2, <1>3, <1>4 DEF line

\* The blocks that are open at the end of the file.
LEMMA CompletedIsList ==
  ASSUME NEW stack, IsList(stack)
  PROVE  IsList(CheckCompletedBlocks(stack))
<1> DEFINE n == Len(stack)
           x == <<>>
           P(v) == IsList(v)
           step(v, k) == CASE stack[k].kind = "class" -> Append(v, Err(stack[k].start, BuildClass, 5))
                           [] stack[k].kind = "namespace" -> Append(v, Err(stack[k].start, BuildNamespaces, 5))
                           [] OTHER -> v
           IsRun(h, m) == h = [k \in 0..m |-> IF k = 0 THEN x ELSE step(h[k - 1], k)]
           run == CHOOSE h : IsRun(h, n)
<1>1. n \in Nat /\ P(x)
  BY ListFacts, ShortLists
<1>2. ASSUME NEW k \in 1..n, NEW v, P(v) PROVE P(step(v, k))
  <2>1. \/ step(v, k) = v \/ step(v, k) = Append(v, Err(stack[k].start, BuildClass, 5))
        \/ step(v, k) = Append(v, Err(stack[k].start, BuildNamespaces, 5))
    OBVIOUS
  <2>2. /\ IsList(Append(v, Err(stack[k].start, BuildClass, 5)))
        /\ IsList(Append(v, Err(stack[k].start, BuildNamespaces, 5)))
    BY <1>2, ListAppend
  <2> HIDE DEF step
  <2> QED
    BY <1>2, <2>1, <2>2
<1>3. CheckCompletedBlocks(stack) = run[n]
  BY DEF CheckCompletedBlocks, Loop
<1> HIDE DEF step, n, x, P
<1>4. \E h : IsRun(h, n)
  <2> DEFINE T == {m \in 0..n : \E h : IsRun(h, m)}
  <2>1. 0 \in T
    <3> DEFINE h == [k \in 0..0 |-> x]
    <3>0. \A k \in 0..0 : x = IF k = 0 THEN x ELSE step(h[k - 1], k)
      OBVIOUS
    <3>1. IsRun(h, 0)
      BY <3>0
    <3> HIDE DEF h, IsRun
    <3> QED
      BY <1>1, <3>1
  <2>2. ASSUME NEW m \in 1..n, m - 1 \in T PROVE m \in T
    <3>1. PICK h : IsRun(h, m - 1)
      BY <2>2
    <3> DEFINE h2 == [k \in 0..m |-> IF k = m THEN step(h[m - 1], m) ELSE h[k]]
    <3>2. h2[m] = step(h[m - 1], m) /\ \A k \in 0..(m - 1) : h2[k] = h[k]
      OBVIOUS
    <3>3. \A k \in 0..(m - 1) : h[k] = IF k = 0 THEN x ELSE step(h[k - 1], k)
      BY <3>1
    <3>4. ASSUME NEW k \in 0..m PROVE h2[k] = IF k = 0 THEN x ELSE step(h2[k - 1], k)
      <4> HIDE DEF h2
      <4>1. CASE k = m
        BY <3>2, <4>1
      <4>2. CASE k # m
        <5>1. k \in 0..(m - 1) /\ (k # 0 => k - 1 \in 0..(m - 1))
          BY <4>2
        <5> QED
          BY <3>2, <3>3, <5>1
      <4> QED
        BY <4>1, <4>2
    <3>5. h2 = [k \in 0..m |-> h2[k]]
      OBVIOUS
    <3> HIDE DEF h2
    <3>6. IsRun(h2, m)
      BY <3>4, <3>5
    <3> QED
      BY <3>6
  <2> HIDE DEF T
  <2>3. \A k \in 0..n : k \in T
    BY <1>1, <2>1, <2>2, Climbs
  <2>4. n \in T
    BY <1>1, <2>3
  <2> QED
    BY <2>4 DEF T
<1>5. IsRun(run, n)
  <2> HIDE DEF IsRun
  <2> QED
    BY <1>4
<1> HIDE DEF run
<1>6. run[0] = x /\ \A k \in 1..n : run[k] = step(run[k - 1], k)
  BY <1>1, <1>5
<1> HIDE DEF IsRun
<1>7. P(run[n])
  <2> DEFINE T == {k \in 0..n : P(run[k])}
  <2>1. 0 \in T
    BY <1>1, <1>6
  <2>2. ASSUME NEW k \in 1..n, k - 1 \in T PROVE k \in T
    <3>1. P(run[k - 1])
      BY <2>2
    <3>2. P(step(run[k - 1], k))
      BY <1>2, <3>1
    <3> QED
      BY <1>6, <3>2
  <2> HIDE DEF T
  <2>3. \A k \in 0..n : k \in T
    BY <1>1, <2>1, <2>2, Climbs
  <2>4. n \in T
    BY <1>1, <2>3
  <2> QED
    BY <2>4 DEF T
<1> QED
  BY <1>3, <1>7 DEF P

\* The ends of line with a carriage return.
LEMMA EndingsAreList ==
  ASSUME Len(File.lines) \in Nat
  PROVE  IsList(MixedEndings)
<1> DEFINE n == Len(File.lines)
           x == <<>>
           P(v) == IsList(v)
           step(v, k) == IF k \in File.crlf THEN Append(v, Err(k, Newline, 1)) ELSE v
           IsRun(h, m) == h = [k \in 0..m |-> IF k = 0 THEN x ELSE step(h[k - 1], k)]
           run == CHOOSE h : IsRun(h, n)
<1>1. n \in Nat /\ P(x)
  BY ShortLists
<1>2. ASSUME NEW k \in 1..n, NEW v, P(v) PROVE P(step(v, k))
  BY <1>2, ListAppend
<1>3. File.crlf # DOMAIN File.lines => MixedEndings = run[n]
  BY DEF MixedEndings, Loop
<1> HIDE DEF step, n, x, P
<1>4. \E h : IsRun(h, n)
  <2> DEFINE T == {m \in 0..n : \E h : IsRun(h, m)}
  <2>1. 0 \in T
    <3> DEFINE h == [k \in 0..0 |-> x]
    <3>0. \A k \in 0..0 : x = IF k = 0 THEN x ELSE step(h[k - 1], k)
      OBVIOUS
    <3>1. IsRun(h, 0)
      BY <3>0
    <3> HIDE DEF h, IsRun
    <3> QED
      BY <1>1, <3>1
  <2>2. ASSUME NEW m \in 1..n, m - 1 \in T PROVE m \in T
    <3>1. PICK h : IsRun(h, m - 1)
      BY <2>2
    <3> DEFINE h2 == [k \in 0..m |-> IF k = m THEN step(h[m - 1], m) ELSE h[k]]
    <3>2. h2[m] = step(h[m - 1], m) /\ \A k \in 0..(m - 1) : h2[k] = h[k]
      OBVIOUS
    <3>3. \A k \in 0..(m - 1) : h[k] = IF k = 0 THEN x ELSE step(h[k - 1], k)
      BY <3>1
    <3>4. ASSUME NEW k \in 0..m PROVE h2[k] = IF k = 0 THEN x ELSE step(h2[k - 1], k)
      <4> HIDE DEF h2
      <4>1. CASE k = m
        BY <3>2, <4>1
      <4>2. CASE k # m
        <5>1. k \in 0..(m - 1) /\ (k # 0 => k - 1 \in 0..(m - 1))
          BY <4>2
        <5> QED
          BY <3>2, <3>3, <5>1
      <4> QED
        BY <4>1, <4>2
    <3>5. h2 = [k \in 0..m |-> h2[k]]
      OBVIOUS
    <3> HIDE DEF h2
    <3>6. IsRun(h2, m)
      BY <3>4, <3>5
    <3> QED
      BY <3>6
  <2> HIDE DEF T
  <2>3. \A k \in 0..n : k \in T
    BY <1>1, <2>1, <2>2, Climbs
  <2>4. n \in T
    BY <1>1, <2>3
  <2> QED
    BY <2>4 DEF T
<1>5. IsRun(run, n)
  <2> HIDE DEF IsRun
  <2> QED
    BY <1>4
<1> HIDE DEF run
<1>6. run[0] = x /\ \A k \in 1..n : run[k] = step(run[k - 1], k)
  BY <1>1, <1>5
<1> HIDE DEF IsRun
<1>7. P(run[n])
  <2> DEFINE T == {k \in 0..n : P(run[k])}
  <2>1. 0 \in T
    BY <1>1, <1>6
  <2>2. ASSUME NEW k \in 1..n, k - 1 \in T PROVE k \in T
    <3>1. P(run[k - 1])
      BY <2>2
    <3>2. P(step(run[k - 1], k))
      BY <1>2, <3>1
    <3> QED
      BY <1>6, <3>2
  <2> HIDE DEF T
  <2>3. \A k \in 0..n : k \in T
    BY <1>1, <2>1, <2>2, Climbs
  <2>4. n \in T
    BY <1>1, <2>3
  <2> QED
    BY <2>4 DEF T
<1> QED
  BY <1>3, <1>7, ShortLists DEF P, MixedEndings

-----------------------------------------------------------------------------
(* Stacks that differ in where classes end.                                *)
\* A class ends where the text says; nothing else in the blocks depends on that.
AlikeBlocks(b, c) ==
  b.kind = c.kind /\ b.start = c.start /\ b.open = c.open /\ b.parens = c.parens /\ b.asm = c.asm
    /\ b.name = c.name

Alike(s, t) ==
  /\ IsStack(s, FALSE) /\ IsStack(t, FALSE) /\ Len(s) = Len(t)
  /\ \A i \in 1..Len(s) : AlikeBlocks(s[i], t[i])

\* The parts of a stack.
LEMMA StackParts ==
  ASSUME NEW s, IsStack(s, FALSE)
  PROVE  /\ IsList(s) /\ Len(s) \in Nat /\ DOMAIN s = 1..Len(s) /\ (s # <<>> <=> Len(s) # 0)
         /\ \A i \in 1..Len(s) : IsSound(s[i], FALSE) /\ IsBlock(s[i])
         /\ s # <<>> => /\ IsSound(Last(s), FALSE) /\ Last(s) = s[Len(s)] /\ Len(Front(s)) = Len(s) - 1
                        /\ \A i \in 1..(Len(s) - 1) : Front(s)[i] = s[i]
<1>1. IsList(s) /\ Len(s) \in Nat /\ DOMAIN s = 1..Len(s) /\ (s # <<>> => Len(s) # 0)
  BY ListFacts DEF IsStack
<1>2. s = <<>> => Len(s) = 0
  OBVIOUS
<1>3. \A i \in 1..Len(s) : IsSound(s[i], FALSE) /\ IsBlock(s[i])
  BY <1>1 DEF IsStack, IsSound
<1>4. s # <<>> => IsSound(Last(s), FALSE) /\ Last(s) = s[Len(s)]
  BY StackLast DEF Last
<1>5. s # <<>> => Len(Front(s)) = Len(s) - 1
  BY <1>1 DEF Front
<1>6. s # <<>> => \A i \in 1..(Len(s) - 1) : Front(s)[i] = s[i]
  BY <1>1, <1>5, ListFront
<1> QED
  BY <1>1, <1>2, <1>3, <1>4, <1>5, <1>6

\* They are those of which Blocks gives the same.
LEMMA AlikeIs ==
  ASSUME NEW s, NEW t, IsStack(s, FALSE), IsStack(t, FALSE)
  PROVE  Alike(s, t) <=> Blocks(s) = Blocks(t)
<1>1. /\ DOMAIN s = 1..Len(s) /\ Len(s) \in Nat /\ \A i \in 1..Len(s) : IsBlock(s[i])
      /\ DOMAIN t = 1..Len(t) /\ Len(t) \in Nat /\ \A i \in 1..Len(t) : IsBlock(t[i])
  BY StackParts
<1>2. ASSUME NEW b, NEW c, IsBlock(b), IsBlock(c)
      PROVE  AlikeBlocks(b, c) <=> [b EXCEPT !.last = 0] = [c EXCEPT !.last = 0]
  <2>1. ASSUME NEW e, IsBlock(e), NEW d, d = [e EXCEPT !.last = 0]
        PROVE  d = [kind |-> e.kind, start |-> e.start, open |-> e.open, parens |-> e.parens,
                    asm |-> e.asm, name |-> e.name, last |-> 0]
    BY <2>1 DEF IsBlock
  <2>2. [b EXCEPT !.last = 0] = [kind |-> b.kind, start |-> b.start, open |-> b.open, parens |-> b.parens,
                                 asm |-> b.asm, name |-> b.name, last |-> 0]
    BY <1>2, <2>1, Zenon
  <2>3. [c EXCEPT !.last = 0] = [kind |-> c.kind, start |-> c.start, open |-> c.open, parens |-> c.parens,
                                 asm |-> c.asm, name |-> c.name, last |-> 0]
    BY <1>2, <2>1, Zenon
  <2>4. AlikeBlocks(b, c) <=>
          [kind |-> b.kind, start |-> b.start, open |-> b.open, parens |-> b.parens,
           asm |-> b.asm, name |-> b.name, last |-> 0]
          = [kind |-> c.kind, start |-> c.start, open |-> c.open, parens |-> c.parens,
             asm |-> c.asm, name |-> c.name, last |-> 0]
    BY DEF AlikeBlocks
  <2> QED
    BY <2>2, <2>3, <2>4, Zenon
<1> DEFINE of(b) == [b EXCEPT !.last = 0]
<1>3. Blocks(s) = [i \in 1..Len(s) |-> of(s[i])] /\ Blocks(t) = [i \in 1..Len(t) |-> of(t[i])]
  BY <1>1 DEF Blocks
<1>4. \A b, c : IsBlock(b) /\ IsBlock(c) => (AlikeBlocks(b, c) <=> of(b) = of(c))
  BY <1>2
<1> HIDE DEF of
<1>5. ASSUME Alike(s, t) PROVE Blocks(s) = Blocks(t)
  <2>1. Len(s) = Len(t) /\ \A i \in 1..Len(s) : of(s[i]) = of(t[i])
    BY <1>1, <1>4, <1>5 DEF Alike
  <2> QED
    BY <1>3, <2>1
<1>6. ASSUME Blocks(s) = Blocks(t) PROVE Alike(s, t)
  <2> DEFINE f == [i \in 1..Len(s) |-> of(s[i])]
             g == [i \in 1..Len(t) |-> of(t[i])]
  <2>1. f = g /\ DOMAIN f = 1..Len(s) /\ DOMAIN g = 1..Len(t)
    BY <1>3, <1>6
  <2>2. (\A i \in 1..Len(s) : f[i] = of(s[i])) /\ \A i \in 1..Len(t) : g[i] = of(t[i])
    OBVIOUS
  <2> HIDE DEF f, g
  <2>3. Len(s) = Len(t)
    <3> DEFINE m == Len(s)
               n == Len(t)
    <3>1. m \in Nat /\ n \in Nat /\ 1..m = 1..n
      BY <1>1, <2>1
    <3> HIDE DEF m, n
    <3>2. (m # 0 => m \in 1..m) /\ (n # 0 => n \in 1..n)
      BY <3>1
    <3>3. (m # 0 => m \in 1..n) /\ (n # 0 => n \in 1..m)
      BY <3>1, <3>2
    <3>4. m = n
      BY <3>1, <3>3
    <3> QED
      BY <3>4 DEF m, n
  <2>4. \A i \in 1..Len(s) : AlikeBlocks(s[i], t[i])
    BY <1>1, <1>4, <2>1, <2>2, <2>3
  <2> QED
    BY <2>3, <2>4 DEF Alike
<1> QED
  BY <1>5, <1>6

\* What both stacks have on top, and what is left without it,
LEMMA AlikeTops ==
  ASSUME NEW s, NEW t, Alike(s, t)
  PROVE  /\ s = <<>> <=> t = <<>>
         /\ s # <<>> => /\ AlikeBlocks(Last(s), Last(t)) /\ Alike(Front(s), Front(t))
                        /\ IsSound(Last(s), FALSE) /\ IsSound(Last(t), FALSE)
         /\ SeenOpenBrace(s) <=> SeenOpenBrace(t)
<1>1. IsStack(s, FALSE) /\ IsStack(t, FALSE) /\ Len(s) = Len(t) /\ \A i \in 1..Len(s) : AlikeBlocks(s[i], t[i])
  BY DEF Alike
<1>2. (s # <<>> <=> Len(s) # 0) /\ (t # <<>> <=> Len(t) # 0) /\ Len(s) \in Nat
  BY <1>1, StackParts
<1>3. ASSUME s # <<>>
      PROVE  /\ AlikeBlocks(Last(s), Last(t)) /\ Alike(Front(s), Front(t))
             /\ IsSound(Last(s), FALSE) /\ IsSound(Last(t), FALSE)
  <2>1. t # <<>>
    BY <1>1, <1>2, <1>3
  <2>2. /\ Last(s) = s[Len(s)] /\ Len(Front(s)) = Len(s) - 1 /\ IsSound(Last(s), FALSE)
        /\ \A i \in 1..(Len(s) - 1) : Front(s)[i] = s[i]
    BY <1>1, <1>3, StackParts
  <2>3. /\ Last(t) = t[Len(t)] /\ Len(Front(t)) = Len(t) - 1 /\ IsSound(Last(t), FALSE)
        /\ \A i \in 1..(Len(t) - 1) : Front(t)[i] = t[i]
    BY <1>1, <2>1, StackParts
  <2>4. IsStack(Front(s), FALSE) /\ IsStack(Front(t), FALSE)
    BY <1>1, <1>3, <2>1, StackFront
  <2>5. Len(s) \in 1..Len(s) /\ \A i \in 1..(Len(s) - 1) : i \in 1..Len(s)
    BY <1>2, <1>3
  <2>6. \A i \in 1..(Len(s) - 1) : AlikeBlocks(Front(s)[i], Front(t)[i])
    BY <1>1, <2>2, <2>3, <2>5
  <2>7. Alike(Front(s), Front(t))
    BY <1>1, <2>2, <2>3, <2>4, <2>6 DEF Alike
  <2> QED
    BY <1>1, <2>2, <2>3, <2>5, <2>7
<1>4. s = <<>> <=> t = <<>>
  BY <1>1, <1>2
<1>5. SeenOpenBrace(s) <=> SeenOpenBrace(t)
  BY <1>3, <1>4 DEF SeenOpenBrace, AlikeBlocks
<1> QED
  BY <1>3, <1>4, <1>5

\* and what they are with another block on them.
LEMMA AlikeAppend ==
  ASSUME NEW s, NEW t, Alike(s, t), NEW b, NEW c, IsSound(b, FALSE), IsSound(c, FALSE), AlikeBlocks(b, c)
  PROVE  Alike(Append(s, b), Append(t, c))
<1> DEFINE u == Append(s, b)
           v == Append(t, c)
<1>1. /\ IsStack(s, FALSE) /\ IsStack(t, FALSE) /\ Len(s) = Len(t)
      /\ \A i \in 1..Len(s) : AlikeBlocks(s[i], t[i])
      /\ IsList(s) /\ IsList(t) /\ Len(s) \in Nat
  BY StackParts DEF Alike
<1>2. Len(u) = Len(s) + 1 /\ (\A i \in 1..Len(s) : u[i] = s[i]) /\ u[Len(s) + 1] = b
  BY <1>1, ListAppend
<1>3. Len(v) = Len(t) + 1 /\ (\A i \in 1..Len(t) : v[i] = t[i]) /\ v[Len(t) + 1] = c
  BY <1>1, ListAppend
<1>4. IsStack(u, FALSE) /\ IsStack(v, FALSE)
  BY <1>1, StackAppend
<1> HIDE DEF u, v
<1>5. \A i \in 1..Len(u) : i \in 1..Len(s) \/ i = Len(s) + 1
  BY <1>1, <1>2
<1>6. \A i \in 1..Len(u) : AlikeBlocks(u[i], v[i])
  BY <1>1, <1>2, <1>3, <1>5
<1>7. Alike(u, v)
  BY <1>1, <1>2, <1>3, <1>4, <1>6 DEF Alike
<1> QED
  BY <1>7 DEF u, v

\* Other tops.
LEMMA AlikeOnTop ==
  ASSUME NEW s, NEW t, Alike(s, t), s # <<>>,
         NEW b, NEW c, IsSound(b, FALSE), IsSound(c, FALSE), AlikeBlocks(b, c)
  PROVE  Alike(OnTop(s, b), OnTop(t, c))
<1> DEFINE f == Front(s)
           g == Front(t)
<1>1. Alike(f, g)
  BY AlikeTops
<1>2. OnTop(s, b) = Append(f, b) /\ OnTop(t, c) = Append(g, c)
  BY DEF OnTop
<1> HIDE DEF f, g
<1> QED
  BY <1>1, <1>2, AlikeAppend

\* The innermost block when the parentheses of a line are counted.
WithCount(b, line) ==
  LET change == Count(line, "(") - Count(line, ")")
      parens == b.parens + change
      asm == IF b.asm \in {"no", "end"}
               THEN IF change # 0 /\ parens = 1 /\ MatchAsm(line) THEN "inside" ELSE "no"
             ELSE IF b.asm = "inside" /\ parens = 0 THEN "end" ELSE b.asm
  IN  [b EXCEPT !.parens = parens, !.asm = asm]

\* It is counted for the innermost block only.
LEMMA CountsTop ==
  ASSUME NEW s, NEW line
  PROVE  CountParentheses(s, line) = IF s = <<>> THEN s ELSE OnTop(s, WithCount(Last(s), line))
BY Zenon DEF CountParentheses, WithCount

\* That stays sound, and alike blocks stay alike.
LEMMA CountKeeps ==
  ASSUME NEW b, NEW c, IsSound(b, FALSE), IsSound(c, FALSE), AlikeBlocks(b, c), NEW line \in Line
  PROVE  /\ IsSound(WithCount(b, line), FALSE) /\ IsSound(WithCount(c, line), FALSE)
         /\ AlikeBlocks(WithCount(b, line), WithCount(c, line))
<1> DEFINE change == Count(line, "(") - Count(line, ")")
           parens == b.parens + change
           asm == IF b.asm \in {"no", "end"}
                    THEN IF change # 0 /\ parens = 1 /\ MatchAsm(line) THEN "inside" ELSE "no"
                  ELSE IF b.asm = "inside" /\ parens = 0 THEN "end" ELSE b.asm
<1>1. change \in Int
  BY CountIs
<1>2. b.parens = c.parens /\ b.asm = c.asm /\ b.parens \in Int /\ (b.asm = "inside" => b.parens # 0)
  BY DEF AlikeBlocks, IsSound
<1>3. /\ WithCount(b, line) = [b EXCEPT !.parens = parens, !.asm = asm]
      /\ WithCount(c, line) = [c EXCEPT !.parens = parens, !.asm = asm]
  BY <1>2, Zenon DEF WithCount
<1> HIDE DEF change
<1>4. parens \in Int /\ (asm = "inside" => parens # 0)
  BY <1>1, <1>2
<1> HIDE DEF parens, asm
<1>5. /\ IsSound([b EXCEPT !.parens = parens, !.asm = asm], FALSE)
      /\ IsSound([c EXCEPT !.parens = parens, !.asm = asm], FALSE)
  BY <1>4, SoundCount
<1>6. ASSUME NEW d, NEW e, d = [b EXCEPT !.parens = parens, !.asm = asm],
             e = [c EXCEPT !.parens = parens, !.asm = asm]
      PROVE  AlikeBlocks(d, e)
  BY <1>6 DEF AlikeBlocks, IsSound, IsBlock
<1> QED
  BY <1>3, <1>5, <1>6, Zenon

\* So alike stacks stay alike.
LEMMA AlikeCounted ==
  ASSUME NEW s, NEW t, Alike(s, t), NEW line \in Line
  PROVE  Alike(CountParentheses(s, line), CountParentheses(t, line))
<1>1. CASE s = <<>>
  <2>1. t = <<>>
    BY <1>1, AlikeTops
  <2>2. CountParentheses(s, line) = s /\ CountParentheses(t, line) = t
    BY <1>1, <2>1, CountsTop, Zenon
  <2> QED
    BY <2>2, Zenon
<1>2. CASE s # <<>>
  <2> DEFINE b == WithCount(Last(s), line)
             c == WithCount(Last(t), line)
  <2>0. /\ s = <<>> <=> t = <<>>
        /\ s # <<>> => AlikeBlocks(Last(s), Last(t)) /\ IsSound(Last(s), FALSE) /\ IsSound(Last(t), FALSE)
    BY AlikeTops
  <2>1. t # <<>> /\ AlikeBlocks(Last(s), Last(t)) /\ IsSound(Last(s), FALSE) /\ IsSound(Last(t), FALSE)
    BY <1>2, <2>0
  <2>2. IsSound(b, FALSE) /\ IsSound(c, FALSE) /\ AlikeBlocks(b, c)
    BY <2>1, CountKeeps
  <2>3. CountParentheses(s, line) = OnTop(s, b) /\ CountParentheses(t, line) = OnTop(t, c)
    BY <1>2, <2>1, CountsTop, Zenon
  <2> HIDE DEF b, c
  <2> QED
    BY <1>2, <2>2, <2>3, AlikeOnTop
<1> QED
  BY <1>1, <1>2

\* What is put on a list is taken off it again.
LEMMA FrontOfAppend ==
  ASSUME NEW s, IsList(s), NEW x
  PROVE  Front(Append(s, x)) = s /\ Append(s, x) # <<>>
<1> DEFINE t == Append(s, x)
<1>1. /\ IsList(t) /\ Len(t) = Len(s) + 1 /\ Len(s) \in Nat
      /\ \A i \in 1..Len(s) : t[i] = s[i]
      /\ s = [i \in 1..Len(s) |-> s[i]]
  BY ListAppend, ListFacts
<1> HIDE DEF t
<1>2. t # <<>>
  BY <1>1, EmptySeq
<1>3. Front(t) = SubSeq(t, 1, Len(t) - 1)
  BY DEF Front
<1>4. Len(t) - 1 = Len(s)
  BY <1>1
<1>5. SubSeq(t, 1, Len(s)) = [i \in 1..Len(s) |-> t[i]]
  BY <1>1
<1>6. [i \in 1..Len(s) |-> t[i]] = [i \in 1..Len(s) |-> s[i]]
  BY <1>1
<1>7. Front(t) = s
  BY <1>1, <1>3, <1>4, <1>5, <1>6
<1> QED
  BY <1>2, <1>7 DEF t

\* A line without text ends the assembly that the line before has closed, if it has: a
\* line behind it is read as it would be without it.
LEMMA CountedOnce ==
  ASSUME NEW s, IsStack(s, FALSE), NEW line \in Line
  PROVE  CountParentheses(CountParentheses(s, <<>>), line) = CountParentheses(s, line)
<1>1. CASE s = <<>>
  BY <1>1, CountsTop, Zenon
<1>2. CASE s # <<>>
  <2> DEFINE b == Last(s)
             c == WithCount(b, <<>>)
             f == Front(s)
  <2>1. IsSound(b, FALSE) /\ IsList(f)
    BY <1>2, StackLast, ListFront DEF IsStack
  <2>2. CountParentheses(s, <<>>) = OnTop(s, c) /\ OnTop(s, c) = Append(f, c)
    BY <1>2, CountsTop, Zenon DEF OnTop
  <2>3. Append(f, c) # <<>> /\ Front(Append(f, c)) = f
    <3> HIDE DEF f, c
    <3> QED
      BY <2>1, FrontOfAppend
  <2>4. Last(Append(f, c)) = c
    <3> HIDE DEF f, c
    <3> QED
      BY <2>1, ListAppend, ListFacts DEF Last
  <2>5. CountParentheses(Append(f, c), line) = Append(f, WithCount(c, line))
    <3> DEFINE u == Append(f, c)
    <3>1. u # <<>> /\ Front(u) = f /\ Last(u) = c
      BY <2>3, <2>4
    <3> HIDE DEF u, f, c
    <3>2. CountParentheses(u, line) = Append(f, WithCount(c, line))
      BY <3>1, CountsTop, Zenon DEF OnTop
    <3> QED
      BY <3>2 DEF u
  <2>6. WithCount(c, line) = WithCount(b, line)
    <3>1. Count(<<>>, "(") = 0 /\ Count(<<>>, ")") = 0
      <4>1. \A t : {i \in DOMAIN <<>> : <<>>[i] = t} = {}
        BY EmptySeq
      <4> QED
        BY <4>1, FS_EmptySet DEF Count
    <3>2. ~MatchAsm(<<>>)
      <4>1. MatchAsm(<<>>) => Len(<<>>) > 1
        BY Zenon DEF MatchAsm
      <4>2. Len(<<>>) = 0
        OBVIOUS
      <4> QED
        BY <4>1, <4>2
    <3>3. /\ IsBlock(b) /\ b.parens \in Int /\ (b.asm = "inside" => b.parens # 0)
          /\ Count(line, "(") - Count(line, ")") \in Int
      BY <2>1, CountIs DEF IsSound
    <3> DEFINE asm == IF b.asm \in {"no", "end"} THEN "no" ELSE b.asm
    <3>4. c = [b EXCEPT !.parens = b.parens + (0 - 0),
                        !.asm = IF b.asm \in {"no", "end"}
                                  THEN IF 0 - 0 # 0 /\ b.parens + (0 - 0) = 1 /\ MatchAsm(<<>>)
                                       THEN "inside" ELSE "no"
                                ELSE IF b.asm = "inside" /\ b.parens + (0 - 0) = 0 THEN "end" ELSE b.asm]
      BY <3>1, Zenon DEF WithCount
    <3>5. b.parens + (0 - 0) = b.parens /\ (b.asm = "inside" => b.parens + (0 - 0) # 0)
      BY <3>3
    <3>6. c = [b EXCEPT !.parens = b.parens, !.asm = asm]
      BY <3>2, <3>4, <3>5
    <3> HIDE DEF c, b
    <3>7. c.parens = b.parens /\ c.asm = asm /\ IsBlock(c)
          /\ c = [kind |-> b.kind, start |-> b.start, open |-> b.open, parens |-> b.parens,
                  asm |-> asm, name |-> b.name, last |-> b.last]
      BY <3>3, <3>6 DEF IsBlock
    <3> DEFINE change == Count(line, "(") - Count(line, ")")
               parens == b.parens + change
               next(a) == IF a \in {"no", "end"}
                            THEN IF change # 0 /\ parens = 1 /\ MatchAsm(line) THEN "inside" ELSE "no"
                          ELSE IF a = "inside" /\ parens = 0 THEN "end" ELSE a
    <3>8. /\ WithCount(b, line) = [b EXCEPT !.parens = parens, !.asm = next(b.asm)]
          /\ WithCount(c, line) = [c EXCEPT !.parens = parens, !.asm = next(c.asm)]
      BY <3>7, Zenon DEF WithCount
    <3>9. next(b.asm) = next(asm)
      <4> HIDE DEF change, parens
      <4> QED
        OBVIOUS
    <3> HIDE DEF next, parens, asm
    <3>10. ASSUME NEW p, NEW a
           PROVE  [b EXCEPT !.parens = p, !.asm = a] = [c EXCEPT !.parens = p, !.asm = a]
      <4>1. ASSUME NEW d, IsBlock(d), NEW e, e = [d EXCEPT !.parens = p, !.asm = a]
            PROVE  e = [kind |-> d.kind, start |-> d.start, open |-> d.open, parens |-> p,
                        asm |-> a, name |-> d.name, last |-> d.last]
        BY <4>1 DEF IsBlock
      <4>2. c.kind = b.kind /\ c.start = b.start /\ c.open = b.open /\ c.name = b.name /\ c.last = b.last
        BY <3>7
      <4>3. [b EXCEPT !.parens = p, !.asm = a]
              = [kind |-> b.kind, start |-> b.start, open |-> b.open, parens |-> p,
                 asm |-> a, name |-> b.name, last |-> b.last]
        BY <3>3, <4>1, Zenon
      <4>4. [c EXCEPT !.parens = p, !.asm = a]
              = [kind |-> c.kind, start |-> c.start, open |-> c.open, parens |-> p,
                 asm |-> a, name |-> c.name, last |-> c.last]
        BY <3>7, <4>1, Zenon
      <4> QED
        BY <4>2, <4>3, <4>4, Zenon
    <3> QED
      BY <3>7, <3>8, <3>9, <3>10, Zenon
  <2>7. CountParentheses(s, line) = Append(f, WithCount(b, line))
    BY <1>2, CountsTop, Zenon DEF OnTop
  <2> QED
    BY <2>2, <2>5, <2>6, <2>7, Zenon
<1> QED
  BY <1>1, <1>2

\* What two readings of a line have left: alike stacks, and the same text.
SameRest(x, y, n) ==
  Alike(x.stack, y.stack) /\ x.line = y.line /\ x.line \in Line /\ Len(x.line) <= n

\* What is behind a position is not longer,
LEMMA AfterIsShorter ==
  ASSUME NEW line \in Line, NEW i \in Nat
  PROVE  After(line, i) \in Line /\ Len(After(line, i)) <= Len(line)
<1>1. Len(line) \in Nat /\ line = [k \in 1..Len(line) |-> line[k]]
  BY LenProperties DEF Line
<1>2. CASE i <= Len(line)
  <2>1. Len(After(line, i)) = Len(line) - i
    BY <1>1, <1>2 DEF After
  <2> QED
    BY <1>1, <2>1, AfterType
<1>3. CASE i > Len(line)
  <2>1. Len(After(line, i)) = 0
    BY <1>1, <1>3 DEF After
  <2> QED
    BY <1>1, <2>1, AfterType
<1> QED
  BY <1>1, <1>2, <1>3

\* and a head of a class does not end behind the line.
LEMMA HeadEndsWithin ==
  ASSUME NEW line \in Line
  PROVE  DeclarationEnd(line) \in 0..Len(line)
<1> DEFINE inTemplate(i) ==
             /\ i > 3 /\ line[1] = "template" /\ line[2] = "<" /\ line[i - 1] = ">"
             /\ \A k \in 3..(i - 2) : IsWord(line[k]) \/ line[k] \in {"<", ">", ",", ":", "="}
           starts == {i \in 1..(Len(line) - 1) :
                        line[i] = "class" /\ IsWord(line[i + 1]) /\ (i = 1 \/ inTemplate(i))}
           name == Max(starts) + 1
<1>1. Len(line) \in Nat
  BY LenProperties DEF Line
<1>2. starts \subseteq 1..(Len(line) - 1)
  OBVIOUS
<1>3. \/ starts = {} /\ DeclarationEnd(line) = 0
      \/ starts # {} /\ DeclarationEnd(line) = name
      \/ starts # {} /\ name < Len(line) /\ DeclarationEnd(line) = name + 1
  BY Zenon DEF DeclarationEnd
<1> HIDE DEF starts
<1>4. starts # {} => Max(starts) \in starts
  <2>1. Len(line) - 1 \in Int
    BY <1>1
  <2> QED
    BY <1>2, <2>1, MaxOfNaturals
<1>5. starts # {} => Max(starts) \in 1..(Len(line) - 1)
  BY <1>2, <1>4
<1> DEFINE m == Max(starts)
<1>6. starts # {} => m \in 1..(Len(line) - 1) /\ name = m + 1
  BY <1>5
<1> HIDE DEF name, m
<1> QED
  BY <1>1, <1>3, <1>6

\* A namespace is taken from both.
LEMMA AlikeNamespace ==
  ASSUME NEW n \in Nat, NEW x, NEW y, SameRest(x, y, n), NEW number
  PROVE  SameRest(TakeNamespace(x, number), TakeNamespace(y, number), n)
<1> DEFINE stops(l) == l = <<>> \/ Head(l) # "namespace"
           named(l) == Len(l) > 1 /\ IsWord(l[2])
           count(l) == IF named(l) THEN 2 ELSE 1
           rest(l)  == After(l, count(l))
           brace(l) == Find(rest(l), {"{"})
           new(l)   == _NamespaceInfo(IF named(l) THEN l[2] ELSE NONE, number, brace(l) # 0)
           left(l)  == After(rest(l), brace(l))
           line     == x.line
<1>1. /\ Alike(x.stack, y.stack) /\ x.line = line /\ y.line = line /\ line \in Line /\ Len(line) <= n
      /\ Len(line) \in Nat
  BY LenProperties DEF SameRest, Line
<1>2. \A z : TakeNamespace(z, number) =
               IF stops(z.line) THEN z ELSE [stack |-> Append(z.stack, new(z.line)), line |-> left(z.line)]
  BY Zenon DEF TakeNamespace
<1>3. left(line) \in Line /\ Len(left(line)) <= n
  <2>1. count(line) \in Nat
    OBVIOUS
  <2> HIDE DEF count
  <2>2. rest(line) \in Line /\ Len(rest(line)) <= Len(line)
    BY <1>1, <2>1, AfterIsShorter
  <2> DEFINE r == rest(line)
  <2> DEFINE k == Find(r, {"{"})
  <2>3. r \in Line /\ Len(r) <= Len(line) /\ left(line) = After(r, k)
    BY <2>2, Zenon
  <2>4. k \in Nat
    BY <2>2, FindIsNatural
  <2> HIDE DEF k, r, left, line
  <2>5. After(r, k) \in Line /\ Len(After(r, k)) <= Len(r) /\ Len(r) \in Nat
    BY <2>3, <2>4, AfterIsShorter, LenProperties DEF Line
  <2>6. Len(After(r, k)) \in Nat
    BY <2>5, LenProperties DEF Line
  <2> QED
    BY <1>1, <2>3, <2>5, <2>6
<1>4. IsSound(new(line), FALSE)
  BY NewBlocks
<1> HIDE DEF stops, new, left, line
<1>5. CASE stops(line)
  <2>1. TakeNamespace(x, number) = x /\ TakeNamespace(y, number) = y
    BY <1>1, <1>2, <1>5
  <2> QED
    BY <2>1
<1>6. CASE ~stops(line)
  <2> DEFINE u == [stack |-> Append(x.stack, new(line)), line |-> left(line)]
             v == [stack |-> Append(y.stack, new(line)), line |-> left(line)]
  <2>1. TakeNamespace(x, number) = u /\ TakeNamespace(y, number) = v
    BY <1>1, <1>2, <1>6
  <2>2. Alike(Append(x.stack, new(line)), Append(y.stack, new(line)))
    <3>1. AlikeBlocks(new(line), new(line))
      BY DEF AlikeBlocks
    <3> QED
      BY <1>1, <1>4, <3>1, AlikeAppend
  <2>3. /\ u.stack = Append(x.stack, new(line)) /\ v.stack = Append(y.stack, new(line))
        /\ u.line = left(line) /\ v.line = left(line)
    OBVIOUS
  <2> HIDE DEF u, v
  <2>4. SameRest(u, v, n)
    BY <1>3, <2>2, <2>3 DEF SameRest
  <2> QED
    BY <2>1, <2>4
<1> QED
  BY <1>5, <1>6

\* All of them are.
LEMMA AlikeNamespaces ==
  ASSUME NEW s, NEW t, Alike(s, t), NEW line \in Line, NEW number
  PROVE  SameRest(TakeNamespaces(s, line, number), TakeNamespaces(t, line, number), Len(line))
<1> DEFINE n == Len(line)
<1>1. n \in Nat
  BY LenProperties DEF Line
<1>2. PICK p : /\ p[0] = [stack |-> s, line |-> line]
               /\ \A k \in 1..n : p[k] = TakeNamespace(p[k - 1], number)
               /\ TakeNamespaces(s, line, number) = p[n]
  BY NamespacesUnroll
<1>3. PICK q : /\ q[0] = [stack |-> t, line |-> line]
               /\ \A k \in 1..n : q[k] = TakeNamespace(q[k - 1], number)
               /\ TakeNamespaces(t, line, number) = q[n]
  BY NamespacesUnroll
<1> DEFINE T == {k \in 0..n : SameRest(p[k], q[k], n)}
<1>4. 0 \in T
  BY <1>1, <1>2, <1>3 DEF SameRest
<1> HIDE DEF n
<1>5. ASSUME NEW k \in 1..n, k - 1 \in T PROVE k \in T
  <2>1. SameRest(p[k - 1], q[k - 1], n)
    BY <1>5
  <2>2. SameRest(TakeNamespace(p[k - 1], number), TakeNamespace(q[k - 1], number), n)
    BY <1>1, <2>1, AlikeNamespace
  <2> QED
    BY <1>2, <1>3, <2>2
<1>6. n \in T
  <2> HIDE DEF T
  <2>1. \A k \in 0..n : k \in T
    BY <1>1, <1>4, <1>5, Climbs
  <2> QED
    BY <1>1, <2>1
<1> QED
  BY <1>2, <1>3, <1>6 DEF n

\* A class is, where both texts say alike what is an argument of a template.
LEMMA AlikeClass ==
  ASSUME NEW n \in Nat, NEW x, NEW y, SameRest(x, y, n), NEW a, NEW b, NEW number,
         \A i \in 1..(n + 1) : InTemplateArgumentList(a, number, i) <=> InTemplateArgumentList(b, number, i)
  PROVE  SameRest(TakeClass(x, a, number), TakeClass(y, b, number), n)
<1> DEFINE line == x.line
           end  == DeclarationEnd(line)
           left == After(line, end)
           c    == _ClassInfo(a, number)
           d    == _ClassInfo(b, number)
           free(s) == s = <<>> \/ Last(s).parens = 0
           in(m) == InTemplateArgumentList(m, number, end + 1)
<1>1. /\ Alike(x.stack, y.stack) /\ x.line = line /\ y.line = line /\ line \in Line /\ Len(line) <= n
      /\ Len(line) \in Nat
  BY LenProperties DEF SameRest, Line
<1>2. end \in 0..Len(line)
  BY <1>1, HeadEndsWithin
<1>3. in(a) <=> in(b)
  <2> HIDE DEF end
  <2>1. end + 1 \in 1..(n + 1)
    BY <1>1, <1>2
  <2> QED
    BY <2>1
<1>4. left \in Line /\ Len(left) <= n
  <2> HIDE DEF end, line
  <2>1. end \in Nat
    BY <1>1, <1>2
  <2>2. left \in Line /\ Len(left) <= Len(line)
    BY <1>1, <2>1, AfterIsShorter
  <2>3. Len(left) \in Nat
    BY <2>2, LenProperties DEF Line
  <2> QED
    BY <1>1, <2>2, <2>3
<1>5. IsSound(c, FALSE) /\ IsSound(d, FALSE) /\ AlikeBlocks(c, d)
  <2>1. IsSound(c, FALSE) /\ IsSound(d, FALSE)
    BY NewBlocks
  <2>2. PICK k : c = [_BlockInfo("class", number, FALSE) EXCEPT !.last = k]
    BY Zenon DEF _ClassInfo
  <2>3. PICK l : d = [_BlockInfo("class", number, FALSE) EXCEPT !.last = l]
    BY Zenon DEF _ClassInfo
  <2> HIDE DEF c, d
  <2>4. AlikeBlocks(c, d)
    BY <2>2, <2>3 DEF AlikeBlocks, _BlockInfo
  <2> QED
    BY <2>1, <2>4
<1>6. free(x.stack) <=> free(y.stack)
  <2>1. /\ x.stack = <<>> <=> y.stack = <<>>
        /\ x.stack # <<>> => AlikeBlocks(Last(x.stack), Last(y.stack))
    BY <1>1, AlikeTops
  <2> QED
    BY <2>1 DEF AlikeBlocks
<1> DEFINE u == [stack |-> Append(x.stack, c), line |-> left]
           v == [stack |-> Append(y.stack, d), line |-> left]
           takes(s, m) == end # 0 /\ free(s) /\ ~in(m)
<1>7. /\ TakeClass(x, a, number) = IF takes(x.stack, a) THEN u ELSE x
      /\ TakeClass(y, b, number) = IF takes(y.stack, b) THEN v ELSE y
  <2>1. \A z, m : TakeClass(z, m, number) =
          IF DeclarationEnd(z.line) # 0 /\ free(z.stack)
               /\ ~InTemplateArgumentList(m, number, DeclarationEnd(z.line) + 1)
          THEN [stack |-> Append(z.stack, _ClassInfo(m, number)), line |-> After(z.line, DeclarationEnd(z.line))]
          ELSE z
    BY Zenon DEF TakeClass
  <2> HIDE DEF free
  <2> QED
    BY <1>1, <2>1, Zenon
<1>8. takes(x.stack, a) <=> takes(y.stack, b)
  <2> HIDE DEF free, in, end
  <2> QED
    BY <1>3, <1>6
<1> HIDE DEF takes, end, line
<1>9. CASE takes(x.stack, a)
  <2>1. Alike(Append(x.stack, c), Append(y.stack, d))
    <3> HIDE DEF c, d
    <3> QED
      BY <1>1, <1>5, AlikeAppend
  <2>2. /\ u.stack = Append(x.stack, c) /\ v.stack = Append(y.stack, d) /\ u.line = left /\ v.line = left
    OBVIOUS
  <2> HIDE DEF u, v, c, d, left
  <2>3. SameRest(u, v, n)
    BY <1>4, <2>1, <2>2 DEF SameRest
  <2> QED
    BY <1>7, <1>8, <1>9, <2>3
<1>10. CASE ~takes(x.stack, a)
  <2> HIDE DEF u, v
  <2> QED
    BY <1>7, <1>8, <1>10
<1> QED
  BY <1>9, <1>10

\* A token does the same to both.
LEMMA AlikeToken ==
  ASSUME NEW s, NEW t, Alike(s, t), NEW token \in Stops, NEW line, NEW number
  PROVE  Alike(TakeToken(s, token, line, number), TakeToken(t, token, line, number))
<1> DEFINE new == IF MatchExternC(line) THEN _ExternCInfo(number)
                  ELSE [_BlockInfo("block", number, TRUE) EXCEPT
                          !.asm = IF MatchAsm(line) THEN "block" ELSE "no"]
           opened(z) == OnTop(z, [Last(z) EXCEPT !.open = TRUE])
<1>1. IsSound(new, FALSE)
  <2>1. \/ new = _ExternCInfo(number)
        \/ new = [_BlockInfo("block", number, TRUE) EXCEPT !.asm = "no"]
        \/ new = [_BlockInfo("block", number, TRUE) EXCEPT !.asm = "block"]
    BY Zenon
  <2>2. /\ IsSound(_ExternCInfo(number), FALSE)
        /\ IsSound([_BlockInfo("block", number, TRUE) EXCEPT !.asm = "no"], FALSE)
        /\ IsSound([_BlockInfo("block", number, TRUE) EXCEPT !.asm = "block"], FALSE)
    BY NewBlocks, SoundStays, Zenon
  <2> QED
    BY <2>1, <2>2, Zenon
<1>2. /\ s = <<>> <=> t = <<>>
      /\ s # <<>> => /\ AlikeBlocks(Last(s), Last(t)) /\ Alike(Front(s), Front(t))
                     /\ IsSound(Last(s), FALSE) /\ IsSound(Last(t), FALSE)
      /\ SeenOpenBrace(s) <=> SeenOpenBrace(t)
  BY AlikeTops
<1>3. ~SeenOpenBrace(s) => s # <<>>
  BY Zenon DEF SeenOpenBrace
<1>4. s # <<>> => Alike(opened(s), opened(t))
  <2> SUFFICES ASSUME s # <<>> PROVE Alike(opened(s), opened(t))
    OBVIOUS
  <2>1. ASSUME NEW b, NEW c, IsSound(b, FALSE), IsSound(c, FALSE), AlikeBlocks(b, c),
               NEW d, NEW e, d = [b EXCEPT !.open = TRUE], e = [c EXCEPT !.open = TRUE]
        PROVE  AlikeBlocks(d, e)
    BY <2>1 DEF AlikeBlocks, IsSound, IsBlock
  <2> DEFINE b == Last(s)
             c == Last(t)
  <2>2. IsSound(b, FALSE) /\ IsSound(c, FALSE) /\ AlikeBlocks(b, c)
    BY <1>2
  <2> DEFINE d == [b EXCEPT !.open = TRUE]
             e == [c EXCEPT !.open = TRUE]
  <2>3. AlikeBlocks(d, e)
    <3> HIDE DEF b, c
    <3> QED
      BY <2>1, <2>2, Zenon
  <2>4. IsSound(d, FALSE) /\ IsSound(e, FALSE)
    <3> HIDE DEF b, c
    <3> QED
      BY <2>2, SoundStays, Zenon
  <2> HIDE DEF d, e
  <2>5. Alike(OnTop(s, d), OnTop(t, e))
    BY <2>3, <2>4, AlikeOnTop
  <2> QED
    BY <2>5 DEF d, e
<1>5. Alike(Append(s, new), Append(t, new))
  <2>1. AlikeBlocks(new, new)
    BY DEF AlikeBlocks
  <2> HIDE DEF new
  <2> QED
    BY <1>1, <2>1, AlikeAppend
<1>6. \A z : TakeToken(z, token, line, number) =
               IF token = "{" THEN IF SeenOpenBrace(z) THEN Append(z, new) ELSE opened(z)
               ELSE IF token = "}" THEN IF z = <<>> THEN z ELSE Front(z)
               ELSE IF SeenOpenBrace(z) THEN z ELSE Front(z)
  <2> TAKE z
  <2> HIDE DEF new, opened
  <2>1. CASE token = "{" /\ ~SeenOpenBrace(z)
    BY <2>1, TokensDiffer DEF TakeToken, opened
  <2>2. CASE token = "{" /\ SeenOpenBrace(z)
    BY <2>2, TokensDiffer DEF TakeToken, new
  <2>3. CASE token \in {";", ")"}
    BY <2>3, TokensDiffer DEF TakeToken
  <2>4. CASE token = "}"
    BY <2>4, TokensDiffer DEF TakeToken
  <2> QED
    BY <2>1, <2>2, <2>3, <2>4 DEF Stops
<1> HIDE DEF new, opened
<1> DEFINE opens  == token = "{"
           closes == token = "}"
<1>7. \A z : TakeToken(z, token, line, number) =
               IF opens THEN IF SeenOpenBrace(z) THEN Append(z, new) ELSE opened(z)
               ELSE IF closes THEN IF z = <<>> THEN z ELSE Front(z)
               ELSE IF SeenOpenBrace(z) THEN z ELSE Front(z)
  BY <1>6, Zenon
<1> HIDE DEF opens, closes
<1> DEFINE u == TakeToken(s, token, line, number)
           v == TakeToken(t, token, line, number)
<1>8. CASE opens
  <2>1. CASE SeenOpenBrace(s)
    <3>1. u = Append(s, new) /\ v = Append(t, new)
      BY <1>2, <1>7, <1>8, <2>1
    <3> QED
      BY <1>5, <3>1, Zenon
  <2>2. CASE ~SeenOpenBrace(s)
    <3>1. u = opened(s) /\ v = opened(t) /\ s # <<>>
      BY <1>2, <1>3, <1>7, <1>8, <2>2
    <3> QED
      BY <1>4, <3>1, Zenon
  <2> QED
    BY <2>1, <2>2
<1>9. CASE ~opens
  <2>1. \/ u = s /\ v = t
        \/ s # <<>> /\ u = Front(s) /\ v = Front(t)
    BY <1>2, <1>3, <1>7, <1>9
  <2> QED
    BY <1>2, <2>1, Zenon
<1> QED
  BY <1>8, <1>9

\* So does a brace,
LEMMA AlikeBrace ==
  ASSUME NEW n \in Nat, NEW x, NEW y, SameRest(x, y, n), NEW raw, NEW other, NEW number
  PROVE  SameRest(TakeBrace(x, raw, number), TakeBrace(y, other, number), n)
<1> DEFINE place(l) == Find(l, Stops)
           stack(z) == TakeToken(z.stack, z.line[place(z.line)], z.line, number)
           rest(l)  == After(l, place(l))
           line     == x.line
<1>1. /\ Alike(x.stack, y.stack) /\ x.line = line /\ y.line = line /\ line \in Line /\ Len(line) <= n
      /\ Len(line) \in Nat
  BY LenProperties DEF SameRest, Line
<1>2. \A z, r : place(z.line) = 0 => TakeBrace(z, r, number) = z
  BY Zenon DEF TakeBrace, Stops
<1>3. \A z, r : place(z.line) # 0 =>
        \E errors : TakeBrace(z, r, number) = [stack |-> stack(z), line |-> rest(z.line), errors |-> errors]
  BY Zenon DEF TakeBrace, Stops
<1>4. place(line) \in Nat /\ (place(line) # 0 => line[place(line)] \in Stops)
  BY <1>1, FindType, FindIsNatural, Zenon
<1>5. CASE place(line) = 0
  <2> HIDE DEF place, line
  <2>1. TakeBrace(x, raw, number) = x /\ TakeBrace(y, other, number) = y
    BY <1>1, <1>2, <1>5
  <2> QED
    BY <2>1, Zenon
<1>6. CASE place(line) # 0
  <2> DEFINE i == place(line)
  <2> HIDE DEF i
  <2>0. i \in Nat /\ line[i] \in Stops
    BY <1>4, <1>6 DEF i
  <2>1. Alike(TakeToken(x.stack, line[i], line, number), TakeToken(y.stack, line[i], line, number))
    BY <1>1, <2>0, AlikeToken
  <2>2. /\ stack(x) = TakeToken(x.stack, line[i], line, number)
        /\ stack(y) = TakeToken(y.stack, line[i], line, number)
    BY <1>1, Zenon DEF i
  <2>3. After(line, i) \in Line /\ Len(After(line, i)) <= Len(line) /\ Len(After(line, i)) \in Nat
    <3> HIDE DEF line
    <3>1. After(line, i) \in Line /\ Len(After(line, i)) <= Len(line)
      BY <1>1, <2>0, AfterIsShorter
    <3> QED
      BY <3>1, LenProperties DEF Line
  <2>4. rest(line) = After(line, i)
    BY DEF i
  <2> HIDE DEF stack, rest, place, line
  <2>5. PICK e : TakeBrace(x, raw, number) = [stack |-> stack(x), line |-> rest(line), errors |-> e]
    BY <1>1, <1>3, <1>6
  <2>6. PICK f : TakeBrace(y, other, number) = [stack |-> stack(y), line |-> rest(line), errors |-> f]
    BY <1>1, <1>3, <1>6
  <2>7. /\ TakeBrace(x, raw, number).stack = stack(x) /\ TakeBrace(y, other, number).stack = stack(y)
        /\ TakeBrace(x, raw, number).line = rest(line) /\ TakeBrace(y, other, number).line = rest(line)
    BY <2>5, <2>6
  <2>8. Len(After(line, i)) <= n
    BY <1>1, <2>3
  <2> QED
    BY <2>1, <2>2, <2>3, <2>4, <2>7, <2>8 DEF SameRest
<1> QED
  BY <1>5, <1>6

\* all of them,
LEMMA AlikeBraces ==
  ASSUME NEW n \in Nat, NEW x, NEW y, SameRest(x, y, n), NEW raw, NEW other, NEW number
  PROVE  Alike(TakeBraces(x, raw, number).stack, TakeBraces(y, other, number).stack)
<1> DEFINE m == Len(x.line)
<1>1. x.line \in Line /\ y.line = x.line /\ m \in Nat /\ m <= n /\ Alike(x.stack, y.stack)
  BY LenProperties DEF SameRest, Line
<1>2. PICK p : /\ p[0] = [stack |-> x.stack, line |-> x.line, errors |-> <<>>]
               /\ \A k \in 1..m : p[k] = TakeBrace(p[k - 1], raw, number)
               /\ TakeBraces(x, raw, number) = p[m]
  BY <1>1, BracesUnroll
<1>3. PICK q : /\ q[0] = [stack |-> y.stack, line |-> y.line, errors |-> <<>>]
               /\ \A k \in 1..m : q[k] = TakeBrace(q[k - 1], other, number)
               /\ TakeBraces(y, other, number) = q[m]
  <2>1. y.line \in Line /\ Len(y.line) = m
    BY <1>1
  <2>2. \E q : /\ q[0] = [stack |-> y.stack, line |-> y.line, errors |-> <<>>]
               /\ \A k \in 1..Len(y.line) : q[k] = TakeBrace(q[k - 1], other, number)
               /\ TakeBraces(y, other, number) = q[Len(y.line)]
    BY <2>1, BracesUnroll
  <2> QED
    BY <2>1, <2>2
<1> DEFINE T == {k \in 0..m : SameRest(p[k], q[k], n)}
<1>4. 0 \in T
  BY <1>1, <1>2, <1>3 DEF SameRest
<1> HIDE DEF m
<1>5. ASSUME NEW k \in 1..m, k - 1 \in T PROVE k \in T
  <2>1. SameRest(p[k - 1], q[k - 1], n)
    BY <1>5
  <2>2. SameRest(TakeBrace(p[k - 1], raw, number), TakeBrace(q[k - 1], other, number), n)
    BY <2>1, AlikeBrace
  <2> QED
    BY <1>2, <1>3, <2>2
<1>6. m \in T
  <2> HIDE DEF T
  <2>1. \A k \in 0..m : k \in T
    BY <1>1, <1>4, <1>5, Climbs
  <2> QED
    BY <1>1, <2>1
<1> QED
  BY <1>2, <1>3, <1>6 DEF SameRest

\* and a line, in texts that have it both and say alike what its template arguments are.
LEMMA AlikeReading ==
  ASSUME NEW s, NEW t, Alike(s, t), NEW a, NEW b, NEW n, a.elided[n] \in Line, b.elided[n] = a.elided[n],
         \A i \in 1..(Len(a.elided[n]) + 1) :
           InTemplateArgumentList(a.elided, n, i) <=> InTemplateArgumentList(b.elided, n, i)
  PROVE  Alike(ReadLine(s, a, n), ReadLine(t, b, n))
<1> DEFINE line == a.elided[n]
           m == Len(line)
           u == CountParentheses(s, line)
           v == CountParentheses(t, line)
           p == TakeNamespaces(u, line, n)
           q == TakeNamespaces(v, line, n)
           x == TakeClass(p, a.elided, n)
           y == TakeClass(q, b.elided, n)
<1>1. ReadLine(s, a, n) = TakeBraces(x, a.raw[n], n).stack /\ ReadLine(t, b, n) = TakeBraces(y, b.raw[n], n).stack
  BY Zenon DEF ReadLine, TakeHeads
<1>2. line \in Line /\ m \in Nat
  BY LenProperties DEF Line
<1> HIDE DEF line
<1>3. Alike(u, v)
  BY <1>2, AlikeCounted
<1> HIDE DEF u, v
<1>4. SameRest(p, q, m)
  BY <1>2, <1>3, AlikeNamespaces
<1> HIDE DEF p, q
<1>5. SameRest(x, y, m)
  <2>1. \A i \in 1..(m + 1) :
          InTemplateArgumentList(a.elided, n, i) <=> InTemplateArgumentList(b.elided, n, i)
    BY DEF m, line
  <2> HIDE DEF m
  <2> QED
    BY <1>2, <1>4, <2>1, AlikeClass
<1> HIDE DEF x, y, m
<1>6. Alike(TakeBraces(x, a.raw[n], n).stack, TakeBraces(y, b.raw[n], n).stack)
  BY <1>2, <1>5, AlikeBraces
<1> QED
  BY <1>1, <1>6

\* A stack is like itself.
LEMMA AlikeSelf ==
  ASSUME NEW s, IsStack(s, FALSE)
  PROVE  Alike(s, s)
BY DEF Alike, AlikeBlocks

\* A line that is read leaves a stack.
LEMMA ReadingKeeps ==
  ASSUME NEW s, IsStack(s, FALSE), NEW a, NEW n, a.elided[n] \in Line
  PROVE  IsStack(ReadLine(s, a, n), FALSE)
<1>1. Alike(ReadLine(s, a, n), ReadLine(s, a, n))
  BY AlikeSelf, AlikeReading
<1> QED
  BY <1>1 DEF Alike

\* A line without text opens and closes nothing.
LEMMA BlankReading ==
  ASSUME NEW s, NEW a, NEW n, a.elided[n] = <<>>
  PROVE  ReadLine(s, a, n) = CountParentheses(s, <<>>)
<1> DEFINE line == a.elided[n]
           u == CountParentheses(s, line)
           p == TakeNamespaces(u, line, n)
           x == TakeClass(p, a.elided, n)
<1>1. ReadLine(s, a, n) = TakeBraces(x, a.raw[n], n).stack
  BY Zenon DEF ReadLine, TakeHeads
<1>2. line = <<>> /\ line \in Line /\ Len(line) = 0
  BY EmptySeq DEF Line
<1>3. u = CountParentheses(s, <<>>)
  BY <1>2
<1> HIDE DEF line, u
<1>4. p = [stack |-> u, line |-> line]
  <2>1. PICK run : run[0] = [stack |-> u, line |-> line] /\ p = run[Len(line)]
    BY <1>2, NamespacesUnroll
  <2> HIDE DEF p
  <2> QED
    BY <1>2, <2>1
<1> HIDE DEF p
<1>5. x = p
  <2>1. p.line = line
    BY <1>4
  <2>2. DeclarationEnd(line) = 0
    BY <1>2, HeadEndsWithin
  <2> QED
    BY <2>1, <2>2, Zenon DEF TakeClass
<1> HIDE DEF x
<1>6. TakeBraces(x, a.raw[n], n).stack = u
  <2>1. x.line = line /\ x.stack = u
    BY <1>4, <1>5
  <2>2. PICK run : /\ run[0] = [stack |-> x.stack, line |-> x.line, errors |-> <<>>]
                   /\ TakeBraces(x, a.raw[n], n) = run[Len(x.line)]
    BY <1>2, <2>1, BracesUnroll
  <2> QED
    BY <1>2, <2>1, <2>2
<1> QED
  BY <1>1, <1>3, <1>6

\* A line is read behind such a line as without it.
LEMMA CountedReading ==
  ASSUME NEW s, IsStack(s, FALSE), NEW a, NEW n, a.elided[n] \in Line
  PROVE  ReadLine(CountParentheses(s, <<>>), a, n) = ReadLine(s, a, n)
<1> DEFINE line == a.elided[n]
           of(u) == TakeBraces(TakeClass(TakeNamespaces(u, line, n), a.elided, n), a.raw[n], n).stack
<1>1. \A z : ReadLine(z, a, n) = of(CountParentheses(z, line))
  BY Zenon DEF ReadLine, TakeHeads
<1>2. CountParentheses(CountParentheses(s, <<>>), line) = CountParentheses(s, line)
  BY CountedOnce
<1> HIDE DEF of
<1> QED
  BY <1>1, <1>2, Zenon

\* The blocks behind each line of a text.
LEMMA BlocksReadUnfolds ==
  ASSUME NEW lines, lines.elided \in Seq(Line)
  PROVE  /\ BlocksRead(lines)[0] = <<>>
         /\ \A k \in 1..Len(lines.elided) : BlocksRead(lines)[k] = ReadLine(BlocksRead(lines)[k - 1], lines, k)
         /\ \A k \in 0..Len(lines.elided) : IsStack(BlocksRead(lines)[k], FALSE)
<1> DEFINE n == Len(lines.elided)
           step(v, k) == ReadLine(v, lines, k)
           IsRun(h, m) == h = [k \in 0..m |-> IF k = 0 THEN <<>> ELSE step(h[k - 1], k)]
           run == BlocksRead(lines)
<1>1. n \in Nat /\ \A k \in 1..n : lines.elided[k] \in Line
  BY LenProperties, ElementOfSeq
<1>2. \A v, k : IsStack(v, FALSE) /\ k \in 1..n => IsStack(step(v, k), FALSE)
  BY <1>1, ReadingKeeps
<1>3. run = CHOOSE h : IsRun(h, n)
  BY DEF BlocksRead
<1> HIDE DEF step, n
<1>4. \E h : IsRun(h, n)
  <2> DEFINE T == {m \in 0..n : \E h : IsRun(h, m)}
  <2>1. 0 \in T
    <3> DEFINE h == [k \in 0..0 |-> <<>>]
    <3>0. \A k \in 0..0 : <<>> = IF k = 0 THEN <<>> ELSE step(h[k - 1], k)
      OBVIOUS
    <3>1. IsRun(h, 0)
      BY <3>0
    <3> HIDE DEF h, IsRun
    <3> QED
      BY <1>1, <3>1
  <2>2. ASSUME NEW m \in 1..n, m - 1 \in T PROVE m \in T
    <3>1. PICK h : IsRun(h, m - 1)
      BY <2>2
    <3> DEFINE h2 == [k \in 0..m |-> IF k = m THEN step(h[m - 1], m) ELSE h[k]]
    <3>2. h2[m] = step(h[m - 1], m) /\ \A k \in 0..(m - 1) : h2[k] = h[k]
      OBVIOUS
    <3>3. \A k \in 0..(m - 1) : h[k] = IF k = 0 THEN <<>> ELSE step(h[k - 1], k)
      BY <3>1
    <3>4. ASSUME NEW k \in 0..m PROVE h2[k] = IF k = 0 THEN <<>> ELSE step(h2[k - 1], k)
      <4> HIDE DEF h2
      <4>1. CASE k = m
        BY <3>2, <4>1
      <4>2. CASE k # m
        <5>1. k \in 0..(m - 1) /\ (k # 0 => k - 1 \in 0..(m - 1))
          BY <4>2
        <5> QED
          BY <3>2, <3>3, <5>1
      <4> QED
        BY <4>1, <4>2
    <3>5. h2 = [k \in 0..m |-> h2[k]]
      OBVIOUS
    <3> HIDE DEF h2
    <3>6. IsRun(h2, m)
      BY <3>4, <3>5
    <3> QED
      BY <3>6
  <2> HIDE DEF T
  <2>3. \A k \in 0..n : k \in T
    BY <1>1, <2>1, <2>2, Climbs
  <2>4. n \in T
    BY <1>1, <2>3
  <2> QED
    BY <2>4 DEF T
<1>5. IsRun(run, n)
  <2> HIDE DEF IsRun, run
  <2> QED
    BY <1>3, <1>4
<1> HIDE DEF run
<1>6. run[0] = <<>> /\ \A k \in 1..n : run[k] = step(run[k - 1], k)
  BY <1>1, <1>5
<1> HIDE DEF IsRun
<1>7. \A k \in 0..n : IsStack(run[k], FALSE)
  <2> DEFINE T == {k \in 0..n : IsStack(run[k], FALSE)}
  <2>0. IsStack(<<>>, FALSE)
    BY NewBlocks
  <2>1. 0 \in T
    <3>1. 0 \in 0..n
      BY <1>1
    <3>2. IsStack(run[0], FALSE)
      BY <1>6, <2>0, Zenon
    <3> QED
      BY <3>1, <3>2, Zenon
  <2>2. ASSUME NEW k \in 1..n, k - 1 \in T PROVE k \in T
    <3>1. IsStack(run[k - 1], FALSE)
      BY <2>2
    <3>2. IsStack(step(run[k - 1], k), FALSE)
      BY <1>2, <3>1, Zenon
    <3>3. IsStack(run[k], FALSE)
      BY <1>6, <3>2, Zenon
    <3>4. k \in 0..n
      BY <1>1
    <3> QED
      BY <3>3, <3>4, Zenon
  <2> HIDE DEF T
  <2>3. \A k \in 0..n : k \in T
    BY <1>1, <2>1, <2>2, Climbs
  <2> QED
    BY <2>3 DEF T
<1> QED
  BY <1>6, <1>7 DEF n, step, run

\* What a conditional does to the blocks and what it keeps of them.
LEMMA ConditionalIs ==
  ASSUME NEW calm, NEW s, IsNesting(s, calm), NEW line
  PROVE  LET open  == s.pp_stack
             p     == Last(open)
             new   == _PreprocessorInfo(s.stack)
             pp    == UpdatePreprocessor(RememberTop(s), line)
             saved == [p EXCEPT !.seen_else = TRUE, !.before_else = s.stack]
         IN  /\ Directive(line) = "#if" => pp.stack = s.stack /\ pp.pp_stack = Append(open, new)
             /\ Directive(line) = "#else" /\ open # <<>> =>
                  /\ pp.stack = p.before_if
                  /\ p.seen_else => pp.pp_stack = OnTop(open, p)
                  /\ ~p.seen_else => pp.pp_stack = OnTop(open, saved)
             /\ Directive(line) = "#endif" /\ open # <<>> =>
                  /\ pp.pp_stack = Front(open)
                  /\ pp.stack = IF p.seen_else THEN p.before_else ELSE s.stack
             /\ Directive(line) \notin {"#if", "#else", "#endif"} => pp.stack = s.stack /\ pp.pp_stack = open
<1> DEFINE r     == RememberTop(s)
           open  == s.pp_stack
           p     == Last(open)
           new   == _PreprocessorInfo(s.stack)
           pp    == UpdatePreprocessor(RememberTop(s), line)
           saved == [p EXCEPT !.seen_else = TRUE, !.before_else = s.stack]
<1>1. /\ r = [stack |-> r.stack, previous_stack_top |-> r.previous_stack_top, pp_stack |-> r.pp_stack]
      /\ r.stack = s.stack /\ r.pp_stack = open
  BY DEF RememberTop, IsNesting
<1>2. pp = UpdatePreprocessor(r, line)
  OBVIOUS
<1> HIDE DEF r, pp
<1>3. ASSUME Directive(line) = "#if"
      PROVE  pp.stack = s.stack /\ pp.pp_stack = Append(open, new)
  <2>1. pp = [r EXCEPT !.pp_stack = Append(r.pp_stack, _PreprocessorInfo(r.stack))]
    BY <1>2, <1>3 DEF UpdatePreprocessor
  <2>2. pp = [r EXCEPT !.pp_stack = Append(open, new)]
    BY <1>1, <2>1
  <2> HIDE DEF new
  <2>3. pp.stack = s.stack /\ pp.pp_stack = Append(open, new)
    BY <1>1, <2>2
  <2> QED
    BY <1>3, <2>3
<1>4. ASSUME Directive(line) = "#else" /\ open # <<>>
      PROVE  /\ pp.stack = p.before_if
             /\ p.seen_else => pp.pp_stack = OnTop(open, p)
             /\ ~p.seen_else => pp.pp_stack = OnTop(open, saved)
  <2> DEFINE q == IF p.seen_else THEN p ELSE saved
  <2>1. pp = [stack |-> p.before_if, previous_stack_top |-> NoObject, pp_stack |-> OnTop(open, q)]
    BY <1>1, <1>2, <1>4 DEF UpdatePreprocessor
  <2>2. /\ p.seen_else => q = p
        /\ ~p.seen_else => q = saved
    OBVIOUS
  <2> HIDE DEF q, saved, open, p
  <2>3. pp.stack = p.before_if /\ pp.pp_stack = OnTop(open, q)
    BY <2>1
  <2> QED
    BY <1>4, <2>2, <2>3
<1>5. ASSUME Directive(line) = "#endif" /\ open # <<>>
      PROVE  pp.pp_stack = Front(open) /\ pp.stack = IF p.seen_else THEN p.before_else ELSE s.stack
  <2>1. /\ p.seen_else =>
             pp = [stack |-> p.before_else, previous_stack_top |-> NoObject, pp_stack |-> Front(open)]
        /\ ~p.seen_else => pp = [r EXCEPT !.pp_stack = Front(open)]
    BY <1>1, <1>2, <1>5 DEF UpdatePreprocessor
  <2>2. pp.pp_stack = Front(open) /\ pp.stack = IF p.seen_else THEN p.before_else ELSE s.stack
    BY <1>1, <2>1
  <2> QED
    BY <1>5, <2>2
<1>6. ASSUME Directive(line) \notin {"#if", "#else", "#endif"}
      PROVE  pp.stack = s.stack /\ pp.pp_stack = open
  <2>1. pp = r
    BY <1>2, <1>6 DEF UpdatePreprocessor
  <2> QED
    BY <1>1, <1>6, <2>1
<1> HIDE DEF p, new, saved
<1>7. /\ Directive(line) = "#if" => pp.stack = s.stack /\ pp.pp_stack = Append(open, new)
      /\ Directive(line) = "#else" /\ open # <<>> =>
           /\ pp.stack = p.before_if
           /\ p.seen_else => pp.pp_stack = OnTop(open, p)
           /\ ~p.seen_else => pp.pp_stack = OnTop(open, saved)
      /\ Directive(line) = "#endif" /\ open # <<>> =>
           /\ pp.pp_stack = Front(open)
           /\ pp.stack = IF p.seen_else THEN p.before_else ELSE s.stack
      /\ Directive(line) \notin {"#if", "#else", "#endif"} => pp.stack = s.stack /\ pp.pp_stack = open
  BY <1>3, <1>4, <1>5, <1>6
<1> QED
  BY <1>7 DEF p, new, saved, pp

\* What a line of the text does to both.
LEMMA UpdateReads ==
  ASSUME NEW calm, NEW s, IsNesting(s, calm), NEW lines, NEW n,
         NEW pp, pp = UpdatePreprocessor(RememberTop(s), lines.elided[n]),
         NEW next, next = Update(s, lines, n).nesting
  PROVE  next.stack = ReadLine(pp.stack, lines, n) /\ next.pp_stack = pp.pp_stack
<1> DEFINE braces == TakeBraces(TakeHeads(pp.stack, lines, n), lines.raw[n], n)
<1>1. Update(s, lines, n) = [nesting |-> [pp EXCEPT !.stack = braces.stack], errors |-> braces.errors]
  BY Zenon DEF Update, Updated
<1>2. braces.stack = ReadLine(pp.stack, lines, n)
  BY Zenon DEF ReadLine
<1>3. IsNesting(pp, calm)
  BY PreprocessorKeeps
<1>4. pp = [stack |-> pp.stack, previous_stack_top |-> pp.previous_stack_top, pp_stack |-> pp.pp_stack]
  BY <1>3 DEF IsNesting
<1> HIDE DEF braces
<1>5. next = [pp EXCEPT !.stack = braces.stack]
  BY <1>1
<1>6. next.stack = braces.stack /\ next.pp_stack = pp.pp_stack
  BY <1>4, <1>5
<1> QED
  BY <1>2, <1>6
=============================================================================

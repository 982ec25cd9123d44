------------------------------ MODULE CppText ------------------------------
(***************************************************************************)
(* How cpplint.py reads the text of a file: raw strings, comments and      *)
(* strings are taken out of the lines, and the brackets of what is left    *)
(* are matched.  A line is a sequence of tokens; white space is left out.  *)
(*   DQ SQ        a quote, double or single, that is not escaped           *)
(*   RAW RAWX     R"( and R"x(, closed by )" and )x"                       *)
(*   NUM          a number, WORD any other text                            *)
(* Positions count tokens from one; a position "just after" is one more.   *)
(***************************************************************************)
EXTENDS Integers, Sequences, SequencesExt, FiniteSetsExt

DQ   == "\""
SQ   == "'"
RAW  == "R\"("
RAWX == "R\"x("
NUM  == "1"
WORD == "w"

\* x, and then a step for each of 1 .. n.
Loop(Step(_, _), n, x) ==
  LET after[k \in 0..n] == IF k = 0 THEN x ELSE Step(after[k - 1], k)
  IN  after[n]

EmptyString == <<DQ, DQ>>
Before(line, i) == SubSeq(line, 1, i - 1)
After(line, i)  == SubSeq(line, i + 1, Len(line))
Find(line, T)   == SelectInSeq(line, LAMBDA t : t \in T)
Has(line, t)    == \E i \in DOMAIN line : line[i] = t
Count(line, t)  == Cardinality({i \in DOMAIN line : line[i] = t})

\* How often a character '"' is in the line: k of its tokens have been read.
QuotedQuotes(line) ==
  FoldLeft(LAMBDA a, t : CASE t = SQ /\ a.k = 2 -> [k |-> 0, n |-> a.n + 1]
                           [] t = SQ /\ a.k # 2 -> [a EXCEPT !.k = 1]
                           [] t = DQ /\ a.k = 1 -> [a EXCEPT !.k = 2]
                           [] OTHER -> [a EXCEPT !.k = 0],
           [k |-> 0, n |-> 0], line).n

\* Is the next token in a string?
IsCppString(line) == (Count(line, DQ) - QuotedQuotes(line)) % 2 = 1

(***************************************************************************)
(* Raw strings.  What was open at the end of a line is its opener, or      *)
(* NONE.                                                                   *)
(***************************************************************************)
NONE == "none"
Closer(opener) == IF opener = RAW THEN <<")", DQ>> ELSE <<")", "x", DQ>>

\* Where the delimiter of the opener starts, 0 if it does not come.
FindDelimiter(line, opener) ==
  LET d == Closer(opener)
      at == {i \in 1..(Len(line) - Len(d) + 1) : SubSeq(line, i, i + Len(d) - 1) = d}
  IN IF at = {} THEN 0 ELSE Min(at)

\* The quote that is open behind the prefix, NONE if there is none.
OpenQuote(prefix) ==
  FoldLeft(LAMBDA q, t : IF q = t THEN NONE ELSE IF q = NONE /\ t \in {DQ, SQ} THEN t ELSE q,
           NONE, prefix)

InLineComment(prefix) ==
  \E i \in DOMAIN prefix : prefix[i] = "//" /\ OpenQuote(Before(prefix, i)) = NONE

\* The first raw string of the line is emptied, if there is one.
EmptyRawString(acc) ==
  LET line == acc.line
      i    == Find(line, {RAW, RAWX})
      tail == After(line, i)
      end  == FindDelimiter(tail, line[i])
  IN  IF i = 0 \/ InLineComment(Before(line, i)) THEN acc
      ELSE IF end = 0
        THEN [line |-> Before(line, i) \o EmptyString, open |-> line[i]]
      ELSE [acc EXCEPT !.line = Before(line, i) \o EmptyString
                                  \o After(tail, end + Len(Closer(line[i])) - 1)]

\* The text of a raw string may open another one.
RawStringsOfLine(line) ==
  Loop(LAMBDA acc, k : EmptyRawString(acc), Len(line), [line |-> line, open |-> NONE])

RawStep(acc, line) ==
  LET end == FindDelimiter(line, acc.open)
      new == IF acc.open = NONE THEN RawStringsOfLine(line)
             ELSE IF end = 0 THEN [line |-> EmptyString, open |-> acc.open]
             ELSE RawStringsOfLine(EmptyString \o After(line, end + Len(Closer(acc.open)) - 1))
  IN  [lines |-> Append(acc.lines, new.line), open |-> new.open]

CleanseRawStrings(lines) ==
  Loop(LAMBDA acc, i : RawStep(acc, lines[i]), Len(lines), [lines |-> <<>>, open |-> NONE]).lines

(***************************************************************************)
(* Comments.  Only lines that start with a comment and lines that end with *)
(* one count for a comment of several lines.  `unclosed' is the line that  *)
(* opens a comment without an end, 0 if there is none.                     *)
(***************************************************************************)
OpensComment(line)  == line # <<>> /\ Head(line) = "/*" /\ ~Has(line, "*/")

\* Mutant: an end anywhere in the line ends the comment.
EndsAnywhere(line) == Has(line, "*/")

ClosesComment(line) == line # <<>> /\ Last(line) = "*/"
Cleared == <<"/*", "*/">>

\* The first comment behind what was looked at.
ClearComment(acc) ==
  LET n == Len(acc.lines)
      b == SelectInSubSeq(acc.lines, acc.from, n, OpensComment)
      e == SelectInSubSeq(acc.lines, b, n, ClosesComment)
  IN  IF b = 0 THEN acc
      ELSE IF e = 0 THEN [acc EXCEPT !.unclosed = b]
      ELSE [acc EXCEPT !.lines = [i \in DOMAIN acc.lines |-> IF i \in b..e THEN Cleared ELSE @[i]],
                       !.from = e + 1]

RemoveMultiLineComments(lines) ==
  Loop(LAMBDA acc, k : ClearComment(acc), Len(lines), [lines |-> lines, from |-> 1, unclosed |-> 0])

\* The first comment in the rest of a line is dropped.
DropComment(acc) ==
  LET o == Find(acc.rest, {"/*"})
      c == Find(After(acc.rest, o), {"*/"})
  IN  IF o = 0 \/ c = 0 THEN acc
      ELSE [done |-> acc.done \o Before(acc.rest, o), rest |-> After(acc.rest, o + c)]

DropCStyle(line) ==
  LET dropped == Loop(LAMBDA acc, k : DropComment(acc), Len(line), [done |-> <<>>, rest |-> line])
  IN  dropped.done \o dropped.rest

\* Only the first // of the line is looked at.
CleanseComments(line) ==
  LET i == Find(line, {"//"})
  IN  DropCStyle(IF i # 0 /\ ~IsCppString(Before(line, i)) THEN Before(line, i) ELSE line)

(***************************************************************************)
(* Strings and characters are emptied, the quotes that separate digits     *)
(* dropped.  A quote without its second leaves the rest as it is.          *)
(***************************************************************************)
\* How many quotes from q on have digits or a word behind them, and those.
IsSeparator(line, i) == i < Len(line) /\ line[i] = SQ /\ line[i + 1] \in {NUM, WORD}
Separators(line, q) ==
  Max({n \in 0..Len(line) : \A j \in 1..n : IsSeparator(line, q + 2 * j - 2)})
Digits(line, q, n) == [j \in 1..n |-> line[q + 2 * j - 1]]

EmptyFirst(acc) ==
  LET line   == acc.rest
      q      == Find(line, {DQ, SQ})
      second == Find(After(line, q), {line[q]})
      n      == IF q > 1 /\ line[q - 1] = NUM THEN Separators(line, q) ELSE 0
  IN  IF q = 0 \/ (n = 0 /\ second = 0) THEN acc
      ELSE IF n > 0 THEN [done |-> acc.done \o Before(line, q) \o Digits(line, q, n),
                          rest |-> After(line, q + 2 * n - 1)]
      ELSE [done |-> acc.done \o Before(line, q) \o <<line[q], line[q]>>,
            rest |-> After(line, q + second)]

EmptyStrings(line) ==
  LET emptied == Loop(LAMBDA acc, k : EmptyFirst(acc), Len(line), [done |-> <<>>, rest |-> line])
  IN  emptied.done \o emptied.rest

_CollapseStrings(line) ==
  IF line # <<>> /\ Head(line) = "#include" THEN line ELSE EmptyStrings(line)

LinesWithout(raw, noraw) ==
  [raw    |-> raw,
   noraw  |-> noraw,
   lines  |-> [i \in DOMAIN noraw |-> CleanseComments(noraw[i])],
   elided |-> [i \in DOMAIN noraw |-> CleanseComments(_CollapseStrings(noraw[i]))]]
CleansedLines(lines) == LinesWithout(lines, CleanseRawStrings(lines))

(***************************************************************************)
(* Brackets.  A scan of a line ends with a position, or with none (0) and  *)
(* the stack of what is still open; `over' when it ended within the line.  *)
(***************************************************************************)
Partner == [t \in {"(", "[", "{"} |-> CASE t = "(" -> ")" [] t = "[" -> "]" [] t = "{" -> "}"]
Openers == {"(", "[", "{"}
Closers == {")", "]", "}"}

DropTop(stack, t) == SubSeq(stack, 1, SelectLastInSeq(stack, LAMBDA u : u # t))

Found(pos)   == [pos |-> pos, stack |-> <<>>, over |-> TRUE]
Open(stack)  == [pos |-> 0, stack |-> stack, over |-> FALSE]
Previous(line, i) == IF i > 1 THEN line[i - 1] ELSE NONE

\* One token of FindEndOfExpressionInLine.
ForwardToken(line, i, stack) ==
  LET t == line[i]
      s == DropTop(stack, "<")
      pop(st) == IF Len(st) = 1 THEN Found(i + 1) ELSE Open(Front(st))
      topIs(u) == stack # <<>> /\ Last(stack) = u
  IN  CASE t \in Openers -> Open(Append(stack, t))
        [] t = "<" -> IF Previous(line, i) = "<"
                        THEN Open(IF topIs("<") THEN Front(stack) ELSE stack)
                      ELSE IF Previous(line, i) = "operator" THEN Open(stack)
                      ELSE Open(Append(stack, "<"))
        [] t \in Closers -> IF s # <<>> /\ Partner[Last(s)] = t THEN pop(s) ELSE Open(<<>>)
        [] t = ">" -> IF Previous(line, i) = "-" \/ (i > 2 /\ line[i - 2] = "operator")
                        THEN Open(stack)
                      ELSE IF topIs("<") THEN pop(stack) ELSE Open(stack)
        [] t = ";" -> Open(s)
        [] OTHER -> Open(stack)

\* The scan ends when nothing is open: nothing opens before a token that `stops'.
EndsScan(r, stack, stops) == [r EXCEPT !.over = @ \/ (r.stack = <<>> /\ (stack # <<>> \/ stops))]

\* The first token has to open.
FindEndOfExpressionInLine(line, i, stack) ==
  LET next(acc, k) ==
        IF k < i \/ acc.over THEN acc
        ELSE EndsScan(ForwardToken(line, k, acc.stack), acc.stack, line[k] \in Closers \cup {";"})
  IN  Loop(next, Len(line), Open(stack))

\* Where a scan over lines has ended: line and position, `none' if it has not.
PlaceOf(acc, none) == IF acc.scan.pos # 0 THEN <<acc.line, acc.scan.pos>> ELSE none

\* Where an expression ends: line and position, 0 for none.
CloseOnward(lines, n, found) ==
  LET next(acc, k) ==
        IF k <= n \/ acc.scan.pos # 0 \/ acc.scan.stack = <<>> THEN acc
        ELSE [line |-> k, scan |-> FindEndOfExpressionInLine(lines[k], 1, acc.scan.stack)]
  IN  PlaceOf(Loop(next, Len(lines), [line |-> n, scan |-> found]), <<Len(lines) + 1, 0>>)

CloseExpression(lines, n, pos) ==
  LET line == lines[n]
      shift == line[pos] = "<" /\ pos < Len(line) /\ line[pos + 1] \in {"<", "="}
  IN  IF line[pos] \notin Openers \cup {"<"} \/ shift THEN <<Len(lines) + 1, 0>>
      ELSE CloseOnward(lines, n, FindEndOfExpressionInLine(line, pos, <<>>))

(***************************************************************************)
(* The same backwards: one token gives the tokens to step over besides.    *)
(***************************************************************************)
Past(n, r) == [r EXCEPT !.skip = n]
Back(pos, stack) == [pos |-> pos, stack |-> stack, skip |-> 0]

\* Mutant: a > that is no bracket hides the bracket behind it.
AngleBlocksBracket(line, i, stack) ==
  LET t == line[i]
      s == stack
      pop(st) == IF Len(st) = 1 THEN Back(i, <<>>) ELSE Back(0, Front(st))
  IN  CASE t \in Closers -> Back(0, Append(stack, t))
        [] t = ">" -> IF Previous(line, i) = "-" THEN Past(1, Back(0, stack))
                      ELSE IF Previous(line, i) = "operator"
                              \/ (i > 1 /\ i < Len(line) /\ line[i + 1] = "=")
                        THEN Back(0, stack)
                      ELSE Back(0, Append(stack, ">"))
        [] t = "<" -> IF Previous(line, i) = "<" THEN Past(1, Back(0, stack))
                      ELSE IF stack # <<>> /\ Last(stack) = ">" THEN pop(stack)
                      ELSE Back(0, stack)
        [] t \in Openers -> IF s # <<>> /\ Last(s) = Partner[t] THEN pop(s) ELSE Back(0, <<>>)
        [] t = ";" -> Back(0, s)
        [] OTHER -> Back(0, stack)

BackwardToken(line, i, stack) ==
  LET t == line[i]
      s == DropTop(stack, ">")
      pop(st) == IF Len(st) = 1 THEN Back(i, <<>>) ELSE Back(0, Front(st))
  IN  CASE t \in Closers -> Back(0, Append(stack, t))
        [] t = ">" -> IF Previous(line, i) = "-" THEN Past(1, Back(0, stack))
                      ELSE IF Previous(line, i) = "operator"
                              \/ (i > 1 /\ i < Len(line) /\ line[i + 1] = "=")
                        THEN Back(0, stack)
                      ELSE Back(0, Append(stack, ">"))
        [] t = "<" -> IF Previous(line, i) = "<" THEN Past(1, Back(0, stack))
                      ELSE IF stack # <<>> /\ Last(stack) = ">" THEN pop(stack)
                      ELSE Back(0, stack)
        [] t \in Openers -> IF s # <<>> /\ Last(s) = Partner[t] THEN pop(s) ELSE Back(0, <<>>)
        [] t = ";" -> Back(0, s)
        [] OTHER -> Back(0, stack)

ScanBack(acc, r, stops) ==
  [at   |-> acc.at - 1 - r.skip,
   scan |-> IF r.pos # 0 THEN Found(r.pos) ELSE EndsScan(Open(r.stack), acc.scan.stack, stops)]

FindStartOfExpressionInLine(line, i, stack) ==
  LET next(acc, k) ==
        IF acc.at < 1 \/ acc.scan.over THEN acc
        ELSE ScanBack(acc, BackwardToken(line, acc.at, acc.scan.stack),
                      line[acc.at] \in Openers \cup {";"})
  IN  Loop(next, i, [at |-> i, scan |-> Open(stack)]).scan

CloseBackward(lines, n, found) ==
  LET next(acc, k) ==
        IF acc.scan.pos # 0 \/ acc.scan.stack = <<>> THEN acc
        ELSE [line |-> n - k,
              scan |-> FindStartOfExpressionInLine(lines[n - k], Len(lines[n - k]), acc.scan.stack)]
  IN  PlaceOf(Loop(next, n - 1, [line |-> n, scan |-> found]), <<0, 0>>)

ReverseCloseExpression(lines, n, pos) ==
  IF lines[n][pos] \notin Closers \cup {">"} THEN <<0, 0>>
  ELSE CloseBackward(lines, n, FindStartOfExpressionInLine(lines[n], pos, <<>>))

(***************************************************************************)
(* Is the text behind a class name inside a template argument list?        *)
(***************************************************************************)
NoTemplate   == {"{", "}", ";"}
TemplateSign == {">", "=", "[", "]", "."}

\* A list that is never closed ends behind the last line, where nothing is inside.
InTemplateArgumentList(lines, n, pos) ==
  LET inside[m \in Nat, p \in Nat] ==
        LET line == lines[m]
            i    == SelectInSubSeq(line, p, Len(line),
                                   LAMBDA t : t \in NoTemplate \cup TemplateSign \cup {"<"})
        IN  IF m > Len(lines) THEN FALSE
            ELSE IF i = 0 THEN inside[m + 1, 1]
            ELSE IF line[i] \in NoTemplate THEN FALSE
            ELSE IF line[i] \in TemplateSign THEN TRUE
            ELSE inside[CloseExpression(lines, m, i)]
  IN  inside[n, pos]
=============================================================================

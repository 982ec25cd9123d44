--------------------------- MODULE LintProperties ---------------------------
(***************************************************************************)
(* What a run of cpplint.py is to keep, against definitions of what it     *)
(* reads: a lexer of C++, the count of braces, the branches of             *)
(* conditionals, the lines of a function, the directories above a file.    *)
(* Where a definition stands for itself, it uses operators of the program: *)
(* the two bracket searches are compared with each other, the blocks of a  *)
(* file with conditionals with those read (TakeHeads, TakeBraces) from the *)
(* file without their #else branches; what a NOLINT or a section means is  *)
(* said anew, what a directive, an include or the head of a function looks *)
(* like is taken from the program.                                         *)
(***************************************************************************)
EXTENDS Lint

AllRead == pc = "lines" /\ linenum > Len(clean_lines.raw)
Lines   == DOMAIN clean_lines.elided
Elided(n) == clean_lines.elided[n]
Mentions(t) == \E i \in DOMAIN File.lines : Has(File.lines[i], t)
ErrorsOf(category) ==
  {r.error.line : r \in {q \in Range(reported) : q.file = Head(todo) /\ q.error.category = category}}

(***************************************************************************)
(* Configuration.                                                          *)
(***************************************************************************)
DirAt(path, k)  == SubSeq(path.dir, 1, k)
Configured(path, k) == DirAt(path, k) \in DOMAIN job.configs
OptionsAt(path, k) ==
  IF Configured(path, k) /\ job.configs[DirAt(path, k)].readable
  THEN job.configs[DirAt(path, k)].options ELSE <<>>
EndsSearch(path, k) ==
  Configured(path, k)
    /\ (~job.configs[DirAt(path, k)].readable
        \/ \E i \in DOMAIN OptionsAt(path, k) : OptionsAt(path, k)[i].name = "noparent")
Outermost(path) == Max({0} \cup {k \in 0..Len(path.dir) : EndsSearch(path, k)})

\* The filters of the directories from the outermost on to the file; those of one
\* directory from its last line to its first.
FiltersAt(path, k) ==
  LET o == OptionsAt(path, k)
  IN  LastFirst([i \in DOMAIN o |-> IF o[i].name = "filter" THEN o[i].filters ELSE <<>>])
FiltersFrom(path, k) ==
  LastFirst([j \in 1..(Len(path.dir) + 1 - k) |-> FiltersAt(path, Len(path.dir) + 1 - j)])
FiltersAbove(path) == FiltersFrom(path, Outermost(path))

GivenFilters == DefaultFilters \o job.args.filters

\* A file is linted with the filters of the program, the command line and the
\* directories above it, outermost first, and with those of no other file.
FiltersAreOfTheFile ==
  /\ pc \in {"next", "config"} => filters = GivenFilters
  /\ pc \in {"open", "lines"} => filters = GivenFilters \o FiltersAbove(Head(todo))

\* Why that is so: the filters are set back behind every file, and the search holds
\* those of the directories between the one it is at and the file.
SearchIsAt(k) ==
  at.dir = DirAt(Head(todo), k) /\ LastFirst(cfg_filters) = FiltersFrom(Head(todo), k + 1)
OneFile == {"config", "filters", "open", "lines", "restore"}
ConfigInv ==
  /\ settings \in Settings /\ todo \in Seq(Paths) /\ cfg_filters \in Seq(FilterLists)
  /\ pc \in {"arguments", "next", "exit"} \cup OneFile
  /\ pc \in {"next", "config", "filters"} => filters = GivenFilters
  /\ pc \in OneFile => todo # <<>> /\ filters_backup = GivenFilters
  /\ pc = "config" => \E k \in Outermost(Head(todo))..Len(Head(todo).dir) : SearchIsAt(k)
  /\ pc = "filters" => LastFirst(cfg_filters) = FiltersAbove(Head(todo))
  /\ pc \in {"open", "lines"} => filters = GivenFilters \o FiltersAbove(Head(todo))

\* The length that the nearest directory above the file sets for its lines.
NearestLength(path) ==
  LET sets == {k \in Outermost(path)..Len(path.dir) :
                 \E i \in DOMAIN OptionsAt(path, k) : OptionsAt(path, k)[i].name = "linelength"}
      o == OptionsAt(path, Max(sets))
  IN  IF sets = {} THEN job.args.settings.line_length
      ELSE o[SelectLastInSeq(o, LAMBDA x : x.name = "linelength")].length

\* The usage text: a CPPLINT.cfg has an effect on files in the same directory and
\* all sub-directories, unless overridden by a nested configuration file.
SettingsAreNearest == pc \in {"open", "lines"} => settings.line_length = NearestLength(Head(todo))

(***************************************************************************)
(* Errors.                                                                 *)
(***************************************************************************)
\* The lines of a file as its NOLINT comments are looked for.
TextOf(path) == job.disk[path].lines
RawOf(path)  == RemoveMultiLineComments(TextOf(path)).lines

\* The first NOLINT of the line is of this word and meant for the category: it names
\* none, or this one.
Speaks(line, word, category) ==
  LET i     == Find(line, {"NOLINT", "NOLINTNEXTLINE"})
      named == i + 3 <= Len(line) /\ line[i + 1] = "(" /\ line[i + 3] = ")" /\ line[i + 2] # "*"
  IN  /\ i # 0 /\ line[i] = word
      /\ named => line[i + 2] \in DOMAIN Categories /\ Categories[line[i + 2]] = category

Silenced(path, n, category) ==
  \/ Speaks(RawOf(path)[n], "NOLINT", category)
  \/ n > 1 /\ Speaks(RawOf(path)[n - 1], "NOLINTNEXTLINE", category)
  \/ category = Casting /\ \E i \in DOMAIN TextOf(path) : Has(TextOf(path)[i], "LINT_C_FILE")
  \/ category = Tab /\ \E i \in DOMAIN TextOf(path) : Has(TextOf(path)[i], "LINT_KERNEL_FILE")

AdmittedIn(path, category, confidence) ==
  LET fs == GivenFilters \o FiltersAbove(path)
      k  == Max({0} \cup {i \in DOMAIN fs : IsPrefix(fs[i][2], category)})
  IN  confidence >= job.args.verbose /\ (k = 0 \/ fs[k][1] = "+")
Admitted(category, confidence) == AdmittedIn(Head(todo), category, confidence)
Passes(n, category, confidence) == ~Silenced(Head(todo), n, category) /\ Admitted(category, confidence)

\* Of what is wrong on a line of a file without assembly (IsCalm: lines of assembly
\* are not checked), the report holds what the file's own NOLINT comments, the filters
\* and the verbosity let through: no more and no less, whatever files came before it.
OffenceIsReported(n, t) ==
  [file |-> Head(todo), error |-> Err(n, Offences[t].category, Offences[t].confidence)] \in Range(reported)
IsOffence(n, t) == Has(Elided(n), t) /\ ~IsInclude(Elided(n))
IsCalm == \A n \in Lines : ~Has(Elided(n), "asm")
OffencesAreReported ==
  AllRead /\ IsCalm =>
    \A n \in Lines, t \in DOMAIN Offences :
      IsOffence(n, t) =>
        (OffenceIsReported(n, t) <=> Passes(n, Offences[t].category, Offences[t].confidence))

\* A file is named once; one that is named again may be linted with other settings.
Once == job.args.recursive \/ IsInjective(job.args.names)
OnceInv ==
  /\ pc = "arguments" => reported = <<>>
  /\ Once => /\ IsInjective(todo)
             /\ \A r \in Range(reported), i \in DOMAIN todo :
                  r.file = todo[i] => i = 1 /\ pc \in {"lines", "restore"}

\* When all files have been linted, the exit status tells whether anything was
\* reported (a run that dies on its way, for want of a file name or because of a
\* filter, ends with 1 whatever was reported), and the counts by category add up to
\* what was reported.
StatusTellsReport ==
  /\ pc = "exit" /\ todo = <<>> /\ job.args.names # <<>> /\ WellFormed(job.args.filters)
       => (status = 1 <=> reported # <<>>)
  /\ job.args.counting # "total" =>
       \A c \in {Counted(r.error.category) : r \in Range(reported)} :
         errors_by_category[c] = Cardinality({i \in DOMAIN reported : Counted(reported[i].error.category) = c})

\* Why that is so: what is counted is what was reported, and a line is read with the
\* blocks that lines before it have left.
IsList(s) == s \in Seq(Range(s))
CountsOf(r) ==
  IF job.args.counting = "total" THEN <<>>
  ELSE [c \in {Counted(q.error.category) : q \in Range(r)} |->
          Cardinality({i \in DOMAIN r : Counted(r[i].error.category) = c})]
ReportInv ==
  /\ IsList(reported)
  /\ error_count = Len(reported)
  /\ errors_by_category = CountsOf(reported)

\* A token: any text; the marks the program itself puts into a line are named apart.
CommentMarks == {"/*", "*/"}
Alphabet == STRING \cup {DQ} \cup CommentMarks

\* A list of blocks: while assembly is open in parentheses, there are such; without
\* assembly in the file, no block is one of assembly.
IsBlock(b) ==
  b = [kind |-> b.kind, start |-> b.start, open |-> b.open, parens |-> b.parens,
       asm |-> b.asm, name |-> b.name, last |-> b.last]
IsSound(b, calm) ==
  IsBlock(b) /\ b.parens \in Int /\ (b.asm = "inside" => b.parens # 0) /\ (calm => b.asm = "no")
IsStack(s, calm) == IsList(s) /\ \A i \in DOMAIN s : IsSound(s[i], calm)
IsCheckpoint(p, calm) ==
  /\ p = [before_if |-> p.before_if, before_else |-> p.before_else, seen_else |-> p.seen_else]
  /\ IsStack(p.before_if, calm) /\ IsStack(p.before_else, calm)
IsNesting(s, calm) ==
  /\ s = [stack |-> s.stack, previous_stack_top |-> s.previous_stack_top, pp_stack |-> s.pp_stack]
  /\ IsStack(s.stack, calm) /\ IsList(s.pp_stack)
  /\ \A i \in DOMAIN s.pp_stack : IsCheckpoint(s.pp_stack[i], calm)
LineInv ==
  pc = "lines" =>
    /\ Head(todo) \in DOMAIN job.disk /\ linenum \in Nat \ {0}
    /\ IsList(clean_lines.raw)
    /\ clean_lines.elided \in Seq(Seq(Alphabet)) /\ Len(clean_lines.elided) = Len(clean_lines.raw)
    /\ clean_lines.lines \in Seq(Seq(Alphabet)) /\ Len(clean_lines.lines) = Len(clean_lines.raw)
    /\ IsNesting(nesting_state, IsCalm)

\* Up to line k, what the NOLINT comments of a file suppress.
NotesUpTo(path, k) ==
  ProcessGlobalSuppresions(TextOf(path))
    \cup UNION {ParseNolintSuppressions(RawOf(path)[m], m) : m \in 1..k}
NolintInv ==
  pc = "lines" =>
    /\ clean_lines.raw = RawOf(Head(todo)) /\ linenum <= Len(clean_lines.raw) + 1
    /\ suppressions = NotesUpTo(Head(todo), linenum - 1)

\* The filters in force have their signs while files are read: those of the program and
\* the command line between files and in the backup, all of them while a file is linted.
\* So the assertion of _ShouldPrintError ('should have been checked for in SetFilter',
\* cpplint.py:1431) holds, and IsFiltered, which looks for a minus, agrees with
\* AdmittedIn, which looks for a plus.  The usage text (cpplint.py:124) wants filters
\* without a sign to be taken as well; the program ends when it is given one.
SignInv ==
  /\ pc = "next" => WellFormed(filters)
  /\ pc \in OneFile => WellFormed(filters_backup)
  /\ pc \in {"open", "lines"} => IsList(filters) /\ WellFormed(filters)

\* What is reported was let through.  A comment without an end is reported before the
\* NOLINT comments of its line are read.
IsLetThrough(path, e) ==
  /\ AdmittedIn(path, e.category, e.confidence)
  /\ e.line \in 1..Len(RawOf(path)) /\ e.category # MultilineComment => ~Silenced(path, e.line, e.category)
LetThroughInv == \A r \in Range(reported) : IsLetThrough(r.file, r.error)

\* Of the lines that have been read, all that is let through is reported.
IsAnswered(n, t) ==
  OffenceIsReported(n, t) \/ ~Passes(n, Offences[t].category, Offences[t].confidence)
SearchedInv ==
  pc = "lines" /\ IsCalm =>
    \A n \in 1..(linenum - 1), t \in DOMAIN Offences : IsOffence(n, t) => IsAnswered(n, t)

(***************************************************************************)
(* Text.  The lexer of C++: the code of a line, strings emptied, and what  *)
(* is open behind it.  A raw string leaves an empty one on every line.  A  *)
(* quote between the digits of a number separates them and is left out.    *)
(***************************************************************************)
LexToken(acc, line, i) ==
  LET t == line[i]
      d == Closer(acc.mode)
      closed == i - Len(d) >= acc.from /\ SubSeq(line, i - Len(d) + 1, i) = d
      code(new) ==
        [acc EXCEPT !.code = @ \o new,
                    !.number = t = NUM \/ (acc.number /\ t = WORD /\ line[i - 1] = SQ)]
      separator == t = SQ /\ acc.number /\ i < Len(line) /\ line[i + 1] \in {NUM, WORD}
  IN  CASE acc.mode = "code" /\ separator -> acc
        [] acc.mode = "code" /\ t \in {DQ, SQ} /\ ~separator -> [code(<<t, t>>) EXCEPT !.mode = t]
        [] acc.mode = "code" /\ t \in {RAW, RAWX} -> [code(EmptyString) EXCEPT !.mode = t, !.from = i]
        [] acc.mode = "code" /\ t = "//" -> [acc EXCEPT !.mode = "line"]
        [] acc.mode = "code" /\ t = "/*" -> [acc EXCEPT !.mode = "block", !.number = FALSE]
        [] acc.mode = "code" /\ t = "*/" -> [acc EXCEPT !.odd = TRUE]
        [] acc.mode = "code" /\ t \notin {DQ, SQ, RAW, RAWX, "//", "/*", "*/"} -> code(<<t>>)
        [] acc.mode \in {DQ, SQ} /\ t = acc.mode -> [acc EXCEPT !.mode = "code"]
        [] acc.mode \in {DQ, SQ} /\ t \in {RAW, RAWX} -> [acc EXCEPT !.odd = TRUE]
        [] acc.mode \in {RAW, RAWX} /\ closed -> [acc EXCEPT !.mode = "code"]
        [] acc.mode \in {RAW, RAWX} /\ ~closed /\ t = "*/" -> [acc EXCEPT !.odd = TRUE]
        [] acc.mode = "block" /\ t = "*/" -> [acc EXCEPT !.mode = "code"]
        [] acc.mode = "block" /\ t \in {DQ, SQ} -> [acc EXCEPT !.odd = TRUE]
        [] OTHER -> acc

LexLine(acc, line) ==
  LET start == [mode |-> acc.mode, from |-> 0, odd |-> acc.odd, number |-> FALSE,
                code |-> IF acc.mode \in {RAW, RAWX} THEN EmptyString ELSE <<>>]
      r == FoldLeft(LAMBDA a, i : LexToken(a, line, i), start, [i \in DOMAIN line |-> i])
  IN  [mode  |-> IF r.mode \in {"line", DQ, SQ} THEN "code" ELSE r.mode,
       odd   |-> r.odd \/ r.mode \in {DQ, SQ},
       lines |-> Append(acc.lines, r.code)]
Lexed(lines) == FoldLeft(LexLine, [mode |-> "code", odd |-> FALSE, lines |-> <<>>], lines)

\* The text that is checked is the code of the file, or the file is told that a
\* comment or a string is not understood.  What the program cannot know is left
\* out: quotes in comments, ends of comments in strings or code, raw strings in
\* strings.
TextIsReadOrReported ==
  AllRead /\ ~Lexed(File.lines).odd =>
    \/ clean_lines.elided = Lexed(File.lines).lines
    \/ ErrorsOf(MultilineComment) \cup ErrorsOf(MultilineString) # {}

(***************************************************************************)
(* Brackets.                                                               *)
(***************************************************************************)
\* Where an expression ends, the search back from its end finds where it starts.
\* Names of operators, >= behind a template and the second half of << are read
\* differently both ways.
BracketsMatch ==
  AllRead /\ ~Mentions("operator")
      /\ (\A n \in Lines : \A i \in 2..Len(Elided(n)) : ~(Elided(n)[i - 1] = ">" /\ Elided(n)[i] = "=")) =>
    \A n \in Lines : \A i \in DOMAIN Elided(n) :
      LET end == CloseExpression(clean_lines.elided, n, i)
      IN  end[2] # 0 /\ Previous(Elided(n), i) # "<" =>
            ReverseCloseExpression(clean_lines.elided, end[1], end[2] - 1) = <<n, i>>

(***************************************************************************)
(* Blocks.                                                                 *)
(***************************************************************************)
\* The braces that are open behind each token of a line, and behind each line.
OpenBehind(d, t) == IF t = "{" THEN d + 1 ELSE IF t = "}" /\ d > 0 THEN d - 1 ELSE d
BracesAlong(line, d) ==
  LET after[i \in 0..Len(line)] == IF i = 0 THEN d ELSE OpenBehind(after[i - 1], line[i])
  IN  after
OpenBraces(elided) ==
  LET behind[n \in 0..Len(elided)] ==
        IF n = 0 THEN 0 ELSE BracesAlong(elided[n], behind[n - 1])[Len(elided[n])]
  IN  behind

\* Where a token stands: its line and its position.
Places(elided) == UNION {{<<n, i>> : i \in DOMAIN elided[n]} : n \in DOMAIN elided}
TokenAt(elided, p) == elided[p[1]][p[2]]
IsBefore(p, q) == p[1] < q[1] \/ (p[1] = q[1] /\ p[2] < q[2])
Declaring == {"class", "namespace"}
Answering == {"{", ";", ")"}
Separating == {"<", ","}

\* A class or namespace, unless it is an argument of a template.
IsHead(elided, p) ==
  TokenAt(elided, p) \in Declaring /\ (p[2] > 1 => elided[p[1]][p[2] - 1] \notin Separating)

\* No block ends and none is declared while a class or namespace waits for its brace,
HeadsAreComplete(elided) ==
  \A p, q \in Places(elided) :
    IsBefore(p, q) /\ IsHead(elided, p) /\ (IsHead(elided, q) \/ TokenAt(elided, q) = "}") =>
      \E r \in Places(elided) : IsBefore(p, r) /\ IsBefore(r, q) /\ TokenAt(elided, r) \in Answering

\* and none ends on the line of a namespace before the next brace that opens: the loop
\* over namespaces looks for that brace and skips what is before it (cpplint.py:2878).
NoneEndsAhead(elided) ==
  \A n \in DOMAIN elided : \A i, j, k \in DOMAIN elided[n] :
    i < j /\ j < k /\ elided[n][i] = "namespace" /\ elided[n][j] = "}" /\ elided[n][k] = "{" =>
      \E l \in i..j : elided[n][l] = "{"
Conditional == \E n \in Lines : Directive(Elided(n)) # NONE

\* Without conditionals, the blocks on the stack whose brace has been seen are as many as
\* the braces open behind the lines read, where the text is such that every head gets its
\* answer and no brace is skipped (NestingState.Update).
OpenBlocks(stack) == Cardinality({i \in DOMAIN stack : stack[i].open})
OpenBlocksAreBraces ==
  pc = "lines" /\ ~Conditional /\ HeadsAreComplete(clean_lines.elided) /\ NoneEndsAhead(clean_lines.elided) =>
    OpenBlocks(nesting_state.stack) = OpenBraces(clean_lines.elided)[linenum - 1]

\* Why that is so: all blocks but the innermost have their brace, and while that waits
\* for its own, its head is the last that has been read of all that could answer it.
Waits(elided, p, place) ==
  /\ IsHead(elided, p) /\ ~IsBefore(place, p)
  /\ \A r \in Places(elided) :
       IsBefore(p, r) /\ TokenAt(elided, r) \in Answering => IsBefore(place, r)
Follows(elided, stack, depth, place) ==
  /\ IsList(stack)
  /\ \A i \in DOMAIN stack : IsBlock(stack[i]) /\ (stack[i].open \/ i = Len(stack))
  /\ depth = IF SeenOpenBrace(stack) THEN Len(stack) ELSE Len(stack) - 1
  /\ ~SeenOpenBrace(stack) => \E p \in Places(elided) : Waits(elided, p, place)
BlockInv ==
  pc = "lines" /\ ~Conditional /\ HeadsAreComplete(clean_lines.elided) /\ NoneEndsAhead(clean_lines.elided) =>
    Follows(clean_lines.elided, nesting_state.stack, OpenBraces(clean_lines.elided)[linenum - 1],
            <<linenum, 0>>)

\* How many conditionals are open behind line n; whether the i-th of them has had its
\* #else, and whether the line is in such a branch.
Depth(n) == Cardinality({i \in 1..n : Directive(Elided(i)) = "#if"})
              - Cardinality({i \in 1..n : Directive(Elided(i)) = "#endif"})
ElseOf(m, n) == \* line n is an #else of the conditional that is open behind m
  m < n /\ Directive(Elided(n)) = "#else" /\ Depth(n) = Depth(m) /\ \A k \in m..n : Depth(k) >= Depth(m)
HasElse(i, n) ==
  \E m \in 1..n : Directive(Elided(m)) = "#else" /\ Depth(m) = i /\ \A k \in m..n : Depth(k) >= i
InElse(n) == \E i \in 1..Depth(n) : HasElse(i, n)
Balanced ==
  /\ \A n \in Lines : Depth(n) >= IF Directive(Elided(n)) = "#else" THEN 1 ELSE 0
  /\ Lines # {} => Depth(Len(clean_lines.elided)) = 0

\* The blocks behind each line of a text that is read without a look at conditionals.
ReadLine(stack, lines, n) == TakeBraces(TakeHeads(stack, lines, n), lines.raw[n], n).stack
BlocksRead(lines) ==
  LET behind[n \in 0..Len(lines.elided)] == IF n = 0 THEN <<>> ELSE ReadLine(behind[n - 1], lines, n)
  IN  behind
FirstBranches ==
  [raw |-> clean_lines.raw, elided |-> [n \in Lines |-> IF InElse(n) THEN <<>> ELSE Elided(n)]]
Blocks(stack) == [i \in DOMAIN stack |-> [stack[i] EXCEPT !.last = 0]]

\* What is an argument of a template is not for the lines behind an #else to say: the
\* search for the end of the arguments reads on over conditionals (cpplint.py:2705).
ArgumentsStandAlone ==
  \A n \in Lines : ~InElse(n) =>
    \A i \in 1..(Len(Elided(n)) + 1) :
      InTemplateArgumentList(clean_lines.elided, n, i) <=> InTemplateArgumentList(FirstBranches.elided, n, i)

\* The blocks at the end are those of the file without what follows an #else.
ElseLeavesNoTrace ==
  AllRead /\ Balanced /\ ArgumentsStandAlone =>
    Blocks(nesting_state.stack) = Blocks(BlocksRead(FirstBranches)[Len(clean_lines.elided)])

\* Why that is so: outside of such branches the blocks are those of the first branches,
\* and inside, the outermost of the conditionals that has had its #else keeps them.
BranchInv ==
  pc = "lines" /\ Balanced /\ ArgumentsStandAlone =>
    LET open == nesting_state.pp_stack
        n    == linenum - 1
        read == Blocks(BlocksRead(FirstBranches)[n])
    IN  /\ Len(open) = Depth(n)
        /\ \A i \in DOMAIN open : open[i].seen_else <=> HasElse(i, n)
        /\ ~InElse(n) => Blocks(nesting_state.stack) = read
        /\ \A i \in DOMAIN open :
             HasElse(i, n) /\ (\A j \in 1..(i - 1) : ~HasElse(j, n)) =>
               Blocks(CountParentheses(open[i].before_else, <<>>)) = read

(***************************************************************************)
(* Includes.                                                               *)
(***************************************************************************)
Included == {n \in Lines : IsInclude(Elided(n))}
HeaderAt(n) == Headers[Elided(n)[2]]
Flat == Balanced /\ \A n \in Lines : Depth(n) <= 1

Foreign(n) == HeaderAt(n).ext \in GetNonHeaderExtensions /\ HeaderAt(n).dir # File.dir
OwnHeader(n) ==
  LET h == HeaderAt(n)
  IN  /\ h.base = File.base /\ h.suffix = File.suffix /\ h.ext \in GetHeaderExtensions
      /\ IsSuffix(h.dir, File.dir) \/ IsSuffix(File.dir, h.dir)
Recorded(n) == ~Foreign(n) /\ (HeaderAt(n).third => OwnHeader(n))

\* Unless conditionals are nested, in a file without assembly and with no name given
\* twice, a header is found to be included already exactly when it stands before, in
\* no branch that an #else has ended.  Headers of third parties may come twice, but
\* for that of the file; sources of other directories may not come at all.
DuplicatesAreReal ==
  AllRead /\ IsCalm /\ Once /\ Flat =>
    ErrorsOf(BuildInclude) =
      {n \in Included :
         /\ Passes(n, BuildInclude, 4)
         /\ \/ Foreign(n)
            \/ \E m \in Included : /\ Recorded(m) /\ m < n /\ HeaderAt(m).path = HeaderAt(n).path
                                   /\ ~\E e \in m..n : ElseOf(m, e)}

\* Why that is so: an #else ends the branch of the last #if before it, which is that of
\* line m unless another comes in between.
IfBetween(m, n) == \E k \in (m + 1)..(n - 1) : Directive(Elided(k)) = "#if"
Ended(m, n) == \E e \in (m + 1)..(n - 1) : Directive(Elided(e)) = "#else" /\ ~IfBetween(m, e)
Heard(n) == {m \in Included : m < n /\ Recorded(m) /\ ~Ended(m, n)}
IsAgain(n) == \E m \in Heard(n) : HeaderAt(m).path = HeaderAt(n).path
Counts(n) == Recorded(n) /\ ~IsAgain(n)

\* What the sections of the program mean: a header of its own at the start, then
\* C, C++ and all others; in a file without assembly and with no name given twice, a
\* system header is out of order exactly when it stands behind one of a later section,
\* with no directive in between.
Stretch(n) ==
  {m \in Included : m < n /\ Counts(m) /\ ~\E k \in m..(n - 1) : Directive(Elided(k)) # NONE}
OfSystem(n) == HeaderAt(n).system /\ HeaderAt(n).ext \notin {"hpp", "hxx", "h++"}
SectionOf(n) ==
  LET mine(m) == ~OfSystem(m) /\ HeaderAt(m).base = File.base
  IN  CASE OfSystem(n) /\ ~HeaderAt(n).cpp -> C_SYS
        [] OfSystem(n) /\ HeaderAt(n).cpp -> CPP_SYS
        [] \A m \in Stretch(n) \cup {n} : mine(m) -> MY_H
        [] OTHER -> OTHER_H
IsLate(n) == OfSystem(n) /\ \E m \in Stretch(n) : SectionOf(m) > SectionOf(n)
SystemHeadersComeFirst ==
  AllRead /\ IsCalm /\ Once =>
    ErrorsOf(IncludeOrder) = {n \in Included : Counts(n) /\ IsLate(n) /\ Passes(n, IncludeOrder, 4)}

PathsIn(lists) == {h[1] : h \in UNION {Range(lists[i]) : i \in DOMAIN lists}}
PathsOf(S) == {HeaderAt(m).path : m \in S}
IsIncludeState(s, n) ==
  /\ s = [include_list |-> s.include_list, section |-> s.section, last_header |-> s.last_header]
  /\ IsList(s.include_list) /\ s.include_list # <<>>
  /\ \A i \in DOMAIN s.include_list : IsList(s.include_list[i])
  /\ PathsIn(s.include_list) = PathsOf(Heard(n))
  /\ PathsIn(Front(s.include_list)) = PathsOf({m \in Heard(n) : IfBetween(m, n)})
  /\ s.section \in Nat /\ \A m \in Stretch(n) : SectionOf(m) <= s.section
  /\ s.section = INITIAL \/ \E m \in Stretch(n) : SectionOf(m) = s.section
IncludeInv ==
  pc = "lines" /\ IsCalm =>
    /\ IsIncludeState(include_state, linenum)
    /\ Once =>
         /\ ErrorsOf(BuildInclude) = {n \in Included : n < linenum /\ (Foreign(n) \/ IsAgain(n))
                                                         /\ Passes(n, BuildInclude, 4)}
         /\ ErrorsOf(IncludeOrder) = {n \in Included : n < linenum /\ Counts(n) /\ IsLate(n)
                                                         /\ Passes(n, IncludeOrder, 4)}

(***************************************************************************)
(* Functions.                                                              *)
(***************************************************************************)
LineOf(n) == clean_lines.lines[n]
Tells(n)  == \E u \in {";", "{", "}"} : Has(LineOf(n), u)
Heads(n)  == StartsFunction(LineOf(n)) /\ n \notin File.indented
Ends(n)   == LineOf(n) = <<"}">> /\ n \notin File.indented
IsTest(n) == \E i \in DOMAIN LineOf(n) :
  i > 1 /\ LineOf(n)[i] = "(" /\ LineOf(n)[i - 1] = "TEST" /\ \A j \in 1..(i - 1) : LineOf(n)[j] # "("

\* A head whose body begins, and one of which nothing tells whether it has one.
Begins(n) == Heads(n) /\ \E t \in n..Len(clean_lines.lines) :
  /\ Tells(t) /\ ~Has(LineOf(t), ";") /\ ~Has(LineOf(t), "}")
  /\ \A k \in n..(t - 1) : ~Tells(k)
IsUnfinished(n) == Heads(n) /\ \A k \in n..Len(clean_lines.lines) : ~Tells(k)

\* The function that is open before line e began at line s; its lines, blank lines,
\* comments and the heads of calls not counted.
IsOpenFrom(s, e) == s < e /\ Begins(s) /\ \A k \in (s + 1)..(e - 1) : ~Ends(k) /\ ~Begins(k)
Body(s, e) == {k \in (s + 1)..(e - 1) : LineOf(k) # <<>> /\ ~Heads(k)}
Trigger(s) == IF IsTest(s) THEN TestTrigger ELSE NormalTrigger
IsTooLong(e) ==
  Ends(e) /\ \E s \in Lines :
    IsOpenFrom(s, e) /\ Cardinality(Body(s, e)) > Trigger(s) * 2^job.args.verbose

\* The confidence of an error is how often the limit can be doubled and is still
\* reached, up to 5; that of a head without a body is 5.
IsLevel(level, lines, base) ==
  /\ level \in 0..5
  /\ level > 0 => base * 2^level <= lines
  /\ level < 5 => lines < base * 2^(level + 1)
HasItsConfidence(e) ==
  \/ IsUnfinished(e.line) /\ e.confidence = 5
  \/ Ends(e.line) /\ \E s \in Lines :
       IsOpenFrom(s, e.line) /\ IsLevel(e.confidence, Cardinality(Body(s, e.line)), Trigger(s))
LengthsAreGraded ==
  \A r \in Range(reported) :
    r.file = Head(todo) /\ r.error.category = FnSize => HasItsConfidence(r.error)

\* In a file without assembly and with no name given twice, a function is reported at
\* its end exactly when more lines than the verbosity allows stand between that line
\* and its head, and a head at once when nothing tells whether it has a body, each
\* with the confidence it should have.
LongFunctionsAreFound ==
  AllRead /\ IsCalm /\ Once =>
    /\ ErrorsOf(FnSize) = {n \in Lines : (IsTooLong(n) \/ IsUnfinished(n)) /\ Passes(n, FnSize, 5)}
    /\ LengthsAreGraded

\* Why that is so: what is known of the function that is open before a line.
IsFunctionState(f, n) ==
  /\ f = [in_a_function |-> f.in_a_function, lines_in_function |-> f.lines_in_function, test |-> f.test]
  /\ f.lines_in_function \in Nat
  /\ f.in_a_function <=> \E s \in Lines : IsOpenFrom(s, n)
  /\ \A s \in Lines : IsOpenFrom(s, n) =>
       f.lines_in_function = Cardinality(Body(s, n)) /\ (f.test <=> IsTest(s))
FunctionInv ==
  pc = "lines" /\ IsCalm =>
    /\ IsFunctionState(function_state, linenum)
    /\ Once => /\ ErrorsOf(FnSize) = {n \in Lines : n < linenum /\ (IsTooLong(n) \/ IsUnfinished(n))
                                                      /\ Passes(n, FnSize, 5)}
               /\ LengthsAreGraded

Inv == /\ WellTyped(job) /\ ConfigInv /\ ReportInv /\ LineInv /\ StatusTellsReport
       /\ SignInv /\ NolintInv /\ LetThroughInv /\ SearchedInv /\ BlockInv
       /\ OnceInv /\ IncludeInv /\ FunctionInv /\ BranchInv
=============================================================================

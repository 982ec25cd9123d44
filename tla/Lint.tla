-------------------------------- MODULE Lint --------------------------------
(***************************************************************************)
(* A run of cpplint.py: the command line, and for every file the           *)
(* CPPLINT.cfg files above it, the lines of the file one by one, and what  *)
(* is reported.  A job is what the program finds: its arguments, the files *)
(* by their path [dir, base], and the configuration of every directory.    *)
(* The comment lines that the program puts around a file are left out;     *)
(* line numbers start at one.                                              *)
(***************************************************************************)
EXTENDS LintIncludes, Functions

CONSTANTS
  IsJob(_),         \* IsJob(j): j is a run the environment may start
  Offences,         \* [token |-> category and confidence] of the checks of one line
  NormalTrigger,    \* lines a function may have at verbosity 0: 250
  TestTrigger       \* the same for a test: 400

ASSUME TriggersAssumption == NormalTrigger \in Nat \ {0} /\ TestTrigger \in Nat \ {0}

VARIABLES
  job,
  pc,
  \* module-wide state: settings, filters and counts
  settings, filters, filters_backup, errors_by_category, error_count,
  todo,               \* the files that are still to be linted
  \* one file: the search for its configuration
  at, cfg_filters,
  \* one file: its lines and what is known at the line linenum
  clean_lines, linenum, nesting_state, include_state, function_state, suppressions,
  reported,           \* the errors that were printed
  status              \* the exit status

config == <<settings, filters, filters_backup>>
counts == <<errors_by_category, error_count, reported>>
search == <<at, cfg_filters>>
text   == <<clean_lines, linenum, nesting_state, include_state, function_state, suppressions>>
vars   == <<job, pc, config, counts, todo, search, text, status>>

(***************************************************************************)
(* What a job consists of.  A filter is a sign and what a category starts  *)
(* with; a file is named by its directory and its base.                    *)
(***************************************************************************)
Paths       == [dir : Seq(STRING), base : STRING]
FilterLists == Seq(STRING \X Seq(STRING))
Settings    == [line_length : Nat, valid_extensions : SUBSET STRING, hpp_headers : SUBSET STRING]
Arguments   == [names : Seq(Paths), verbose : Nat, filters : FilterLists,
                counting : {"total", "toplevel", "detailed"}, settings : Settings,
                excludes : SUBSET Paths, recursive : BOOLEAN]
Files       == [dir : Seq(STRING), base : STRING, suffix : STRING, ext : STRING, readable : BOOLEAN,
                lines : Seq(Seq(STRING)), indented : SUBSET Nat, crlf : SUBSET Nat]
OptionNames == {"noparent", "filter", "exclude_files", "linelength", "extensions", "headers"}
ConfigLines == [name : OptionNames, filters : FilterLists, length : Nat, names : SUBSET STRING]
ConfigFiles == [readable : BOOLEAN, options : Seq(ConfigLines)]

\* Without --recursive a directory is opened like any file, under its name in the
\* directory above it: only --recursive gives names without a base.  (The root, which
\* has no name, is given with --recursive or not at all.)
WellTyped(j) ==
  /\ j.args \in Arguments
  /\ \A i \in DOMAIN j.args.names : j.args.recursive \/ j.args.names[i].base # ""
  /\ IsFiniteSet(DOMAIN j.disk)
  /\ \A p \in DOMAIN j.disk : /\ p \in Paths /\ j.disk[p] \in Files
                            /\ j.disk[p].crlf \subseteq DOMAIN j.disk[p].lines
  /\ \A d \in DOMAIN j.configs : j.configs[d] \in ConfigFiles

Casting   == <<"readability", "casting">>
Tab       == <<"whitespace", "tab">>
Newline   == <<"whitespace", "newline">>
Copyright == <<"legal", "copyright">>
FnSize    == <<"readability", "fn_size">>
Nolint    == <<"readability", "nolint">>
MultilineComment == <<"readability", "multiline_comment">>
MultilineString  == <<"readability", "multiline_string">>

\* Comments of several lines, the length of functions, duplicates and the order of
\* includes are looked for apart.
ASSUME OffencesAssumption ==
  \A t \in DOMAIN Offences :
    Offences[t].category \notin {MultilineComment, FnSize, BuildInclude, IncludeOrder}

(***************************************************************************)
(* Extensions.  An empty set is an option that was not given.              *)
(***************************************************************************)
HeaderDefaults == {"h", "hh", "hpp", "hxx", "h++", "cuh"}
SourceDefaults == {"c", "cc", "cpp", "cxx", "c++", "cu"}

GetHeaderExtensions ==
  CASE settings.hpp_headers # {} -> settings.hpp_headers
    [] settings.hpp_headers = {} /\ settings.valid_extensions # {} ->
         settings.valid_extensions \cap HeaderDefaults
    [] OTHER -> HeaderDefaults

GetAllExtensions ==
  GetHeaderExtensions
    \cup (IF settings.valid_extensions = {} THEN SourceDefaults ELSE settings.valid_extensions)
GetNonHeaderExtensions == GetAllExtensions \ GetHeaderExtensions

(***************************************************************************)
(* Filters: the last one that matches the category decides.                *)
(***************************************************************************)
DefaultFilters == << <<"-", IncludeAlpha>> >>
WellFormed(fs) == \A i \in DOMAIN fs : fs[i][1] \in {"+", "-"}

IsFiltered(fs, category) ==
  LET k == SelectLastInSeq(fs, LAMBDA f : IsPrefix(f[2], category))
  IN  k # 0 /\ fs[k][1] = "-"

(***************************************************************************)
(* NOLINT: pairs of a category, or ALL, and a line; global suppressions    *)
(* are for the line 0.                                                     *)
(***************************************************************************)
ALL == <<>>
Categories == [casting |-> Casting, include |-> BuildInclude]
Legacy == {"streams"}

\* The first NOLINT of the line: its line and the name in its parentheses.
NolintOf(raw, n) ==
  LET i == Find(raw, {"NOLINT", "NOLINTNEXTLINE"})
      named == i + 3 <= Len(raw) /\ raw[i + 1] = "(" /\ raw[i + 3] = ")"
  IN  IF i = 0 THEN {}
      ELSE {[line |-> IF raw[i] = "NOLINT" THEN n ELSE n + 1,
             name |-> IF named THEN raw[i + 2] ELSE "*"]}

ParseNolintSuppressions(raw, n) ==
  {<<IF s.name = "*" THEN ALL ELSE Categories[s.name], s.line>> :
     s \in {t \in NolintOf(raw, n) : t.name \in DOMAIN Categories \cup {"*"}}}

UnknownNolint(raw, n) ==
  IF \E s \in NolintOf(raw, n) : s.name \notin DOMAIN Categories \cup Legacy \cup {"*"}
  THEN <<Err(n, Nolint, 5)>> ELSE <<>>

ProcessGlobalSuppresions(lines) ==
  {<<Casting, 0>> : i \in {j \in DOMAIN lines : Has(lines[j], "LINT_C_FILE")}}
    \cup {<<Tab, 0>> : i \in {j \in DOMAIN lines : Has(lines[j], "LINT_KERNEL_FILE")}}

IsErrorSuppressedByNolint(sup, category, n) == {<<category, 0>>, <<category, n>>, <<ALL, n>>} \cap sup # {}

(***************************************************************************)
(* What is printed, and the counts by category.                            *)
(***************************************************************************)
_ShouldPrintError(e, sup) ==
  /\ ~IsErrorSuppressedByNolint(sup, e.category, e.line)
  /\ e.confidence >= job.args.verbose
  /\ ~IsFiltered(filters, e.category)

Counted(category) == IF job.args.counting = "toplevel" THEN <<Head(category)>> ELSE category

\* Mutant: a category that is met again starts from one.
CountsAnew(bag, category) == [c \in DOMAIN bag \cup {category} |-> IF c = category THEN 1 ELSE bag[c]]

IncrementErrorCount(bag, category) ==
  [c \in DOMAIN bag \cup {category} |->
     (IF c \in DOMAIN bag THEN bag[c] ELSE 0) + (IF c = category THEN 1 ELSE 0)]

Printed(acc, e) ==
  [reported |-> Append(acc.reported, [file |-> Head(todo), error |-> e]),
   count    |-> acc.count + 1,
   bag      |-> IF job.args.counting = "total" THEN acc.bag
                ELSE IncrementErrorCount(acc.bag, Counted(e.category))]

\* A sequence of errors of the file at the head of todo.
Error(errors, sup) ==
  LET next(acc, i) == IF _ShouldPrintError(errors[i], sup) THEN Printed(acc, errors[i]) ELSE acc
      all == Loop(next, Len(errors),
                  [reported |-> reported, count |-> error_count, bag |-> errors_by_category])
  IN  reported' = all.reported /\ error_count' = all.count /\ errors_by_category' = all.bag

(***************************************************************************)
(* The length of functions.                                                *)
(***************************************************************************)
_FunctionState == [in_a_function |-> FALSE, lines_in_function |-> 0, test |-> FALSE]

StartsFunction(line) ==
  LET k == Find(line, {"("})
  IN  k > 1 /\ (\A i \in 1..(k - 1) : IsWord(line[i])) /\ line[k - 1] # "MACRO"

\* The first line that tells whether there is a body, 0 if none does.
Telling(lines, n) == SelectInSubSeq(lines, n, Len(lines),
                                    LAMBDA l : \E i \in DOMAIN l : l[i] \in {";", "}", "{"})
Begin(line) ==
  [in_a_function |-> TRUE, lines_in_function |-> 0, test |-> line[Find(line, {"("}) - 1] = "TEST"]

\* Mutant: a function is too long one line later.
OneMoreLine(f, n) ==
  LET base  == IF f.test THEN TestTrigger ELSE NormalTrigger
      level == Max({k \in 0..5 : k = 0 \/ base * 2^k <= f.lines_in_function})
  IN  IF f.in_a_function /\ f.lines_in_function > base * 2^job.args.verbose + 1
      THEN <<Err(n, FnSize, level)>> ELSE <<>>

CheckLength(f, n) ==
  LET base  == IF f.test THEN TestTrigger ELSE NormalTrigger
      level == Max({k \in 0..5 : k = 0 \/ base * 2^k <= f.lines_in_function})
  IN  IF f.in_a_function /\ f.lines_in_function > base * 2^job.args.verbose
      THEN <<Err(n, FnSize, level)>> ELSE <<>>

CheckForFunctionLengths(f, lines, n, indented) ==
  LET line == lines[n]
      t    == Telling(lines, n)
      head == StartsFunction(line) /\ n \notin indented
      body == t # 0 /\ ~Has(lines[t], ";") /\ ~Has(lines[t], "}")
  IN  CASE head /\ t = 0 -> [state |-> f, errors |-> <<Err(n, FnSize, 5)>>]
        [] head /\ body -> [state |-> Begin(line), errors |-> <<>>]
        [] ~head /\ line = <<"}">> /\ n \notin indented ->
             [state |-> [f EXCEPT !.in_a_function = FALSE], errors |-> CheckLength(f, n)]
        [] ~head /\ ~IsBlankLine(line) /\ (line # <<"}">> \/ n \in indented) ->
             [state |-> [f EXCEPT !.lines_in_function = @ + (IF f.in_a_function THEN 1 ELSE 0)],
              errors |-> <<>>]
        [] OTHER -> [state |-> f, errors |-> <<>>]

(***************************************************************************)
(* Checks of one line, of the file as it stands on the disk.               *)
(***************************************************************************)
File == job.disk[Head(todo)]

CheckForMultilineCommentsAndStrings(line, n) ==
  (IF Count(line, "/*") > Count(line, "*/") THEN <<Err(n, MultilineComment, 5)>> ELSE <<>>)
    \o (IF Count(line, DQ) % 2 = 1 THEN <<Err(n, MultilineString, 5)>> ELSE <<>>)

CheckForCopyright(lines) ==
  IF \E i \in 1..Min({Len(lines), 10}) : Has(lines[i], "Copyright")
  THEN <<>> ELSE <<Err(0, Copyright, 5)>>

OffencesIn(line, n) ==
  LET found == SetToSeq(Range(line) \cap DOMAIN Offences)
  IN  [i \in DOMAIN found |-> Err(n, Offences[found[i]].category, Offences[found[i]].confidence)]

CheckStyle(s, lines, n) ==
  LET k == Innermost(s.stack)
  IN  IF k = 0 THEN <<>> ELSE CheckSectionSpacing(s.stack[k], lines, n)

\* Includes are checked apart; a directive starts a new section of includes.
CheckLanguage(inc, lines, n) ==
  LET line == lines.elided[n]
  IN  IF IsInclude(line)
      THEN CheckIncludeLine(inc, File, lines.elided, n, GetHeaderExtensions, GetNonHeaderExtensions)
      ELSE [state |-> IF Directive(line) = NONE THEN inc ELSE ResetSection(inc, Directive(line)),
            errors |-> OffencesIn(line, n)]

(***************************************************************************)
(* The command line.  With --recursive the files of a directory come in    *)
(* any order.                                                              *)
(***************************************************************************)
Default == [line_length |-> 80, valid_extensions |-> {}, hpp_headers |-> {}]

Init ==
  /\ IsJob(job) /\ WellTyped(job)
  /\ pc = "arguments"
  /\ settings = Default /\ filters = DefaultFilters /\ filters_backup = DefaultFilters
  /\ errors_by_category = <<>> /\ error_count = 0 /\ reported = <<>>
  /\ todo = <<>>
  /\ at = [dir |-> <<>>, base |-> ""] /\ cfg_filters = <<>>
  /\ clean_lines = CleansedLines(<<>>) /\ linenum = 0
  /\ nesting_state = NestingState /\ include_state = _IncludeState
  /\ function_state = _FunctionState /\ suppressions = {}
  /\ status = 0

\* The files an argument stands for; one that is no directory stands for itself.
Under(path) ==
  IF path.base # "" THEN {path} ELSE {p \in DOMAIN job.disk : IsPrefix(path.dir, p.dir)}
Extension(p) == IF p \in DOMAIN job.disk THEN job.disk[p].ext ELSE "cc"

_ExpandDirectories(names) ==
  {p \in UNION {Under(names[i]) : i \in DOMAIN names} : Extension(p) \in GetAllExtensions'}
_FilterExcludedFiles(names) ==
  LET next(kept, i) == IF names[i] \in job.args.excludes THEN kept ELSE Append(kept, names[i])
  IN  Loop(next, Len(names), <<>>)

\* What an exception or sys.exit with a message ends with.
Die == pc' = "exit" /\ status' = 1

ParseArguments ==
  /\ pc = "arguments" /\ job.args.names # <<>> /\ WellFormed(job.args.filters)
  /\ settings' = job.args.settings
  /\ \E names \in IF job.args.recursive THEN SetToSeqs(_ExpandDirectories(job.args.names))
                  ELSE {job.args.names} :
       todo' = _FilterExcludedFiles(names)
  /\ filters' = DefaultFilters \o job.args.filters
  /\ pc' = "next"
  /\ UNCHANGED <<job, filters_backup, counts, search, text, status>>

\* No file is named, or a filter without a sign.
BadArguments ==
  /\ pc = "arguments" /\ (job.args.names = <<>> \/ ~WellFormed(job.args.filters))
  /\ Die
  /\ UNCHANGED <<job, config, counts, todo, search, text>>

(***************************************************************************)
(* The configuration of a file: up the directories, until one says set     *)
(* noparent.  The settings are module-wide and are never set back.         *)
(***************************************************************************)
BackupFilters ==
  /\ pc = "next" /\ todo # <<>>
  /\ filters_backup' = filters
  /\ at' = Head(todo) /\ cfg_filters' = <<>>
  /\ pc' = "config"
  /\ UNCHANGED <<job, settings, filters, counts, todo, text, status>>

\* One line of a CPPLINT.cfg; base is the part of the path below it.
TakeOption(acc, o, base) ==
  CASE acc.excluded -> acc
    [] ~acc.excluded /\ o.name = "noparent" -> [acc EXCEPT !.keep_looking = FALSE]
    [] ~acc.excluded /\ o.name = "filter" -> [acc EXCEPT !.filters = Append(@, o.filters)]
    [] ~acc.excluded /\ o.name = "exclude_files" -> [acc EXCEPT !.excluded = base \in o.names]
    [] ~acc.excluded /\ o.name = "linelength" -> [acc EXCEPT !.settings.line_length = o.length]
    [] ~acc.excluded /\ o.name = "extensions" -> [acc EXCEPT !.settings.valid_extensions = o.names]
    [] ~acc.excluded /\ o.name = "headers" -> [acc EXCEPT !.settings.hpp_headers = o.names]

Looking == [keep_looking |-> TRUE, excluded |-> FALSE, filters |-> <<>>, settings |-> Default]

\* A file that cannot be opened ends the search; a directory without one does not.
ReadConfig(dir, base) ==
  LET acc == [Looking EXCEPT !.filters = cfg_filters, !.settings = settings]
  IN  IF dir \notin DOMAIN job.configs THEN acc
      ELSE IF ~job.configs[dir].readable THEN [acc EXCEPT !.keep_looking = FALSE]
      ELSE Loop(LAMBDA a, i : TakeOption(a, job.configs[dir].options[i], base),
                Len(job.configs[dir].options), acc)

ProcessConfigOverrides ==
  /\ pc = "config"
  /\ LET r == ReadConfig(at.dir, at.base)
     IN  /\ settings' = r.settings /\ cfg_filters' = r.filters
         /\ IF r.excluded THEN pc' = "restore" /\ UNCHANGED at
            ELSE IF r.keep_looking /\ at.dir # <<>>
              THEN at' = [dir |-> Front(at.dir), base |-> Last(at.dir)] /\ UNCHANGED pc
            ELSE pc' = "filters" /\ UNCHANGED at
  /\ UNCHANGED <<job, filters, filters_backup, counts, todo, text, status>>

\* Lists of filters as one, the last list first.
LastFirst(lists) == Loop(LAMBDA acc, i : lists[i] \o acc, Len(lists), <<>>)

\* Mutant: the filters are added in the order they were found.
AddInOrder ==
  /\ pc = "filters" /\ \A i \in DOMAIN cfg_filters : WellFormed(cfg_filters[i])
  /\ filters' = filters \o FlattenSeq(cfg_filters)
  /\ pc' = "open"
  /\ UNCHANGED <<job, settings, filters_backup, counts, todo, search, text, status>>

\* The outermost filters come first.
AddFilters ==
  /\ pc = "filters" /\ \A i \in DOMAIN cfg_filters : WellFormed(cfg_filters[i])
  /\ filters' = filters \o LastFirst(cfg_filters)
  /\ pc' = "open"
  /\ UNCHANGED <<job, settings, filters_backup, counts, todo, search, text, status>>

BadFilter ==
  /\ pc = "filters" /\ ~\A i \in DOMAIN cfg_filters : WellFormed(cfg_filters[i])
  /\ Die
  /\ UNCHANGED <<job, config, counts, todo, search, text>>

(***************************************************************************)
(* One file.                                                               *)
(***************************************************************************)
Readable == Head(todo) \in DOMAIN job.disk /\ File.readable

\* Mutant: the filters of a file that cannot be read stay.
SkipKeepsFilters ==
  /\ pc = "open" /\ ~Readable
  /\ pc' = "next" /\ todo' = Tail(todo)
  /\ UNCHANGED <<job, config, counts, search, text, status>>

SkipInput ==
  /\ pc = "open" /\ ~Readable
  /\ pc' = "restore"
  /\ UNCHANGED <<job, config, counts, todo, search, text, status>>

IgnoreFile ==
  /\ pc = "open" /\ Readable /\ File.ext \notin GetAllExtensions
  /\ pc' = "restore"
  /\ UNCHANGED <<job, config, counts, todo, search, text, status>>

\* Mutant: the suppressions of the last file stay.
KeepsSuppressions ==
  /\ pc = "open" /\ Readable /\ File.ext \in GetAllExtensions
  /\ LET removed == RemoveMultiLineComments(File.lines)
         sup     == suppressions \cup ProcessGlobalSuppresions(File.lines)
     IN  /\ suppressions' = sup
         /\ Error(CheckForCopyright(File.lines), sup)
         /\ clean_lines' = CleansedLines(removed.lines)
  /\ linenum' = 1
  /\ nesting_state' = NestingState /\ include_state' = _IncludeState
  /\ function_state' = _FunctionState
  /\ pc' = "lines"
  /\ UNCHANGED <<job, config, todo, search, status>>

\* A comment without an end is reported one line late: the line in front of the
\* file is counted twice.
ProcessFileData ==
  /\ pc = "open" /\ Readable /\ File.ext \in GetAllExtensions
  /\ LET removed == RemoveMultiLineComments(File.lines)
         sup     == ProcessGlobalSuppresions(File.lines)
     IN  /\ suppressions' = sup
         /\ Error(CheckForCopyright(File.lines)
                    \o (IF removed.unclosed = 0 THEN <<>>
                        ELSE <<Err(removed.unclosed + 1, MultilineComment, 5)>>), sup)
         /\ clean_lines' = CleansedLines(removed.lines)
  /\ linenum' = 1
  /\ nesting_state' = NestingState /\ include_state' = _IncludeState
  /\ function_state' = _FunctionState
  /\ pc' = "lines"
  /\ UNCHANGED <<job, config, todo, search, status>>

\* What a line adds: nesting, length and language are the state and the errors of
\* three checks.  Inside assembly nothing else is checked.
CheckedLine(raw, sup, nesting, length, language) ==
  LET s   == nesting.nesting
      asm == InAsmBlock(s.stack)
      before == UnknownNolint(raw, linenum) \o nesting.errors
                  \o CheckForNamespaceIndentation(s, clean_lines.elided, linenum, File.indented)
      after  == length.errors
                  \o CheckForMultilineCommentsAndStrings(clean_lines.elided[linenum], linenum)
                  \o CheckStyle(s, clean_lines, linenum) \o language.errors
  IN  /\ suppressions' = sup
      /\ nesting_state' = s
      /\ function_state' = IF asm THEN function_state ELSE length.state
      /\ include_state' = IF asm THEN include_state ELSE language.state
      /\ Error(before \o (IF asm THEN <<>> ELSE after), sup)

ProcessLine ==
  /\ pc = "lines" /\ linenum <= Len(clean_lines.raw)
  /\ LET raw == clean_lines.raw[linenum]
     IN  CheckedLine(raw, suppressions \cup ParseNolintSuppressions(raw, linenum),
           Update(nesting_state, clean_lines, linenum),
           CheckForFunctionLengths(function_state, clean_lines.lines, linenum, File.indented),
           CheckLanguage(include_state, clean_lines, linenum))
  /\ linenum' = linenum + 1
  /\ UNCHANGED <<job, pc, config, todo, search, clean_lines, status>>

\* Ends of line of two kinds: those with a carriage return are reported.
MixedEndings ==
  LET next(errors, i) == IF i \in File.crlf THEN Append(errors, Err(i, Newline, 1)) ELSE errors
  IN  IF File.crlf = DOMAIN File.lines THEN <<>> ELSE Loop(next, Len(File.lines), <<>>)

\* The end of the lines: blocks that are open, and ends of line.
EndOfFile ==
  /\ pc = "lines" /\ linenum > Len(clean_lines.raw)
  /\ Error(CheckCompletedBlocks(nesting_state.stack) \o MixedEndings, suppressions)
  /\ pc' = "restore"
  /\ UNCHANGED <<job, config, todo, search, text, status>>

RestoreFilters ==
  /\ pc = "restore"
  /\ filters' = filters_backup
  /\ todo' = Tail(todo)
  /\ pc' = "next"
  /\ UNCHANGED <<job, settings, filters_backup, counts, search, text, status>>

Finish ==
  /\ pc = "next" /\ todo = <<>>
  /\ status' = IF error_count > 0 THEN 1 ELSE 0
  /\ pc' = "exit"
  /\ UNCHANGED <<job, config, counts, todo, search, text>>

Exited == pc = "exit" /\ UNCHANGED vars

Next ==
  \/ ParseArguments \/ BadArguments
  \/ BackupFilters \/ ProcessConfigOverrides \/ AddFilters \/ BadFilter
  \/ SkipInput \/ IgnoreFile \/ ProcessFileData \/ ProcessLine \/ EndOfFile \/ RestoreFilters
  \/ Finish \/ Exited

Spec == Init /\ [][Next]_vars
=============================================================================

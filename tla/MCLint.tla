------------------------------- MODULE MCLint -------------------------------
(* What a run finds: families of jobs, each for one part of the program. *)
EXTENDS LintProperties

SeqsUpTo(S, n) == UNION {[1..k -> S] : k \in 0..n}
Path(dir, base) == [dir |-> dir, base |-> base]

MCOffences == [cast |-> [category |-> Casting, confidence |-> 4],
               array |-> [category |-> <<"runtime", "arrays">>, confidence |-> 1]]

Header(path, dir, base, ext, system, cpp, third, rank) ==
  [path |-> path, dir |-> dir, base |-> base, suffix |-> NONE, ext |-> ext, system |-> system,
   cpp |-> cpp, third |-> third, rank |-> rank]
MCHeaders ==
  ("<stdio.h>" :> Header("stdio.h", <<>>, "stdio", "h", TRUE, FALSE, FALSE, 6)
    @@ "<time.h>" :> Header("time.h", <<>>, "time", "h", TRUE, FALSE, FALSE, 8)
    @@ "<map>" :> Header("map", <<>>, "map", NONE, TRUE, TRUE, FALSE, 5)
    @@ "p/a.h" :> Header("p/a.h", <<"p">>, "a", "h", FALSE, FALSE, FALSE, 3)
    @@ "q/a.h" :> Header("q/a.h", <<"q">>, "a", "h", FALSE, FALSE, FALSE, 4)
    @@ "b.h"   :> Header("b.h", <<>>, "b", "h", FALSE, FALSE, FALSE, 1)
    @@ "Qt.h"  :> Header("Qt.h", <<>>, "Qt", "h", FALSE, FALSE, TRUE, 2)
    @@ "q/c.cc" :> Header("q/c.cc", <<"q">>, "c", "cc", FALSE, FALSE, FALSE, 7))

File1(dir, ext, lines) ==
  [dir |-> dir, base |-> "a", suffix |-> NONE, ext |-> ext, readable |-> TRUE, lines |-> lines,
   indented |-> {}, crlf |-> {}]
Args(names) ==
  [names |-> names, verbose |-> 1, filters |-> <<>>, counting |-> "total", settings |-> Default,
   excludes |-> {}, recursive |-> FALSE]

(***************************************************************************)
(* One file in directory p, no configuration.                              *)
(***************************************************************************)
FileA == Path(<<"p">>, "a.cc")
Single(lines) == [args |-> Args(<<FileA>>), disk |-> FileA :> File1(<<"p">>, "cc", lines), configs |-> <<>>]

\* Strings, comments and raw strings, in one line or two, and numbers with separators.
TextTokens == {DQ, SQ, RAW, ")", "//", "/*", "*/", WORD}
NumberTokens == {NUM, SQ, WORD, "//"}
TextJob(j) ==
  \/ \E l \in SeqsUpTo(TextTokens, 4) \cup SeqsUpTo(NumberTokens, 5) : j = Single(<<l>>)
  \/ \E l, k \in SeqsUpTo(TextTokens \ {SQ}, 2) : j = Single(<<l, k>>)

\* Brackets, in one line or two.
BracketTokens == {"(", ")", "{", "}", "<", ">", ";"}
BracketJob(j) ==
  \/ \E l \in SeqsUpTo(BracketTokens, 4) \cup SeqsUpTo({"<", ">", "-", "=", "operator", "["}, 3) :
       j = Single(<<l>>)
  \/ \E l, k \in SeqsUpTo(BracketTokens, 2) : j = Single(<<l, k>>)

\* Blocks in three lines, blocks with conditionals in four, conditionals in five.
Directives == {<<"#if">>, <<"#else">>, <<"#endif">>}
Marks      == Directives \cup {<<"{">>, <<"}">>}
HeadLines  == {<<"namespace", "A", "{">>, <<"class", "A">>}
BlockLines == Marks \cup HeadLines
                \cup {<<"namespace", "A", "{", "class", "A", "<">>, <<"class", "A", ";">>,
                      <<"namespace", "A", "{", "namespace", "B", ";", "}", "namespace", "C", "{">>,
                      <<"F", "(", "class", "A", ")", "{">>, <<"extern", DQ, DQ, "{">>, <<"asm", "(">>,
                      <<"public", ":">>, <<"}", "//", "namespace">>}
BlockJob(j) ==
  \E f \in [1..3 -> BlockLines] \cup [1..4 -> Marks \cup HeadLines] \cup [1..5 -> Marks] : j = Single(f)

\* Includes in three lines, with conditionals in four and five.
AnInclude(h) == <<"#include", h>>
IncludeJob(j) ==
  \E f \in [1..3 -> {AnInclude(h) : h \in DOMAIN MCHeaders}]
             \cup [1..4 -> Directives \cup {AnInclude(h) : h \in {"<stdio.h>", "<map>", "p/a.h"}}]
             \cup [1..5 -> Directives \cup {AnInclude("p/a.h")}] :
    j = Single(f)

\* Functions of up to three lines at verbosity 0, and of up to six, blank lines among
\* them, at verbosities where they are long and where they are not.
FunctionLines == {<<"F", "(", ")", "{">>, <<"TEST", "(", ")">>, <<"F", "(", ")", ";">>, <<"{">>, <<"}">>,
                  <<WORD>>, <<"//">>}
FunctionJob(j) ==
  \E f \in [1..4 -> FunctionLines]
             \cup [1..5 -> {<<"TEST", "(", ")", "{">>, <<WORD>>, <<"}">>, <<"F", "(", ")", ";">>}] :
    j = [Single(f) EXCEPT !.args.verbose = 0]
LongJob(j) ==
  \E head \in {<<"F", "(", ")", "{">>, <<"TEST", "(", ")", "{">>}, body \in SeqsUpTo({<<WORD>>, <<"//">>}, 6),
     verbose \in 0..2 :
    j = [Single(<<head>> \o body \o << <<"}">> >>) EXCEPT !.args.verbose = verbose]

(***************************************************************************)
(* Two files, one in the directory p and one in p/q.                       *)
(***************************************************************************)
FileB == Path(<<"p", "q">>, "b.h")
Two(a, b) == [args |-> Args(<<FileA, FileB>>), configs |-> <<>>,
              disk |-> FileA :> File1(<<"p">>, "cc", a) @@ FileB :> File1(<<"p", "q">>, "h", b)]

\* What is suppressed in them.
NolintLines == {<<"cast">>, <<"array", "//", "NOLINT">>, <<"cast", "array", "//", "NOLINT", "(", "casting", ")">>,
                <<"//", "NOLINTNEXTLINE">>, <<"//", "LINT_C_FILE">>, <<"//", "NOLINT", "(", "x", ")">>}
NolintJob(j) == \E a, b \in [1..2 -> NolintLines] : j = Two(a, b)

\* What is configured above them.
Option(name) == [name |-> name, filters |-> <<>>, length |-> 0, names |-> {}]
FilterOf(sign, category) == [Option("filter") EXCEPT !.filters = << <<sign, category>> >>]
Config(options) == [readable |-> TRUE, options |-> options]
Configs == {Config(<<FilterOf("-", <<"readability">>)>>),
            Config(<<Option("noparent"), FilterOf("+", Casting)>>),
            Config(<<FilterOf("+", Casting), FilterOf("-", <<"runtime">>),
                     [Option("linelength") EXCEPT !.length = 100]>>),
            Config(<<[Option("exclude_files") EXCEPT !.names = {"q", "a.cc"}]>>),
            Config(<<[Option("linelength") EXCEPT !.length = 120],
                     [Option("extensions") EXCEPT !.names = {"cc"}]>>),
            Config(<<[Option("headers") EXCEPT !.names = {"hpp"}]>>),
            Config(<<FilterOf("*", Casting)>>),
            [readable |-> FALSE, options |-> <<>>]}
Dirs == {<<>>, <<"p">>, <<"p", "q">>}
Offending == << <<"cast", "array">> >>
ConfigJob(j) ==
  \E D \in SUBSET Dirs, readable \in BOOLEAN : \E c \in [D -> Configs] :
    j = [Two(Offending, Offending) EXCEPT !.configs = c, !.disk[FileA].readable = readable]

\* What the command line says: p is a directory.
ArgumentJob(j) ==
  \E names \in {<<>>, <<FileA, FileB>>, <<FileB, FileA, FileA>>, <<Path(<<"p">>, "")>>,
                <<Path(<<>>, "p"), FileA>>, <<Path(<<>>, "none.cc"), FileA>>},
     fs \in {<<>>, << <<"-", <<>> >>, <<"+", Casting>> >>, << <<"+", Casting>>, <<"x", <<>> >> >>},
     verbose \in {1, 3}, counting \in {"total", "toplevel", "detailed"},
     exts \in {{}, {"cc", "h"}, {"py"}}, excludes \in {{}, {FileA}}, recursive, readable \in BOOLEAN :
    /\ recursive => names # <<Path(<<>>, "p"), FileA>>
    /\ j = [Two(Offending, << <<"cast">>, <<"array">> >>) EXCEPT
             !.args = [names |-> names, verbose |-> verbose, filters |-> fs, counting |-> counting,
                       settings |-> [Default EXCEPT !.valid_extensions = exts], excludes |-> excludes,
                       recursive |-> recursive],
             !.disk[FileA].crlf = {1}, !.disk[FileB].crlf = {1}, !.disk[FileB].readable = readable]

MCIsJob(j) ==
  \/ TextJob(j) \/ BracketJob(j) \/ BlockJob(j) \/ IncludeJob(j) \/ FunctionJob(j) \/ LongJob(j)
  \/ NolintJob(j) \/ ConfigJob(j) \/ ArgumentJob(j)
=============================================================================

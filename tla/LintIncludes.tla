---------------------------- MODULE LintIncludes ----------------------------
(***************************************************************************)
(* The includes of a file in cpplint.py: _IncludeState, how a header is    *)
(* classified, and what CheckIncludeLine says of one.  An include line is  *)
(* <<"#include", h>>; Headers gives the path of h, whether it stands in    *)
(* angle brackets, and what the code asks of its name.  Whether a path is  *)
(* in alphabetical order is decided by its rank.                           *)
(***************************************************************************)
EXTENDS LintNesting

CONSTANT Headers   \* [h |-> [path, dir, base, suffix, ext, system, cpp, third, rank]]

BuildInclude  == <<"build", "include">>
IncludeSubdir == <<"build", "include", "_subdir">>
IncludeOrder  == <<"build", "include", "_order">>
IncludeAlpha  == <<"build", "include", "_alpha">>

INITIAL == 0
MY_H    == 1
C_SYS   == 2
CPP_SYS == 3
OTHER_H == 4
Types == {"C_SYS", "CPP_SYS", "LIKELY_MY", "POSSIBLE_MY", "OTHER"}

IsInclude(line) == Len(line) > 1 /\ line[1] = "#include" /\ line[2] \in DOMAIN Headers

(***************************************************************************)
(* The include state: the headers and lines seen, in one list for each     *)
(* #if that was met; the section; the rank of the last header, or 0.       *)
(***************************************************************************)
_IncludeState == [include_list |-> << <<>> >>, section |-> INITIAL, last_header |-> 0]

\* Mutant: the list of a branch outlives its #else.
ElseKeepsList(s, directive) ==
  [include_list |-> IF directive = "#if" THEN Append(s.include_list, <<>>) ELSE s.include_list,
   section |-> INITIAL, last_header |-> 0]

ResetSection(s, directive) ==
  [include_list |-> CASE directive = "#if"   -> Append(s.include_list, <<>>)
                      [] directive = "#else" -> OnTop(s.include_list, <<>>)
                      [] OTHER -> s.include_list,
   section |-> INITIAL, last_header |-> 0]

Listed(s) == FlattenSeq(s.include_list)
FindHeader(s, path) == SelectInSeq(Listed(s), LAMBDA f : f[1] = path)

IsInAlphabeticalOrder(s, elided, linenum, rank) ==
  ~(s.last_header > rank /\ linenum > 1 /\ IsInclude(elided[linenum - 1]))

\* The section a header of the type belongs to behind the section; system
\* headers do not go back.
NextSection(section, type) ==
  CASE type = "C_SYS" /\ section <= C_SYS -> C_SYS
    [] type = "CPP_SYS" /\ section <= CPP_SYS -> CPP_SYS
    [] type \in {"LIKELY_MY", "POSSIBLE_MY"} /\ section <= MY_H -> MY_H
    [] type \in {"LIKELY_MY", "POSSIBLE_MY"} /\ section > MY_H -> OTHER_H
    [] type = "OTHER" -> OTHER_H
    [] OTHER -> section

\* Mutant: a C header does not come behind a C header.
StrictOrder(section, type) ==
  (type = "C_SYS" /\ section >= C_SYS) \/ (type = "CPP_SYS" /\ section > CPP_SYS)

OutOfOrder(section, type) ==
  (type = "C_SYS" /\ section > C_SYS) \/ (type = "CPP_SYS" /\ section > CPP_SYS)

CheckNextIncludeOrder(s, type) ==
  LET section == NextSection(s.section, type)
      bad     == OutOfOrder(s.section, type)
  IN  [state |-> [s EXCEPT !.section = section,
                           !.last_header = IF bad \/ section # s.section THEN 0 ELSE @],
       bad |-> bad]

(***************************************************************************)
(* What kind of header it is for the file.  A name is a base and the       *)
(* suffix behind its first - or _, which is dropped if it is a common one. *)
(***************************************************************************)
_DropCommonSuffixes(f, headerExts, otherExts) ==
  IF \/ f.suffix \in {"test", "regtest", "unittest"} /\ f.ext \in otherExts
     \/ f.suffix \in {"inl", "imp", "internal"} /\ f.ext \in headerExts
  THEN <<f.base, NONE>> ELSE <<f.base, f.suffix>>

_ClassifyInclude(file, i, headerExts, otherExts) ==
  LET system == i.system /\ i.ext \notin {"hpp", "hxx", "h++"}
      public == IF file.dir = <<>> THEN <<"/", "public">> ELSE Append(Front(file.dir), "public")
      mine == _DropCommonSuffixes(file, headerExts, otherExts)
                = _DropCommonSuffixes(i, headerExts, otherExts)
              /\ i.dir \in {file.dir, public}
  IN  CASE system /\ i.cpp -> "CPP_SYS"
        [] system /\ ~i.cpp -> "C_SYS"
        [] ~system /\ mine -> "LIKELY_MY"
        [] ~system /\ ~mine /\ file.base = i.base -> "POSSIBLE_MY"
        [] OTHER -> "OTHER"

\* One include: the new state and the errors.
CheckIncludeLine(s, file, elided, linenum, headerExts, otherExts) ==
  LET h == elided[linenum][2]
      i == Headers[h]
      subdir == IF ~i.system /\ i.dir = <<>> /\ i.ext = "h" /\ ~i.third
                THEN <<Err(linenum, IncludeSubdir, 4)>> ELSE <<>>
      known == FindHeader(s, i.path) # 0
      foreign == i.ext \in otherExts /\ file.dir # i.dir
      own == i.base = file.base /\ i.suffix = file.suffix /\ i.ext \in headerExts
                /\ (IsSuffix(i.dir, file.dir) \/ IsSuffix(file.dir, i.dir))
      listed == [s EXCEPT !.include_list = OnTop(@, Append(Last(@), <<i.path, linenum>>))]
      next == CheckNextIncludeOrder(listed, _ClassifyInclude(file, i, headerExts, otherExts))
      order == IF next.bad THEN <<Err(linenum, IncludeOrder, 4)>> ELSE <<>>
      alpha == IF IsInAlphabeticalOrder(next.state, elided, linenum, i.rank) THEN <<>>
               ELSE <<Err(linenum, IncludeAlpha, 4)>>
  IN  CASE known \/ foreign ->
             [state |-> s, errors |-> subdir \o <<Err(linenum, BuildInclude, 4)>>]
        [] ~known /\ ~foreign /\ i.third /\ ~own -> [state |-> s, errors |-> subdir]
        [] OTHER -> [state |-> [next.state EXCEPT !.last_header = i.rank],
                     errors |-> subdir \o order \o alpha]
=============================================================================

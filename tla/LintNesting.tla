----------------------------- MODULE LintNesting -----------------------------
(***************************************************************************)
(* The blocks around a line, as cpplint.py tracks them: NestingState with  *)
(* the preprocessor checkpoints, and the checks that read it.  The state   *)
(* is a record of the stack, the top the stack had before the line, and    *)
(* the checkpoints of the open conditionals.  Access levels, indentation   *)
(* of braces and the DISALLOW macros of classes are left out.              *)
(***************************************************************************)
EXTENDS CppText

CONSTANTS
  NamespaceLines,     \* a namespace of fewer lines needs no comment at its end: 10
  ClassLines          \* a class of at most so many lines is small: 24

ASSUME ThresholdsAssumption == NamespaceLines \in Nat /\ ClassLines \in Nat

(***************************************************************************)
(* Errors.  A category is its text in parts, so that a filter, which is    *)
(* compared with the start of the text, is compared with a prefix.         *)
(***************************************************************************)
Err(line, category, confidence) ==
  [line |-> line, category |-> category, confidence |-> confidence]

BuildClass      == <<"build", "class">>
BuildNamespaces == <<"build", "namespaces">>
EndOfNamespace  == <<"readability", "namespace">>
NamespaceIndent == <<"runtime", "indentation_namespace">>
BlankLine       == <<"whitespace", "blank_line">>

(***************************************************************************)
(* Lines and what they declare.                                            *)
(***************************************************************************)
Punctuation == {DQ, SQ, RAW, RAWX, "(", ")", "[", "]", "{", "}", "<", ">", ";", ",", ":", "=",
                "-", ".", "//", "/*", "*/", "#if", "#else", "#endif", "#include", "#define"}
IsWord(t) == t \notin Punctuation

Directive(line) == IF line # <<>> /\ Head(line) \in {"#if", "#else", "#endif"}
                   THEN Head(line) ELSE NONE
IsBlankLine(line) == line = <<>>
MatchAsm(line) == Len(line) > 1 /\ line[1] = "asm" /\ line[2] \in {"{", "("}
MatchExternC(line) == IsPrefix(<<"extern", DQ, DQ, "{">>, line)

\* Where the head of a class ends that the line starts with, 0 without one.
DeclarationEnd(line) ==
  LET inTemplate(i) == /\ i > 3 /\ line[1] = "template" /\ line[2] = "<" /\ line[i - 1] = ">"
                       /\ \A k \in 3..(i - 2) : IsWord(line[k]) \/ line[k] \in {"<", ">", ",", ":", "="}
      starts == {i \in 1..(Len(line) - 1) :
                   line[i] = "class" /\ IsWord(line[i + 1]) /\ (i = 1 \/ inTemplate(i))}
      name   == Max(starts) + 1
  IN  IF starts = {} THEN 0
      ELSE IF line[name] = "MACRO" /\ name < Len(line) /\ IsWord(line[name + 1]) THEN name + 1
      ELSE name

IsForwardClassDeclaration(line) ==
  LET n == Len(line)
  IN  n > 2 /\ line[n] = ";" /\ IsWord(line[n - 1]) /\ line[n - 2] = "class"

IsMacroDefinition(line) == line # <<>> /\ Head(line) = "#define"

(***************************************************************************)
(* Blocks.                                                                 *)
(***************************************************************************)
_BlockInfo(kind, linenum, seen_open_brace) ==
  [kind |-> kind, start |-> linenum, open |-> seen_open_brace, parens |-> 0, asm |-> "no",
   name |-> NONE, last |-> 0]
_ExternCInfo(linenum) == _BlockInfo("extern", linenum, TRUE)
_NamespaceInfo(name, linenum, open) == [_BlockInfo("namespace", linenum, open) EXCEPT !.name = name]

\* The class ends where its braces are even, be it before the first of them.
_ClassInfo(elided, linenum) ==
  LET depth[i \in (linenum - 1)..Len(elided)] ==
        IF i < linenum THEN 0
        ELSE depth[i - 1] + Count(elided[i], "{") - Count(elided[i], "}")
      even == {i \in linenum..Len(elided) : depth[i] = 0}
  IN  [_BlockInfo("class", linenum, FALSE) EXCEPT !.last = IF even = {} THEN 0 ELSE Min(even)]

SeenOpenBrace(stack) == stack = <<>> \/ Last(stack).open
InAsmBlock(stack)    == stack # <<>> /\ Last(stack).asm # "no"
Innermost(stack)     == SelectLastInSeq(stack, LAMBDA b : b.kind = "class")
OnTop(stack, block)  == Append(Front(stack), block)

\* The end of a namespace: a comment that names it, if it is long.
CommentAtEnd(raw) ==
  LET k == SelectInSubSeq(raw, 2, Len(raw), LAMBDA t : t # ";")
      marked == raw # <<>> /\ Head(raw) = "}" /\ k # 0 /\ raw[k] \in {"//", "/*"}
                /\ Has(raw, "namespace")
  IN  IF ~marked THEN <<>> ELSE IF Last(raw) = "*/" THEN Front(raw) ELSE raw

CheckEnd(block, raw, linenum) ==
  LET comment == CommentAtEnd(raw)
      closing == <<"namespace">> \o (IF block.name = NONE THEN <<>> ELSE <<block.name>>)
      needed  == block.kind = "namespace"
                 /\ (linenum - block.start >= NamespaceLines \/ comment # <<>>)
  IN  IF needed /\ ~IsSuffix(closing, comment) THEN <<Err(linenum, EndOfNamespace, 5)>> ELSE <<>>

(***************************************************************************)
(* Conditionals: the blocks before #if are those of every branch, and      *)
(* after #endif the blocks are those of the first branch.                  *)
(***************************************************************************)
NoObject == [depth |-> 0, start |-> 0, kind |-> NONE]
NestingState == [stack |-> <<>>, previous_stack_top |-> NoObject, pp_stack |-> <<>>]

RememberTop(s) ==
  [s EXCEPT !.previous_stack_top =
     IF s.stack = <<>> THEN NoObject
     ELSE [depth |-> Len(s.stack), start |-> Last(s.stack).start, kind |-> Last(s.stack).kind]]

_PreprocessorInfo(stack) == [before_if |-> stack, before_else |-> <<>>, seen_else |-> FALSE]

\* Mutant: every #else saves the blocks, not the first only.
EveryElseSaves(s, line) ==
  LET p == Last(s.pp_stack)
      q == [p EXCEPT !.seen_else = TRUE, !.before_else = s.stack]
  IN  CASE Directive(line) = "#if" ->
             [s EXCEPT !.pp_stack = Append(@, _PreprocessorInfo(s.stack))]
        [] Directive(line) = "#else" /\ s.pp_stack # <<>> ->
             [stack |-> p.before_if, previous_stack_top |-> NoObject, pp_stack |-> OnTop(s.pp_stack, q)]
        [] Directive(line) = "#endif" /\ s.pp_stack # <<>> ->
             [s EXCEPT !.stack = IF p.seen_else THEN p.before_else ELSE @, !.pp_stack = Front(@)]
        [] OTHER -> s

\* A restored stack is a copy: its top is not the object it was before.
UpdatePreprocessor(s, line) ==
  LET p == Last(s.pp_stack)
      q == IF p.seen_else THEN p ELSE [p EXCEPT !.seen_else = TRUE, !.before_else = s.stack]
  IN  CASE Directive(line) = "#if" ->
             [s EXCEPT !.pp_stack = Append(@, _PreprocessorInfo(s.stack))]
        [] Directive(line) = "#else" /\ s.pp_stack # <<>> ->
             [stack |-> p.before_if, previous_stack_top |-> NoObject, pp_stack |-> OnTop(s.pp_stack, q)]
        [] Directive(line) = "#endif" /\ s.pp_stack # <<>> /\ p.seen_else ->
             [stack |-> p.before_else, previous_stack_top |-> NoObject, pp_stack |-> Front(s.pp_stack)]
        [] Directive(line) = "#endif" /\ s.pp_stack # <<>> /\ ~p.seen_else ->
             [s EXCEPT !.pp_stack = Front(@)]
        [] OTHER -> s

(***************************************************************************)
(* One line.                                                               *)
(***************************************************************************)
CountParentheses(stack, line) ==
  IF stack = <<>> THEN stack
  ELSE LET b == Last(stack)
           change == Count(line, "(") - Count(line, ")")
           parens == b.parens + change
           asm == IF b.asm \in {"no", "end"}
                    THEN IF change # 0 /\ parens = 1 /\ MatchAsm(line) THEN "inside" ELSE "no"
                  ELSE IF b.asm = "inside" /\ parens = 0 THEN "end" ELSE b.asm
       IN  OnTop(stack, [b EXCEPT !.parens = parens, !.asm = asm])

\* A namespace at the start of what is left of the line.
TakeNamespace(acc, linenum) ==
  LET line  == acc.line
      named == Len(line) > 1 /\ IsWord(line[2])
      rest  == After(line, IF named THEN 2 ELSE 1)
      brace == Find(rest, {"{"})
      new   == _NamespaceInfo(IF named THEN line[2] ELSE NONE, linenum, brace # 0)
  IN  IF line = <<>> \/ Head(line) # "namespace" THEN acc
      ELSE [stack |-> Append(acc.stack, new), line |-> After(rest, brace)]

TakeNamespaces(stack, line, linenum) ==
  Loop(LAMBDA acc, k : TakeNamespace(acc, linenum), Len(line), [stack |-> stack, line |-> line])

\* A class in front of what is left, unless it is an argument.  Whether it is a
\* template argument is looked up in the whole line at the position the head has
\* in what is left.
TakeClass(acc, elided, linenum) ==
  LET end == DeclarationEnd(acc.line)
  IN  IF /\ end # 0
         /\ acc.stack = <<>> \/ Last(acc.stack).parens = 0
         /\ ~InTemplateArgumentList(elided, linenum, end + 1)
      THEN [stack |-> Append(acc.stack, _ClassInfo(elided, linenum)), line |-> After(acc.line, end)]
      ELSE acc

\* Mutant: a semicolon or parenthesis leaves a head without a body on the stack.
HeadsStay(stack, t, line, linenum) ==
  CASE t = "{" /\ ~SeenOpenBrace(stack) -> OnTop(stack, [Last(stack) EXCEPT !.open = TRUE])
    [] t = "{" /\ SeenOpenBrace(stack) -> Append(stack, _BlockInfo("block", linenum, TRUE))
    [] t \in {";", ")"} -> stack
    [] t = "}" -> IF stack = <<>> THEN stack ELSE Front(stack)

\* What one brace, semicolon or closing parenthesis does to the stack.
TakeToken(stack, t, line, linenum) ==
  CASE t = "{" /\ ~SeenOpenBrace(stack) -> OnTop(stack, [Last(stack) EXCEPT !.open = TRUE])
    [] t = "{" /\ SeenOpenBrace(stack) ->
         Append(stack,
                IF MatchExternC(line) THEN _ExternCInfo(linenum)
                ELSE [_BlockInfo("block", linenum, TRUE) EXCEPT
                        !.asm = IF MatchAsm(line) THEN "block" ELSE "no"])
    [] t \in {";", ")"} -> IF SeenOpenBrace(stack) THEN stack ELSE Front(stack)
    [] t = "}" -> IF stack = <<>> THEN stack ELSE Front(stack)

TakeBrace(acc, raw, linenum) ==
  LET line  == acc.line
      i     == Find(line, {"{", ";", ")", "}"})
      ended == IF line[i] = "}" /\ acc.stack # <<>> THEN CheckEnd(Last(acc.stack), raw, linenum)
               ELSE <<>>
  IN  IF i = 0 THEN acc
      ELSE [stack |-> TakeToken(acc.stack, line[i], line, linenum), line |-> After(line, i),
            errors |-> acc.errors \o ended]

TakeBraces(heads, raw, linenum) ==
  Loop(LAMBDA acc, k : TakeBrace(acc, raw, linenum), Len(heads.line),
       [stack |-> heads.stack, line |-> heads.line, errors |-> <<>>])

\* Namespaces and a class are only looked for at the start of the line.
TakeHeads(stack, lines, linenum) ==
  LET line == lines.elided[linenum]
  IN  TakeClass(TakeNamespaces(CountParentheses(stack, line), line, linenum), lines.elided, linenum)

Updated(pp, braces) == [nesting |-> [pp EXCEPT !.stack = braces.stack], errors |-> braces.errors]

Update(s, lines, linenum) ==
  LET pp == UpdatePreprocessor(RememberTop(s), lines.elided[linenum])
  IN  Updated(pp, TakeBraces(TakeHeads(pp.stack, lines, linenum), lines.raw[linenum], linenum))

\* Classes and namespaces that are open at the end of the file.
CheckCompletedBlocks(stack) ==
  LET next(errors, i) ==
        CASE stack[i].kind = "class" -> Append(errors, Err(stack[i].start, BuildClass, 5))
          [] stack[i].kind = "namespace" -> Append(errors, Err(stack[i].start, BuildNamespaces, 5))
          [] OTHER -> errors
  IN  Loop(next, Len(stack), <<>>)

(***************************************************************************)
(* Checks that read the stack.                                             *)
(***************************************************************************)
IsBlockInNameSpace(stack, is_forward_declaration) ==
  LET n == Len(stack)
  IN  IF is_forward_declaration THEN n >= 1 /\ stack[n].kind = "namespace"
      ELSE n > 1 /\ stack[n].kind \in {"class", "namespace"} /\ stack[n - 1].kind = "namespace"

CheckForNamespaceIndentation(s, elided, linenum, indented) ==
  LET n == Len(s.stack)
      forward == IsForwardClassDeclaration(elided[linenum])
      new == /\ n > 1
             /\ s.stack[n].kind \in {"class", "namespace"}
             /\ s.previous_stack_top =
                  [depth |-> n - 1, start |-> s.stack[n - 1].start, kind |-> "namespace"]
  IN  IF /\ new \/ forward
         /\ ~IsMacroDefinition(elided[linenum])
         /\ IsBlockInNameSpace(s.stack, forward)
         /\ linenum \in indented
      THEN <<Err(linenum, NamespaceIndent, 4)>> ELSE <<>>

CheckSectionSpacing(class, lines, linenum) ==
  LET line == lines.lines[linenum]
      previous == lines.lines[linenum - 1]
      heads == {i \in class.start..(linenum - 1) :
                  lines.lines[i] # <<>> /\ Last(lines.lines[i]) = "{"}
      end_class_head == IF heads = {} THEN class.start ELSE Min(heads)
  IN  IF /\ class.last - class.start > ClassLines
         /\ linenum > class.start
         /\ IsPrefix(<<"public", ":">>, line)
         /\ ~IsBlankLine(previous) /\ ~Has(previous, "class")
         /\ end_class_head < linenum - 1
      THEN <<Err(linenum, BlankLine, 3)>> ELSE <<>>
=============================================================================

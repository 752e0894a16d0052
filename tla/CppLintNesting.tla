-------------------------- MODULE CppLintNesting --------------------------
(***************************************************************************)
(* Classes _BlockInfo, _ClassInfo, _NamespaceInfo, _PreprocessorInfo and   *)
(* _NestingState of common/tools/cpplint.py: the stack of blocks that are  *)
(* open, updated line by line, and the copies of it that #if and #else     *)
(* save.                                                                   *)
(***************************************************************************)
EXTENDS CppLintText

CONSTANT NamespaceLines   \* the least length a namespace must be commented at

ASSUME NestingAssumption == NamespaceLines \in Nat

\* An error: its line, its category and the confidence in it.
Error_(n, category, confidence) ==
  [line |-> n, cat |-> category, conf |-> confidence]
When(condition, n, category, confidence) ==
  IF condition THEN <<Error_(n, category, confidence)>> ELSE <<>>

\* An element of the stack; name to last are used by classes and namespaces.
_BlockInfo(type, seen) ==
  [type |-> type, seen_open_brace |-> seen, open_parentheses |-> 0,
   inline_asm |-> "no", name |-> "", starting_linenum |-> 0, access |-> "",
   is_derived |-> FALSE, last_line |-> 0]

\* The end of the class: the first line, from its own on, at whose end as many
\* braces are closed as open.
ClassEnd(lines, n) ==
  LET depth[k \in n .. Last_(lines)] ==
        (IF k = n THEN 0 ELSE depth[k - 1]) + Net(lines[k], "{")
  IN FirstOf({k \in n .. Last_(lines) : depth[k] = 0}, 0)

_ClassInfo(name, class_or_struct, lines, n) ==
  [_BlockInfo("class", FALSE) EXCEPT
     !.name = name, !.starting_linenum = n, !.last_line = ClassEnd(lines, n),
     !.access = IF class_or_struct = "struct" THEN "public" ELSE "private"]

_NamespaceInfo(name, n) ==
  [_BlockInfo("namespace", FALSE) EXCEPT !.name = name, !.starting_linenum = n]

_NestingState == [stack |-> <<>>, pp_stack |-> <<>>]

SeenOpenBrace(stack) == stack = <<>> \/ Last(stack).seen_open_brace
InNamespaceBody(stack) == stack # <<>> /\ Last(stack).type = "namespace"
TopIsClass(stack) == stack # <<>> /\ Last(stack).type = "class"
WithTop(stack, block) == [stack EXCEPT ![Len(stack)] = block]

-----------------------------------------------------------------------------
(* Preprocessor conditions.                                                *)

IfDirective == {"#if", "#ifdef", "#ifndef"}
ElseDirective == {"#else", "#elif"}
EndifDirective == {"#endif"}
IsDirective(line, directives) == Starts(Strip(line), directives)

\* Mutant: at #endif the blocks of the last branch are kept.
UpdatePreprocessor_KeepsLast(nest, line) ==
  LET pp == nest.pp_stack IN
  CASE IsDirective(line, IfDirective) ->
         [nest EXCEPT !.pp_stack = Append(pp,
            [stack_before_if |-> nest.stack, stack_before_else |-> <<>>,
             seen_else |-> FALSE])]
    [] IsDirective(line, ElseDirective) /\ pp # <<>> ->
         [nest EXCEPT !.stack = Last(pp).stack_before_if]
    [] IsDirective(line, EndifDirective) /\ pp # <<>> ->
         [nest EXCEPT !.pp_stack = Front(pp)]
    [] OTHER -> nest

\* What is open at the first #else or #elif is what is open after #endif; each
\* further branch starts from what was open at #if.
UpdatePreprocessor(nest, line) ==
  LET pp == nest.pp_stack IN
  CASE IsDirective(line, IfDirective) ->
         [nest EXCEPT !.pp_stack = Append(pp,
            [stack_before_if |-> nest.stack, stack_before_else |-> <<>>,
             seen_else |-> FALSE])]
    [] IsDirective(line, ElseDirective) /\ pp # <<>> ->
         [stack |-> Last(pp).stack_before_if,
          pp_stack |-> IF Last(pp).seen_else THEN pp
                       ELSE WithTop(pp, [Last(pp) EXCEPT !.seen_else = TRUE,
                                           !.stack_before_else = nest.stack])]
    [] IsDirective(line, EndifDirective) /\ pp # <<>> ->
         [stack |-> IF Last(pp).seen_else THEN Last(pp).stack_before_else
                    ELSE nest.stack,
          pp_stack |-> Front(pp)]
    [] OTHER -> nest

-----------------------------------------------------------------------------
(* Blocks.  The functions below take and return a stack, or a stack and the  *)
(* rest of the line that is still to be read.                               *)

\* _MATCH_ASM; "asm" stands for each of the words it takes.
MatchAsm(line) ==
  LET s == Strip(line) IN
  /\ Len(s) >= 2 /\ s[1] = "asm"
  /\ s[2] \in {"(", "{"} \/ (Len(s) >= 3 /\ s[2] = "volatile" /\ s[3] \in {"(", "{"})

\* Parentheses that are open, and blocks of inline assembly.
CountParentheses(stack, line) ==
  IF stack = <<>> THEN stack
  ELSE LET top == Last(stack)
           change == Net(line, "(")
           open == top.open_parentheses + change
           asm == CASE top.inline_asm \in {"no", "end"} ->
                         IF change # 0 /\ open = 1 /\ MatchAsm(line)
                         THEN "inside" ELSE "no"
                    [] top.inline_asm = "inside" /\ open = 0 -> "end"
                    [] OTHER -> top.inline_asm
       IN WithTop(stack, [top EXCEPT !.open_parentheses = open,
                                     !.inline_asm = asm])

Punctuation == {"{", "}", "(", ")", "[", "]", "<", ">", ";", ",", ":", "=",
                QUOTE, "//", "/*", "*/"}
IsWord(text, i) == i \in DOMAIN text /\ text[i] \notin Punctuation

\* Any number of "namespace a {" at the start of the line.
Namespaces(stack, line, n) ==
  LET text == Strip(line)
      from[i \in 1 .. Len(text) + 1] ==
        IF i > Len(text) \/ ~Starts(After(text, i - 1), {"namespace"})
        THEN [blocks |-> <<>>, at |-> i]
        ELSE LET name == IF IsWord(text, i + 1) THEN text[i + 1] ELSE ""
                 rest == IF name = "" THEN i + 1 ELSE i + 2
                 brace == FirstOf({j \in rest .. Len(text) : text[j] = "{"}, 0)
                 next == from[IF brace = 0 THEN rest ELSE brace + 1]
                 block == [_NamespaceInfo(name, n) EXCEPT
                             !.seen_open_brace = brace > 0]
             IN [next EXCEPT !.blocks = <<block>> \o @]
  IN [stack |-> stack \o from[1].blocks, rest |-> After(text, from[1].at - 1)]

\* Words in capitals that may stand between "class" and the name.
Macro == {"API", "LOCKABLE"}

\* No = outside of <...>, and no > that does not end one.
NoAssignment(text) ==
  LET between(a, b) == ToSet(SubSeq(text, a + 1, b - 1)) \cap {"<", ">"} = {}
      pairs == {p \in (DOMAIN text) \X (DOMAIN text) :
                  /\ p[1] < p[2] /\ text[p[1]] = "<" /\ text[p[2]] = ">"
                  /\ between(p[1], p[2])}
  IN \A i \in DOMAIN text :
       /\ text[i] = ">" => \E p \in pairs : p[2] = i
       /\ text[i] = "=" => \E p \in pairs : p[1] < i /\ i < p[2]

\* [template <...>] class [MACRO] name rest: where "class" stands, 0 when the
\* line does not start this way.
ClassKeyword(text) ==
  LET keys == {"class", "struct"}
      behind == {j \in 4 .. Len(text) :
                   /\ text[1] = "template" /\ text[2] = "<"
                   /\ text[j - 1] = ">" /\ text[j] \in keys
                   /\ ~AnyOf(SubSeq(text, 3, j - 2), {"(", ")", "{", "}", ";", "="})}
  IN IF Starts(text, keys) THEN 1
     ELSE IF behind = {} THEN 0 ELSE Max(behind)

ClassDeclaration(stack, text, lines, n) ==
  LET key == ClassKeyword(text)
      name == FirstOf({i \in key + 1 .. Len(text) :
                 /\ IsWord(text, i)
                 /\ \A j \in key + 1 .. i - 1 : text[j] \in Macro
                 /\ ~(text[i] \in Macro /\ IsWord(text, i + 1))}, 0)
      rest == After(text, name)
  IN IF /\ key > 0 /\ name > 0 /\ NoAssignment(rest)
        /\ stack = <<>> \/ Last(stack).open_parentheses = 0
     THEN [stack |-> Append(stack, _ClassInfo(text[name], text[key], lines, n)),
           rest |-> rest]
     ELSE [stack |-> stack, rest |-> text]

\* _ClassInfo.CheckBegin on the line, and access control on the rest of it.
ClassHead(stack, line, rest) ==
  LET top == Last(stack)
      derived == ~top.seen_open_brace /\ Contains(line, ":")
      access == Len(rest) >= 2 /\ rest[2] = ":"
                /\ rest[1] \in {"public", "private", "protected"}
  IN IF ~TopIsClass(stack) THEN stack
     ELSE WithTop(stack, [top EXCEPT !.is_derived = @ \/ derived,
                                     !.access = IF access THEN rest[1] ELSE @])

\* The comment behind the brace that ends a namespace: } // namespace a
NamespaceComment(raw) ==
  Len(raw) >= 3 /\ raw[1] = "}" /\ raw[2] \in {"//", "/*"}
  /\ Contains(raw, "namespace")
CommentNames(raw, name) ==
  NamespaceComment(raw) /\ IsSuffix(<<"namespace">> \o name, Remove(raw, "*/"))

\* _NamespaceInfo.CheckEnd; other blocks have nothing to check at their end.
CheckEnd(block, raw, n) ==
  When(/\ block.type = "namespace"
       /\ n - block.starting_linenum >= NamespaceLines \/ NamespaceComment(raw)
       /\ ~CommentNames(raw, IF block.name = "" THEN <<>> ELSE <<block.name>>),
       n, "readability/namespace", 5)

\* Braces, semicolons and closing parentheses of the rest of the line.  A
\* semicolon or parenthesis before the opening brace: it was a declaration or a
\* parameter.
Brace(acc, text, i, raw, n) ==
  LET since ==               \* the text from the mark before i on
        After(text, SelectLastInSubSeq(text, 1, i - 1,
                      LAMBDA t : t \in {"{", ";", ")", "}"}))
      open == SeenOpenBrace(acc.stack)
      top == Last(acc.stack)
      asm == IF MatchAsm(since) THEN "block" ELSE "no"
  IN CASE text[i] = "{" /\ ~open ->
            [acc EXCEPT !.stack =
               WithTop(@, [top EXCEPT !.seen_open_brace = TRUE])]
       [] text[i] = "{" /\ open ->
            [acc EXCEPT !.stack =
               Append(@, [_BlockInfo("block", TRUE) EXCEPT !.inline_asm = asm])]
       [] text[i] \in {";", ")"} /\ ~open -> [acc EXCEPT !.stack = Front(@)]
       [] text[i] = "}" /\ acc.stack # <<>> ->
            [stack |-> Front(acc.stack),
             errors |-> acc.errors \o CheckEnd(top, raw, n)]
       [] OTHER -> acc
Braces(stack, text, raw, n) ==
  FoldLeftDomain(LAMBDA acc, i : Brace(acc, text, i, raw, n),
                 [stack |-> stack, errors |-> <<>>], text)

\* The state after line n of a file, and the errors found.
Update(nest, raw, lines, n) ==
  LET line == lines[n]
      pre == UpdatePreprocessor(nest, line)
      spaces == Namespaces(CountParentheses(pre.stack, line), line, n)
      class == ClassDeclaration(spaces.stack, spaces.rest, lines, n)
      end == Braces(ClassHead(class.stack, line, class.rest), class.rest,
                    raw[n], n)
  IN [nest |-> [stack |-> end.stack, pp_stack |-> pre.pp_stack],
      errors |-> end.errors]

\* The innermost class, as a sequence of at most one block.
InnermostClass(stack) ==
  LET i == SelectLastInSeq(stack, LAMBDA b : b.type = "class")
  IN IF i = 0 THEN <<>> ELSE <<stack[i]>>

\* At the end of the file: classes that are still open.
CheckClassFinished(stack) ==
  LET classes == Picked(stack, {i \in DOMAIN stack : stack[i].type = "class"})
  IN [i \in DOMAIN classes |->
        Error_(classes[i].starting_linenum, "build/class", 5)]
=============================================================================

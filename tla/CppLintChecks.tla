--------------------------- MODULE CppLintChecks ---------------------------
(***************************************************************************)
(* What cpplint promises: its errors are the ones that were found, counted *)
(* and let through, and its picture of a file (blocks, branches, brackets, *)
(* comments) is that of the text.                                          *)
(***************************************************************************)
EXTENDS CppLint

Working == status = "line"
Lines == clean.elided
LastLine == Last_(Lines)

\* Only what a program with one file in hand can hold.
TypeOK ==
  /\ status \in {"start", "file", "line", "exited", "raised", "hung"}
  /\ file \in 0 .. Len(command.files)
  /\ \A c \in DOMAIN nolint : c \in ERROR_CATEGORIES \cup {ANY}
  /\ \A i \in DOMAIN reported : reported[i].cat \in ERROR_CATEGORIES
  /\ \A i \in DOMAIN stderr : stderr[i].conf \in 0 .. 5
  /\ Working => n \in 0 .. LastLine + 1
  /\ DOMAIN clean.raw = DOMAIN clean.lines
  /\ \A i \in DOMAIN include_state.stack :
       include_state.stack[i] \in DOMAIN include_state.scopes

-----------------------------------------------------------------------------
(* Errors.                                                                 *)

\* IncrementErrorCount: the total is what was printed, and when errors are
\* counted by category each count is that of its errors.
CountsAgree ==
  LET counts == cpplint.errors_by_category
      of(c) == {i \in DOMAIN stderr :
                  IF cpplint.counting = "detailed" THEN stderr[i].cat = c
                  ELSE TopLevel[stderr[i].cat] = c}
  IN /\ cpplint.error_count = Len(stderr)
     /\ \A c \in DOMAIN counts : counts[c] = Cardinality(of(c))
     /\ cpplint.counting \in {"toplevel", "detailed"} =>
          SumFunction(counts) = cpplint.error_count

\* What the NOLINT comments of these lines say of line k and a category.
Covered(lines, k, category) ==
  \E c \in {category, ANY} :
    \/ /\ Contains(lines[k], "NOLINT")
       /\ ~Begins(lines[k], <<{"//"}, {"NOLINT"}>>)
       /\ CategoryAfter(lines[k], "NOLINT") = c
    \/ /\ k > 0 /\ Begins(lines[k - 1], <<{"//"}, {"NOLINT"}>>)
       /\ CategoryAfter(lines[k - 1], "NOLINT") = c
InHand(e) == e.file = file /\ e.line \in DOMAIN clean.raw

\* Categories of errors that are reported before their line is read; of those the
\* docstring of Error, which says that a NOLINT suppresses every error, is not true.
Early == {"legal/copyright", "build/header_guard", "readability/nolint",
          "readability/multiline_comment", "whitespace/empty_loop_body"}

\* ParseNolintSuppressions: no error about a line that a NOLINT covers is
\* printed, if it is found with or after its line; and what the rules about the
\* lines of a file are kept from printing is what a NOLINT of this file covers,
\* be it one within a comment of several lines, where CheckForHeaderGuard still
\* finds it.
NolintHolds ==
  /\ \A i \in DOMAIN stderr :
       InHand(stderr[i]) /\ stderr[i].cat \notin Early =>
         ~Covered(clean.raw, stderr[i].line, stderr[i].cat)
  /\ Working =>
       LET lines == LinesOf(Content) IN
       \A c \in DOMAIN nolint : \A k \in nolint[c] \cap DOMAIN lines :
         \E d \in ERROR_CATEGORIES :
           Covered(lines, k, d) /\ (c = ANY \/ c = d)

\* _ShouldPrintError: an error that no NOLINT is about is printed if, and one
\* that any is about only if, its confidence is enough and the last filter that
\* fits lets it through.  That of a GLOBAL_NOLINT with an unknown category is
\* found before ResetNolintSuppressions, and a NOLINT of the file before may
\* keep it from being printed.
FiltersDecide ==
  LET fits(e) == {i \in DOMAIN cpplint.filters :
                    IsPrefix(cpplint.filters[i].prefix, e.cat)}
      through(e) == \A i \in fits(e) : cpplint.filters[i].sign = "-" =>
                      \E j \in fits(e) : j > i /\ cpplint.filters[j].sign = "+"
      printed(e) == \E i \in DOMAIN stderr : stderr[i].file = file
                      /\ stderr[i].line = e.line /\ stderr[i].cat = e.cat
                      /\ stderr[i].conf = e.conf
      marked(e) == \E c \in DOMAIN nolint : c \in {e.cat, ANY}
                                             /\ e.line \in nolint[c]
      before(e) == file > 1 /\ e.cat = "readability/nolint"
  IN \A i \in DOMAIN reported :
       LET e == reported[i] IN
       /\ e.conf >= cpplint.verbose_level /\ through(e) /\ ~marked(e)
            => printed(e) \/ before(e)
       /\ printed(e) => e.conf >= cpplint.verbose_level /\ through(e)

\* _FunctionState.Check: a function found too long for the verbosity is given a
\* confidence that the verbosity lets through.
FnSizeIsShown ==
  \A i \in DOMAIN reported :
    reported[i].cat = "readability/fn_size" /\ cpplint.verbose_level <= 5 =>
      reported[i].conf >= cpplint.verbose_level

\* No error is lost between the rule that found it and what is printed, and
\* none is printed that options keep from it.
ErrorsAreShown == FiltersDecide /\ FnSizeIsShown

-----------------------------------------------------------------------------
(* Conditions.  Level[k] conditions are open above line k.                  *)

IsIf(k) == IsDirective(Lines[k], IfDirective)
IsElse(k) == IsDirective(Lines[k], ElseDirective)
IsEndif(k) == IsDirective(Lines[k], EndifDirective)
Level(k) == Cardinality({j \in 0 .. k - 1 : IsIf(j)})
            - Cardinality({j \in 0 .. k - 1 : IsEndif(j)})
Balanced(m) == \A k \in 0 .. m : IsElse(k) \/ IsEndif(k) => Level(k) > 0
NoAsm == \A k \in DOMAIN Lines : ~Contains(Lines[k], "asm")
\* A line is the same condition with its strings and without them.
SameConditions ==
  \A k \in DOMAIN Lines :
    \A d \in {IfDirective, ElseDirective, EndifDirective} :
      IsDirective(clean.lines[k], d) <=> IsDirective(Lines[k], d)

\* The end of the condition that begins at line a, and its other branches.
EndOf(a) == FirstOf({e \in a + 1 .. LastLine : IsEndif(e)
                       /\ Level(e) = Level(a) + 1}, LastLine + 1)
Elses(a, m) == {j \in a + 1 .. Min({EndOf(a) - 1, m}) :
                  IsElse(j) /\ Level(j) = Level(a) + 1}
Around(k) == {a \in 0 .. k : IsIf(a) /\ k < EndOf(a)}

\* The first branch of a condition that has ended at line m, the branch that is
\* open of any other.  A line that begins a branch is in it, one that ends a
\* condition is behind it.
KeptLines(m) ==
  {k \in 0 .. m : \A a \in Around(k) :
     IF EndOf(a) <= m THEN \A j \in Elses(a, m) : k < j
     ELSE \A j \in Elses(a, m) : j <= k}

\* What line k does to the blocks that are open, conditions aside.
BlocksAfter(stack, raw, lines, k) ==
  Update([stack |-> stack, pp_stack |-> <<>>], raw, lines, k).nest.stack
BlocksOf(raw, lines, S) ==
  FoldLeft(LAMBDA stack, k : BlocksAfter(stack, raw, lines, k), <<>>, InOrder(S))

\* UpdatePreprocessor: the blocks that are open are those of the text without
\* its other branches, however conditions and blocks are nested.
NestingIsOfKeptText ==
  Working /\ Balanced(n - 1) =>
    nesting_state.stack = BlocksOf(clean.raw, Lines, KeptLines(n - 1))

\* The directive that starts the branch line k is in, -1 outside of conditions.
Branch(k) ==
  Max({-1} \cup UNION {{a} \cup Elses(a, k) : a \in Around(k)})

\* CheckIncludeLine: two headers are compared if and only if they are included
\* in one branch, whatever conditions lie between.
ScopesAreBranches ==
  Working /\ Balanced(n - 1) /\ NoAsm /\ SameConditions =>
    LET scopes == include_state.scopes
        headers == {p \in (DOMAIN scopes) \X (0 .. LastLine) :
                      \E h \in DOMAIN scopes[p[1]].line :
                        scopes[p[1]].line[h] = p[2]}
    IN \A p, q \in headers : p[1] = q[1] <=> Branch(p[2]) = Branch(q[2])

\* The kind of the header that line k includes.
Kind(k) == LET line == clean.lines[k]
           IN _ClassifyInclude(Content.path, Included(line), IsSystem(line))
IsMy(k) == Kind(k) \in {"likely my", "possible my"}

\* CheckNextIncludeOrder: in each branch own headers come first, then those of
\* C, then those of C++, then all others, with late own ones among them: a
\* header is reported if and only if it breaks this order.
IncludesInOrder ==
  Working => \A s \in DOMAIN include_state.scopes :
    LET first == Range(include_state.scopes[s].line)
        others(k) == {j \in first : j < k /\
          (Kind(j) = "other" \/ (IsMy(j) /\ \E i \in first : i < j /\ ~IsMy(i)))}
        late(k) == \/ Kind(k) = "C" /\ (others(k) # {}
                        \/ \E j \in first : j < k /\ Kind(j) = "C++")
                   \/ Kind(k) = "C++" /\ others(k) # {}
        said(k) == \E i \in DOMAIN reported :
          reported[i].line = k /\ reported[i].cat = "build/include_order"
        behind(k) == k - 1 \in first /\ Included(clean.lines[k]).dir = <<>>
                     /\ Included(clean.lines[k - 1]).dir # <<>>
    IN \A k \in first : /\ late(k) => said(k)
                        /\ said(k) => late(k) \/ behind(k)

-----------------------------------------------------------------------------
(* Text.                                                                   *)

Pair == [c \in {"(", "[", "{", "<"} |->
           IF c = "<" THEN ">" ELSE CLOSER[c]]

\* Brackets of the kinds given close in the order in which they open.
WellNested(text, kinds) ==
  LET step(stack, t) ==
        CASE t \in kinds -> Append(stack, Pair[t])
          [] t \in {Pair[c] : c \in kinds} ->
               IF stack # <<>> /\ Last(stack) = t THEN Front_(stack)
               ELSE <<"mismatch">> \o stack
          [] OTHER -> stack
  IN FoldLeft(step, <<>>, text) = <<>>

TextFrom(k) == FlattenSeq([i \in 1 .. LastLine - k + 1 |-> Lines[k + i - 1]])
TextBetween(a, b) ==
  IF a.line = b.line THEN SubSeq(Lines[a.line], a.pos, b.pos)
  ELSE SubSeq(Lines[a.line], a.pos, Len(Lines[a.line]))
       \o FlattenSeq([i \in 1 .. b.line - a.line - 1 |-> Lines[a.line + i]])
       \o SubSeq(Lines[b.line], 1, b.pos)

\* CloseExpression: what it takes for the end of a bracket closes as many as
\* were opened, no earlier bracket of the same line does, and it finds an end
\* if some line leaves nothing open.
CloseExpressionCloses ==
  Working /\ n <= LastLine =>
    \A i \in DOMAIN Lines[n] : Lines[n][i] \in DOMAIN CLOSER =>
      LET open == Lines[n][i]
          start == [line |-> n, pos |-> i]
          end == CloseExpression(Lines, n, i)
          net(b) == Net(TextBetween(start, b), open)
          whole(k) == net([line |-> k, pos |-> Len(Lines[k])])
      IN IF end.pos > 0
         THEN /\ net(end) = 0
              /\ \A p \in (IF end.line = n THEN i ELSE 1) .. end.pos - 1 :
                   net([end EXCEPT !.pos = p]) > 0
         ELSE \A k \in n .. LastLine : whole(k) > 0

\* FindNext- and FindPreviousMatchingAngleBracket: arguments of a template with
\* all brackets in them nested are taken for such, from either end and across
\* lines.
TemplatesAccepted ==
  Working /\ n <= LastLine =>
    LET text == TextFrom(n) IN
    \A i \in DOMAIN Lines[n] : \A j \in i + 1 .. Len(text) :
      /\ text[i] = "<" /\ text[j] = ">"
      /\ ~AnyOf(SubSeq(text, i, j), {";", "{", "}"})
      /\ WellNested(SubSeq(text, i, j), {"<", "(", "["})
      => /\ FindNextMatchingAngleBracket(After(text, i))
         /\ FindPreviousMatchingAngleBracket(Before(text, j))

\* _GetTextInside: what it returns is nested and ends where its bracket closes,
\* and it returns nothing only if there is no such text.
TextInsideIsNested ==
  Working /\ n <= LastLine =>
    LET line == Lines[n]
        kinds == DOMAIN CLOSER
        nested(i, j) == line[j] = CLOSER[line[i]]
                        /\ WellNested(SubSeq(line, i + 1, j - 1), kinds)
    IN \A i \in DOMAIN line : line[i] \in kinds =>
         LET text == _GetTextInside(line, i) IN
         IF text = <<>> THEN \A j \in i + 1 .. Len(line) : ~nested(i, j)
         ELSE text = <<SubSeq(line, i + 1, i + Len(text[1]))>>
              /\ nested(i, i + Len(text[1]) + 1)

\* The searches for a bracket find the one that a stack over the whole text
\* finds, on one line and over several.
BracketsMatch == CloseExpressionCloses /\ TemplatesAccepted /\ TextInsideIsNested

\* CleansedLines: the code rules see the same line whatever stands in a string.
StringsOpaque ==
  Working /\ n <= LastLine /\ ~IsIncludeLine(clean.raw[n]) =>
    LET line == clean.raw[n]
        inside(i) == /\ Count(Before(line, i), QUOTE) % 2 = 1 /\ line[i] # QUOTE
                     /\ Contains(After(line, i), QUOTE)
    IN
    \A i \in DOMAIN line : \A t \in {"//", "/*", "*/", "{", "x"} :
      inside(i) /\ ESCAPED \notin ToSet(line) =>
        CleanseComments(_CollapseStrings([line EXCEPT ![i] = t])) = Lines[n]

\* Comments that have their lines to themselves.
Tidy(lines) ==
  \A k \in DOMAIN lines : \A i \in DOMAIN lines[k] :
    /\ lines[k][i] = "/*" => i = 1
    /\ lines[k][i] = "*/" => i = Len(lines[k])

\* RemoveMultiLineComments: the lines of comments that go over several lines,
\* down to a comment that does not end, are gone, and all others stay.
CommentLinesGone ==
  LET lines == LinesOf(Content)
      open[k \in 0 .. Last_(lines) + 1] ==
        IF k = 0 THEN FALSE
        ELSE (open[k - 1] \/ Contains(lines[k - 1], "/*"))
             /\ ~Contains(lines[k - 1], "*/")
      last == Last_(lines) + 1
      unended == IF ~open[last] THEN last
                 ELSE Max({k \in DOMAIN lines : ~open[k] /\ open[k + 1]})
  IN Working /\ Tidy(lines) =>
       \A k \in DOMAIN lines :
         clean.raw[k] = IF k < unended /\ (open[k] \/ open[k + 1])
                        THEN DUMMY ELSE lines[k]

\* The code rules see nothing of what stands in strings and comments, and all
\* of what stands beside them.
TextIsOpaque == StringsOpaque /\ CommentLinesGone

-----------------------------------------------------------------------------
(* Liveness.                                                               *)

\* No condition ends that has not begun, in text that is not assembly; no braces
\* with a semicolon behind them come before all other code; and no level of
\* verbosity is asked for that there is not.
WellFormed ==
  /\ NoAsm /\ SameConditions /\ cpplint.verbose_level >= 0
  /\ Balanced(LastLine)
  /\ ~\E k \in DOMAIN Lines :
       Initializer(Lines[k]) /\ \A j \in 0 .. k - 1 : IsBlankLine(Lines[j])

\* ProcessFileData: a file of this kind is worked through to its end, and the
\* next one is taken up or the program exits.
Completes ==
  (status = "line" /\ n = 0 /\ WellFormed) ~> (status = "file")
=============================================================================

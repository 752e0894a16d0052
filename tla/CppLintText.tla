---------------------------- MODULE CppLintText ----------------------------
(***************************************************************************)
(* The text functions of common/tools/cpplint.py: strings and comments     *)
(* are taken out of lines, and brackets matched, within a line and across  *)
(* lines.                                                                  *)
(*                                                                         *)
(* A line is a sequence of tokens.  A token is a bracket, a mark, a word,  *)
(* or a piece of text that one of cpplint's patterns finds.  White space   *)
(* between tokens is left out; the token IND in front of a line stands for *)
(* its indentation.  The lines of a file are a function on 0 .. last, so   *)
(* that a line has the number cpplint gives it: 0 and last are the markers *)
(* that ProcessFileData puts around the text.                              *)
(***************************************************************************)
EXTENDS Integers, SequencesExt

IsSeq(s) == s \in Seq(Range(s))
IsText(lines) == IsSeq(lines) /\ \A k \in DOMAIN lines : IsSeq(lines[k])

QUOTE == "\""          \* one that starts or ends a string
ESCAPED == "\\\""      \* one within a string, behind a backslash
IND == "_"

Last_(lines) == Max(DOMAIN lines)
Before(line, i) == SubSeq(line, 1, i - 1)
After(line, i) == SubSeq(line, i + 1, Len(line))
Count(line, t) == Cardinality({i \in DOMAIN line : line[i] = t})
Find(line, t) == SelectInSeq(line, LAMBDA u : u = t)
AnyOf(line, T) == ToSet(line) \cap T # {}
Indented(line) == line # <<>> /\ Head(line) = IND
Strip(line) == IF Indented(line) THEN Tail(line) ELSE line
RStrip(line) == IF line = <<IND>> THEN <<>> ELSE line
Starts(line, T) == line # <<>> /\ Head(line) \in T
EndsIn(line, T) == line # <<>> /\ Last(line) \in T
IsBlankLine(line) == Strip(line) = <<>>
FirstOf(S, none) == IF S = {} THEN none ELSE Min(S)
InOrder(S) == [i \in 1 .. Cardinality(S) |->
                 CHOOSE x \in S : Cardinality({y \in S : y <= x}) = i]
Picked(seq, S) == [i \in 1 .. Cardinality(S) |-> seq[InOrder(S)[i]]]

-----------------------------------------------------------------------------
(* Strings and comments.                                                   *)

\* An escaped quote and the character '"' are tokens of their own, which the
\* code subtracts from the quotes it counts.
IsCppString(line) == Count(line, QUOTE) % 2 = 1

\* Only the first // is looked at, and what lies between the first /* and the
\* last */ goes, as the pattern is greedy.
CleanseComments(line) ==
  LET pos == Find(line, "//")
      code == IF pos > 0 /\ ~IsCppString(Before(line, pos))
              THEN RStrip(Before(line, pos)) ELSE line
      open == Find(code, "/*")
      close == SelectLastInSeq(code, LAMBDA u : u = "*/")
  IN IF open > 0 /\ close > open
     THEN RStrip(Before(code, open) \o After(code, close)) ELSE code

\* _RE_PATTERN_INCLUDE: behind the name there is a > or a quote, be it a part of
\* another token.
EndsName == {">", ">=", ">>", "->", QUOTE, ESCAPED}
IsIncludeLine(line) ==
  LET s == Strip(line) IN
  /\ Len(s) >= 3 /\ s[1] = "#include" /\ s[2] \in {"<", QUOTE}
  /\ \E i \in 3 .. Len(s) : s[i] \in EndsName

\* Mutant: the strings behind the first one are left.
InString_First(line, i) ==
  Count(Before(line, i), QUOTE) = 1 /\ line[i] # QUOTE
  /\ Contains(After(line, i), QUOTE)

\* Between the first and the second quote, the third and the fourth, ...
InString(line, i) ==
  /\ line[i] # QUOTE
  /\ IsCppString(Before(line, i))
  /\ Contains(After(line, i), QUOTE)

_CollapseStrings(line) ==
  IF IsIncludeLine(line) THEN line
  ELSE LET plain == Picked(line, {i \in DOMAIN line : line[i] # ESCAPED})
       IN Picked(plain, {i \in DOMAIN plain : ~InString(plain, i)})

\* The members lines and elided of CleansedLines.
CleansedLines(raw) == [n \in DOMAIN raw |-> CleanseComments(raw[n])]
Elided(raw) == [n \in DOMAIN raw |-> CleanseComments(_CollapseStrings(raw[n]))]

-----------------------------------------------------------------------------
(* Comments of several lines.                                              *)

OpensComment(line) ==
  Starts(Strip(line), {"/*"}) /\ ~Contains(Strip(line), "*/")

FindNextMultiLineCommentStart(lines, n) ==
  FirstOf({k \in DOMAIN lines : k >= n /\ OpensComment(lines[k])},
          Last_(lines) + 1)

\* A comment ends where it is the last thing on its line.
FindNextMultiLineCommentEnd(lines, n) ==
  FirstOf({k \in DOMAIN lines : k >= n /\ EndsIn(lines[k], {"*/"})},
          Last_(lines) + 1)

DUMMY == <<"//", "dummy">>
RemoveMultiLineCommentsFromRange(lines, range) ==
  [k \in DOMAIN lines |-> IF k \in range THEN DUMMY ELSE lines[k]]

\* What is left, and the line of the error when a comment has no end, -1 when
\* all have.  That line is one more than where the comment starts.
RemoveMultiLineComments(lines) ==
  LET from[n \in Nat] ==      \* from line n on
        LET begin == FindNextMultiLineCommentStart(lines, n)
            end == FindNextMultiLineCommentEnd(lines, begin)
        IN CASE begin > Last_(lines) -> [gone |-> {}, error |-> -1]
             [] begin <= Last_(lines) /\ end > Last_(lines) ->
               [gone |-> {}, error |-> begin + 1]
             [] OTHER -> [gone |-> from[end + 1].gone \cup (begin .. end),
                          error |-> from[end + 1].error]
  IN [lines |-> RemoveMultiLineCommentsFromRange(lines, from[0].gone),
      error |-> from[0].error]

-----------------------------------------------------------------------------
(* Matching brackets.  The lines are elided.                               *)

CLOSER == [c \in {"(", "[", "{"} |->
             CASE c = "(" -> ")" [] c = "[" -> "]" [] c = "{" -> "}"]
Net(line, open) == Count(line, open) - Count(line, CLOSER[open])

\* The first closing token, from pos on, that brings the depth to 0; 0 when
\* there is none.
FindEndOfExpressionInLine(line, pos, depth, open) ==
  FirstOf({i \in pos .. Len(line) :
             /\ line[i] = CLOSER[open]
             /\ depth + Net(SubSeq(line, pos, i), open) = 0}, 0)

\* Mutant: the depth at the start of the last line is left out.
CloseExpression_Shallow(lines, n, pos) ==
  LET open == lines[n][pos]
      first == FindEndOfExpressionInLine(lines[n], pos, 0, open)
      num_open[k \in n .. Last_(lines)] ==
        IF k = n THEN Net(SubSeq(lines[n], pos, Len(lines[n])), open)
        ELSE num_open[k - 1] + Net(lines[k], open)
      end == FirstOf({k \in n + 1 .. Last_(lines) : num_open[k] <= 0}, -1)
  IN CASE first > 0 -> [line |-> n, pos |-> first]
       [] first = 0 /\ end >= 0 ->
            [line |-> end, pos |->
               FindEndOfExpressionInLine(lines[end], 1, 1, open)]
       [] OTHER -> [line |-> Last_(lines), pos |-> 0]

\* For the bracket at pos of line n: the closing bracket, or the last line and
\* position 0.  Past the first line whole lines are counted, and the search
\* stops at the first line that leaves nothing open.
CloseExpression(lines, n, pos) ==
  LET open == lines[n][pos]
      first == FindEndOfExpressionInLine(lines[n], pos, 0, open)
      num_open[k \in n .. Last_(lines)] ==
        IF k = n THEN Net(SubSeq(lines[n], pos, Len(lines[n])), open)
        ELSE num_open[k - 1] + Net(lines[k], open)
      end == FirstOf({k \in n + 1 .. Last_(lines) : num_open[k] <= 0}, -1)
  IN CASE open \notin DOMAIN CLOSER -> [line |-> Last_(lines), pos |-> 0]
       [] open \in DOMAIN CLOSER /\ first > 0 -> [line |-> n, pos |-> first]
       [] open \in DOMAIN CLOSER /\ first = 0 /\ end >= 0 ->
            [line |-> end, pos |->
               FindEndOfExpressionInLine(lines[end], 1, num_open[end - 1], open)]
       [] OTHER -> [line |-> Last_(lines), pos |-> 0]

\* A run over the operators of a text: the brackets that are open, the
\* innermost last, and the verdict once there is one.
Undecided(stack) == [stack |-> stack, verdict |-> "none"]
Decided(verdict) == [stack |-> <<>>, verdict |-> verdict]
Push(run, t) == Undecided(Append(run.stack, t))
Pop(run) == Undecided(Front(run.stack))

\* Whether a > closes the < that stands before text: text is the rest of its
\* line and all lines that follow.  A comma or the end of the text is taken
\* for one.
FindNextMatchingAngleBracket(text) ==
  LET step(run, t) ==
        IF run.verdict # "none" THEN run ELSE
        CASE t \in {"<", "(", "["} -> Push(run, t)
          [] Last(run.stack) = "<" /\ t = ">" ->
               IF Len(run.stack) = 1 THEN Decided("yes") ELSE Pop(run)
          [] Last(run.stack) = "<" /\ t = "," -> Decided("yes")
          [] Last(run.stack) = "<" /\ t \in {")", "]", ";"} -> Decided("no")
          [] Last(run.stack) # "<" /\ t \in {")", "]"} -> Pop(run)
          [] OTHER -> run
  IN FoldLeft(step, Undecided(<<"<">>), text).verdict # "no"

\* Whether a < opens the > that stands behind text: all lines before its own
\* and the start of its line.  A comma is taken for one, the start of the text
\* is not.
FindPreviousMatchingAngleBracket(text) ==
  LET step(run, t) ==
        IF run.verdict # "none" THEN run ELSE
        CASE t \in {">", ")", "]"} -> Push(run, t)
          [] Last(run.stack) = ">" /\ t = "<" ->
               IF Len(run.stack) = 1 THEN Decided("yes") ELSE Pop(run)
          [] Last(run.stack) = ">" /\ t = "," -> Decided("yes")
          [] Last(run.stack) = ">" /\ t \in {"(", "[", ";"} -> Decided("no")
          [] Last(run.stack) # ">" /\ t \in {"(", "["} -> Pop(run)
          [] OTHER -> run
  IN FoldLeft(step, Undecided(<<">">>), Reverse(text)).verdict = "yes"

\* What stands between the bracket at i and the one that closes it, if brackets
\* match and one closes it: a sequence of one text or of none.
_GetTextInside(line, i) ==
  LET step(run, j) ==
        LET t == line[j] IN
        IF run.verdict # "none" THEN run ELSE
        CASE t = Last(run.stack) ->
               IF Len(run.stack) = 1
               THEN [stack |-> <<>>, verdict |-> "closed", at |-> j]
               ELSE [run EXCEPT !.stack = Front(@)]
          [] t # Last(run.stack) /\ t \in {")", "]", "}"} ->
               [run EXCEPT !.verdict = "mismatch"]
          [] t \in DOMAIN CLOSER ->
               [run EXCEPT !.stack = Append(@, CLOSER[t])]
          [] OTHER -> run
      end == FoldLeft(step,
               [stack |-> <<CLOSER[line[i]]>>, verdict |-> "none", at |-> 0],
               [k \in 1 .. Len(line) - i |-> i + k])
  IN IF end.verdict = "closed" THEN <<SubSeq(line, i + 1, end.at - 1)>> ELSE <<>>
=============================================================================

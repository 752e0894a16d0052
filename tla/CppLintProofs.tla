---------------------------- MODULE CppLintProofs ----------------------------
(***************************************************************************)
(* Theorems about cpplint.py, for all files, commands, lines, categories,  *)
(* patterns and verbosities: the types, the counts that the end of a run   *)
(* prints, NOLINT, that no error is lost, that the rules for code see      *)
(* nothing of strings and comments, and the order of includes.             *)
(*                                                                         *)
(* A rule is looked at once, for where it may report and what: on the line *)
(* it is given, with a known category and a confidence of 0 .. 5 (Found),  *)
(* with three exceptions (FoundOn, SomeFound, Guards).  Error is looked at *)
(* once, for what a report adds to the log (Reports).  LogOK then holds    *)
(* from one report to the next: errors are logged with their type and past *)
(* the filters, they are counted, and none of the file at hand is on a     *)
(* line that a NOLINT covers, but for those of the Early categories.  For  *)
(* the last, the NOLINT of a line has to be read before any other rule     *)
(* reports there (ReadTo).                                                 *)
(*                                                                         *)
(* What the rules see of the text (TextIsOpaque) is about two searches:    *)
(* for the comments of several lines (CommentsTakenOut) and for what is    *)
(* within quotes (StringsAreOpaque).                                       *)
(*                                                                         *)
(* The order of includes is kept branch by branch (ScopeOK): the section   *)
(* of a scope says which kinds of headers its branch has had (SectionIs),  *)
(* so that one more header is told late where it is late (SectionGrows,    *)
(* ScopeGrows).  No other rule reports in that category, at any line, as   *)
(* what each rule may report tells (FoundSays, GuardSays, ParseSays).      *)
(***************************************************************************)
EXTENDS CppLintChecks, Inductions, SequenceTheorems, FunctionTheorems

-----------------------------------------------------------------------------
(* Folds: FoldLeft as a function on the indices that are left, and as the  *)
(* results one after the other.                                            *)

\* What the searches for brackets do with one token.
Nest(kinds, stack, t) ==
  CASE t \in kinds -> Append(stack, Pair[t])
    [] t \in {Pair[c] : c \in kinds} ->
         IF stack # <<>> /\ Last(stack) = t THEN Front_(stack)
         ELSE <<"mismatch">> \o stack
    [] OTHER -> stack
NextStep(run, t) ==
  IF run.verdict # "none" THEN run ELSE
  CASE t \in {"<", "(", "["} -> Push(run, t)
    [] Last(run.stack) = "<" /\ t = ">" ->
         IF Len(run.stack) = 1 THEN Decided("yes") ELSE Pop(run)
    [] Last(run.stack) = "<" /\ t = "," -> Decided("yes")
    [] Last(run.stack) = "<" /\ t \in {")", "]", ";"} -> Decided("no")
    [] Last(run.stack) # "<" /\ t \in {")", "]"} -> Pop(run)
    [] OTHER -> run
PreviousStep(run, t) ==
  IF run.verdict # "none" THEN run ELSE
  CASE t \in {">", ")", "]"} -> Push(run, t)
    [] Last(run.stack) = ">" /\ t = "<" ->
         IF Len(run.stack) = 1 THEN Decided("yes") ELSE Pop(run)
    [] Last(run.stack) = ">" /\ t = "," -> Decided("yes")
    [] Last(run.stack) = ">" /\ t \in {"(", "[", ";"} -> Decided("no")
    [] Last(run.stack) # ">" /\ t \in {"(", "["} -> Pop(run)
    [] OTHER -> run
InsideStep(line, run, j) ==
  LET t == line[j] IN
  IF run.verdict # "none" THEN run ELSE
  CASE t = Last(run.stack) ->
         IF Len(run.stack) = 1
         THEN [stack |-> <<>>, verdict |-> "closed", at |-> j]
         ELSE [run EXCEPT !.stack = Front(@)]
    [] t # Last(run.stack) /\ t \in {")", "]", "}"} ->
         [run EXCEPT !.verdict = "mismatch"]
    [] t \in DOMAIN CLOSER ->
         [run EXCEPT !.stack = Append(@, CLOSER[t])]
    [] OTHER -> run

\* What the loops over a sequence do with one element e.  The lemmas on folds
\* are about any of them.
Fold(loop, p, acc, e) ==
  CASE loop = "errors" -> Error(acc, e)
    [] loop = "guard" -> GuardError(acc, p, e)
    [] loop = "global" -> GlobalNolint(acc, p, e)
    [] loop = "options" -> ParseOption(acc, e)
    [] loop = "nested" -> Nest(p, acc, e)
    [] loop = "next" -> NextStep(acc, e)
    [] loop = "previous" -> PreviousStep(acc, e)
    [] loop = "inside" -> InsideStep(p, acc, e)
    [] loop = "blocks" -> BlocksAfter(acc, p.raw, p.lines, e)
    [] OTHER -> Brace(acc, p.text, e, p.raw, p.n)

\* g folds s over every set of indices among the first len.
Folds(g, loop, p, base, s, len) ==
  g = [S \in SUBSET (1 .. len) |->
         IF S = {} THEN base ELSE Fold(loop, p, g[S \ {Max(S)}], s[Max(S)])]

LEMMA FoldExists ==
  ASSUME NEW loop, NEW p, NEW base, NEW s, NEW len \in Nat
  PROVE  \E g : Folds(g, loop, p, base, s, len)
<1> DEFINE N == {m \in Nat : \E g : Folds(g, loop, p, base, s, m)}
<1>1. 0 \in N
  <2> DEFINE g == [S \in SUBSET (1 .. 0) |-> base]
  <2>1. \A S \in SUBSET (1 .. 0) : S = {}
    OBVIOUS
  <2>2. Folds(g, loop, p, base, s, 0)
    BY <2>1 DEF Folds
  <2>3. QED
    BY <2>2
<1>2. ASSUME NEW m \in Nat, m \in N PROVE m + 1 \in N
  <2>1. PICK g : Folds(g, loop, p, base, s, m)
    BY <1>2
  <2> DEFINE h == [S \in SUBSET (1 .. m + 1) |->
                     IF m + 1 \in S THEN Fold(loop, p, g[S \ {m + 1}], s[m + 1]) ELSE g[S]]
  <2>2. ASSUME NEW S \in SUBSET (1 .. m + 1)
        PROVE  h[S] = IF S = {} THEN base ELSE Fold(loop, p, h[S \ {Max(S)}], s[Max(S)])
    <3>1. CASE m + 1 \in S
      <4>1. Max(S) = m + 1
        BY <3>1, MaxOf
      <4>2. S \ {m + 1} \in SUBSET (1 .. m + 1) /\ m + 1 \notin S \ {m + 1}
        OBVIOUS
      <4>3. h[S \ {m + 1}] = g[S \ {m + 1}]
        BY <4>2
      <4>4. h[S] = Fold(loop, p, g[S \ {m + 1}], s[m + 1])
        BY <3>1
      <4>5. QED
        BY <3>1, <4>1, <4>3, <4>4
    <3>2. CASE m + 1 \notin S
      <4>1. S \in SUBSET (1 .. m)
        BY <3>2
      <4>2. h[S] = g[S]
        BY <3>2
      <4>3. g[S] = IF S = {} THEN base ELSE Fold(loop, p, g[S \ {Max(S)}], s[Max(S)])
        BY <2>1, <4>1 DEF Folds
      <4>4. h[S \ {Max(S)}] = g[S \ {Max(S)}]
        BY <3>2
      <4>5. QED
        BY <4>2, <4>3, <4>4
    <3>3. QED
      BY <3>1, <3>2
  <2>3. Folds(h, loop, p, base, s, m + 1)
    <3> DEFINE k == [S \in SUBSET (1 .. m + 1) |->
                       IF S = {} THEN base ELSE Fold(loop, p, h[S \ {Max(S)}], s[Max(S)])]
    <3>1. h = k
      BY <2>2
    <3> HIDE DEF h
    <3>2. QED
      BY <3>1 DEF Folds
  <2>4. \E f : Folds(f, loop, p, base, s, m + 1)
    <3> HIDE DEF h
    <3>1. QED
      BY <2>3
  <2>5. QED
    BY <2>4
<1>3. Nat \subseteq N
  <2> HIDE DEF N
  <2>1. QED
    BY <1>1, <1>2, NatSetInduction
<1>4. QED
  BY <1>3

\* The fold goes through s from the front.
Runs(g, loop, p, base, s, len) ==
  /\ g[1 .. 0] = base
  /\ \A i \in 1 .. len : g[1 .. i] = Fold(loop, p, g[1 .. i - 1], s[i])

LEMMA FoldRuns ==
  ASSUME NEW loop, NEW p, NEW base, NEW s, NEW len \in Nat,
         NEW g, Folds(g, loop, p, base, s, len)
  PROVE  Runs(g, loop, p, base, s, len)
<1>1. \A S \in SUBSET (1 .. len) :
        g[S] = IF S = {} THEN base ELSE Fold(loop, p, g[S \ {Max(S)}], s[Max(S)])
  BY DEF Folds
<1>2. 1 .. 0 = {} /\ {} \in SUBSET (1 .. len)
  OBVIOUS
<1>3. ASSUME NEW i \in 1 .. len PROVE g[1 .. i] = Fold(loop, p, g[1 .. i - 1], s[i])
  <2>1. 1 .. i \in SUBSET (1 .. len) /\ i \in 1 .. i /\ i \in Nat /\ 1 .. i \in SUBSET (1 .. i)
    OBVIOUS
  <2>2. Max(1 .. i) = i
    BY <2>1, MaxOf
  <2>3. (1 .. i) \ {i} = 1 .. i - 1
    OBVIOUS
  <2>4. QED
    BY <1>1, <2>1, <2>2, <2>3
<1>4. QED
  BY <1>1, <1>2, <1>3 DEF Runs

-----------------------------------------------------------------------------
(* The loops of cpplint.py as folds.                                       *)

\* The results one after the other.
IndicesOf(text) == [i \in DOMAIN text |-> i]
NoErrors(stack) == [stack |-> stack, errors |-> <<>>]
LineNumbers(lines) == [i \in 1 .. Last_(lines) + 1 |-> i - 1]
GlobalEnd(log, lines) ==
  FoldLeft(LAMBDA acc, k : GlobalNolint(acc, lines, k),
           [ended |-> FALSE, log |-> log], LineNumbers(lines))

Stepwise(loop, p, base, s, len, result) ==
  \E r : /\ r[0] = base /\ r[len] = result
         /\ \A i \in 1 .. len : r[i] = Fold(loop, p, r[i - 1], s[i])

LEMMA FoldSteps ==
  ASSUME NEW loop, NEW p, NEW base, NEW s, NEW len \in Nat,
         NEW g, Folds(g, loop, p, base, s, len)
  PROVE  Stepwise(loop, p, base, s, len, g[1 .. len])
<1> DEFINE r == [i \in 0 .. len |-> g[1 .. i]]
<1>1. /\ g[1 .. 0] = base
      /\ \A i \in 1 .. len : g[1 .. i] = Fold(loop, p, g[1 .. i - 1], s[i])
  <2>1. Runs(g, loop, p, base, s, len)
    BY FoldRuns
  <2>2. QED
    BY <2>1 DEF Runs
<1>2. \A i \in 0 .. len : r[i] = g[1 .. i]
  OBVIOUS
<1>3. 0 \in 0 .. len /\ len \in 0 .. len /\ \A i \in 1 .. len : i \in 0 .. len /\ i - 1 \in 0 .. len
  OBVIOUS
<1> HIDE DEF r
<1>4. \A i \in 1 .. len : r[i] = Fold(loop, p, r[i - 1], s[i])
  BY <1>1, <1>2, <1>3
<1>5. QED
  BY <1>1, <1>2, <1>3, <1>4 DEF Stepwise

\* Errors is the fold of its loop.
ErrorsFolds(g, log, errors) ==
  g = [S \in SUBSET DOMAIN errors |->
         IF S = {} THEN log ELSE Error(g[S \ {Max(S)}], errors[Max(S)])]

LEMMA ErrorsUnfold ==
  ASSUME NEW log, NEW errors
  PROVE  Errors(log, errors) = (CHOOSE g : ErrorsFolds(g, log, errors))[DOMAIN errors]
  BY Zenon DEF Errors, FoldLeft, MapThenFoldSet, ErrorsFolds

ErrorsReach(log, errors, len) ==
  \E r : /\ r[0] = log
         /\ \A i \in 1 .. len : r[i] = Error(r[i - 1], errors[i])
         /\ Errors(log, errors) = r[len]

LEMMA ErrorsSteps ==
  ASSUME NEW log, NEW errors, NEW len \in Nat, DOMAIN errors = 1 .. len
  PROVE  ErrorsReach(log, errors, len)
<1> DEFINE c == CHOOSE g : ErrorsFolds(g, log, errors)
           p == <<>>
           base == log
<1>1. \A acc, e : Fold("errors", p, acc, e) = Error(acc, e)
  BY DEF Fold
<1>2. ASSUME NEW g PROVE ErrorsFolds(g, log, errors) <=> Folds(g, "errors", p, base, errors, len)
  <2> DEFINE x == [S \in SUBSET DOMAIN errors |->
                     IF S = {} THEN base ELSE Error(g[S \ {Max(S)}], errors[Max(S)])]
             y == [S \in SUBSET (1 .. len) |->
                     IF S = {} THEN base ELSE Fold("errors", p, g[S \ {Max(S)}], errors[Max(S)])]
  <2>1. ErrorsFolds(g, log, errors) <=> g = x
    BY DEF ErrorsFolds
  <2>2. Folds(g, "errors", p, base, errors, len) <=> g = y
    BY DEF Folds
  <2>3. \A S \in SUBSET (1 .. len) : x[S] = y[S]
    <3> HIDE DEF p, base
    <3>1. QED
      BY <1>1
  <2>4. x = y
    <3> HIDE DEF p, base
    <3>1. QED
      BY <2>3
  <2> HIDE DEF x, y
  <2>5. QED
    BY <2>1, <2>2, <2>4
<1> HIDE DEF p, base
<1>3. \E g : Folds(g, "errors", p, base, errors, len)
  BY FoldExists
<1>4. \E g : ErrorsFolds(g, log, errors)
  BY <1>2, <1>3
<1>5. ErrorsFolds(c, log, errors)
  <2> DEFINE P(g) == ErrorsFolds(g, log, errors)
  <2>1. \E g : P(g)
    BY <1>4
  <2> HIDE DEF P
  <2>2. P(CHOOSE g : P(g))
    BY <2>1, Zenon
  <2>3. QED
    BY <2>2 DEF P
<1>6. Errors(log, errors) = c[1 .. len]
  BY ErrorsUnfold
<1> HIDE DEF c
<1>12. Folds(c, "errors", p, base, errors, len)
  BY <1>2, <1>5
<1>13. Stepwise("errors", p, base, errors, len, c[1 .. len])
  BY <1>12, FoldSteps
<1>7. PICK r : /\ r[0] = base /\ r[len] = c[1 .. len]
               /\ \A i \in 1 .. len : r[i] = Fold("errors", p, r[i - 1], errors[i])
  BY <1>13, Zenon DEF Stepwise
<1>8. \A i \in 1 .. len : r[i] = Error(r[i - 1], errors[i])
  BY <1>1, <1>7, Zenon
<1>9. Errors(log, errors) = r[len]
  BY <1>6, <1>7
<1>10. r[0] = log
  BY <1>7 DEF base
<1>11. QED
  BY <1>8, <1>9, <1>10 DEF ErrorsReach

\* Guard is the fold of its loop.
GuardFolds(g, log, raw, errors) ==
  g = [S \in SUBSET DOMAIN errors |->
         IF S = {} THEN log ELSE GuardError(g[S \ {Max(S)}], raw, errors[Max(S)])]

LEMMA GuardUnfold ==
  ASSUME NEW log, NEW raw, NEW errors
  PROVE  GuardErrors(log, raw, errors) = (CHOOSE g : GuardFolds(g, log, raw, errors))[DOMAIN errors]
  BY Zenon DEF GuardErrors, FoldLeft, MapThenFoldSet, GuardFolds

GuardReach(log, raw, errors, len) ==
  \E r : /\ r[0] = log
         /\ \A i \in 1 .. len : r[i] = GuardError(r[i - 1], raw, errors[i])
         /\ GuardErrors(log, raw, errors) = r[len]

LEMMA GuardSteps ==
  ASSUME NEW log, NEW raw, NEW errors, NEW len \in Nat, DOMAIN errors = 1 .. len
  PROVE  GuardReach(log, raw, errors, len)
<1> DEFINE c == CHOOSE g : GuardFolds(g, log, raw, errors)
           p == raw
           base == log
<1>1. \A acc, e : Fold("guard", p, acc, e) = GuardError(acc, raw, e)
  BY DEF Fold
<1>2. ASSUME NEW g PROVE GuardFolds(g, log, raw, errors) <=> Folds(g, "guard", p, base, errors, len)
  <2> DEFINE x == [S \in SUBSET DOMAIN errors |->
                     IF S = {} THEN base ELSE GuardError(g[S \ {Max(S)}], raw, errors[Max(S)])]
             y == [S \in SUBSET (1 .. len) |->
                     IF S = {} THEN base ELSE Fold("guard", p, g[S \ {Max(S)}], errors[Max(S)])]
  <2>1. GuardFolds(g, log, raw, errors) <=> g = x
    BY DEF GuardFolds
  <2>2. Folds(g, "guard", p, base, errors, len) <=> g = y
    BY DEF Folds
  <2>3. \A S \in SUBSET (1 .. len) : x[S] = y[S]
    <3> HIDE DEF p, base
    <3>1. QED
      BY <1>1
  <2>4. x = y
    <3> HIDE DEF p, base
    <3>1. QED
      BY <2>3
  <2> HIDE DEF x, y
  <2>5. QED
    BY <2>1, <2>2, <2>4
<1> HIDE DEF p, base
<1>3. \E g : Folds(g, "guard", p, base, errors, len)
  BY FoldExists
<1>4. \E g : GuardFolds(g, log, raw, errors)
  BY <1>2, <1>3
<1>5. GuardFolds(c, log, raw, errors)
  <2> DEFINE P(g) == GuardFolds(g, log, raw, errors)
  <2>1. \E g : P(g)
    BY <1>4
  <2> HIDE DEF P
  <2>2. P(CHOOSE g : P(g))
    BY <2>1, Zenon
  <2>3. QED
    BY <2>2 DEF P
<1>6. GuardErrors(log, raw, errors) = c[1 .. len]
  BY GuardUnfold
<1> HIDE DEF c
<1>12. Folds(c, "guard", p, base, errors, len)
  BY <1>2, <1>5
<1>13. Stepwise("guard", p, base, errors, len, c[1 .. len])
  BY <1>12, FoldSteps
<1>7. PICK r : /\ r[0] = base /\ r[len] = c[1 .. len]
               /\ \A i \in 1 .. len : r[i] = Fold("guard", p, r[i - 1], errors[i])
  BY <1>13, Zenon DEF Stepwise
<1>8. \A i \in 1 .. len : r[i] = GuardError(r[i - 1], raw, errors[i])
  BY <1>1, <1>7, Zenon
<1>9. GuardErrors(log, raw, errors) = r[len]
  BY <1>6, <1>7
<1>10. r[0] = log
  BY <1>7 DEF base
<1>11. QED
  BY <1>8, <1>9, <1>10 DEF GuardReach

\* Options is the fold of its loop.
OptionsFolds(g, opts) ==
  g = [S \in SUBSET DOMAIN opts |->
         IF S = {} THEN NoOptions ELSE ParseOption(g[S \ {Max(S)}], opts[Max(S)])]

LEMMA OptionsUnfold ==
  ASSUME NEW opts
  PROVE  ParseOptions(opts) = (CHOOSE g : OptionsFolds(g, opts))[DOMAIN opts]
  BY Zenon DEF ParseOptions, FoldLeft, MapThenFoldSet, OptionsFolds

OptionsReach(opts, len) ==
  \E r : /\ r[0] = NoOptions
         /\ \A i \in 1 .. len : r[i] = ParseOption(r[i - 1], opts[i])
         /\ ParseOptions(opts) = r[len]

LEMMA OptionsSteps ==
  ASSUME NEW opts, NEW len \in Nat, DOMAIN opts = 1 .. len
  PROVE  OptionsReach(opts, len)
<1> DEFINE c == CHOOSE g : OptionsFolds(g, opts)
           p == <<>>
           base == NoOptions
<1>1. \A acc, e : Fold("options", p, acc, e) = ParseOption(acc, e)
  BY DEF Fold
<1>2. ASSUME NEW g PROVE OptionsFolds(g, opts) <=> Folds(g, "options", p, base, opts, len)
  <2> DEFINE x == [S \in SUBSET DOMAIN opts |->
                     IF S = {} THEN base ELSE ParseOption(g[S \ {Max(S)}], opts[Max(S)])]
             y == [S \in SUBSET (1 .. len) |->
                     IF S = {} THEN base ELSE Fold("options", p, g[S \ {Max(S)}], opts[Max(S)])]
  <2>1. OptionsFolds(g, opts) <=> g = x
    BY DEF OptionsFolds
  <2>2. Folds(g, "options", p, base, opts, len) <=> g = y
    BY DEF Folds
  <2>3. \A S \in SUBSET (1 .. len) : x[S] = y[S]
    <3> HIDE DEF p, base
    <3>1. QED
      BY <1>1
  <2>4. x = y
    <3> HIDE DEF p, base
    <3>1. QED
      BY <2>3
  <2> HIDE DEF x, y
  <2>5. QED
    BY <2>1, <2>2, <2>4
<1> HIDE DEF p, base
<1>3. \E g : Folds(g, "options", p, base, opts, len)
  BY FoldExists
<1>4. \E g : OptionsFolds(g, opts)
  BY <1>2, <1>3
<1>5. OptionsFolds(c, opts)
  <2> DEFINE P(g) == OptionsFolds(g, opts)
  <2>1. \E g : P(g)
    BY <1>4
  <2> HIDE DEF P
  <2>2. P(CHOOSE g : P(g))
    BY <2>1, Zenon
  <2>3. QED
    BY <2>2 DEF P
<1>6. ParseOptions(opts) = c[1 .. len]
  BY OptionsUnfold
<1> HIDE DEF c
<1>12. Folds(c, "options", p, base, opts, len)
  BY <1>2, <1>5
<1>13. Stepwise("options", p, base, opts, len, c[1 .. len])
  BY <1>12, FoldSteps
<1>7. PICK r : /\ r[0] = base /\ r[len] = c[1 .. len]
               /\ \A i \in 1 .. len : r[i] = Fold("options", p, r[i - 1], opts[i])
  BY <1>13, Zenon DEF Stepwise
<1>8. \A i \in 1 .. len : r[i] = ParseOption(r[i - 1], opts[i])
  BY <1>1, <1>7, Zenon
<1>9. ParseOptions(opts) = r[len]
  BY <1>6, <1>7
<1>10. r[0] = NoOptions
  BY <1>7 DEF base
<1>11. QED
  BY <1>8, <1>9, <1>10 DEF OptionsReach

\* Brace is the fold of its loop.
BraceFolds(g, stack, text, raw, k) ==
  g = [S \in SUBSET DOMAIN IndicesOf(text) |->
         IF S = {} THEN NoErrors(stack) ELSE Brace(g[S \ {Max(S)}], text, IndicesOf(text)[Max(S)], raw, k)]

LEMMA BraceUnfold ==
  ASSUME NEW stack, NEW text, NEW raw, NEW k
  PROVE  Braces(stack, text, raw, k) = (CHOOSE g : BraceFolds(g, stack, text, raw, k))[DOMAIN IndicesOf(text)]
  BY Zenon DEF Braces, FoldLeftDomain, IndicesOf, NoErrors, FoldLeft, MapThenFoldSet, BraceFolds

BraceReach(stack, text, raw, k, len) ==
  \E r : /\ r[0] = NoErrors(stack)
         /\ \A i \in 1 .. len : r[i] = Brace(r[i - 1], text, IndicesOf(text)[i], raw, k)
         /\ Braces(stack, text, raw, k) = r[len]

LEMMA BraceSteps ==
  ASSUME NEW stack, NEW text, NEW raw, NEW k, NEW len \in Nat, DOMAIN IndicesOf(text) = 1 .. len
  PROVE  BraceReach(stack, text, raw, k, len)
<1> DEFINE c == CHOOSE g : BraceFolds(g, stack, text, raw, k)
           p == [text |-> text, raw |-> raw, n |-> k]
           base == NoErrors(stack)
<1>1. \A acc, e : Fold("brace", p, acc, e) = Brace(acc, text, e, raw, k)
  BY DEF Fold
<1>2. ASSUME NEW g PROVE BraceFolds(g, stack, text, raw, k) <=> Folds(g, "brace", p, base, IndicesOf(text), len)
  <2> DEFINE x == [S \in SUBSET DOMAIN IndicesOf(text) |->
                     IF S = {} THEN base ELSE Brace(g[S \ {Max(S)}], text, IndicesOf(text)[Max(S)], raw, k)]
             y == [S \in SUBSET (1 .. len) |->
                     IF S = {} THEN base ELSE Fold("brace", p, g[S \ {Max(S)}], IndicesOf(text)[Max(S)])]
  <2>1. BraceFolds(g, stack, text, raw, k) <=> g = x
    BY DEF BraceFolds
  <2>2. Folds(g, "brace", p, base, IndicesOf(text), len) <=> g = y
    BY DEF Folds
  <2>3. \A S \in SUBSET (1 .. len) : x[S] = y[S]
    <3> HIDE DEF p, base
    <3>1. QED
      BY <1>1
  <2>4. x = y
    <3> HIDE DEF p, base
    <3>1. QED
      BY <2>3
  <2> HIDE DEF x, y
  <2>5. QED
    BY <2>1, <2>2, <2>4
<1> HIDE DEF p, base
<1>3. \E g : Folds(g, "brace", p, base, IndicesOf(text), len)
  BY FoldExists
<1>4. \E g : BraceFolds(g, stack, text, raw, k)
  BY <1>2, <1>3
<1>5. BraceFolds(c, stack, text, raw, k)
  <2> DEFINE P(g) == BraceFolds(g, stack, text, raw, k)
  <2>1. \E g : P(g)
    BY <1>4
  <2> HIDE DEF P
  <2>2. P(CHOOSE g : P(g))
    BY <2>1, Zenon
  <2>3. QED
    BY <2>2 DEF P
<1>6. Braces(stack, text, raw, k) = c[1 .. len]
  BY BraceUnfold
<1> HIDE DEF c
<1>12. Folds(c, "brace", p, base, IndicesOf(text), len)
  BY <1>2, <1>5
<1>13. Stepwise("brace", p, base, IndicesOf(text), len, c[1 .. len])
  BY <1>12, FoldSteps
<1>7. PICK r : /\ r[0] = base /\ r[len] = c[1 .. len]
               /\ \A i \in 1 .. len : r[i] = Fold("brace", p, r[i - 1], IndicesOf(text)[i])
  BY <1>13, Zenon DEF Stepwise
<1>8. \A i \in 1 .. len : r[i] = Brace(r[i - 1], text, IndicesOf(text)[i], raw, k)
  BY <1>1, <1>7, Zenon
<1>9. Braces(stack, text, raw, k) = r[len]
  BY <1>6, <1>7
<1>10. r[0] = NoErrors(stack)
  BY <1>7 DEF base
<1>11. QED
  BY <1>8, <1>9, <1>10 DEF BraceReach

\* Global is the fold of its loop.
GlobalFolds(g, log, lines) ==
  g = [S \in SUBSET DOMAIN LineNumbers(lines) |->
         IF S = {} THEN [ended |-> FALSE, log |-> log] ELSE GlobalNolint(g[S \ {Max(S)}], lines, LineNumbers(lines)[Max(S)])]

LEMMA GlobalUnfold ==
  ASSUME NEW log, NEW lines
  PROVE  GlobalEnd(log, lines) = (CHOOSE g : GlobalFolds(g, log, lines))[DOMAIN LineNumbers(lines)]
  BY Zenon DEF GlobalEnd, LineNumbers, FoldLeft, MapThenFoldSet, GlobalFolds

GlobalReach(log, lines, len) ==
  \E r : /\ r[0] = [ended |-> FALSE, log |-> log]
         /\ \A i \in 1 .. len : r[i] = GlobalNolint(r[i - 1], lines, LineNumbers(lines)[i])
         /\ GlobalEnd(log, lines) = r[len]

LEMMA GlobalSteps ==
  ASSUME NEW log, NEW lines, NEW len \in Nat, DOMAIN LineNumbers(lines) = 1 .. len
  PROVE  GlobalReach(log, lines, len)
<1> DEFINE c == CHOOSE g : GlobalFolds(g, log, lines)
           p == lines
           base == [ended |-> FALSE, log |-> log]
<1>1. \A acc, e : Fold("global", p, acc, e) = GlobalNolint(acc, lines, e)
  BY DEF Fold
<1>2. ASSUME NEW g PROVE GlobalFolds(g, log, lines) <=> Folds(g, "global", p, base, LineNumbers(lines), len)
  <2> DEFINE x == [S \in SUBSET DOMAIN LineNumbers(lines) |->
                     IF S = {} THEN base ELSE GlobalNolint(g[S \ {Max(S)}], lines, LineNumbers(lines)[Max(S)])]
             y == [S \in SUBSET (1 .. len) |->
                     IF S = {} THEN base ELSE Fold("global", p, g[S \ {Max(S)}], LineNumbers(lines)[Max(S)])]
  <2>1. GlobalFolds(g, log, lines) <=> g = x
    BY DEF GlobalFolds
  <2>2. Folds(g, "global", p, base, LineNumbers(lines), len) <=> g = y
    BY DEF Folds
  <2>3. \A S \in SUBSET (1 .. len) : x[S] = y[S]
    <3> HIDE DEF p, base
    <3>1. QED
      BY <1>1
  <2>4. x = y
    <3> HIDE DEF p, base
    <3>1. QED
      BY <2>3
  <2> HIDE DEF x, y
  <2>5. QED
    BY <2>1, <2>2, <2>4
<1> HIDE DEF p, base
<1>3. \E g : Folds(g, "global", p, base, LineNumbers(lines), len)
  BY FoldExists
<1>4. \E g : GlobalFolds(g, log, lines)
  BY <1>2, <1>3
<1>5. GlobalFolds(c, log, lines)
  <2> DEFINE P(g) == GlobalFolds(g, log, lines)
  <2>1. \E g : P(g)
    BY <1>4
  <2> HIDE DEF P
  <2>2. P(CHOOSE g : P(g))
    BY <2>1, Zenon
  <2>3. QED
    BY <2>2 DEF P
<1>6. GlobalEnd(log, lines) = c[1 .. len]
  BY GlobalUnfold
<1> HIDE DEF c
<1>12. Folds(c, "global", p, base, LineNumbers(lines), len)
  BY <1>2, <1>5
<1>13. Stepwise("global", p, base, LineNumbers(lines), len, c[1 .. len])
  BY <1>12, FoldSteps
<1>7. PICK r : /\ r[0] = base /\ r[len] = c[1 .. len]
               /\ \A i \in 1 .. len : r[i] = Fold("global", p, r[i - 1], LineNumbers(lines)[i])
  BY <1>13, Zenon DEF Stepwise
<1>8. \A i \in 1 .. len : r[i] = GlobalNolint(r[i - 1], lines, LineNumbers(lines)[i])
  BY <1>1, <1>7, Zenon
<1>9. GlobalEnd(log, lines) = r[len]
  BY <1>6, <1>7
<1>10. r[0] = [ended |-> FALSE, log |-> log]
  BY <1>7 DEF base
<1>11. QED
  BY <1>8, <1>9, <1>10 DEF GlobalReach

-----------------------------------------------------------------------------
(* Sequences: lines, parts of lines, and elements picked in order.         *)

LEMMA SeqOfAny ==
  ASSUME NEW S, NEW s \in Seq(S)
  PROVE  /\ IsSeq(s) /\ Len(s) \in Nat /\ DOMAIN s = 1 .. Len(s)
         /\ \A i \in 1 .. Len(s) : s[i] \in S
<1>1. Len(s) \in Nat /\ DOMAIN s = 1 .. Len(s) /\ s \in [1 .. Len(s) -> S]
  BY LenProperties
<1>2. s \in [1 .. Len(s) -> Range(s)]
  BY <1>1 DEF Range
<1>3. s \in Seq(Range(s))
  BY <1>1, <1>2
<1>4. QED
  BY <1>1, <1>3 DEF IsSeq

LEMMA IsSeqDomain ==
  ASSUME NEW s, IsSeq(s)
  PROVE  Len(s) \in Nat /\ DOMAIN s = 1 .. Len(s)
  BY LenProperties DEF IsSeq

\* A function on 1 .. k is a sequence.
LEMMA MadeSeq ==
  ASSUME NEW S, NEW k \in Nat, NEW s \in [1 .. k -> S]
  PROVE  s \in Seq(S) /\ IsSeq(s) /\ Len(s) = k
<1>1. s \in Seq(S)
  OBVIOUS
<1>2. Len(s) = k
  OBVIOUS
<1>3. QED
  BY <1>1, <1>2, SeqOfAny

LEMMA SubSeqAny ==
  ASSUME NEW s, NEW a \in Int, NEW b \in Int
  PROVE  /\ IsSeq(SubSeq(s, a, b))
         /\ Len(SubSeq(s, a, b)) = IF a <= b THEN b - a + 1 ELSE 0
         /\ \A i \in 1 .. b - a + 1 : SubSeq(s, a, b)[i] = s[a + i - 1]
<1> DEFINE S == {s[i] : i \in a .. b}
<1>1. \A i \in a .. b : s[i] \in S
  OBVIOUS
<1> HIDE DEF S
<1>2. SubSeq(s, a, b) \in Seq(S)
  BY <1>1, SubSeqProperties
<1>3. IsSeq(SubSeq(s, a, b))
  BY <1>2, SeqOfAny
<1>4. Len(SubSeq(s, a, b)) = IF a <= b THEN b - a + 1 ELSE 0
  BY <1>1, SubSeqProperties
<1>5. \A i \in 1 .. b - a + 1 : SubSeq(s, a, b)[i] = s[a + i - 1]
  BY <1>1, SubSeqProperties
<1>6. QED
  BY <1>3, <1>4, <1>5

LEMMA ConcatAny ==
  ASSUME NEW s, IsSeq(s), NEW t, IsSeq(t)
  PROVE  /\ IsSeq(s \o t) /\ Len(s) \in Nat /\ Len(t) \in Nat
         /\ Len(s \o t) = Len(s) + Len(t)
<1> DEFINE S == Range(s) \cup Range(t)
<1>1. s \in Seq(S) /\ t \in Seq(S)
  <2>1. s \in Seq(Range(s)) /\ t \in Seq(Range(t))
    BY DEF IsSeq
  <2>2. QED
    BY <2>1, SeqMonotonic
<1>2. s \o t \in Seq(S) /\ Len(s \o t) = Len(s) + Len(t)
  BY <1>1, ConcatProperties
<1>3. QED
  BY <1>1, <1>2, SeqOfAny

LEMMA AppendAny ==
  ASSUME NEW s, IsSeq(s), NEW e
  PROVE  /\ IsSeq(Append(s, e)) /\ Len(s) \in Nat /\ DOMAIN s = 1 .. Len(s)
         /\ Len(Append(s, e)) = Len(s) + 1
         /\ DOMAIN Append(s, e) = 1 .. Len(s) + 1
         /\ Append(s, e)[Len(s) + 1] = e
         /\ \A i \in 1 .. Len(s) : Append(s, e)[i] = s[i]
<1> DEFINE S == Range(s) \cup {e}
<1>1. s \in Seq(Range(s)) /\ e \in S /\ Range(s) \subseteq S
  BY DEF IsSeq
<1>2. s \in Seq(S)
  BY <1>1, SeqMonotonic
<1>3. /\ Append(s, e) \in Seq(S) /\ Len(Append(s, e)) = Len(s) + 1
      /\ \A i \in 1 .. Len(s) : Append(s, e)[i] = s[i]
      /\ Append(s, e)[Len(s) + 1] = e
  BY <1>1, <1>2, AppendProperties
<1>4. QED
  BY <1>2, <1>3, SeqOfAny

LEMMA SingleAny == ASSUME NEW e PROVE IsSeq(<<e>>) /\ Len(<<e>>) = 1 /\ DOMAIN <<e>> = 1 .. 1 /\ <<e>>[1] = e
<1>1. <<e>> \in Seq({e})
  OBVIOUS
<1>2. QED
  BY <1>1, SeqOfAny

LEMMA EmptyAny == IsSeq(<<>>) /\ Len(<<>>) = 0 /\ DOMAIN <<>> = 1 .. 0
<1>1. <<>> \in Seq({})
  OBVIOUS
<1>2. QED
  BY <1>1, SeqOfAny

LEMMA LeastOf ==
  ASSUME NEW S, S \subseteq Nat, S # {}
  PROVE  Min(S) \in S /\ \A x \in S : Min(S) <= x
<1>1. \E x \in S : \A y \in S : x <= y
  BY LeastNatural
<1>2. QED
  BY <1>1 DEF Min

LEMMA FindIn ==
  ASSUME NEW line, IsSeq(line), NEW t
  PROVE  Find(line, t) \in 0 .. Len(line) /\ (Find(line, t) > 0 => line[Find(line, t)] = t)
<1> DEFINE I == {i \in 1 .. Len(line) : line[i] = t}
<1>1. Len(line) \in Nat
  BY IsSeqDomain
<1>2. Find(line, t) = IF I # {} THEN Min(I) ELSE 0
  BY Zenon DEF Find, SelectInSeq
<1>3. I # {} => Min(I) \in I
  <2>1. I \subseteq Nat
    BY <1>1
  <2>2. QED
    BY <2>1, LeastOf
<1>4. QED
  BY <1>1, <1>2, <1>3

LEMMA LastIn ==
  ASSUME NEW len \in Nat, NEW I, I \subseteq 1 .. len
  PROVE  (IF I # {} THEN Max(I) ELSE 0) \in 0 .. len
<1>1. I # {} => Max(I) \in I
  <2>1. I \in SUBSET (1 .. len)
    OBVIOUS
  <2>2. QED
    BY <2>1, MaxOf
<1>2. CASE I = {}
  BY <1>2
<1>3. CASE I # {}
  <2>1. PICK k \in I : k = Max(I)
    BY <1>1, <1>3
  <2>2. k \in 0 .. len
    OBVIOUS
  <2>3. QED
    BY <1>3, <2>1, <2>2
<1>4. QED
  BY <1>2, <1>3

\* Elements picked by their place, in order.
Reaches(f, S, len) == \A x \in S : \E k \in 1 .. len : f[k] = x
LEMMA ListReaches ==
  ASSUME NEW S, IsFiniteSet(S), NEW at, \A x \in S : at[x] \in Int, NEW f, Lists(f, S, at),
         NEW len, len = Cardinality(S)
  PROVE  Reaches(f, S, len)
<1>1. PICK N \in Nat : N = Cardinality(S)
  BY FS_CardinalityType
<1>2. \A x \in S : \E k \in 1 .. N : f[k] = x
  BY <1>1, ListIsOnto
<1>3. QED
  BY <1>1, <1>2 DEF Reaches

LEMMA InOrderRank ==
  ASSUME NEW S, IsFiniteSet(S), S \subseteq Int
  PROVE  /\ Cardinality(S) \in Nat
         /\ \A k \in 1 .. Cardinality(S) :
              InOrder(S)[k] \in S /\ Cardinality({y \in S : y <= InOrder(S)[k]}) = k
<1>1. PICK at : at = [x \in S |-> x]
  OBVIOUS
<1>2. \A x \in S : at[x] = x /\ at[x] \in Int
  BY <1>1
<1>9. \A x, y \in S : at[x] = at[y] => x = y
  BY <1>2
<1>3. PICK f : Lists(f, S, at)
  BY <1>2, <1>9, ListExists
<1>4. PICK N \in Nat : N = Cardinality(S)
  BY FS_CardinalityType
<1>5. f \in [1 .. N -> S] /\ \A j, k \in 1 .. N : j < k => f[j] < f[k]
  <2>1. /\ f \in [1 .. N -> S]
        /\ \A j, k \in 1 .. N : j < k => at[f[j]] < at[f[k]]
    BY <1>3, <1>4 DEF Lists
  <2>2. \A j \in 1 .. N : at[f[j]] = f[j]
    BY <1>2, <2>1
  <2>3. QED
    BY <2>1, <2>2
<1>6. \A x \in S : \E k \in 1 .. N : f[k] = x
  <2>1. \A x \in S : at[x] \in Int
    BY <1>2
  <2>2. Reaches(f, S, N)
    BY <1>3, <1>4, <2>1, ListReaches
  <2>3. QED
    BY <2>2 DEF Reaches
<1>7. ASSUME NEW k \in 1 .. N
      PROVE  InOrder(S)[k] \in S /\ Cardinality({y \in S : y <= InOrder(S)[k]}) = k
  <2> DEFINE T == {y \in S : y <= f[k]}
  <2>1. T = {f[j] : j \in 1 .. k}
    <3>1. \A j \in 1 .. k : f[j] \in S /\ f[j] <= f[k]
      <4>1. \A j \in 1 .. k : j \in 1 .. N /\ (j < k \/ j = k)
        OBVIOUS
      <4>2. \A j \in 1 .. N : f[j] \in Int
        BY <1>5
      <4>3. QED
        BY <1>5, <4>1, <4>2
    <3>2. ASSUME NEW y \in T PROVE \E j \in 1 .. k : f[j] = y
      <4>1. PICK j \in 1 .. N : f[j] = y
        BY <1>6
      <4>2. ~(k < j)
        <5>1. f[j] \in Int /\ f[k] \in Int /\ f[j] <= f[k]
          BY <1>5, <4>1
        <5>2. QED
          BY <1>5, <5>1
      <4>3. j \in 1 .. k
        BY <4>2
      <4>4. QED
        BY <4>1, <4>3
    <3>3. QED
      BY <3>1, <3>2
  <2>2. Cardinality(T) = k
    <3> DEFINE g == [j \in 1 .. k |-> f[j]]
    <3>1. \A i, j \in 1 .. k : f[i] = f[j] => i = j
      <4>0. \A i \in 1 .. k : i \in 1 .. N
        BY <1>4
      <4>5. \A i \in 1 .. N : f[i] \in Int
        BY <1>5
      <4>1. \A i \in 1 .. k : i \in 1 .. N /\ f[i] \in Int
        BY <4>0, <4>5
      <4>2. \A i, j \in 1 .. k : i < j \/ j < i \/ i = j
        OBVIOUS
      <4>3. QED
        <5> SUFFICES ASSUME NEW i \in 1 .. k, NEW j \in 1 .. k, f[i] = f[j]
                     PROVE  i = j
          OBVIOUS
        <5>1. i \in 1 .. N /\ j \in 1 .. N /\ f[i] \in Int /\ f[j] \in Int
          BY <4>1
        <5>2. ~(i < j) /\ ~(j < i)
          BY <1>5, <5>1
        <5>3. QED
          BY <4>2, <5>2
    <3>2. g \in Bijection(1 .. k, T)
      <4>1. g \in [1 .. k -> T]
        BY <2>1
      <4>2. \A i, j \in 1 .. k : g[i] = g[j] => i = j
        BY <3>1
      <4>3. \A y \in T : \E j \in 1 .. k : g[j] = y
        BY <2>1
      <4> HIDE DEF g, T
      <4>4. g \in Injection(1 .. k, T)
        BY <4>1, <4>2 DEF Injection, IsInjective
      <4>5. g \in Surjection(1 .. k, T)
        BY <4>1, <4>3 DEF Surjection
      <4>6. QED
        BY <4>4, <4>5 DEF Bijection
    <3>3. IsFiniteSet(1 .. k) /\ Cardinality(1 .. k) = k
      BY FS_Interval
    <3> HIDE DEF g, T
    <3>4. ExistsBijection(1 .. k, T)
      BY <3>2 DEF ExistsBijection
    <3>5. QED
      BY <3>3, <3>4, FS_Bijection
  <2>3. f[k] \in S
    BY <1>5
  <2>4. \E x \in S : Cardinality({y \in S : y <= x}) = k
    BY <2>2, <2>3
  <2> DEFINE c == CHOOSE x \in S : Cardinality({y \in S : y <= x}) = k
  <2>5. c \in S /\ Cardinality({y \in S : y <= c}) = k
    BY <2>4, Zenon
  <2>6. InOrder(S)[k] = c
    BY <1>4 DEF InOrder
  <2> HIDE DEF c
  <2>7. QED
    BY <2>5, <2>6
<1>8. QED
  BY <1>4, <1>7

LEMMA PickedSeq ==
  ASSUME NEW seq, NEW S, IsFiniteSet(S)
  PROVE  IsSeq(Picked(seq, S)) /\ Len(Picked(seq, S)) = Cardinality(S)
<1>1. PICK N \in Nat : N = Cardinality(S)
  BY FS_CardinalityType
<1> DEFINE f == [i \in 1 .. N |-> seq[InOrder(S)[i]]]
           T == {f[i] : i \in 1 .. N}
<1>2. Picked(seq, S) = f
  BY <1>1 DEF Picked
<1>3. f \in [1 .. N -> T]
  OBVIOUS
<1>4. IsSeq(f) /\ Len(f) = N
  <2> HIDE DEF f, T
  <2>1. QED
    BY <1>3, MadeSeq
<1>5. QED
  BY <1>1, <1>2, <1>4

LEMMA SeqFinite ==
  ASSUME NEW s, IsSeq(s), NEW S, S \subseteq DOMAIN s
  PROVE  IsFiniteSet(S)
<1>1. DOMAIN s = 1 .. Len(s) /\ Len(s) \in Nat
  BY IsSeqDomain
<1>2. IsFiniteSet(1 .. Len(s))
  BY <1>1, FS_Interval
<1>3. QED
  BY <1>1, <1>2, FS_Subset

-----------------------------------------------------------------------------
(* What the helpers on lines return.                                       *)

\* Strip, Before, After and the like return lines.
LEMMA StripLine ==
  ASSUME NEW line, IsSeq(line)
  PROVE  IsSeq(Strip(line)) /\ IsSeq(RStrip(line))
<1>1. line # <<>> => IsSeq(Tail(line))
  <2>1. line \in Seq(Range(line))
    BY DEF IsSeq
  <2>2. line # <<>> => Tail(line) \in Seq(Range(line))
    BY <2>1, HeadTailProperties
  <2>3. QED
    BY <2>2, SeqOfAny
<1>2. IsSeq(Strip(line))
  BY <1>1 DEF Strip, Indented
<1>3. IsSeq(RStrip(line))
  BY EmptyAny DEF RStrip
<1>4. QED
  BY <1>2, <1>3

LEMMA CutLine ==
  ASSUME NEW line, IsSeq(line), NEW i \in Int
  PROVE  IsSeq(Before(line, i)) /\ IsSeq(After(line, i)) /\ IsSeq(Front_(line))
<1>1. Len(line) \in Nat
  BY IsSeqDomain
<1>2. QED
  BY <1>1, SubSeqAny DEF Before, After, Front_

LEMMA CleansedLine ==
  ASSUME NEW line, IsSeq(line)
  PROVE  IsSeq(CleanseComments(line))
<1> DEFINE pos == Find(line, "//")
           code == IF pos > 0 /\ ~IsCppString(Before(line, pos))
                   THEN RStrip(Before(line, pos)) ELSE line
           open == Find(code, "/*")
           close == SelectLastInSeq(code, LAMBDA u : u = "*/")
           inner == RStrip(Before(code, open) \o After(code, close))
<1>1. CleanseComments(line) = IF open > 0 /\ close > open THEN inner ELSE code
  BY Zenon DEF CleanseComments
<1>2. pos \in Int
  <2>1. pos \in 0 .. Len(line) /\ Len(line) \in Nat
    BY FindIn, IsSeqDomain
  <2>2. QED
    BY <2>1
<1>3. IsSeq(code)
  <2> HIDE DEF pos
  <2>1. IsSeq(RStrip(Before(line, pos)))
    BY <1>2, CutLine, StripLine
  <2>2. QED
    BY <2>1
<1>4. open \in Int
  <2> HIDE DEF code
  <2>1. open \in 0 .. Len(code) /\ Len(code) \in Nat
    BY <1>3, FindIn, IsSeqDomain
  <2> HIDE DEF open
  <2>2. QED
    BY <2>1
<1>5. close \in Int
  <2> HIDE DEF code
  <2> DEFINE I == {i \in 1 .. Len(code) : code[i] = "*/"}
  <2>1. close = IF I # {} THEN Max(I) ELSE 0
    BY Zenon DEF SelectLastInSeq
  <2>2. Len(code) \in Nat /\ I \subseteq 1 .. Len(code)
    BY <1>3, IsSeqDomain
  <2> HIDE DEF I, close
  <2>3. (IF I # {} THEN Max(I) ELSE 0) \in 0 .. Len(code)
    BY <2>2, LastIn
  <2>4. close \in 0 .. Len(code)
    BY <2>1, <2>3
  <2>5. QED
    BY <2>2, <2>4
<1>6. IsSeq(inner)
  <2> HIDE DEF code, open, close
  <2>1. IsSeq(Before(code, open)) /\ IsSeq(After(code, close))
    BY <1>3, <1>4, <1>5, CutLine
  <2>2. IsSeq(Before(code, open) \o After(code, close))
    BY <2>1, ConcatAny
  <2>3. QED
    BY <2>2, StripLine
<1> HIDE DEF code, open, close, inner
<1>7. QED
  BY <1>1, <1>3, <1>6

LEMMA CollapsedLine ==
  ASSUME NEW line, IsSeq(line)
  PROVE  IsSeq(_CollapseStrings(line))
<1> DEFINE A == {i \in DOMAIN line : line[i] # ESCAPED}
           plain == Picked(line, A)
           B == {i \in DOMAIN plain : ~InString(plain, i)}
<1>1. _CollapseStrings(line) = IF IsIncludeLine(line) THEN line ELSE Picked(plain, B)
  BY Zenon DEF _CollapseStrings
<1>2. IsFiniteSet(A)
  <2>1. A \subseteq DOMAIN line
    OBVIOUS
  <2> HIDE DEF A
  <2>2. QED
    BY <2>1, SeqFinite
<1>3. IsSeq(plain)
  <2> HIDE DEF A
  <2>1. QED
    BY <1>2, PickedSeq
<1>4. IsFiniteSet(B)
  <2>1. B \subseteq DOMAIN plain
    OBVIOUS
  <2> HIDE DEF B, plain
  <2>2. QED
    BY <1>3, <2>1, SeqFinite
<1>5. IsSeq(Picked(plain, B))
  <2> HIDE DEF B, plain
  <2>1. QED
    BY <1>4, PickedSeq
<1> HIDE DEF plain, B
<1>6. QED
  BY <1>1, <1>5

-----------------------------------------------------------------------------
(* Documents: lines 0 .. last, with the two markers.                       *)

Document(lines, last) ==
  /\ last \in Nat /\ last >= 1
  /\ DOMAIN lines = 0 .. last
  /\ \A k \in 0 .. last : IsSeq(lines[k])

LEMMA DocumentLast ==
  ASSUME NEW lines, NEW last, Document(lines, last)
  PROVE  Last_(lines) = last /\ last \in Nat /\ IsFiniteSet(DOMAIN lines)
<1>1. last \in Nat /\ DOMAIN lines = 0 .. last
  BY DEF Document
<1>2. \E x \in 0 .. last : \A y \in 0 .. last : x >= y
  BY <1>1
<1>3. Max(0 .. last) \in 0 .. last /\ \A y \in 0 .. last : Max(0 .. last) >= y
  BY <1>2, Zenon DEF Max
<1>4. Max(0 .. last) = last
  <2>1. PICK x \in 0 .. last : x = Max(0 .. last)
    BY <1>3
  <2>2. x >= last
    BY <1>1, <1>3, <2>1
  <2>3. QED
    BY <1>1, <2>1, <2>2
<1>5. IsFiniteSet(0 .. last)
  BY <1>1, FS_Interval
<1>6. QED
  BY <1>1, <1>4, <1>5 DEF Last_

LEMMA LinesOfDocument ==
  ASSUME NEW content, IsText(content.utf8), IsText(content.gbk)
  PROVE  \E last : Document(LinesOf(content), last)
<1> DEFINE read == ReadWithEncodingDetect(content)
<1>1. IsText(read)
  BY DEF ReadWithEncodingDetect
<1> HIDE DEF read
<1>2. Len(read) \in Nat /\ DOMAIN read = 1 .. Len(read) /\ \A k \in DOMAIN read : IsSeq(read[k])
  BY <1>1, IsSeqDomain DEF IsText
<1> DEFINE d == [k \in 0 .. Len(read) + 1 |->
                   IF k \in DOMAIN read THEN WithoutCarriageReturn(read[k]) ELSE Marker]
<1>3. LinesOf(content) = d
  BY Zenon DEF LinesOf, read
<1>4. ASSUME NEW k \in 0 .. Len(read) + 1 PROVE IsSeq(d[k])
  <2>1. CASE k \in DOMAIN read
    <3>1. IsSeq(read[k])
      BY <1>2, <2>1
    <3>2. IsSeq(WithoutCarriageReturn(read[k]))
      <4>1. 0 \in Int
        OBVIOUS
      <4>2. IsSeq(Front_(read[k]))
        BY <3>1, <4>1, CutLine
      <4>3. QED
        BY <3>1, <4>2 DEF WithoutCarriageReturn
    <3>3. d[k] = WithoutCarriageReturn(read[k])
      BY <2>1
    <3>4. QED
      BY <3>2, <3>3
  <2>2. CASE k \notin DOMAIN read
    <3>1. <<"//", "marker">> \in Seq({"//", "marker"})
      OBVIOUS
    <3>2. IsSeq(Marker)
      BY <3>1, SeqOfAny DEF Marker
    <3>3. QED
      BY <2>2, <3>2
  <2>3. QED
    BY <2>1, <2>2
<1>5. DOMAIN d = 0 .. Len(read) + 1
  OBVIOUS
<1> HIDE DEF d
<1>6. Document(d, Len(read) + 1)
  BY <1>2, <1>4, <1>5 DEF Document
<1>7. QED
  BY <1>3, <1>6

LEMMA KeptDocument ==
  ASSUME NEW lines, NEW last, Document(lines, last)
  PROVE  LET kept == RemoveMultiLineComments(lines).lines IN
         /\ Document(kept, last)
         /\ \A k \in 0 .. last : kept[k] \in {DUMMY, lines[k]}
<1> DEFINE kept == RemoveMultiLineComments(lines).lines
<1>1. \E range : kept = [k \in DOMAIN lines |-> IF k \in range THEN DUMMY ELSE lines[k]]
  BY Zenon DEF RemoveMultiLineComments, RemoveMultiLineCommentsFromRange
<1>2. PICK range : kept = [k \in DOMAIN lines |-> IF k \in range THEN DUMMY ELSE lines[k]]
  BY <1>1
<1>3. /\ last \in Nat /\ last >= 1 /\ DOMAIN lines = 0 .. last
      /\ \A k \in 0 .. last : IsSeq(lines[k])
  BY DEF Document
<1>4. IsSeq(DUMMY)
  <2>1. <<"//", "dummy">> \in Seq({"//", "dummy"})
    OBVIOUS
  <2>2. QED
    BY <2>1, SeqOfAny DEF DUMMY
<1> HIDE DEF kept
<1>5. \A k \in 0 .. last : kept[k] \in {DUMMY, lines[k]}
  BY <1>2, <1>3
<1>6. DOMAIN kept = 0 .. last
  BY <1>2, <1>3
<1>7. \A k \in 0 .. last : IsSeq(kept[k])
  BY <1>3, <1>4, <1>5
<1>8. Document(kept, last)
  BY <1>3, <1>6, <1>7 DEF Document
<1>9. QED
  BY <1>5, <1>8 DEF kept

LEMMA CleanDocument ==
  ASSUME NEW lines, NEW last, Document(lines, last)
  PROVE  Document(CleansedLines(lines), last) /\ Document(Elided(lines), last)
<1>1. /\ last \in Nat /\ last >= 1 /\ DOMAIN lines = 0 .. last
      /\ \A k \in 0 .. last : IsSeq(lines[k])
  BY DEF Document
<1>2. \A k \in 0 .. last : /\ IsSeq(CleanseComments(lines[k]))
                           /\ IsSeq(CleanseComments(_CollapseStrings(lines[k])))
  <2>1. \A k \in 0 .. last : IsSeq(CleanseComments(lines[k]))
    BY <1>1, CleansedLine
  <2>2. \A k \in 0 .. last : IsSeq(_CollapseStrings(lines[k]))
    BY <1>1, CollapsedLine
  <2>3. \A k \in 0 .. last : IsSeq(CleanseComments(_CollapseStrings(lines[k])))
    BY <2>2, CleansedLine
  <2>4. QED
    BY <2>1, <2>3
<1>3. Document(CleansedLines(lines), last)
  BY <1>1, <1>2 DEF Document, CleansedLines
<1>4. Document(Elided(lines), last)
  BY <1>1, <1>2 DEF Document, Elided
<1>5. QED
  BY <1>3, <1>4

-----------------------------------------------------------------------------
(* Rules about one line: each finds errors on that line alone, with a      *)
(* category that can be switched off and a confidence of 0 .. 5.           *)

\* The errors a rule may find on one of these lines, but for those about the
\* length of a function and the order of includes.
FoundCategories == ERROR_CATEGORIES \ {"readability/fn_size", "build/include_order"}
ErrorsAt(L) == [line : L, cat : FoundCategories, conf : 0 .. 5]
Found(k) == Seq(ErrorsAt({k}))
\* Those about the order of includes too.
OrderErrors(k) == [line : {k}, cat : {"build/include_order"}, conf : 0 .. 5]
Ordered(k) == Seq(ErrorsAt({k}) \cup OrderErrors(k))

LEMMA OneError ==
  ASSUME NEW k, NEW cat \in FoundCategories, NEW conf \in 0 .. 5
  PROVE  <<Error_(k, cat, conf)>> \in Found(k) /\ <<>> \in Found(k)
<1>1. Error_(k, cat, conf) \in ErrorsAt({k})
  BY DEF Error_, ErrorsAt
<1>2. QED
  BY <1>1 DEF Found

LEMMA WhenFound ==
  ASSUME NEW c, NEW k, NEW cat \in FoundCategories, NEW conf \in 0 .. 5
  PROVE  When(c, k, cat, conf) \in Found(k)
  BY OneError DEF When

LEMMA ConcatFound ==
  ASSUME NEW k, NEW s \in Found(k), NEW t \in Found(k)
  PROVE  s \o t \in Found(k)
  BY ConcatProperties DEF Found

LEMMA CheckEndFound ==
  ASSUME NEW block, NEW raw, NEW k
  PROVE  CheckEnd(block, raw, k) \in Found(k)
<1>1. /\ "readability/namespace" \in FoundCategories
      /\ 1 \in 0 .. 5 /\ 2 \in 0 .. 5 /\ 3 \in 0 .. 5 /\ 4 \in 0 .. 5 /\ 5 \in 0 .. 5
  BY DEF FoundCategories, ERROR_CATEGORIES
<1>2. QED
  BY <1>1, OneError, WhenFound, ConcatFound, Zenon DEF CheckEnd

LEMMA FoundOrdered ==
  ASSUME NEW k, NEW s \in Found(k)
  PROVE  s \in Ordered(k)
<1>1. ErrorsAt({k}) \subseteq ErrorsAt({k}) \cup OrderErrors(k)
  OBVIOUS
<1>2. QED
  BY <1>1, SeqMonotonic DEF Found, Ordered

LEMMA WhenOrdered ==
  ASSUME NEW c, NEW k, NEW conf \in 0 .. 5
  PROVE  When(c, k, "build/include_order", conf) \in Ordered(k)
<1> DEFINE e == Error_(k, "build/include_order", conf)
           S == ErrorsAt({k}) \cup OrderErrors(k)
<1>1. e \in S
  BY DEF Error_, OrderErrors
<1> HIDE DEF e, S
<1>2. <<e>> \in Seq(S) /\ <<>> \in Seq(S)
  BY <1>1
<1>3. QED
  BY <1>2 DEF When, e, S, Ordered

LEMMA ConcatOrdered ==
  ASSUME NEW k, NEW s \in Ordered(k), NEW t \in Ordered(k)
  PROVE  s \o t \in Ordered(k)
  BY ConcatProperties DEF Ordered

LEMMA Concat4Ordered ==
  ASSUME NEW k, NEW s \in Ordered(k), NEW a \in Ordered(k), NEW b \in Ordered(k),
         NEW c \in Ordered(k), NEW d \in Ordered(k)
  PROVE  s \o a \o b \o c \o d \in Ordered(k)
  BY ConcatOrdered, Zenon

LEMMA CheckIncludeAlphabeticalOrderOrdered ==
  ASSUME NEW scope, NEW header, NEW k
  PROVE  CheckIncludeAlphabeticalOrder(scope, header, k).errors \in Ordered(k)
<1>1. "build/include_alpha" \in FoundCategories /\ 4 \in 0 .. 5
  BY DEF FoundCategories, ERROR_CATEGORIES
<1>2. \A c : When(c, k, "build/include_alpha", 4) \in Ordered(k)
  BY <1>1, WhenFound, FoundOrdered, Zenon
<1>3. \A c : When(c, k, "build/include_order", 4) \in Ordered(k)
  BY <1>1, WhenOrdered, Zenon
<1>4. QED
  BY <1>2, <1>3, ConcatOrdered, SMT DEF CheckIncludeAlphabeticalOrder

LEMMA IncludeLinePathsFound ==
  ASSUME NEW line, NEW k
  PROVE  IncludeLinePaths(line, k) \in Found(k)
<1>1. /\ "build/include" \in FoundCategories
      /\ 1 \in 0 .. 5 /\ 2 \in 0 .. 5 /\ 3 \in 0 .. 5 /\ 4 \in 0 .. 5 /\ 5 \in 0 .. 5
  BY DEF FoundCategories, ERROR_CATEGORIES
<1>2. QED
  BY <1>1, OneError, WhenFound, ConcatFound, Zenon DEF IncludeLinePaths

LEMMA CheckForMultilineCommentsAndStringsFound ==
  ASSUME NEW line, NEW k
  PROVE  CheckForMultilineCommentsAndStrings(line, k) \in Found(k)
<1>1. /\ "readability/multiline_comment" \in FoundCategories
      /\ "readability/multiline_string" \in FoundCategories
      /\ 1 \in 0 .. 5 /\ 2 \in 0 .. 5 /\ 3 \in 0 .. 5 /\ 4 \in 0 .. 5 /\ 5 \in 0 .. 5
  BY DEF FoundCategories, ERROR_CATEGORIES
<1>2. QED
  BY <1>1, OneError, WhenFound, ConcatFound, Zenon DEF CheckForMultilineCommentsAndStrings

LEMMA CheckCommandsFound ==
  ASSUME NEW elided, NEW k
  PROVE  CheckCommands(elided, k) \in Found(k)
<1>1. /\ "whitespace/newline" \in FoundCategories
      /\ 1 \in 0 .. 5 /\ 2 \in 0 .. 5 /\ 3 \in 0 .. 5 /\ 4 \in 0 .. 5 /\ 5 \in 0 .. 5
  BY DEF FoundCategories, ERROR_CATEGORIES
<1>2. QED
  BY <1>1, OneError, WhenFound, ConcatFound, Zenon DEF CheckCommands

LEMMA CheckElseFound ==
  ASSUME NEW elided, NEW k
  PROVE  CheckElse(elided, k) \in Found(k)
<1>1. /\ "readability/braces" \in FoundCategories
      /\ 1 \in 0 .. 5 /\ 2 \in 0 .. 5 /\ 3 \in 0 .. 5 /\ 4 \in 0 .. 5 /\ 5 \in 0 .. 5
  BY DEF FoundCategories, ERROR_CATEGORIES
<1>2. QED
  BY <1>1, OneError, WhenFound, ConcatFound, Zenon DEF CheckElse

LEMMA CheckBracesFound ==
  ASSUME NEW elided, NEW k
  PROVE  CheckBraces(elided, k) \in Found(k)
<1>1. /\ "readability/braces" \in FoundCategories
      /\ "whitespace/braces_pos" \in FoundCategories
      /\ "whitespace/newline" \in FoundCategories
      /\ 1 \in 0 .. 5 /\ 2 \in 0 .. 5 /\ 3 \in 0 .. 5 /\ 4 \in 0 .. 5 /\ 5 \in 0 .. 5
  BY DEF FoundCategories, ERROR_CATEGORIES
<1>2. QED
  BY <1>1, OneError, WhenFound, ConcatFound, CheckElseFound, Zenon DEF CheckBraces

LEMMA CheckAccessFound ==
  ASSUME NEW line, NEW k, NEW stack
  PROVE  CheckAccess(line, k, stack) \in Found(k)
<1>1. /\ "readability/constructors" \in FoundCategories
      /\ 1 \in 0 .. 5 /\ 2 \in 0 .. 5 /\ 3 \in 0 .. 5 /\ 4 \in 0 .. 5 /\ 5 \in 0 .. 5
  BY DEF FoundCategories, ERROR_CATEGORIES
<1>2. QED
  BY <1>1, OneError, WhenFound, ConcatFound, Zenon DEF CheckAccess

LEMMA CheckBlankLinesFound ==
  ASSUME NEW raw, NEW elided, NEW k
  PROVE  CheckBlankLines(raw, elided, k) \in Found(k)
<1>1. /\ "whitespace/blank_line" \in FoundCategories
      /\ 1 \in 0 .. 5 /\ 2 \in 0 .. 5 /\ 3 \in 0 .. 5 /\ 4 \in 0 .. 5 /\ 5 \in 0 .. 5
  BY DEF FoundCategories, ERROR_CATEGORIES
<1>2. QED
  BY <1>1, OneError, WhenFound, ConcatFound, Zenon DEF CheckBlankLines

LEMMA CheckAngleBracketsFound ==
  ASSUME NEW elided, NEW k
  PROVE  CheckAngleBrackets(elided, k) \in Found(k)
<1>1. /\ "whitespace/operators" \in FoundCategories
      /\ 1 \in 0 .. 5 /\ 2 \in 0 .. 5 /\ 3 \in 0 .. 5 /\ 4 \in 0 .. 5 /\ 5 \in 0 .. 5
  BY DEF FoundCategories, ERROR_CATEGORIES
<1>2. QED
  BY <1>1, OneError, WhenFound, ConcatFound, Zenon DEF CheckAngleBrackets

LEMMA CheckCommentFound ==
  ASSUME NEW raw, NEW k
  PROVE  CheckComment(raw, k) \in Found(k)
<1>1. /\ "readability/todo" \in FoundCategories
      /\ 1 \in 0 .. 5 /\ 2 \in 0 .. 5 /\ 3 \in 0 .. 5 /\ 4 \in 0 .. 5 /\ 5 \in 0 .. 5
  BY DEF FoundCategories, ERROR_CATEGORIES
<1>2. QED
  BY <1>1, OneError, WhenFound, ConcatFound, Zenon DEF CheckComment

LEMMA CheckCheckFound ==
  ASSUME NEW line, NEW k
  PROVE  CheckCheck(line, k) \in Found(k)
<1>1. /\ "readability/check" \in FoundCategories
      /\ 1 \in 0 .. 5 /\ 2 \in 0 .. 5 /\ 3 \in 0 .. 5 /\ 4 \in 0 .. 5 /\ 5 \in 0 .. 5
  BY DEF FoundCategories, ERROR_CATEGORIES
<1>2. QED
  BY <1>1, OneError, WhenFound, ConcatFound, Zenon DEF CheckCheck

LEMMA CheckSectionSpacingFound ==
  ASSUME NEW lines, NEW k, NEW class
  PROVE  CheckSectionSpacing(lines, k, class) \in Found(k)
<1>1. /\ "whitespace/blank_line" \in FoundCategories
      /\ 1 \in 0 .. 5 /\ 2 \in 0 .. 5 /\ 3 \in 0 .. 5 /\ 4 \in 0 .. 5 /\ 5 \in 0 .. 5
  BY DEF FoundCategories, ERROR_CATEGORIES
<1>2. QED
  BY <1>1, OneError, WhenFound, ConcatFound, Zenon DEF CheckSectionSpacing

LEMMA CheckDeprecatedCastFound ==
  ASSUME NEW elided, NEW k
  PROVE  CheckDeprecatedCast(elided, k) \in Found(k)
<1>1. /\ "readability/casting" \in FoundCategories
      /\ 1 \in 0 .. 5 /\ 2 \in 0 .. 5 /\ 3 \in 0 .. 5 /\ 4 \in 0 .. 5 /\ 5 \in 0 .. 5
  BY DEF FoundCategories, ERROR_CATEGORIES
<1>2. QED
  BY <1>1, OneError, WhenFound, ConcatFound, Zenon DEF CheckDeprecatedCast

LEMMA CheckCStyleCastFound ==
  ASSUME NEW line, NEW raw, NEW k, NEW types, NEW quoted
  PROVE  CheckCStyleCast(line, raw, k, types, quoted) \in Found(k)
<1>1. /\ "readability/casting" \in FoundCategories
      /\ "readability/function" \in FoundCategories
      /\ "runtime/sizeof" \in FoundCategories
      /\ 1 \in 0 .. 5 /\ 2 \in 0 .. 5 /\ 3 \in 0 .. 5 /\ 4 \in 0 .. 5 /\ 5 \in 0 .. 5
  BY DEF FoundCategories, ERROR_CATEGORIES
<1>2. QED
  BY <1>1, OneError, WhenFound, ConcatFound, Zenon DEF CheckCStyleCast

LEMMA CheckSizeOfFound ==
  ASSUME NEW line, NEW k
  PROVE  CheckSizeOf(line, k) \in Found(k)
<1>1. /\ "runtime/sizeof" \in FoundCategories
      /\ 1 \in 0 .. 5 /\ 2 \in 0 .. 5 /\ 3 \in 0 .. 5 /\ 4 \in 0 .. 5 /\ 5 \in 0 .. 5
  BY DEF FoundCategories, ERROR_CATEGORIES
<1>2. QED
  BY <1>1, OneError, WhenFound, ConcatFound, Zenon DEF CheckSizeOf

LEMMA CheckPrintfFound ==
  ASSUME NEW line, NEW k
  PROVE  CheckPrintf(line, k) \in Found(k)
<1>1. /\ "runtime/printf" \in FoundCategories
      /\ 1 \in 0 .. 5 /\ 2 \in 0 .. 5 /\ 3 \in 0 .. 5 /\ 4 \in 0 .. 5 /\ 5 \in 0 .. 5
  BY DEF FoundCategories, ERROR_CATEGORIES
<1>2. QED
  BY <1>1, OneError, WhenFound, ConcatFound, Zenon DEF CheckPrintf

LEMMA CheckExplicitFound ==
  ASSUME NEW line, NEW k, NEW stack
  PROVE  CheckExplicit(line, k, stack) \in Found(k)
<1>1. /\ "runtime/explicit" \in FoundCategories
      /\ 1 \in 0 .. 5 /\ 2 \in 0 .. 5 /\ 3 \in 0 .. 5 /\ 4 \in 0 .. 5 /\ 5 \in 0 .. 5
  BY DEF FoundCategories, ERROR_CATEGORIES
<1>2. QED
  BY <1>1, OneError, WhenFound, ConcatFound, Zenon DEF CheckExplicit

LEMMA CheckForNonStandardConstructsFound ==
  ASSUME NEW line, NEW k, NEW stack
  PROVE  CheckForNonStandardConstructs(line, k, stack) \in Found(k)
<1>1. /\ "build/storage_class" \in FoundCategories
      /\ "build/endif_comment" \in FoundCategories
      /\ "build/forward_decl" \in FoundCategories
      /\ "runtime/member_string_references" \in FoundCategories
      /\ 1 \in 0 .. 5 /\ 2 \in 0 .. 5 /\ 3 \in 0 .. 5 /\ 4 \in 0 .. 5 /\ 5 \in 0 .. 5
  BY DEF FoundCategories, ERROR_CATEGORIES
<1>2. QED
  BY <1>1, OneError, WhenFound, ConcatFound, CheckExplicitFound, Zenon DEF CheckForNonStandardConstructs

LEMMA CheckInvalidIncrementFound ==
  ASSUME NEW line, NEW k
  PROVE  CheckInvalidIncrement(line, k) \in Found(k)
<1>1. /\ "runtime/invalid_increment" \in FoundCategories
      /\ 1 \in 0 .. 5 /\ 2 \in 0 .. 5 /\ 3 \in 0 .. 5 /\ 4 \in 0 .. 5 /\ 5 \in 0 .. 5
  BY DEF FoundCategories, ERROR_CATEGORIES
<1>2. QED
  BY <1>1, OneError, WhenFound, ConcatFound, Zenon DEF CheckInvalidIncrement

LEMMA CheckMakePairUsesDeductionFound ==
  ASSUME NEW raw, NEW k
  PROVE  CheckMakePairUsesDeduction(raw, k) \in Found(k)
<1>1. /\ "build/explicit_make_pair" \in FoundCategories
      /\ 1 \in 0 .. 5 /\ 2 \in 0 .. 5 /\ 3 \in 0 .. 5 /\ 4 \in 0 .. 5 /\ 5 \in 0 .. 5
  BY DEF FoundCategories, ERROR_CATEGORIES
<1>2. QED
  BY <1>1, OneError, WhenFound, ConcatFound, Zenon DEF CheckMakePairUsesDeduction

LEMMA MadeFound ==
  ASSUME NEW k, NEW len \in Nat, NEW cat, NEW conf,
         \A i \in 1 .. len : cat[i] \in FoundCategories /\ conf[i] \in 0 .. 5
  PROVE  [i \in 1 .. len |-> Error_(k, cat[i], conf[i])] \in Found(k)
<1> DEFINE s == [i \in 1 .. len |-> Error_(k, cat[i], conf[i])]
<1>1. \A i \in 1 .. len : Error_(k, cat[i], conf[i]) \in ErrorsAt({k})
  BY DEF Error_, ErrorsAt
<1>2. s \in [1 .. len -> ErrorsAt({k})]
  BY <1>1
<1> HIDE DEF s
<1>3. s \in Seq(ErrorsAt({k}))
  BY <1>2, MadeSeq
<1>4. QED
  BY <1>3 DEF s, Found

Rows(table) == \A t \in DOMAIN table : table[t][1] \in FoundCategories /\ table[t][2] \in 0 .. 5

LEMMA MatchedFound ==
  ASSUME NEW table, Rows(table), NEW line, IsSeq(line), NEW k
  PROVE  Matched(table, line, k) \in Found(k)
<1> DEFINE S == {i \in DOMAIN line : line[i] \in DOMAIN table /\ Find(line, line[i]) = i}
<1>1. S \subseteq DOMAIN line /\ \A i \in S : line[i] \in DOMAIN table
  OBVIOUS
<1>2. Matched(table, line, k) =
        [j \in DOMAIN InOrder(S) |->
           Error_(k, table[line[InOrder(S)[j]]][1], table[line[InOrder(S)[j]]][2])]
  BY Zenon DEF Matched
<1> HIDE DEF S
<1>3. IsFiniteSet(S)
  BY <1>1, SeqFinite
<1>4. S \subseteq Int
  <2>1. DOMAIN line = 1 .. Len(line) /\ Len(line) \in Nat
    BY IsSeqDomain
  <2>2. QED
    BY <1>1, <2>1
<1>5. Cardinality(S) \in Nat /\ \A j \in 1 .. Cardinality(S) : InOrder(S)[j] \in S
  BY <1>3, <1>4, InOrderRank
<1>6. PICK N \in Nat : N = Cardinality(S)
  BY <1>5
<1>7. DOMAIN InOrder(S) = 1 .. N
  BY <1>6 DEF InOrder
<1> DEFINE cat == [j \in 1 .. N |-> table[line[InOrder(S)[j]]][1]]
           conf == [j \in 1 .. N |-> table[line[InOrder(S)[j]]][2]]
<1>8. \A j \in 1 .. N : line[InOrder(S)[j]] \in DOMAIN table
  BY <1>1, <1>5, <1>6
<1>9. \A j \in 1 .. N : cat[j] \in FoundCategories /\ conf[j] \in 0 .. 5
  BY <1>8 DEF Rows
<1>10. Matched(table, line, k) = [j \in 1 .. N |-> Error_(k, cat[j], conf[j])]
  BY <1>2, <1>7
<1> HIDE DEF cat, conf
<1>11. [j \in 1 .. N |-> Error_(k, cat[j], conf[j])] \in Found(k)
  BY <1>9, MadeFound
<1>12. QED
  BY <1>10, <1>11, Zenon

LEMMA TablesAreRows == Rows(RawPatterns) /\ Rows(Patterns) /\ Rows(LanguagePatterns)
  BY PatternsAssumption DEF Rows, FoundCategories

LEMMA CheckLineLengthFound ==
  ASSUME NEW path, NEW raw, IsSeq(raw), NEW k
  PROVE  CheckLineLength(path, raw, k) \in Found(k)
<1> DEFINE table == [t \in DOMAIN LONG |-> <<"whitespace/line_length", LONG[t]>>]
<1>1. Rows(table)
  <2>1. DOMAIN LONG = {"ll100", "ll120"} /\ LONG["ll100"] = 2 /\ LONG["ll120"] = 4
    BY DEF LONG
  <2>2. "whitespace/line_length" \in FoundCategories
    BY DEF FoundCategories, ERROR_CATEGORIES
  <2>3. QED
    BY <2>1, <2>2 DEF Rows
<1>2. <<>> \in Found(k)
  BY EmptyAny DEF Found
<1>3. CheckLineLength(path, raw, k) \in {<<>>, Matched(table, raw, k)}
  BY Zenon DEF CheckLineLength
<1> HIDE DEF table
<1>4. Matched(table, raw, k) \in Found(k)
  BY <1>1, MatchedFound
<1>5. QED
  BY <1>2, <1>3, <1>4

LEMMA StyleBeforeBracesFound ==
  ASSUME NEW path, NEW file_, NEW k, IsSeq(file_.raw[k])
  PROVE  StyleBeforeBraces(path, file_, k) \in Found(k)
<1>1. "whitespace/labels" \in FoundCategories /\ 4 \in 0 .. 5
  BY DEF FoundCategories, ERROR_CATEGORIES
<1>2. Matched(RawPatterns, file_.raw[k], k) \in Found(k)
  BY TablesAreRows, MatchedFound
<1>3. CheckLineLength(path, file_.raw[k], k) \in Found(k)
  BY CheckLineLengthFound
<1>4. CheckCommands(file_.elided, k) \in Found(k)
  BY CheckCommandsFound
<1>5. QED
  BY <1>1, <1>2, <1>3, <1>4, WhenFound, ConcatFound, Zenon DEF StyleBeforeBraces

LEMMA CheckAltTokensFound ==
  ASSUME NEW line, IsSeq(line), NEW k
  PROVE  CheckAltTokens(line, k) \in Found(k)
<1> DEFINE S == {j \in 2 .. Len(line) : line[j] \in AltTokens}
<1>1. IsFiniteSet(S)
  <2>1. Len(line) \in Nat
    BY IsSeqDomain
  <2>2. IsFiniteSet(2 .. Len(line))
    BY <2>1, FS_Interval
  <2>3. QED
    BY <2>2, FS_Subset
<1>2. PICK N \in Nat : N = Cardinality(S)
  <2> HIDE DEF S
  <2>1. QED
    BY <1>1, FS_CardinalityType
<1>3. CheckAltTokens(line, k) \in
        {<<>>, [i \in 1 .. Cardinality(S) |-> Error_(k, "readability/alt_tokens", 2)]}
  BY Zenon DEF CheckAltTokens
<1> DEFINE cat == [i \in 1 .. N |-> "readability/alt_tokens"]
           conf == [i \in 1 .. N |-> 2]
<1>4. "readability/alt_tokens" \in FoundCategories
  BY DEF FoundCategories, ERROR_CATEGORIES
<1>5. \A i \in 1 .. N : cat[i] \in FoundCategories /\ conf[i] \in 0 .. 5
  BY <1>4
<1>6. [i \in 1 .. N |-> Error_(k, "readability/alt_tokens", 2)]
        = [i \in 1 .. N |-> Error_(k, cat[i], conf[i])]
  OBVIOUS
<1> HIDE DEF S, cat, conf
<1>7. [i \in 1 .. N |-> Error_(k, cat[i], conf[i])] \in Found(k)
  BY <1>5, MadeFound
<1>8. <<>> \in Found(k)
  BY EmptyAny DEF Found
<1>9. QED
  BY <1>2, <1>3, <1>6, <1>7, <1>8

LEMMA CheckSpacingFound ==
  ASSUME NEW file_, NEW k, NEW stack, IsSeq(file_.elided[k])
  PROVE  CheckSpacing(file_, k, stack) \in Found(k)
<1>1. <<>> \in Found(k)
  BY EmptyAny DEF Found
<1>2. Matched(Patterns, file_.elided[k], k) \in Found(k)
  BY TablesAreRows, MatchedFound
<1>3. QED
  BY <1>1, <1>2, CheckBlankLinesFound, CheckCommentFound, CheckAngleBracketsFound,
     ConcatFound, Zenon DEF CheckSpacing

-----------------------------------------------------------------------------
(* Rules whose errors may be elsewhere: that of an empty loop body is on the *)
(* line of its semicolon, that of a long function depends on the verbosity. *)

\* A function is given a confidence that the verbosity v lets through.
SizeErrors(k, v) ==
  {e \in [line : {k}, cat : {"readability/fn_size"}, conf : 0 .. 5] :
     v <= 5 => v <= e.conf}
\* The line of the error about an empty loop body is that of its semicolon.
LoopError(l) == Error_(l, "whitespace/empty_loop_body", 5)
LineErrors(k, l, v) == ErrorsAt({k}) \cup {LoopError(l)} \cup SizeErrors(k, v)
FoundOn(k, l, v) == Seq(LineErrors(k, l, v))
AllOn(k, l, v) == Seq(LineErrors(k, l, v) \cup OrderErrors(k))

LEMMA FoundIsOn ==
  ASSUME NEW k, NEW l, NEW v, NEW s \in Found(k)
  PROVE  s \in FoundOn(k, l, v)
<1>1. ErrorsAt({k}) \subseteq LineErrors(k, l, v)
  BY DEF LineErrors
<1>2. QED
  BY <1>1, SeqMonotonic DEF Found, FoundOn

LEMMA OnIsAll ==
  ASSUME NEW k, NEW l, NEW v, NEW s \in FoundOn(k, l, v)
  PROVE  s \in AllOn(k, l, v)
<1>1. LineErrors(k, l, v) \subseteq LineErrors(k, l, v) \cup OrderErrors(k)
  OBVIOUS
<1>2. QED
  BY <1>1, SeqMonotonic DEF FoundOn, AllOn

LEMMA OrderedIsAll ==
  ASSUME NEW k, NEW l, NEW v, NEW s \in Ordered(k)
  PROVE  s \in AllOn(k, l, v)
<1>1. ErrorsAt({k}) \cup OrderErrors(k) \subseteq LineErrors(k, l, v) \cup OrderErrors(k)
  BY DEF LineErrors
<1>2. QED
  BY <1>1, SeqMonotonic DEF Ordered, AllOn

LEMMA SizeIsOn ==
  ASSUME NEW k, NEW l, NEW v, NEW s \in Seq(SizeErrors(k, v))
  PROVE  s \in FoundOn(k, l, v)
<1>1. SizeErrors(k, v) \subseteq LineErrors(k, l, v)
  BY DEF LineErrors
<1>2. QED
  BY <1>1, SeqMonotonic DEF FoundOn

LEMMA ConcatOn ==
  ASSUME NEW k, NEW l, NEW v, NEW s \in FoundOn(k, l, v), NEW t \in FoundOn(k, l, v)
  PROVE  s \o t \in FoundOn(k, l, v)
  BY ConcatProperties DEF FoundOn

LEMMA Concat4On ==
  ASSUME NEW k, NEW l, NEW v, NEW s \in FoundOn(k, l, v), NEW a \in FoundOn(k, l, v),
         NEW b \in FoundOn(k, l, v), NEW c \in FoundOn(k, l, v), NEW d \in FoundOn(k, l, v)
  PROVE  s \o a \o b \o c \o d \in FoundOn(k, l, v)
  BY ConcatOn, Zenon

LEMMA Concat4Found ==
  ASSUME NEW k, NEW s \in Found(k), NEW a \in Found(k), NEW b \in Found(k),
         NEW c \in Found(k), NEW d \in Found(k)
  PROVE  s \o a \o b \o c \o d \in Found(k)
  BY ConcatFound, Zenon

LoopLine(elided, k) == CloseExpression(elided, k, Find(elided[k], "(")).line

LEMMA CheckEmptyLoopBodyFound ==
  ASSUME NEW elided, NEW k, NEW v
  PROVE  CheckEmptyLoopBody(elided, k) \in FoundOn(k, LoopLine(elided, k), v)
<1> DEFINE l == LoopLine(elided, k)
<1>1. CheckEmptyLoopBody(elided, k) \in {<<>>, <<LoopError(l)>>}
  BY Zenon DEF CheckEmptyLoopBody, When, LoopError, LoopLine
<1> HIDE DEF l
<1>2. LoopError(l) \in LineErrors(k, l, v)
  BY DEF LineErrors
<1>3. <<LoopError(l)>> \in FoundOn(k, l, v)
  <2> DEFINE e == LoopError(l)
             E == LineErrors(k, l, v)
  <2>1. e \in E
    BY <1>2
  <2> HIDE DEF e, E
  <2>2. <<e>> \in Seq(E)
    BY <2>1
  <2>3. QED
    BY <2>2 DEF e, E, FoundOn
<1>4. <<>> \in FoundOn(k, l, v)
  <2> DEFINE E == LineErrors(k, l, v)
  <2> HIDE DEF E
  <2>1. <<>> \in Seq(E)
    OBVIOUS
  <2>2. QED
    BY <2>1 DEF E, FoundOn
<1>5. QED
  BY <1>1, <1>3, <1>4 DEF l

LEMMA CheckStyleFound ==
  ASSUME NEW path, NEW file_, NEW k, NEW stack, NEW v,
         IsSeq(file_.raw[k]), IsSeq(file_.elided[k])
  PROVE  CheckStyle(path, file_, k, stack) \in FoundOn(k, LoopLine(file_.elided, k), v)
<1> DEFINE l == LoopLine(file_.elided, k)
<1>0. <<>> \in Found(k)
  BY EmptyAny DEF Found
<1>1. StyleBeforeBraces(path, file_, k) \in FoundOn(k, l, v)
  BY StyleBeforeBracesFound, FoundIsOn
<1>2. CheckBraces(file_.elided, k) \in FoundOn(k, l, v)
  BY CheckBracesFound, FoundIsOn
<1>3. CheckEmptyLoopBody(file_.elided, k) \in FoundOn(k, l, v)
  BY CheckEmptyLoopBodyFound
<1> DEFINE line == file_.elided[k]
           raw == file_.raw[k]
           class == InnermostClass(stack)
<1>4. CheckAccess(line, k, stack) \in FoundOn(k, l, v)
  BY CheckAccessFound, FoundIsOn
<1>5. CheckSpacing(file_, k, stack) \in FoundOn(k, l, v)
  BY CheckSpacingFound, FoundIsOn
<1>6. (IF AnyOf(raw, CHECK) THEN CheckCheck(line, k) ELSE <<>>) \in FoundOn(k, l, v)
  BY <1>0, CheckCheckFound, FoundIsOn
<1>7. CheckAltTokens(line, k) \in FoundOn(k, l, v)
  BY CheckAltTokensFound, FoundIsOn
<1>8. (IF class = <<>> THEN <<>> ELSE CheckSectionSpacing(file_.lines, k, class[1]))
        \in FoundOn(k, l, v)
  <2>1. CheckSectionSpacing(file_.lines, k, class[1]) \in FoundOn(k, l, v)
    BY CheckSectionSpacingFound, FoundIsOn
  <2>2. QED
    BY <1>0, <2>1, FoundIsOn
<1>9. CheckStyle(path, file_, k, stack) =
        StyleBeforeBraces(path, file_, k)
        \o CheckBraces(file_.elided, k)
        \o CheckEmptyLoopBody(file_.elided, k)
        \o CheckAccess(line, k, stack)
        \o CheckSpacing(file_, k, stack)
        \o (IF AnyOf(raw, CHECK) THEN CheckCheck(line, k) ELSE <<>>)
        \o CheckAltTokens(line, k)
        \o (IF class = <<>> THEN <<>> ELSE CheckSectionSpacing(file_.lines, k, class[1]))
  BY Zenon DEF CheckStyle
<1> DEFINE check == IF AnyOf(raw, CHECK) THEN CheckCheck(line, k) ELSE <<>>
           section == IF class = <<>> THEN <<>> ELSE CheckSectionSpacing(file_.lines, k, class[1])
           front == StyleBeforeBraces(path, file_, k)
                    \o CheckBraces(file_.elided, k)
                    \o CheckEmptyLoopBody(file_.elided, k)
                    \o CheckAccess(line, k, stack)
                    \o CheckSpacing(file_, k, stack)
<1>13. check \in FoundOn(k, l, v) /\ section \in FoundOn(k, l, v)
  BY <1>6, <1>8
<1>14. CheckStyle(path, file_, k, stack)
         = front \o check \o CheckAltTokens(line, k) \o section
  BY <1>9
<1> HIDE DEF l, line, raw, class, check, section
<1>10. front \in FoundOn(k, l, v)
  BY <1>1, <1>2, <1>3, <1>4, <1>5, Concat4On, Zenon
<1> HIDE DEF front
<1>15. front \o check \o CheckAltTokens(line, k) \o section \in FoundOn(k, l, v)
  BY <1>7, <1>10, <1>13, ConcatOn, Zenon
<1>11. CheckStyle(path, file_, k, stack) \in FoundOn(k, l, v)
  BY <1>14, <1>15, Zenon
<1>12. QED
  BY <1>11 DEF l

LEMMA LanguageRulesFound ==
  ASSUME NEW path, NEW file_, NEW k, IsSeq(file_.elided[k])
  PROVE  LanguageRules(path, file_, k) \in Found(k)
<1>1. /\ "runtime/rtti" \in FoundCategories
      /\ "runtime/int" \in FoundCategories
      /\ "readability/braces" \in FoundCategories
      /\ "readability/constructors" \in FoundCategories
      /\ "build/namespaces" \in FoundCategories
      /\ 3 \in 0 .. 5 /\ 4 \in 0 .. 5 /\ 5 \in 0 .. 5
  BY DEF FoundCategories, ERROR_CATEGORIES
<1> DEFINE line == file_.elided[k]
           raw == file_.raw[k]
           quoted == CheckCStyleCast(line, raw, k, {"char*"}, TRUE)
<1>2. CheckForbiddenFunctions(line, k) \in Found(k)
  <2>1. "runtime/printf" \in FoundCategories /\ 1 \in 0 .. 5 /\ 4 \in 0 .. 5 /\ 5 \in 0 .. 5
    BY DEF FoundCategories, ERROR_CATEGORIES
  <2>2. \A c : /\ When(c, k, "runtime/printf", 5) \in Found(k)
               /\ When(c, k, "runtime/printf", 4) \in Found(k)
               /\ When(c, k, "runtime/printf", 1) \in Found(k)
    BY <2>1, WhenFound, Zenon
  <2>3. QED
    BY <2>2, ConcatFound, Zenon DEF CheckForbiddenFunctions
<1>3. Matched(LanguagePatterns, line, k) \in Found(k)
  BY TablesAreRows, MatchedFound
<1>4. (IF quoted # <<>> THEN quoted ELSE CheckCStyleCast(line, raw, k, PointerTypes, FALSE))
        \in Found(k)
  BY CheckCStyleCastFound
<1>5. /\ CheckDeprecatedCast(file_.elided, k) \in Found(k)
      /\ CheckCStyleCast(line, raw, k, BasicTypes, FALSE) \in Found(k)
      /\ CheckSizeOf(line, k) \in Found(k) /\ CheckPrintf(line, k) \in Found(k)
  BY CheckDeprecatedCastFound, CheckCStyleCastFound, CheckSizeOfFound, CheckPrintfFound
<1> DEFINE header == path.ext \in HeaderExtensions
           pointers == IF quoted # <<>> THEN quoted
                       ELSE CheckCStyleCast(line, raw, k, PointerTypes, FALSE)
           rtti == When(Contains(line, "dynamic_cast") /\ ~_IsTestFilename(path),
                        k, "runtime/rtti", 3)
           ints == When(IF Has(line, <<{"short"}, {"port"}>>)
                        THEN ~Has(line, <<{"unsigned"}, {"short"}, {"port"}>>)
                        ELSE \/ Contains(line, "short")
                             \/ \E i \in DOMAIN line : line[i] = "long"
                                              /\ ~At(line, i + 1, <<{"double"}>>),
                        k, "runtime/int", 4)
           braces == When(Has(line, <<{"}"}, {"if"}, {"("}>>), k, "readability/braces", 4)
           using == When(header /\ Begins(line, <<{"using"}, {"namespace"}>>),
                         k, "build/namespaces", 5)
           disallow == When(/\ Begins(line, <<DISALLOW, {"("}>>) /\ EndsIn(line, {";"})
                            /\ k < Last_(file_.elided)
                            /\ LET next == Strip(file_.elided[k + 1]) IN
                               ~(Starts(next, {"}"}) /\ Contains(next, ";")),
                            k, "readability/constructors", 3)
           unnamed == When(/\ header /\ Has(line, <<{"namespace"}, {"{"}>>)
                           /\ ~EndsIn(line, {"\\"}), k, "build/namespaces", 4)
           table == Matched(LanguagePatterns, line, k)
           unsafe == CheckForbiddenFunctions(line, k)
           cast == CheckDeprecatedCast(file_.elided, k)
           basic == CheckCStyleCast(line, raw, k, BasicTypes, FALSE)
           size == CheckSizeOf(line, k)
           printf == CheckPrintf(line, k)
<1>6. LanguageRules(path, file_, k) =
        cast \o basic \o pointers \o size \o table \o rtti \o ints \o unsafe
        \o braces \o printf \o using \o disallow \o unnamed
  BY Zenon DEF LanguageRules
<1>7. /\ rtti \in Found(k) /\ ints \in Found(k) /\ braces \in Found(k)
      /\ using \in Found(k) /\ disallow \in Found(k) /\ unnamed \in Found(k)
  BY <1>1, WhenFound, Zenon
<1>8. /\ cast \in Found(k) /\ basic \in Found(k) /\ pointers \in Found(k)
      /\ size \in Found(k) /\ table \in Found(k) /\ unsafe \in Found(k)
      /\ printf \in Found(k)
  BY <1>2, <1>3, <1>4, <1>5
<1> HIDE DEF cast, basic, pointers, size, table, rtti, ints, unsafe, braces, printf,
             using, disallow, unnamed
<1> DEFINE part1 == cast \o basic \o pointers \o size \o table
           part2 == part1 \o rtti \o ints \o unsafe \o braces
           part3 == part2 \o printf \o using \o disallow \o unnamed
<1>9. part1 \in Found(k)
  BY <1>8, Concat4Found, Zenon
<1>10. part2 \in Found(k)
  <2> HIDE DEF part1
  <2>1. QED
    BY <1>7, <1>8, <1>9, Concat4Found, Zenon
<1>11. part3 \in Found(k)
  <2> HIDE DEF part2
  <2>1. QED
    BY <1>7, <1>8, <1>10, Concat4Found, Zenon
<1>12. QED
  BY <1>6, <1>11, Zenon

LEMMA CheckPosixThreadingFound ==
  ASSUME NEW line, NEW k
  PROVE  CheckPosixThreading(line, k) \in Found(k)
<1> DEFINE first(f) == FirstOf({i \in DOMAIN line : At(line, i, <<{f}, {"("}>>)}, 0)
           S == {f \in ThreadUnsafe : first(f) > 0
                   /\ (first(f) > 1 => line[first(f) - 1] \notin {".", ">", "->"})}
<1>1. S \subseteq ThreadUnsafe
  OBVIOUS
<1>2. CheckPosixThreading(line, k) =
        [i \in 1 .. Cardinality(S) |-> Error_(k, "runtime/threadsafe_fn", 2)]
  BY Zenon DEF CheckPosixThreading
<1> HIDE DEF S
<1>3. IsFiniteSet(ThreadUnsafe)
  <2>1. IsFiniteSet({})
    BY FS_EmptySet
  <2>2. \A T, x : IsFiniteSet(T) => IsFiniteSet(T \cup {x})
    BY FS_AddElement
  <2>3. ThreadUnsafe = {} \cup {"asctime"} \cup {"ctime"} \cup {"getgrgid"} \cup {"getgrnam"}
          \cup {"getlogin"} \cup {"getpwnam"} \cup {"getpwuid"} \cup {"gmtime"}
          \cup {"localtime"} \cup {"rand"} \cup {"readdir"} \cup {"strtok"} \cup {"ttyname"}
    BY DEF ThreadUnsafe
  <2>4. QED
    BY <2>1, <2>2, <2>3, Zenon
<1>4. PICK N \in Nat : N = Cardinality(S)
  <2>1. IsFiniteSet(S)
    BY <1>1, <1>3, FS_Subset
  <2>2. QED
    BY <2>1, FS_CardinalityType
<1> DEFINE cat == [i \in 1 .. N |-> "runtime/threadsafe_fn"]
           conf == [i \in 1 .. N |-> 2]
<1>5. "runtime/threadsafe_fn" \in FoundCategories
  BY DEF FoundCategories, ERROR_CATEGORIES
<1>6. \A i \in 1 .. N : cat[i] \in FoundCategories /\ conf[i] \in 0 .. 5
  BY <1>5
<1>7. [i \in 1 .. N |-> Error_(k, "runtime/threadsafe_fn", 2)]
        = [i \in 1 .. N |-> Error_(k, cat[i], conf[i])]
  OBVIOUS
<1> HIDE DEF cat, conf
<1>8. [i \in 1 .. N |-> Error_(k, cat[i], conf[i])] \in Found(k)
  BY <1>6, MadeFound
<1>9. QED
  BY <1>2, <1>4, <1>7, <1>8

-----------------------------------------------------------------------------
(* The length of functions.                                                *)

LEMMA Quotient ==
  ASSUME NEW a \in Nat, NEW b \in Nat \ {0}, NEW p \in Nat, a > b * p
  PROVE  a \div b \in Nat /\ p <= a \div b
<1>1. PICK q \in Int : q = a \div b
  OBVIOUS
<1>2. PICK m \in 0 .. b - 1 : a = b * q + m
  <2>1. a = b * (a \div b) + (a % b) /\ a % b \in 0 .. b - 1
    OBVIOUS
  <2>2. QED
    BY <1>1, <2>1
<1>3. ~(q + 1 <= p)
  <2> SUFFICES ASSUME q + 1 <= p PROVE FALSE
    OBVIOUS
  <2>1. b * (q + 1) <= b * p
    BY <1>1
  <2>2. b * (q + 1) = b * q + b
    BY <1>1
  <2>3. QED
    BY <1>1, <1>2, <2>1, <2>2
<1>4. p <= q
  BY <1>1, <1>3
<1>5. QED
  BY <1>1, <1>4

FunctionStateOK(state) ==
  /\ DOMAIN state = {"in_a_function", "lines_in_function", "test"}
  /\ state.lines_in_function \in Nat

LEMMA FunctionCheckFound ==
  ASSUME NEW state, FunctionStateOK(state), NEW v \in Int, NEW k
  PROVE  FunctionCheck(state, v, k) \in Seq(SizeErrors(k, v))
<1> DEFINE base == Trigger(state)
           lines == state.lines_in_function
           ratio == lines \div base
           S == {x \in 0 .. 5 : x = 0 \/ 2 ^ x <= ratio}
           level == Max(S)
           long == IsLong(state, v)
           e == Error_(k, "readability/fn_size", level)
<1>1. base \in Nat \ {0} /\ lines \in Nat
  BY RulesAssumption DEF FunctionStateOK, Trigger
<1>2. level \in S /\ \A x \in S : level >= x
  <2>1. \A x \in S : x \in 0 .. 5
    OBVIOUS
  <2>2. 0 \in S
    OBVIOUS
  <2> HIDE DEF S
  <2>3. \E x \in S : \A y \in S : x >= y
    <3>1. \A x \in S : x \in {0, 1, 2, 3, 4, 5}
      BY <2>1
    <3>2. QED
      BY <2>2, <3>1
  <2>4. QED
    BY <2>3, Zenon DEF Max
<1>3. level \in 0 .. 5
  BY <1>2
<1>4. ASSUME long, v <= 5 PROVE v <= level
  <2>1. CASE v < 0
    BY <1>3, <2>1
  <2>2. CASE v \in 0 .. 5
    <3>1. \E p \in Nat : p = 2 ^ v
      <4>1. v \in {0, 1, 2, 3, 4, 5}
        BY <2>2
      <4>2. 2 ^ 0 = 1 /\ 2 ^ 1 = 2 /\ 2 ^ 2 = 4 /\ 2 ^ 3 = 8 /\ 2 ^ 4 = 16 /\ 2 ^ 5 = 32
        OBVIOUS
      <4>3. QED
        BY <4>1, <4>2
    <3>2. PICK p \in Nat : p = 2 ^ v
      BY <3>1
    <3>3. lines > base * p
      BY <1>4, <2>2, <3>2 DEF IsLong
    <3>4. p <= ratio
      <4> HIDE DEF base, lines
      <4>1. QED
        BY <1>1, <3>3, Quotient
    <3>5. v \in S
      BY <2>2, <3>2, <3>4
    <3>6. QED
      BY <1>2, <3>5
  <2>3. QED
    BY <1>4, <2>1, <2>2
<1>5. FunctionCheck(state, v, k) = IF long THEN <<e>> ELSE <<>>
  BY Zenon DEF FunctionCheck, When
<1>6. long => e \in SizeErrors(k, v)
  <2> HIDE DEF level, long
  <2>1. QED
    BY <1>3, <1>4 DEF SizeErrors, Error_
<1> DEFINE E == SizeErrors(k, v)
<1> HIDE DEF e, long, E
<1>7. e \in E => <<e>> \in Seq(E)
  OBVIOUS
<1>8. <<>> \in Seq(E)
  OBVIOUS
<1>9. QED
  BY <1>5, <1>6, <1>7, <1>8 DEF E

LEMMA CheckForFunctionLengthsFound ==
  ASSUME NEW lines, NEW k, NEW state, FunctionStateOK(state), NEW v \in Int
  PROVE  LET length == CheckForFunctionLengths(lines, k, state, v)
         IN length.errors \in Seq(SizeErrors(k, v)) /\ FunctionStateOK(length.state)
<1> DEFINE E == SizeErrors(k, v)
           length == CheckForFunctionLengths(lines, k, state, v)
           line == lines[k]
           paren == Find(line, "(")
           starts == /\ paren > 1 /\ line[1] # IND
                     /\ \A i \in 1 .. paren - 1 :
                          IsWord(line, i) /\ line[i] \notin {".", "->", "-", "+", "!"}
                     /\ line[paren - 1] \in {"TEST", "TEST_F"}
                        \/ line[paren - 1] \notin AllCaps
           body == FirstOf({x \in k .. Last_(lines) :
                              AnyOf(lines[x], {";", "}", "{"})}, -1)
<1>1. /\ <<>> \in Seq(E)
      /\ <<Error_(k, "readability/fn_size", 5)>> \in Seq(E)
  <2> DEFINE e == Error_(k, "readability/fn_size", 5)
  <2>1. e \in E
    BY DEF SizeErrors, Error_
  <2> HIDE DEF e, E
  <2>2. <<>> \in Seq(E) /\ <<e>> \in Seq(E)
    BY <2>1
  <2>3. QED
    BY <2>2 DEF e
<1>2. FunctionCheck(state, v, k) \in Seq(E)
  BY FunctionCheckFound
<1>3. /\ \A name : FunctionStateOK(Begin(state, name))
      /\ FunctionStateOK([state EXCEPT !.in_a_function = FALSE])
      /\ FunctionStateOK(FunctionCount(state))
  BY DEF FunctionStateOK, Begin, FunctionCount
<1> HIDE DEF E
<1> DEFINE a == [state |-> state, errors |-> <<Error_(k, "readability/fn_size", 5)>>,
                 raised |-> FALSE]
           b == [state |-> IF AnyOf(lines[body], {";", "}"}) THEN state
                           ELSE Begin(state, line[paren - 1]),
                 errors |-> <<>>, raised |-> FALSE]
           c == [state |-> [state EXCEPT !.in_a_function = FALSE],
                 errors |-> FunctionCheck(state, v, k),
                 raised |-> FunctionCheckRaises(state, v)]
           d == [state |-> IF IsBlankLine(line) THEN state ELSE FunctionCount(state),
                 errors |-> <<>>, raised |-> FALSE]
           Good(r) == r.errors \in Seq(E) /\ FunctionStateOK(r.state)
<1>4. length = CASE starts /\ body = -1 -> a
                 [] starts /\ body >= 0 -> b
                 [] ~starts /\ line = <<"}">> -> c
                 [] OTHER -> d
  BY Zenon DEF CheckForFunctionLengths
<1> HIDE DEF starts, body, length
<1>5. Good(a) /\ Good(b) /\ Good(c) /\ Good(d)
  BY <1>1, <1>2, <1>3
<1> HIDE DEF a, b, c, d, paren, line, Good
<1>6. Good(length)
  BY <1>4, <1>5
<1>7. QED
  BY <1>6 DEF length, E, Good

-----------------------------------------------------------------------------
(* The state of the includes of a file.                                    *)

\* The stack holds the numbers of scopes.
IncludeStateOK(state) ==
  /\ DOMAIN state = {"scopes", "stack", "raised"}
  /\ state.raised \in BOOLEAN
  /\ IsSeq(state.scopes) /\ IsSeq(state.stack)
  /\ \A i \in DOMAIN state.stack : state.stack[i] \in DOMAIN state.scopes

LEMMA PushScopeOK ==
  ASSUME NEW state, IncludeStateOK(state)
  PROVE  IncludeStateOK(PushScope(state)) /\ PushScope(state).stack # <<>>
<1> DEFINE a == state.scopes
           b == state.stack
           a1 == Append(a, _ScopedIncludeState)
           b1 == Append(b, Len(a) + 1)
           p == PushScope(state)
<1>1. IsSeq(a) /\ IsSeq(b) /\ \A i \in DOMAIN b : b[i] \in DOMAIN a
  BY DEF IncludeStateOK
<1>2. p.scopes = a1 /\ p.stack = b1 /\ p.raised = state.raised /\ DOMAIN p = DOMAIN state
  BY DEF PushScope, IncludeStateOK
<1> HIDE DEF a, b, p
<1>3. /\ IsSeq(a1) /\ Len(a) \in Nat /\ DOMAIN a = 1 .. Len(a) /\ DOMAIN a1 = 1 .. Len(a) + 1
  BY <1>1, AppendAny
<1>4. /\ IsSeq(b1) /\ Len(b) \in Nat /\ DOMAIN b = 1 .. Len(b) /\ DOMAIN b1 = 1 .. Len(b) + 1
      /\ b1[Len(b) + 1] = Len(a) + 1 /\ \A i \in 1 .. Len(b) : b1[i] = b[i]
  BY <1>1, AppendAny
<1> HIDE DEF a1, b1
<1>5. \A i \in DOMAIN b1 : b1[i] \in DOMAIN a1
  <2>1. \A i \in 1 .. Len(b) : b1[i] \in 1 .. Len(a)
    BY <1>1, <1>3, <1>4
  <2>2. \A i \in DOMAIN b1 : i \in 1 .. Len(b) \/ i = Len(b) + 1
    BY <1>4
  <2>3. Len(a) + 1 \in DOMAIN a1 /\ \A x \in 1 .. Len(a) : x \in DOMAIN a1
    BY <1>3
  <2>4. QED
    BY <1>4, <2>1, <2>2, <2>3
<1>6. b1 # <<>>
  <2>1. Len(b) + 1 \in DOMAIN b1
    BY <1>4
  <2>2. QED
    BY <2>1, EmptyAny
<1>7. IncludeStateOK(p)
  BY <1>2, <1>3, <1>4, <1>5 DEF IncludeStateOK
<1>8. QED
  BY <1>2, <1>6, <1>7 DEF p

LEMMA PopScopeOK ==
  ASSUME NEW state, IncludeStateOK(state)
  PROVE  IncludeStateOK(PopScope(state))
<1>1. CASE state.stack = <<>>
  BY <1>1 DEF PopScope, IncludeStateOK
<1>2. CASE state.stack # <<>>
  <2> DEFINE b == state.stack
             b1 == Front_(b)
             p == PopScope(state)
  <2>1. IsSeq(b) /\ \A i \in DOMAIN b : b[i] \in DOMAIN state.scopes
    BY DEF IncludeStateOK
  <2>2. /\ p.scopes = state.scopes /\ p.stack = b1 /\ p.raised = state.raised
        /\ DOMAIN p = DOMAIN state
    BY <1>2 DEF PopScope, IncludeStateOK
  <2> HIDE DEF b, p
  <2>3. Len(b) \in Nat /\ DOMAIN b = 1 .. Len(b)
    BY <2>1, IsSeqDomain
  <2>4. b1 = SubSeq(b, 1, Len(b) - 1)
    BY DEF Front_
  <2> HIDE DEF b1
  <2>10. Len(b) - 1 \in Int
    BY <2>3
  <2>5. PICK m \in Int : m = Len(b) - 1
    BY <2>10, Zenon
  <2>6. IsSeq(b1) /\ \A i \in DOMAIN b1 : i \in DOMAIN b /\ b1[i] = b[i]
    <3>1. b1 = SubSeq(b, 1, m)
      BY <2>4, <2>5
    <3>2. /\ IsSeq(b1) /\ Len(b1) = (IF 1 <= m THEN m - 1 + 1 ELSE 0)
          /\ \A i \in 1 .. m - 1 + 1 : b1[i] = b[1 + i - 1]
      BY <3>1, SubSeqAny
    <3>3. PICK len \in Nat : len = Len(b1) /\ DOMAIN b1 = 1 .. len
      BY <3>2, IsSeqDomain
    <3>4. ASSUME NEW i \in DOMAIN b1 PROVE i \in 1 .. m
      BY <3>2, <3>3
    <3>5. ASSUME NEW i \in 1 .. m PROVE i \in DOMAIN b /\ b1[i] = b[i]
      <4>1. i \in 1 .. m - 1 + 1 /\ 1 + i - 1 = i
        OBVIOUS
      <4>2. i \in DOMAIN b
        BY <2>3, <2>5
      <4>3. QED
        BY <3>2, <4>1, <4>2
    <3>6. QED
      BY <3>2, <3>4, <3>5
  <2>7. \A i \in DOMAIN b1 : b1[i] \in DOMAIN state.scopes
    BY <2>1, <2>6
  <2>8. IncludeStateOK(p)
    BY <2>2, <2>6, <2>7 DEF IncludeStateOK
  <2>9. QED
    BY <2>8 DEF p
<1>3. QED
  BY <1>1, <1>2

LEMMA ScopeSetOK ==
  ASSUME NEW state, IncludeStateOK(state), NEW top \in DOMAIN state.scopes, NEW x
  PROVE  IncludeStateOK([state EXCEPT !.scopes[top] = x])
<1> DEFINE a == state.scopes
           a1 == [a EXCEPT ![top] = x]
           T == Range(a) \cup {x}
<1>1. DOMAIN a = 1 .. Len(a) /\ Len(a) \in Nat
  BY IsSeqDomain DEF IncludeStateOK
<1>2. IsSeq(a1) /\ DOMAIN a1 = DOMAIN a
  <2> HIDE DEF a
  <2>1. a1 \in [1 .. Len(a) -> T]
    BY <1>1 DEF Range
  <2> HIDE DEF T, a1
  <2>2. IsSeq(a1)
    BY <1>1, <2>1, MadeSeq
  <2>3. QED
    BY <1>1, <2>1, <2>2
<1>3. QED
  <2> DEFINE p == [state EXCEPT !.scopes[top] = x]
  <2>1. p.scopes = a1 /\ p.stack = state.stack /\ p.raised = state.raised /\ DOMAIN p = DOMAIN state
    BY DEF IncludeStateOK
  <2> HIDE DEF a1, p
  <2>2. IncludeStateOK(p)
    BY <1>2, <2>1 DEF IncludeStateOK
  <2>3. QED
    BY <2>2 DEF p

LEMMA LastOf ==
  ASSUME NEW s, IsSeq(s), s # <<>>
  PROVE  Last(s) = s[Len(s)] /\ Len(s) \in DOMAIN s
<1>1. Len(s) \in Nat /\ DOMAIN s = 1 .. Len(s) /\ s \in Seq(Range(s))
  BY IsSeqDomain DEF IsSeq
<1>2. Len(s) # 0
  BY <1>1, EmptySeq
<1>3. QED
  BY <1>1, <1>2 DEF Last

LEMMA CheckIncludeLineFound ==
  ASSUME NEW path, NEW lines, NEW k, NEW state, IncludeStateOK(state)
  PROVE  LET r == CheckIncludeLine(path, lines, k, state)
         IN r.errors \in Ordered(k) /\ IncludeStateOK(r.state)
<1> DEFINE line == lines[k]
           opened == IF state.stack = <<>> THEN PushScope(state) ELSE state
           top == Last(opened.stack)
           scope == opened.scopes[top]
           header == Included(line)
           old == When(/\ ~IsSystem(line) /\ header.dir = <<>> /\ header.ext = "h",
                       k, "build/include", 4)
           again == header \in DOMAIN scope.line
           order == CheckNextIncludeOrder(scope,
                      _ClassifyInclude(path, header, IsSystem(line)))
           alpha == CheckIncludeAlphabeticalOrder(order.scope, header, k)
           seen == [alpha.scope EXCEPT !.line =
                      [h \in DOMAIN @ \cup {header} |-> IF h = header THEN k ELSE @[h]]]
           streams == When(/\ header.dir = <<>> /\ header.ext = ""
                           /\ Len(header.parts) = 1 /\ header.parts[1] \in StreamHeaders
                           /\ ~_IsTestFilename(path), k, "readability/streams", 3)
           late == When(~order.ok, k, "build/include_order", 4)
           twice == When(TRUE, k, "build/include", 4)
           dirs == IncludeLinePaths(line, k)
           popped == PopScope(state)
           r == CheckIncludeLine(path, lines, k, state)
           set == [opened EXCEPT !.scopes[top] = seen]
           first == old \o dirs \o late \o alpha.errors \o streams
           second == old \o dirs \o twice \o streams
           Good(x) == x.errors \in Ordered(k) /\ IncludeStateOK(x.state)
           isEnd == IsDirective(line, EndifDirective)
           isElse == IsDirective(line, ElseDirective)
           isIf == IsDirective(line, IfDirective)
           r1 == [state |-> popped, errors |-> <<>>]
           r2 == [state |-> IF popped.raised THEN popped ELSE PushScope(popped),
                  errors |-> <<>>]
           r3 == [state |-> PushScope(state), errors |-> <<>>]
           r4 == [state |-> set, errors |-> first]
           r5 == [state |-> opened, errors |-> second]
           r6 == [state |-> opened, errors |-> <<>>]
<1>1. r = CASE isEnd -> r1 [] isElse -> r2 [] isIf -> r3
            [] IsInclude(line) /\ ~again -> r4 [] IsInclude(line) /\ again -> r5
            [] OTHER -> r6
  BY Zenon DEF CheckIncludeLine
<1>2. IncludeStateOK(opened) /\ opened.stack # <<>>
  BY PushScopeOK
<1>3. IncludeStateOK(popped) /\ IncludeStateOK(PushScope(popped)) /\ IncludeStateOK(PushScope(state))
  BY PushScopeOK, PopScopeOK
<1>4. /\ "build/include" \in FoundCategories /\ "readability/streams" \in FoundCategories
      /\ 3 \in 0 .. 5 /\ 4 \in 0 .. 5
  BY DEF FoundCategories, ERROR_CATEGORIES
<1>5. old \in Ordered(k) /\ streams \in Ordered(k) /\ twice \in Ordered(k)
  BY <1>4, WhenFound, FoundOrdered, Zenon
<1>13. late \in Ordered(k)
  BY <1>4, WhenOrdered, Zenon
<1>6. dirs \in Ordered(k) /\ alpha.errors \in Ordered(k)
  BY IncludeLinePathsFound, FoundOrdered, CheckIncludeAlphabeticalOrderOrdered
<1> HIDE DEF opened
<1>7. IncludeStateOK(set)
  <2> HIDE DEF seen
  <2>1. top \in DOMAIN opened.scopes
    <3>1. IsSeq(opened.stack) /\ \A i \in DOMAIN opened.stack : opened.stack[i] \in DOMAIN opened.scopes
      BY <1>2 DEF IncludeStateOK
    <3>2. QED
      BY <1>2, <3>1, LastOf
  <2> HIDE DEF top
  <2>2. QED
    BY <1>2, <2>1, ScopeSetOK
<1> DEFINE al == alpha.errors
<1>8. first \in Ordered(k) /\ second \in Ordered(k)
  <2>1. al \in Ordered(k) /\ first = old \o dirs \o late \o al \o streams
    BY <1>6
  <2> HIDE DEF old, dirs, late, al, streams, twice, first
  <2>2. first \in Ordered(k)
    BY <1>5, <1>6, <1>13, <2>1, Concat4Ordered, Zenon
  <2>3. second \in Ordered(k)
    BY <1>5, <1>6, ConcatOrdered, Zenon
  <2>4. QED
    BY <2>2, <2>3
<1>9. <<>> \in Ordered(k)
  BY EmptyAny DEF Ordered
<1> HIDE DEF popped, set, first, second
<1>10. Good(r1) /\ Good(r2) /\ Good(r3) /\ Good(r4) /\ Good(r5) /\ Good(r6)
  BY <1>2, <1>3, <1>7, <1>8, <1>9
<1> HIDE DEF r, r1, r2, r3, r4, r5, r6, Good, isEnd, isElse, isIf, again, line
<1>11. Good(r)
  BY <1>1, <1>10
<1>12. QED
  BY <1>11 DEF Good, r

LEMMA CheckLanguageFound ==
  ASSUME NEW path, NEW file_, NEW k, NEW state, IncludeStateOK(state), IsSeq(file_.elided[k])
  PROVE  LET r == CheckLanguage(path, file_, k, state)
         IN r.errors \in Ordered(k) /\ IncludeStateOK(r.state)
<1> DEFINE line == file_.elided[k]
           r == CheckLanguage(path, file_, k, state)
           r1 == [state |-> state, errors |-> <<>>]
           r2 == CheckIncludeLine(path, file_.lines, k, state)
           r3 == [state |-> state, errors |-> LanguageRules(path, file_, k)]
           Good(x) == x.errors \in Ordered(k) /\ IncludeStateOK(x.state)
<1>1. r = CASE line = <<>> -> r1
            [] line # <<>> /\ (IsInclude(line) \/ IsCondition(line)) -> r2
            [] OTHER -> r3
  BY Zenon DEF CheckLanguage
<1>2. <<>> \in Ordered(k)
  BY EmptyAny DEF Ordered
<1>3. LanguageRules(path, file_, k) \in Ordered(k)
  BY LanguageRulesFound, FoundOrdered
<1>4. Good(r1) /\ Good(r3)
  BY <1>2, <1>3
<1>5. Good(r2)
  BY CheckIncludeLineFound
<1> HIDE DEF r, r1, r2, r3, Good, line
<1>6. Good(r)
  BY <1>1, <1>4, <1>5
<1>7. QED
  BY <1>6 DEF Good, r

-----------------------------------------------------------------------------
(* Recursions through a line, that go on at a place further right.         *)

\* A recursion that looks at places further on: where it goes on, at which place,
\* and with which block.
Onward(f, len, go, next, block) ==
  f = [i \in 1 .. len |->
         IF i \notin go THEN [blocks |-> <<>>, at |-> i]
         ELSE [f[next[i]] EXCEPT !.blocks = <<block[i]>> \o @]]
GoesOn(len, go, next) == go \subseteq 1 .. len /\ \A i \in go : next[i] \in i + 1 .. len

LEMMA OnwardExists ==
  ASSUME NEW len \in Nat, NEW go, NEW next, NEW block, GoesOn(len, go, next)
  PROVE  \E f : Onward(f, len, go, next, block)
<1> DEFINE Value(f, i) == IF i \notin go THEN [blocks |-> <<>>, at |-> i]
                          ELSE [f[next[i]] EXCEPT !.blocks = <<block[i]>> \o @]
           Good(f, m) == \A i \in 1 .. len : i > len - m => f[i] = Value(f, i)
           N == {m \in Nat : \E f : Good(f, m)}
<1>0. go \subseteq 1 .. len /\ \A i \in go : next[i] \in i + 1 .. len
  BY DEF GoesOn
<1>1. 0 \in N
  <2>1. Good(<<>>, 0)
    OBVIOUS
  <2> HIDE DEF Good
  <2>2. QED
    BY <2>1
<1>2. ASSUME NEW m \in Nat, m \in N PROVE m + 1 \in N
  <2>1. PICK f : Good(f, m)
    BY <1>2
  <2> DEFINE g == [i \in 1 .. len |-> IF i = len - m THEN Value(f, i) ELSE f[i]]
  <2>2. \A i \in 1 .. len : i >= len - m => Value(g, i) = Value(f, i)
    <3> SUFFICES ASSUME NEW i \in 1 .. len, i >= len - m PROVE Value(g, i) = Value(f, i)
      OBVIOUS
    <3>1. CASE i \notin go
      BY <3>1
    <3>2. CASE i \in go
      <4>1. next[i] \in i + 1 .. len
        BY <1>0, <3>2
      <4>2. next[i] \in 1 .. len /\ next[i] # len - m
        BY <4>1
      <4>3. g[next[i]] = f[next[i]]
        BY <4>2
      <4> HIDE DEF g
      <4>4. QED
        BY <4>3
    <3>3. QED
      BY <3>1, <3>2
  <2>3. ASSUME NEW i \in 1 .. len, i > len - (m + 1) PROVE g[i] = Value(g, i)
    <3>1. i >= len - m
      BY <2>3
    <3>2. CASE i = len - m
      <4>1. g[i] = Value(f, i)
        BY <3>2
      <4>2. QED
        BY <2>2, <3>1, <4>1
    <3>3. CASE i # len - m
      <4>1. g[i] = f[i]
        BY <3>3
      <4>2. f[i] = Value(f, i)
        <5>1. i > len - m
          BY <3>1, <3>3
        <5> HIDE DEF Value
        <5>2. QED
          BY <2>1, <5>1
      <4>3. QED
        BY <2>2, <3>1, <4>1, <4>2
    <3>4. QED
      BY <3>2, <3>3
  <2> HIDE DEF g, Value
  <2>4. Good(g, m + 1)
    BY <2>3
  <2> HIDE DEF Good
  <2>5. QED
    BY <2>4
<1>3. Nat \subseteq N
  <2> HIDE DEF N
  <2>1. QED
    BY <1>1, <1>2, NatSetInduction
<1>4. PICK f : Good(f, len)
  BY <1>3
<1> DEFINE h == [i \in 1 .. len |-> f[i]]
<1>5. \A i \in 1 .. len : h[i] = Value(h, i)
  <2> SUFFICES ASSUME NEW i \in 1 .. len PROVE h[i] = Value(h, i)
    OBVIOUS
  <2>1. f[i] = Value(f, i)
    <3> HIDE DEF Value
    <3>1. QED
      BY <1>4
  <2>2. Value(h, i) = Value(f, i)
    <3>1. CASE i \notin go
      BY <3>1
    <3>2. CASE i \in go
      <4>1. next[i] \in 1 .. len
        BY <1>0, <3>2
      <4>2. h[next[i]] = f[next[i]]
        BY <4>1
      <4> HIDE DEF h
      <4>3. QED
        BY <4>2
    <3>3. QED
      BY <3>1, <3>2
  <2>3. h[i] = f[i]
    OBVIOUS
  <2>4. QED
    BY <2>1, <2>2, <2>3
<1> DEFINE w == [i \in 1 .. len |-> Value(h, i)]
<1>6. h = w
  <2> HIDE DEF Value
  <2>1. QED
    BY <1>5
<1>7. Onward(h, len, go, next, block) <=> h = w
  BY Zenon DEF Onward
<1> HIDE DEF h, w
<1>8. QED
  BY <1>6, <1>7

OnwardFine(x) == DOMAIN x = {"blocks", "at"} /\ IsSeq(x.blocks) /\ x.at \in Int

LEMMA OnwardIsFine ==
  ASSUME NEW len \in Nat, NEW go, NEW next, NEW block, GoesOn(len, go, next),
         NEW f, Onward(f, len, go, next, block)
  PROVE  \A i \in 1 .. len : OnwardFine(f[i])
<1>0. go \subseteq 1 .. len /\ \A i \in go : next[i] \in i + 1 .. len
  BY DEF GoesOn
<1>1. \A i \in 1 .. len : f[i] = IF i \notin go THEN [blocks |-> <<>>, at |-> i]
                                 ELSE [f[next[i]] EXCEPT !.blocks = <<block[i]>> \o @]
  BY DEF Onward
<1> DEFINE N == {m \in Nat : \A i \in 1 .. len : i > len - m => OnwardFine(f[i])}
<1>2. 0 \in N
  OBVIOUS
<1>3. ASSUME NEW m \in Nat, m \in N PROVE m + 1 \in N
  <2>1. \A i \in 1 .. len : i > len - m => OnwardFine(f[i])
    BY <1>3
  <2>2. ASSUME NEW i \in 1 .. len, i >= len - m PROVE OnwardFine(f[i])
    <3>1. CASE i \notin go
      <4>1. f[i] = [blocks |-> <<>>, at |-> i]
        BY <1>1, <3>1
      <4>2. IsSeq(<<>>)
        BY EmptyAny
      <4>3. QED
        BY <4>1, <4>2 DEF OnwardFine
    <3>2. CASE i \in go
      <4> DEFINE x == f[next[i]]
                 s == <<block[i]>> \o x.blocks
      <4>1. next[i] \in i + 1 .. len
        BY <1>0, <3>2
      <4>2. next[i] \in 1 .. len /\ next[i] > len - m
        BY <2>2, <4>1
      <4>3. OnwardFine(x)
        BY <2>1, <4>2
      <4>4. f[i] = [x EXCEPT !.blocks = <<block[i]>> \o @]
        BY <1>1, <3>2
      <4> HIDE DEF x
      <4>5. IsSeq(s)
        BY <4>3, SingleAny, ConcatAny DEF OnwardFine
      <4>6. f[i].blocks = s /\ f[i].at = x.at /\ DOMAIN f[i] = DOMAIN x
        BY <4>3, <4>4 DEF OnwardFine
      <4> HIDE DEF s
      <4>7. QED
        BY <4>3, <4>5, <4>6 DEF OnwardFine
    <3>3. QED
      BY <3>1, <3>2
  <2>3. \A i \in 1 .. len : i > len - (m + 1) => i >= len - m
    OBVIOUS
  <2>4. QED
    BY <2>2, <2>3
<1>4. Nat \subseteq N
  <2> HIDE DEF N
  <2>1. QED
    BY <1>2, <1>3, NatSetInduction
<1>5. QED
  BY <1>4

-----------------------------------------------------------------------------
(* The stack of blocks.                                                    *)

LEMMA WithTopSeq ==
  ASSUME NEW s, IsSeq(s), s # <<>>, NEW x
  PROVE  /\ IsSeq(WithTop(s, x)) /\ DOMAIN WithTop(s, x) = DOMAIN s
         /\ \A i \in DOMAIN s : WithTop(s, x)[i] = IF i = Len(s) THEN x ELSE s[i]
<1> DEFINE T == Range(s) \cup {x}
           w == WithTop(s, x)
<1>1. Len(s) \in Nat /\ DOMAIN s = 1 .. Len(s) /\ Len(s) \in DOMAIN s
  BY IsSeqDomain, LastOf
<1>2. s \in [1 .. Len(s) -> T]
  <2>1. s \in Seq(Range(s))
    BY DEF IsSeq
  <2>2. s \in [1 .. Len(s) -> Range(s)]
    BY <2>1, LenProperties
  <2> HIDE DEF T
  <2>3. \A i \in 1 .. Len(s) : s[i] \in T
    BY <2>2 DEF T
  <2>4. s = [i \in 1 .. Len(s) |-> s[i]]
    BY <2>2
  <2>5. QED
    BY <2>3, <2>4
<1>3. w = [s EXCEPT ![Len(s)] = x]
  BY DEF WithTop
<1>4. x \in T
  OBVIOUS
<1> HIDE DEF T, w
<1>5. w \in [1 .. Len(s) -> T]
  BY <1>2, <1>3, <1>4
<1>6. IsSeq(w)
  BY <1>1, <1>5, MadeSeq
<1>7. \A i \in 1 .. Len(s) : w[i] = IF i = Len(s) THEN x ELSE s[i]
  BY <1>1, <1>2, <1>3
<1>8. QED
  BY <1>1, <1>5, <1>6, <1>7 DEF w

LEMMA FrontSeq ==
  ASSUME NEW s, IsSeq(s)
  PROVE  /\ IsSeq(Front(s)) /\ \A i \in DOMAIN Front(s) : i \in DOMAIN s /\ Front(s)[i] = s[i]
<1>1. Len(s) \in Nat /\ DOMAIN s = 1 .. Len(s)
  BY IsSeqDomain
<1>2. Len(s) - 1 \in Int
  BY <1>1
<1>3. PICK m \in Int : m = Len(s) - 1
  BY <1>2, Zenon
<1>4. Front(s) = SubSeq(s, 1, m)
  BY <1>3 DEF Front
<1> DEFINE f == SubSeq(s, 1, m)
<1>5. /\ IsSeq(f) /\ Len(f) = (IF 1 <= m THEN m - 1 + 1 ELSE 0)
      /\ \A i \in 1 .. m - 1 + 1 : f[i] = s[1 + i - 1]
  <2>1. 1 \in Int
    OBVIOUS
  <2>2. QED
    BY <2>1, SubSeqAny, Zenon
<1>6. DOMAIN f = 1 .. Len(f)
  BY <1>5, IsSeqDomain
<1> HIDE DEF f
<1>7. \A i \in DOMAIN f : i \in DOMAIN s /\ f[i] = s[i]
  <2> SUFFICES ASSUME NEW i \in DOMAIN f PROVE i \in DOMAIN s /\ f[i] = s[i]
    OBVIOUS
  <2>1. i \in 1 .. m - 1 + 1 /\ i \in Nat
    BY <1>5, <1>6
  <2>2. f[i] = s[1 + i - 1]
    BY <1>5, <2>1
  <2>3. 1 + i - 1 = i /\ i \in 1 .. Len(s)
    BY <1>1, <1>3, <2>1
  <2>4. QED
    BY <1>1, <2>2, <2>3
<1>8. QED
  BY <1>4, <1>5, <1>7 DEF f

Branches(p) == /\ DOMAIN p = {"stack_before_if", "stack_before_else", "seen_else"}
               /\ IsSeq(p.stack_before_if) /\ IsSeq(p.stack_before_else)
NestingOK(nest) ==
  /\ DOMAIN nest = {"stack", "pp_stack"} /\ IsSeq(nest.stack) /\ IsSeq(nest.pp_stack)
  /\ \A i \in DOMAIN nest.pp_stack : Branches(nest.pp_stack[i])

LEMMA NestingMade ==
  ASSUME NEW s, IsSeq(s), NEW pp, IsSeq(pp), \A i \in DOMAIN pp : Branches(pp[i])
  PROVE  NestingOK([stack |-> s, pp_stack |-> pp])
  BY DEF NestingOK

LEMMA UpdatePreprocessorOK ==
  ASSUME NEW nest, NestingOK(nest), NEW line
  PROVE  NestingOK(UpdatePreprocessor(nest, line))
<1> DEFINE pp == nest.pp_stack
           s == nest.stack
           q == [stack_before_if |-> s, stack_before_else |-> <<>>, seen_else |-> FALSE]
           pushed == Append(pp, q)
           last == [Last(pp) EXCEPT !.seen_else = TRUE, !.stack_before_else = s]
           marked == IF Last(pp).seen_else THEN pp ELSE WithTop(pp, last)
           first == IF Last(pp).seen_else THEN Last(pp).stack_before_else ELSE s
           x == UpdatePreprocessor(nest, line)
           a == [nest EXCEPT !.pp_stack = pushed]
           b == [stack |-> Last(pp).stack_before_if, pp_stack |-> marked]
           c == [stack |-> first, pp_stack |-> Front(pp)]
<1>0. /\ DOMAIN nest = {"stack", "pp_stack"} /\ IsSeq(s) /\ IsSeq(pp)
      /\ \A i \in DOMAIN pp : Branches(pp[i])
  BY DEF NestingOK
<1> DEFINE A == IsDirective(line, IfDirective)
           B == IsDirective(line, ElseDirective) /\ pp # <<>>
           C == IsDirective(line, EndifDirective) /\ pp # <<>>
<1>1. x = CASE A -> a [] B -> b [] C -> c [] OTHER -> nest
  BY Zenon DEF UpdatePreprocessor
<1>2. NestingOK(a)
  <2>1. Branches(q)
    BY <1>0, EmptyAny DEF Branches
  <2> HIDE DEF q, s, pp
  <2>2. /\ IsSeq(pushed) /\ Len(pp) \in Nat /\ DOMAIN pp = 1 .. Len(pp) /\ DOMAIN pushed = 1 .. Len(pp) + 1
        /\ pushed[Len(pp) + 1] = q /\ \A i \in 1 .. Len(pp) : pushed[i] = pp[i]
    BY <1>0, AppendAny
  <2> HIDE DEF pushed
  <2>3. \A i \in DOMAIN pushed : Branches(pushed[i])
    <3> SUFFICES ASSUME NEW i \in DOMAIN pushed PROVE Branches(pushed[i])
      OBVIOUS
    <3>1. i = Len(pp) + 1 \/ i \in 1 .. Len(pp)
      BY <2>2
    <3>2. QED
      BY <1>0, <2>1, <2>2, <3>1
  <2>4. DOMAIN a = DOMAIN nest /\ a.stack = nest.stack /\ a.pp_stack = pushed
    BY <1>0
  <2> HIDE DEF a
  <2>5. QED
    BY <1>0, <2>2, <2>3, <2>4 DEF NestingOK, s
<1>3. ASSUME pp # <<>> PROVE NestingOK(b) /\ NestingOK(c)
  <2> HIDE DEF pp, s
  <2>1. Last(pp) = pp[Len(pp)] /\ Len(pp) \in DOMAIN pp
    BY <1>0, <1>3, LastOf
  <2>2. Branches(Last(pp))
    BY <1>0, <2>1
  <2>3. Branches(last)
    BY <1>0, <2>2 DEF Branches
  <2>4. IsSeq(Last(pp).stack_before_if) /\ IsSeq(first)
    BY <1>0, <2>2 DEF Branches
  <2> HIDE DEF last
  <2>5. IsSeq(marked) /\ \A i \in DOMAIN marked : Branches(marked[i])
    <3>1. CASE Last(pp).seen_else
      BY <1>0, <3>1
    <3>2. CASE ~Last(pp).seen_else
      <4>1. marked = WithTop(pp, last)
        BY <3>2
      <4> HIDE DEF marked
      <4>2. /\ IsSeq(marked) /\ DOMAIN marked = DOMAIN pp
            /\ \A i \in DOMAIN pp : marked[i] = IF i = Len(pp) THEN last ELSE pp[i]
        BY <1>0, <1>3, <4>1, WithTopSeq
      <4>3. QED
        BY <1>0, <2>3, <4>2
    <3>3. QED
      BY <3>1, <3>2
  <2>6. IsSeq(Front(pp)) /\ \A i \in DOMAIN Front(pp) : Branches(Front(pp)[i])
    BY <1>0, FrontSeq
  <2> HIDE DEF marked, first
  <2>7. QED
    BY <2>4, <2>5, <2>6, NestingMade
<1> DEFINE D == IsDirective(line, IfDirective)
           E == IsDirective(line, ElseDirective)
           F == IsDirective(line, EndifDirective)
<1> HIDE DEF a, b, c, x, pp, D, E, F
<1>4. NestingOK(x)
  <2>1. x = CASE D -> a [] E /\ pp # <<>> -> b [] F /\ pp # <<>> -> c [] OTHER -> nest
    BY <1>1 DEF D, E, F
  <2>2. QED
    BY <1>2, <1>3, <2>1
<1>5. QED
  BY <1>4 DEF x

LEMMA CountParenthesesSeq ==
  ASSUME NEW stack, IsSeq(stack), NEW line
  PROVE  IsSeq(CountParentheses(stack, line))
<1>1. stack = <<>> => CountParentheses(stack, line) = stack
  BY DEF CountParentheses
<1>2. stack # <<>> => \E x : CountParentheses(stack, line) = WithTop(stack, x)
  BY Zenon DEF CountParentheses
<1>3. QED
  <2>1. CASE stack # <<>>
    <3>1. PICK x : CountParentheses(stack, line) = WithTop(stack, x)
      BY <1>2, <2>1
    <3>2. IsSeq(WithTop(stack, x))
      BY <2>1, WithTopSeq, Zenon
    <3>3. QED
      BY <3>1, <3>2
  <2>2. QED
    BY <1>1, <2>1

LEMMA ClassHeadSeq ==
  ASSUME NEW stack, IsSeq(stack), NEW line, NEW rest
  PROVE  IsSeq(ClassHead(stack, line, rest))
<1>1. ~TopIsClass(stack) => ClassHead(stack, line, rest) = stack
  BY Zenon DEF ClassHead
<1>2. TopIsClass(stack) => \E x : ClassHead(stack, line, rest) = WithTop(stack, x)
  BY Zenon DEF ClassHead
<1>3. TopIsClass(stack) => stack # <<>>
  BY DEF TopIsClass
<1>4. QED
  <2>1. CASE TopIsClass(stack)
    <3>1. PICK x : ClassHead(stack, line, rest) = WithTop(stack, x)
      BY <1>2, <2>1
    <3>2. IsSeq(WithTop(stack, x))
      BY <1>3, <2>1, WithTopSeq, Zenon
    <3>3. QED
      BY <3>1, <3>2
  <2>2. QED
    BY <1>1, <2>1

-----------------------------------------------------------------------------
(* Namespaces.                                                             *)

\* The recursion of Namespaces.
NameAt(text, i) == IF IsWord(text, i + 1) THEN text[i + 1] ELSE ""
RestAt(text, i) == IF NameAt(text, i) = "" THEN i + 1 ELSE i + 2
BraceAt(text, i) == FirstOf({j \in RestAt(text, i) .. Len(text) : text[j] = "{"}, 0)
NextAt(text, i) == IF BraceAt(text, i) = 0 THEN RestAt(text, i) ELSE BraceAt(text, i) + 1
NamespaceAt(text, i, k) ==
  [_NamespaceInfo(NameAt(text, i), k) EXCEPT !.seen_open_brace = BraceAt(text, i) > 0]
NamespaceReads(f, text, k) ==
  f = [i \in 1 .. Len(text) + 1 |->
        IF i > Len(text) \/ ~Starts(After(text, i - 1), {"namespace"})
        THEN [blocks |-> <<>>, at |-> i]
        ELSE [f[NextAt(text, i)] EXCEPT !.blocks = <<NamespaceAt(text, i, k)>> \o @]]

LEMMA NamespacesUnfold ==
  ASSUME NEW stack, NEW line, NEW k
  PROVE  LET f == CHOOSE f : NamespaceReads(f, Strip(line), k)
         IN Namespaces(stack, line, k) =
              [stack |-> stack \o f[1].blocks, rest |-> After(Strip(line), f[1].at - 1)]
  BY Zenon DEF Namespaces, NamespaceReads, NameAt, RestAt, BraceAt, NextAt, NamespaceAt

LEMMA NextIsOn ==
  ASSUME NEW text, IsSeq(text), NEW i \in 1 .. Len(text)
  PROVE  NextAt(text, i) \in i + 1 .. Len(text) + 1
<1>1. Len(text) \in Nat /\ DOMAIN text = 1 .. Len(text)
  BY IsSeqDomain
<1>2. RestAt(text, i) \in {i + 1, i + 2} /\ RestAt(text, i) <= Len(text) + 1
  <2>1. CASE IsWord(text, i + 1)
    <3>1. i + 1 \in 1 .. Len(text)
      BY <1>1, <2>1 DEF IsWord
    <3>2. RestAt(text, i) \in {i + 1, i + 2}
      BY Zenon DEF RestAt
    <3> HIDE DEF RestAt
    <3>3. QED
      BY <1>1, <3>1, <3>2
  <2>2. CASE ~IsWord(text, i + 1)
    <3>1. RestAt(text, i) = i + 1
      BY <2>2 DEF RestAt, NameAt
    <3>2. QED
      BY <3>1, <1>1
  <2>3. QED
    BY <2>1, <2>2
<1> DEFINE J == {j \in RestAt(text, i) .. Len(text) : text[j] = "{"}
<1>3. BraceAt(text, i) = IF J = {} THEN 0 ELSE Min(J)
  BY DEF BraceAt, FirstOf
<1>4. J # {} => Min(J) \in J
  <2>0. PICK r \in Nat : RestAt(text, i) = r
    BY <1>1, <1>2
  <2>1. J \subseteq Nat
    <3>1. J \subseteq r .. Len(text)
      BY <2>0
    <3> HIDE DEF J
    <3>2. r .. Len(text) \subseteq Nat
      BY <1>1
    <3>3. QED
      BY <3>1, <3>2
  <2> HIDE DEF J
  <2>2. QED
    BY <2>1, LeastOf
<1>5. BraceAt(text, i) = 0 \/ BraceAt(text, i) \in RestAt(text, i) .. Len(text)
  BY <1>3, <1>4
<1>6. QED
  BY <1>1, <1>2, <1>5 DEF NextAt

LEMMA NamespacesSeq ==
  ASSUME NEW stack, IsSeq(stack), NEW line, IsSeq(line), NEW k
  PROVE  IsSeq(Namespaces(stack, line, k).stack) /\ IsSeq(Namespaces(stack, line, k).rest)
<1> DEFINE text == Strip(line)
           len == Len(text) + 1
           go == {i \in 1 .. Len(text) : Starts(After(text, i - 1), {"namespace"})}
           next == [i \in 1 .. len |-> NextAt(text, i)]
           block == [i \in 1 .. len |-> NamespaceAt(text, i, k)]
           f == CHOOSE f : NamespaceReads(f, text, k)
<1>1. IsSeq(text)
  BY StripLine
<1>2. Len(text) \in Nat /\ len \in Nat /\ 1 \in 1 .. len
  <2> HIDE DEF text
  <2>1. Len(text) \in Nat
    BY <1>1, IsSeqDomain
  <2>2. QED
    BY <2>1
<1> HIDE DEF text
<1>3. GoesOn(len, go, next)
  <2>1. go \subseteq 1 .. Len(text)
    OBVIOUS
  <2> HIDE DEF go
  <2>2. \A i \in go : next[i] = NextAt(text, i)
    BY <1>2, <2>1
  <2> HIDE DEF next
  <2>3. \A i \in go : next[i] \in i + 1 .. Len(text) + 1
    BY <1>1, <2>1, <2>2, NextIsOn
  <2>4. QED
    BY <1>2, <2>1, <2>3 DEF GoesOn
<1>4. \A g : NamespaceReads(g, text, k) <=> Onward(g, len, go, next, block)
  <2> SUFFICES ASSUME NEW g
               PROVE  NamespaceReads(g, text, k) <=> Onward(g, len, go, next, block)
    OBVIOUS
  <2> DEFINE a == [i \in 1 .. Len(text) + 1 |->
                    IF i > Len(text) \/ ~Starts(After(text, i - 1), {"namespace"})
                    THEN [blocks |-> <<>>, at |-> i]
                    ELSE [g[NextAt(text, i)] EXCEPT !.blocks = <<NamespaceAt(text, i, k)>> \o @]]
             b == [i \in 1 .. len |->
                    IF i \notin go THEN [blocks |-> <<>>, at |-> i]
                    ELSE [g[next[i]] EXCEPT !.blocks = <<block[i]>> \o @]]
             Rec(x, y) == [g[x] EXCEPT !.blocks = <<y>> \o @]
             a1 == [i \in 1 .. Len(text) + 1 |->
                    IF i > Len(text) \/ ~Starts(After(text, i - 1), {"namespace"})
                    THEN [blocks |-> <<>>, at |-> i] ELSE Rec(NextAt(text, i), NamespaceAt(text, i, k))]
             b1 == [i \in 1 .. len |->
                    IF i \notin go THEN [blocks |-> <<>>, at |-> i] ELSE Rec(next[i], block[i])]
  <2>1. NamespaceReads(g, text, k) <=> g = a
    BY Zenon DEF NamespaceReads
  <2>2. Onward(g, len, go, next, block) <=> g = b
    BY Zenon DEF Onward
  <2>3. a = a1 /\ b = b1
    OBVIOUS
  <2>4. \A i \in 1 .. len : next[i] = NextAt(text, i) /\ block[i] = NamespaceAt(text, i, k)
    OBVIOUS
  <2>5. \A i \in 1 .. len : i \notin go <=> (i > Len(text) \/ ~Starts(After(text, i - 1), {"namespace"}))
    BY <1>2
  <2> HIDE DEF a, b, Rec, next, block, go
  <2>6. a1 = b1
    BY <2>4, <2>5
  <2>7. QED
    BY <2>1, <2>2, <2>3, <2>6
<1> HIDE DEF go, next, block, len
<1>5. NamespaceReads(f, text, k)
  <2>1. \E g : Onward(g, len, go, next, block)
    BY <1>2, <1>3, OnwardExists, Zenon
  <2>2. \E g : NamespaceReads(g, text, k)
    BY <1>4, <2>1
  <2>3. QED
    BY <2>2, Zenon
<1>6. Onward(f, len, go, next, block)
  BY <1>4, <1>5, Zenon
<1>7. Namespaces(stack, line, k) = [stack |-> stack \o f[1].blocks, rest |-> After(text, f[1].at - 1)]
  BY NamespacesUnfold, Zenon DEF text
<1> HIDE DEF f
<1>8. OnwardFine(f[1])
  <2>1. \A i \in 1 .. len : OnwardFine(f[i])
    BY <1>2, <1>3, <1>6, OnwardIsFine, Zenon
  <2>2. QED
    BY <1>2, <2>1
<1>9. IsSeq(stack \o f[1].blocks)
  BY <1>8, ConcatAny DEF OnwardFine
<1>10. f[1].at - 1 \in Int
  BY <1>8 DEF OnwardFine
<1>11. IsSeq(After(text, f[1].at - 1))
  BY <1>1, <1>10, CutLine, Zenon
<1> DEFINE s == stack \o f[1].blocks
           r == After(text, f[1].at - 1)
<1> HIDE DEF s, r
<1>12. Namespaces(stack, line, k) = [stack |-> s, rest |-> r]
  BY <1>7 DEF s, r
<1>13. QED
  BY <1>9, <1>11, <1>12 DEF s, r

-----------------------------------------------------------------------------
(* Classes and braces.                                                     *)

LEMMA ClassKeywordInt ==
  ASSUME NEW text, IsSeq(text)
  PROVE  ClassKeyword(text) \in Nat
<1> DEFINE K == {j \in 4 .. Len(text) :
                   /\ text[1] = "template" /\ text[2] = "<"
                   /\ text[j - 1] = ">" /\ text[j] \in {"class", "struct"}
                   /\ ~AnyOf(SubSeq(text, 3, j - 2), {"(", ")", "{", "}", ";", "="})}
           x == ClassKeyword(text)
<1>1. Len(text) \in Nat
  BY IsSeqDomain
<1>2. x = 1 \/ x = (IF K = {} THEN 0 ELSE Max(K))
  BY Zenon DEF ClassKeyword
<1>3. K \subseteq 1 .. Len(text)
  <2>1. K \subseteq 4 .. Len(text)
    OBVIOUS
  <2> HIDE DEF K
  <2>2. QED
    BY <1>1, <2>1
<1> HIDE DEF K, x
<1>4. (IF K # {} THEN Max(K) ELSE 0) \in 0 .. Len(text)
  BY <1>1, <1>3, LastIn
<1>5. x \in Nat
  BY <1>1, <1>2, <1>4
<1>6. QED
  BY <1>5 DEF x

LEMMA ClassDeclarationSeq ==
  ASSUME NEW stack, IsSeq(stack), NEW text, IsSeq(text), NEW lines, NEW k
  PROVE  IsSeq(ClassDeclaration(stack, text, lines, k).stack) /\ IsSeq(ClassDeclaration(stack, text, lines, k).rest)
<1> DEFINE key == ClassKeyword(text)
           I == {i \in key + 1 .. Len(text) :
                 /\ IsWord(text, i)
                 /\ \A j \in key + 1 .. i - 1 : text[j] \in Macro
                 /\ ~(text[i] \in Macro /\ IsWord(text, i + 1))}
           name == FirstOf(I, 0)
           rest == After(text, name)
           block == _ClassInfo(text[name], text[key], lines, k)
           x == ClassDeclaration(stack, text, lines, k)
           a == [stack |-> Append(stack, block), rest |-> rest]
           b == [stack |-> stack, rest |-> text]
<1>1. x \in {a, b}
  BY Zenon DEF ClassDeclaration
<1>2. name \in Int
  <2>1. key \in Nat /\ Len(text) \in Nat
    BY ClassKeywordInt, IsSeqDomain
  <2>2. I \subseteq key + 1 .. Len(text)
    OBVIOUS
  <2> HIDE DEF I, key
  <2>3. key + 1 .. Len(text) \subseteq Nat
    BY <2>1
  <2>4. I # {} => Min(I) \in I
    BY <2>2, <2>3, LeastOf
  <2>5. I # {} => Min(I) \in Int
    <3>1. I \subseteq Nat
      BY <2>2, <2>3
    <3>2. I # {} => Min(I) \in Nat
      BY <2>4, <3>1, Zenon
    <3>3. QED
      BY <3>2
  <2>6. name = IF I = {} THEN 0 ELSE Min(I)
    BY DEF FirstOf
  <2> HIDE DEF name
  <2>7. QED
    BY <2>5, <2>6
<1> HIDE DEF name
<1>3. IsSeq(rest)
  BY <1>2, CutLine, Zenon
<1> HIDE DEF rest, block
<1>4. IsSeq(a.stack) /\ IsSeq(a.rest) /\ IsSeq(b.stack) /\ IsSeq(b.rest)
  BY <1>3, AppendAny
<1> HIDE DEF a, b, x
<1>5. IsSeq(x.stack) /\ IsSeq(x.rest)
  BY <1>1, <1>4
<1>6. QED
  BY <1>5 DEF x

BraceFine(acc, k) == DOMAIN acc = {"stack", "errors"} /\ IsSeq(acc.stack) /\ acc.errors \in Found(k)

LEMMA BraceIsFine ==
  ASSUME NEW acc, NEW k, BraceFine(acc, k), NEW text, NEW i, NEW raw
  PROVE  BraceFine(Brace(acc, text, i, raw, k), k)
<1> DEFINE since == After(text, SelectLastInSubSeq(text, 1, i - 1, LAMBDA t : t \in {"{", ";", ")", "}"}))
           open == SeenOpenBrace(acc.stack)
           top == Last(acc.stack)
           asm == IF MatchAsm(since) THEN "block" ELSE "no"
           seen == WithTop(acc.stack, [top EXCEPT !.seen_open_brace = TRUE])
           pushed == Append(acc.stack, [_BlockInfo("block", TRUE) EXCEPT !.inline_asm = asm])
           a == [acc EXCEPT !.stack = seen]
           b == [acc EXCEPT !.stack = pushed]
           c == [acc EXCEPT !.stack = Front(@)]
           e == CheckEnd(top, raw, k)
           d == [stack |-> Front(acc.stack), errors |-> acc.errors \o e]
           x == Brace(acc, text, i, raw, k)
<1>0. DOMAIN acc = {"stack", "errors"} /\ IsSeq(acc.stack) /\ acc.errors \in Found(k)
  BY DEF BraceFine
<1>1. x = CASE text[i] = "{" /\ ~open -> a
            [] text[i] = "{" /\ open -> b
            [] text[i] \in {";", ")"} /\ ~open -> c
            [] text[i] = "}" /\ acc.stack # <<>> -> d
            [] OTHER -> acc
  BY Zenon DEF Brace
<1>2. ~open => acc.stack # <<>>
  BY DEF SeenOpenBrace
<1>3. ~open => BraceFine(a, k)
  <2> HIDE DEF open, top
  <2>1. ~open => IsSeq(seen)
    BY <1>0, <1>2, WithTopSeq
  <2> HIDE DEF seen
  <2>2. QED
    BY <1>0, <2>1 DEF BraceFine
<1>4. BraceFine(b, k)
  <2> HIDE DEF open, top, asm
  <2>1. IsSeq(pushed)
    BY <1>0, AppendAny
  <2> HIDE DEF pushed
  <2>2. QED
    BY <1>0, <2>1 DEF BraceFine
<1>5. IsSeq(Front(acc.stack))
  BY <1>0, FrontSeq
<1>6. BraceFine(c, k)
  BY <1>0, <1>5 DEF BraceFine
<1>7. BraceFine(d, k)
  <2>1. e \in Found(k)
    BY CheckEndFound
  <2> HIDE DEF e
  <2>2. acc.errors \o e \in Found(k)
    BY <1>0, <2>1, ConcatFound, Zenon
  <2>3. QED
    BY <1>5, <2>2 DEF BraceFine
<1> HIDE DEF a, b, c, d, x, open
<1>8. BraceFine(x, k)
  BY <1>1, <1>3, <1>4, <1>6, <1>7
<1>9. QED
  BY <1>8 DEF x

LEMMA BracesFine ==
  ASSUME NEW stack, IsSeq(stack), NEW text, IsSeq(text), NEW raw, NEW k
  PROVE  BraceFine(Braces(stack, text, raw, k), k)
<1>1. PICK len \in Nat : len = Len(text) /\ DOMAIN text = 1 .. len
  BY IsSeqDomain
<1>2. DOMAIN IndicesOf(text) = 1 .. len
  BY <1>1 DEF IndicesOf
<1>0. BraceReach(stack, text, raw, k, len)
  BY <1>1, <1>2, BraceSteps
<1>3. PICK r : /\ r[0] = NoErrors(stack)
               /\ \A i \in 1 .. len : r[i] = Brace(r[i - 1], text, IndicesOf(text)[i], raw, k)
               /\ Braces(stack, text, raw, k) = r[len]
  BY <1>0 DEF BraceReach
<1> DEFINE P(i) == i \in 0 .. len => BraceFine(r[i], k)
           N == {i \in Nat : P(i)}
<1>4. 0 \in N
  <2>1. <<>> \in Found(k)
    BY DEF Found
  <2>2. QED
    BY <1>3, <2>1 DEF NoErrors, BraceFine
<1>5. ASSUME NEW i \in Nat, i \in N PROVE i + 1 \in N
  <2>1. CASE i + 1 \in 0 .. len
    <3>1. BraceFine(r[i], k)
      BY <1>5, <2>1
    <3>2. r[i + 1] = Brace(r[(i + 1) - 1], text, IndicesOf(text)[i + 1], raw, k) /\ (i + 1) - 1 = i
      BY <1>3, <2>1
    <3>3. BraceFine(Brace(r[i], text, IndicesOf(text)[i + 1], raw, k), k)
      BY <3>1, BraceIsFine, Zenon
    <3>4. QED
      BY <3>2, <3>3
  <2>2. QED
    BY <2>1
<1>6. Nat \subseteq N
  <2> HIDE DEF N
  <2>1. QED
    BY <1>4, <1>5, NatSetInduction
<1>7. QED
  BY <1>3, <1>6

LEMMA UpdateFine ==
  ASSUME NEW nest, NestingOK(nest), NEW raw, NEW lines, NEW k, IsSeq(lines[k])
  PROVE  NestingOK(Update(nest, raw, lines, k).nest) /\ Update(nest, raw, lines, k).errors \in Found(k)
<1> DEFINE line == lines[k]
           pre == UpdatePreprocessor(nest, line)
           counted == CountParentheses(pre.stack, line)
           spaces == Namespaces(counted, line, k)
           class == ClassDeclaration(spaces.stack, spaces.rest, lines, k)
           head == ClassHead(class.stack, line, class.rest)
           end == Braces(head, class.rest, raw[k], k)
           x == [stack |-> end.stack, pp_stack |-> pre.pp_stack]
<1>1. Update(nest, raw, lines, k) = [nest |-> x, errors |-> end.errors]
  BY Zenon DEF Update
<1>2. NestingOK(pre)
  BY UpdatePreprocessorOK
<1> HIDE DEF pre
<1>3. IsSeq(counted)
  BY <1>2, CountParenthesesSeq DEF NestingOK
<1> HIDE DEF counted
<1>4. IsSeq(spaces.stack) /\ IsSeq(spaces.rest)
  BY <1>3, NamespacesSeq
<1> HIDE DEF spaces
<1>5. IsSeq(class.stack) /\ IsSeq(class.rest)
  BY <1>4, ClassDeclarationSeq
<1> HIDE DEF class
<1>6. IsSeq(head)
  BY <1>5, ClassHeadSeq
<1> HIDE DEF head
<1>7. BraceFine(end, k)
  BY <1>5, <1>6, BracesFine
<1> HIDE DEF end
<1>8. NestingOK(x)
  BY <1>2, <1>7 DEF NestingOK, BraceFine
<1> HIDE DEF x
<1>9. QED
  BY <1>1, <1>7, <1>8 DEF BraceFine

-----------------------------------------------------------------------------
(* The includes that a file needs.                                         *)

LEMMA ImageFinite ==
  ASSUME NEW f, NEW S, IsFiniteSet(S)
  PROVE  IsFiniteSet({f[x] : x \in S})
<1> DEFINE T == {f[x] : x \in S}
           g == [x \in S |-> f[x]]
<1>1. g \in [S -> T]
  OBVIOUS
<1>2. \A t \in T : \E x \in S : g[x] = t
  OBVIOUS
<1> HIDE DEF g, T
<1>3. g \in Surjection(S, T)
  BY <1>1, <1>2, Fun_IsSurj
<1>4. IsFiniteSet(T)
  BY <1>3, FS_Surjection
<1>5. QED
  BY <1>4 DEF T

LEMMA NeededFinite ==
  ASSUME NEW line, IsSeq(line)
  PROVE  IsFiniteSet(Needed(line))
<1> DEFINE A == {h \in {"string"} : NeedsString(line)}
           B == {h \in {"algorithm"} : NeedsAlgorithm(line)}
           I == {j \in 1 .. Len(line) - 1 : line[j] \in DOMAIN Templates /\ line[j + 1] = "<"}
           f == [i \in I |-> Templates[line[i]]]
           C == {f[i] : i \in I}
           D == {Templates[line[i]] : i \in I}
<1>1. IsFiniteSet(A)
  BY FS_EmptySet, FS_Singleton, FS_Subset
<1>2. IsFiniteSet(B)
  BY FS_EmptySet, FS_Singleton, FS_Subset
<1>3. IsFiniteSet(I)
  <2>1. Len(line) \in Nat
    BY IsSeqDomain
  <2>2. IsFiniteSet(1 .. Len(line) - 1)
    BY <2>1, FS_Interval
  <2>3. QED
    BY <2>2, FS_Subset
<1>4. D = C
  OBVIOUS
<1>5. Needed(line) = A \cup B \cup D
  BY DEF Needed
<1> HIDE DEF A, B, I, f, C, D
<1>6. IsFiniteSet(C)
  BY <1>3, ImageFinite DEF C
<1>7. IsFiniteSet(A \cup B)
  BY <1>1, <1>2, FS_Union
<1>8. QED
  BY <1>4, <1>5, <1>6, <1>7, FS_Union

LEMMA NamedSeq ==
  ASSUME NEW S, IsFiniteSet(S)
  PROVE  SetToSeq(S) \in Seq(S)
<1>1. PICK N \in Nat : N = Cardinality(S)
  BY FS_CardinalityType
<1>2. ExistsBijection(1 .. N, S)
  BY <1>1, FS_CardinalityType
<1>3. PICK f : f \in Bijection(1 .. N, S)
  BY <1>2 DEF ExistsBijection
<1>4. f \in [1 .. N -> S] /\ IsInjective(f)
  BY <1>3, Fun_BijectionProperties DEF IsInjective
<1>5. SetToSeq(S) \in [1 .. N -> S]
  BY <1>1, <1>4 DEF SetToSeq
<1>6. QED
  BY <1>1, <1>5

-----------------------------------------------------------------------------
(* Rules about the whole file.                                             *)

\* Errors that may be on any line.
SomeFound(s) == \E L : s \in Seq(ErrorsAt(L))

LEMMA ConcatSome ==
  ASSUME NEW s, SomeFound(s), NEW t, SomeFound(t)
  PROVE  SomeFound(s \o t)
<1>1. PICK L : s \in Seq(ErrorsAt(L))
  BY DEF SomeFound
<1>2. PICK M : t \in Seq(ErrorsAt(M))
  BY DEF SomeFound
<1> DEFINE A == ErrorsAt(L)
           B == ErrorsAt(M)
           C == ErrorsAt(L \cup M)
<1>3. A \subseteq C /\ B \subseteq C
  BY DEF ErrorsAt
<1> HIDE DEF A, B, C
<1>4. s \in Seq(C) /\ t \in Seq(C)
  BY <1>1, <1>2, <1>3, SeqMonotonic DEF A, B
<1>5. s \o t \in Seq(C)
  BY <1>4, ConcatProperties
<1>6. QED
  BY <1>5 DEF SomeFound, C

LEMMA FoundIsSome ==
  ASSUME NEW k, NEW s \in Found(k)
  PROVE  SomeFound(s)
  BY DEF Found, SomeFound

LEMMA MadeSome ==
  ASSUME NEW len \in Nat, NEW line, NEW cat \in FoundCategories, NEW conf \in 0 .. 5
  PROVE  SomeFound([i \in 1 .. len |-> Error_(line[i], cat, conf)])
<1> DEFINE s == [i \in 1 .. len |-> Error_(line[i], cat, conf)]
           L == {line[i] : i \in 1 .. len}
           E == ErrorsAt(L)
<1>1. \A i \in 1 .. len : Error_(line[i], cat, conf) \in E
  BY DEF Error_, ErrorsAt
<1> HIDE DEF E, L
<1>2. s \in [1 .. len -> E]
  BY <1>1
<1> HIDE DEF s
<1>3. s \in Seq(E)
  BY <1>2
<1>4. QED
  BY <1>3 DEF SomeFound, s, E

LEMMA CheckClassFinishedSome ==
  ASSUME NEW stack, IsSeq(stack)
  PROVE  SomeFound(CheckClassFinished(stack))
<1> DEFINE I == {i \in DOMAIN stack : stack[i].type = "class"}
           classes == Picked(stack, I)
           line == [i \in 1 .. Len(classes) |-> classes[i].starting_linenum]
           x == CheckClassFinished(stack)
<1>1. x = [i \in DOMAIN classes |-> Error_(classes[i].starting_linenum, "build/class", 5)]
  BY Zenon DEF CheckClassFinished
<1>2. IsFiniteSet(I)
  <2>1. I \subseteq DOMAIN stack
    OBVIOUS
  <2> HIDE DEF I
  <2>2. QED
    BY <2>1, SeqFinite
<1> HIDE DEF I
<1>3. IsSeq(classes)
  BY <1>2, PickedSeq
<1> HIDE DEF classes
<1>4. PICK len \in Nat : len = Len(classes) /\ DOMAIN classes = 1 .. len
  BY <1>3, IsSeqDomain
<1> HIDE DEF x
<1>5. x = [i \in 1 .. len |-> Error_(line[i], "build/class", 5)]
  BY <1>1, <1>4
<1>6. "build/class" \in FoundCategories /\ 5 \in 0 .. 5
  BY DEF FoundCategories, ERROR_CATEGORIES
<1> HIDE DEF line
<1>7. SomeFound(x)
  BY <1>4, <1>5, <1>6, MadeSome
<1>8. QED
  BY <1>7 DEF x

LEMMA CheckForUnicodeReplacementCharactersSome ==
  ASSUME NEW lines, NEW last, Document(lines, last)
  PROVE  SomeFound(CheckForUnicodeReplacementCharacters(lines))
<1> DEFINE bad == {k \in DOMAIN lines : Contains(lines[k], REPLACEMENT)}
           sorted == InOrder(bad)
           x == CheckForUnicodeReplacementCharacters(lines)
<1>1. x = [i \in DOMAIN sorted |-> Error_(sorted[i], "readability/utf8", 5)]
  BY Zenon DEF CheckForUnicodeReplacementCharacters
<1>2. IsFiniteSet(bad)
  <2>1. bad \subseteq DOMAIN lines
    OBVIOUS
  <2> HIDE DEF bad
  <2>2. QED
    BY <2>1, DocumentLast, FS_Subset
<1>3. PICK N \in Nat : N = Cardinality(bad)
  BY <1>2, FS_CardinalityType
<1>4. DOMAIN sorted = 1 .. N
  BY <1>3 DEF InOrder
<1> HIDE DEF x, sorted
<1>5. x = [i \in 1 .. N |-> Error_(sorted[i], "readability/utf8", 5)]
  BY <1>1, <1>4
<1>6. "readability/utf8" \in FoundCategories /\ 5 \in 0 .. 5
  BY DEF FoundCategories, ERROR_CATEGORIES
<1>7. SomeFound(x)
  BY <1>3, <1>5, <1>6, MadeSome
<1>8. QED
  BY <1>7 DEF x

LEMMA CheckForNewlineAtEOFSome ==
  ASSUME NEW lines
  PROVE  SomeFound(CheckForNewlineAtEOF(lines))
<1>1. "whitespace/ending_newline" \in FoundCategories /\ 5 \in 0 .. 5
  BY DEF FoundCategories, ERROR_CATEGORIES
<1>2. QED
  BY <1>1, WhenFound, FoundIsSome, Zenon DEF CheckForNewlineAtEOF

LEMMA CheckForIncludeWhatYouUseSome ==
  ASSUME NEW path, NEW elided, NEW last, Document(elided, last), NEW headers
  PROVE  SomeFound(CheckForIncludeWhatYouUse(path, elided, headers))
<1> DEFINE full == WithoutSuffix(FullName(path), {"cc"}, {"_flymake"})
           own == {[h EXCEPT !.dir = FilesBelongToSameModule(full, h).common \o @] :
                     h \in {g \in headers : FilesBelongToSameModule(full, g).same}}
           found == own \cap DOMAIN Disk
           all == headers \cup UNION {UpdateIncludeState(p) : p \in found}
           users(h) == {k \in DOMAIN elided : elided[k] # <<>>
                          /\ ~Starts(elided[k], Directive) /\ h \in Needed(elided[k])}
           need == UNION {Needed(elided[k]) : k \in DOMAIN elided}
           missing == {h \in need : users(h) # {} /\ Path[h] \notin all}
           named == SetToSeq(missing)
           line == [i \in 1 .. Len(named) |-> Max(users(named[i]))]
           none == IsSourceFile(path) /\ found = {}
           x == CheckForIncludeWhatYouUse(path, elided, headers)
           y == [i \in DOMAIN named |-> Error_(Max(users(named[i])), "build/include_what_you_use", 4)]
<1>1. x = IF none THEN <<>> ELSE y
  BY Zenon DEF CheckForIncludeWhatYouUse
<1>2. IsFiniteSet(need)
  <2> DEFINE f == [k \in DOMAIN elided |-> Needed(elided[k])]
             S == {f[k] : k \in DOMAIN elided}
  <2>1. need = UNION S
    OBVIOUS
  <2>2. IsFiniteSet(DOMAIN elided)
    BY DocumentLast
  <2>3. \A k \in DOMAIN elided : IsSeq(elided[k])
    BY DEF Document
  <2>4. \A k \in DOMAIN elided : IsFiniteSet(f[k])
    BY <2>3, NeededFinite
  <2>5. \A T \in S : IsFiniteSet(T)
    BY <2>4
  <2> HIDE DEF f, need
  <2>6. IsFiniteSet(S)
    BY <2>2, ImageFinite
  <2> HIDE DEF S
  <2>7. QED
    BY <2>1, <2>5, <2>6, FS_UNION
<1>3. IsFiniteSet(missing)
  <2>1. missing \subseteq need
    OBVIOUS
  <2> HIDE DEF missing, need
  <2>2. QED
    BY <1>2, <2>1, FS_Subset
<1> HIDE DEF missing
<1>4. named \in Seq(missing)
  BY <1>3, NamedSeq
<1> HIDE DEF named
<1>5. PICK len \in Nat : len = Len(named) /\ DOMAIN named = 1 .. len
  BY <1>4, LenProperties
<1>6. y = [i \in 1 .. len |-> Error_(line[i], "build/include_what_you_use", 4)]
  BY <1>5
<1>7. "build/include_what_you_use" \in FoundCategories /\ 4 \in 0 .. 5
  BY DEF FoundCategories, ERROR_CATEGORIES
<1> HIDE DEF line, y
<1>8. SomeFound(y)
  BY <1>5, <1>6, <1>7, MadeSome
<1>9. SomeFound(<<>>)
  BY EmptyAny DEF SomeFound
<1> HIDE DEF x, none
<1>10. SomeFound(x)
  BY <1>1, <1>8, <1>9
<1>11. QED
  BY <1>10 DEF x

-----------------------------------------------------------------------------
(* The header guard.                                                       *)

\* The errors about a header guard; the NOLINT of a line of the file may be read.
Guards(last) == {Guard(k, FALSE) : k \in 0 .. last} \cup {Guard(k, TRUE) : k \in 0 .. last}

LEMMA GreatestIn ==
  ASSUME NEW last \in Nat, NEW S, S \subseteq 0 .. last, S # {}
  PROVE  Max(S) \in S
<1> DEFINE T == {last - k : k \in S}
<1>1. T \subseteq Nat /\ T # {}
  <2>1. \A k \in S : last - k \in Nat
    OBVIOUS
  <2>2. QED
    BY <2>1
<1>2. PICK t \in T : \A u \in T : t <= u
  <2> HIDE DEF T
  <2>1. QED
    BY <1>1, LeastNatural
<1>3. PICK m \in S : t = last - m
  BY <1>2
<1>4. \A k \in S : m >= k
  <2> SUFFICES ASSUME NEW k \in S PROVE m >= k
    OBVIOUS
  <2>1. last - k \in T
    OBVIOUS
  <2>2. last - m <= last - k
    BY <1>2, <1>3, <2>1
  <2>3. QED
    BY <2>2
<1>5. QED
  BY <1>4, Zenon DEF Max

LEMMA CheckForHeaderGuardFound ==
  ASSUME NEW path, NEW lines, NEW last, Document(lines, last)
  PROVE  CheckForHeaderGuard(path, lines) \in Seq(Guards(last))
<1> DEFINE G == Guards(last)
           cppvar == GetHeaderGuardCPPVariable(path)
           with(t) == {k \in DOMAIN lines : Len(Strip(lines[k])) >= 2 /\ Head(Strip(lines[k])) = t}
           arg(t) == Strip(lines[Min(with(t))])[2]
           endifs == {k \in DOMAIN lines : Starts(lines[k], {"#endif"})}
           end == lines[Max(endifs)]
           style == ~IsPrefix(cppvar, arg("#ifndef"))
           ended == Len(end) >= 3 /\ end[2] = "//" /\ IsPrefix(cppvar, end[3])
           A == with("#ifndef")
           B == with("#define") = {}
           x == CheckForHeaderGuard(path, lines)
           a == <<Guard(0, FALSE)>>
           s == IF style THEN <<Guard(Min(A), TRUE)>> ELSE <<>>
           c1 == <<Guard(Last_(lines), FALSE)>>
           c3 == IF ended THEN <<>> ELSE <<Guard(Max(endifs), TRUE)>>
           C == arg("#define") # arg("#ifndef")
           c == CASE endifs = {} -> c1 [] endifs # {} /\ C -> a [] OTHER -> c3
           d == s \o c
<1>1. x = CASE A = {} -> a [] A # {} /\ B -> a [] OTHER -> d
  BY Zenon DEF CheckForHeaderGuard
<1>2. /\ last \in Nat /\ DOMAIN lines = 0 .. last /\ Last_(lines) = last
  BY DocumentLast DEF Document
<1>3. \A k \in 0 .. last : <<Guard(k, FALSE)>> \in Seq(G) /\ <<Guard(k, TRUE)>> \in Seq(G)
  <2> SUFFICES ASSUME NEW k \in 0 .. last
               PROVE  <<Guard(k, FALSE)>> \in Seq(G) /\ <<Guard(k, TRUE)>> \in Seq(G)
    OBVIOUS
  <2> DEFINE g == Guard(k, FALSE)
             h == Guard(k, TRUE)
  <2>1. g \in G /\ h \in G
    BY Zenon DEF Guards
  <2> HIDE DEF G, g, h
  <2>2. <<g>> \in Seq(G) /\ <<h>> \in Seq(G)
    BY <2>1
  <2>3. QED
    BY <2>2 DEF g, h
<1>4. <<>> \in Seq(G)
  OBVIOUS
<1>5. A # {} => Min(A) \in 0 .. last
  <2>1. A \subseteq 0 .. last
    BY <1>2
  <2> HIDE DEF A
  <2>2. A \subseteq Nat
    BY <2>1
  <2>3. A # {} => Min(A) \in A
    BY <2>2, LeastOf
  <2>4. QED
    BY <2>1, <2>3
<1>6. endifs # {} => Max(endifs) \in 0 .. last
  <2>1. endifs \subseteq 0 .. last
    BY <1>2
  <2> HIDE DEF endifs
  <2>3. endifs # {} => Max(endifs) \in endifs
    BY <1>2, <2>1, GreatestIn
  <2>4. QED
    BY <2>1, <2>3
<1>7. a \in Seq(G) /\ c1 \in Seq(G)
  <2>1. 0 \in 0 .. last /\ last \in 0 .. last
    BY <1>2
  <2>2. QED
    BY <1>2, <1>3, <2>1
<1>8. A # {} => s \in Seq(G)
  BY <1>3, <1>4, <1>5
<1>9. endifs # {} => c3 \in Seq(G)
  BY <1>3, <1>4, <1>6
<1> HIDE DEF G, A, endifs, a, s, c1, c3, B, C, x
<1>10. c \in Seq(G)
  BY <1>7, <1>9
<1> HIDE DEF c
<1>11. A # {} => d \in Seq(G)
  BY <1>8, <1>10, ConcatProperties
<1> HIDE DEF d
<1>12. x \in Seq(G)
  BY <1>1, <1>7, <1>11
<1>13. QED
  BY <1>12 DEF x, G

-----------------------------------------------------------------------------
(* Error: whether an error is printed, and what is counted.                *)

Fields == {"verbose_level", "error_count", "filters", "counting", "errors_by_category",
           "quiet", "output_format"}
Signed(filters) == IsSeq(filters) /\ \A i \in DOMAIN filters : filters[i].sign \in {"+", "-"}
StateOK(state) == DOMAIN state = Fields /\ state.verbose_level \in Int
LogShape(log) ==
  /\ DOMAIN log = {"file", "cpplint", "nolint", "stderr", "reported"}
  /\ StateOK(log.cpplint) /\ IsSeq(log.stderr) /\ IsSeq(log.reported)

\* The last filter that fits decides, as FiltersDecide says it.
Fits(filters, cat) == {i \in DOMAIN filters : IsPrefix(filters[i].prefix, cat)}
Through(filters, cat) ==
  \A i \in Fits(filters, cat) : filters[i].sign = "-" =>
    \E j \in Fits(filters, cat) : j > i /\ filters[j].sign = "+"

LEMMA FilteredIsNotThrough ==
  ASSUME NEW filters, Signed(filters), NEW cat
  PROVE  IsFiltered(filters, cat) <=> ~Through(filters, cat)
<1> DEFINE I == {i \in 1 .. Len(filters) : IsPrefix(filters[i].prefix, cat)}
           F == Fits(filters, cat)
           last == IF I # {} THEN Max(I) ELSE 0
<1>1. PICK len \in Nat : len = Len(filters) /\ DOMAIN filters = 1 .. len
  BY IsSeqDomain DEF Signed
<1>2. F = I
  BY <1>1 DEF Fits
<1>3. IsFiltered(filters, cat) <=> last > 0 /\ filters[last].sign = "-"
  BY Zenon DEF IsFiltered, SelectLastInSeq
<1>4. I \in SUBSET (1 .. len)
  BY <1>1
<1>5. \A i \in 1 .. len : filters[i].sign \in {"+", "-"}
  BY <1>1 DEF Signed
<1> HIDE DEF I, F
<1>6. I # {} => Max(I) \in I /\ \A i \in I : i <= Max(I)
  BY <1>4, MaxOf
<1>7. Through(filters, cat) <=> \A i \in I : filters[i].sign = "-" => \E j \in I : j > i /\ filters[j].sign = "+"
  BY <1>2 DEF Through, F
<1>8. CASE I = {}
  BY <1>3, <1>7, <1>8
<1>9. CASE I # {}
  <2>1. PICK m \in I : m = Max(I) /\ \A i \in I : i <= m
    BY <1>6, <1>9
  <2>2. IsFiltered(filters, cat) <=> filters[m].sign = "-"
    BY <1>3, <1>4, <1>9, <2>1
  <2>3. filters[m].sign = "-" => ~Through(filters, cat)
    BY <1>4, <1>7, <2>1
  <2>4. ASSUME filters[m].sign # "-" PROVE Through(filters, cat)
    <3>1. filters[m].sign = "+"
      BY <1>4, <1>5, <2>1, <2>4
    <3>2. \A i \in I : filters[i].sign = "-" => m > i
      BY <1>4, <2>1, <2>4
    <3>3. QED
      BY <1>7, <2>1, <3>1, <3>2
  <2>5. QED
    BY <2>2, <2>3, <2>4
<1>10. QED
  BY <1>8, <1>9

Counted(state, cat) ==
  CASE state.counting = "detailed" -> Bump(state.errors_by_category, cat)
    [] state.counting = "toplevel" -> Bump(state.errors_by_category, TopLevel[cat])
    [] OTHER -> state.errors_by_category

\* What counting an error leaves alone.
SameOptions(s, t) == s.verbose_level = t.verbose_level /\ s.filters = t.filters /\ s.counting = t.counting

LEMMA IncrementIs ==
  ASSUME NEW state, StateOK(state), NEW cat
  PROVE  LET next == IncrementErrorCount(state, cat) IN
         /\ StateOK(next) /\ SameOptions(next, state)
         /\ next.error_count = state.error_count + 1
         /\ next.errors_by_category = Counted(state, cat)
<1> DEFINE x == Counted(state, cat)
           y == state.error_count + 1
           next == IncrementErrorCount(state, cat)
<1>1. next = [state EXCEPT !.error_count = y, !.errors_by_category = x]
  BY Zenon DEF IncrementErrorCount, Counted
<1> HIDE DEF x, y, next
<1>2. /\ DOMAIN next = DOMAIN state /\ next.errors_by_category = x /\ next.error_count = y
      /\ next.verbose_level = state.verbose_level /\ next.filters = state.filters
      /\ next.counting = state.counting
  BY <1>1 DEF StateOK, Fields
<1>3. QED
  BY <1>2 DEF x, y, next, StateOK, SameOptions

Printed(log, e) == [file |-> log.file, line |-> e.line, cat |-> e.cat, conf |-> e.conf]

\* What a report changes.
Reports(log, e, next) ==
  /\ LogShape(next)
  /\ next.file = log.file /\ next.nolint = log.nolint
  /\ next.reported = Append(log.reported, e)
  /\ SameOptions(next.cpplint, log.cpplint)
  /\ IF _ShouldPrintError(log, e)
     THEN /\ next.stderr = Append(log.stderr, Printed(log, e))
          /\ next.cpplint.error_count = log.cpplint.error_count + 1
          /\ next.cpplint.errors_by_category = Counted(log.cpplint, e.cat)
     ELSE next.stderr = log.stderr /\ next.cpplint = log.cpplint

LEMMA ErrorReports ==
  ASSUME NEW log, LogShape(log), NEW e
  PROVE  Reports(log, e, Error(log, e))
<1> DEFINE known == [log EXCEPT !.reported = Append(@, e)]
           state == IncrementErrorCount(log.cpplint, e.cat)
           all == Append(log.stderr, Printed(log, e))
           rep == Append(log.reported, e)
           print == _ShouldPrintError(log, e)
           x == Error(log, e)
           y == [known EXCEPT !.cpplint = IncrementErrorCount(@, e.cat),
                        !.stderr = Append(@, [file |-> log.file, line |-> e.line,
                                              cat |-> e.cat, conf |-> e.conf])]
<1>1. x = IF ~print THEN known ELSE y
  BY Zenon DEF Error
<1>2. DOMAIN log = {"file", "cpplint", "nolint", "stderr", "reported"}
  BY DEF LogShape
<1>3. /\ DOMAIN known = DOMAIN log /\ known.file = log.file /\ known.cpplint = log.cpplint
      /\ known.nolint = log.nolint /\ known.stderr = log.stderr /\ known.reported = rep
  BY <1>2
<1> HIDE DEF known
<1>4. /\ DOMAIN y = DOMAIN known /\ y.file = known.file /\ y.nolint = known.nolint
      /\ y.reported = known.reported /\ y.stderr = all
      /\ y.cpplint = IncrementErrorCount(known.cpplint, e.cat)
  BY <1>2, <1>3 DEF Printed
<1>5. /\ StateOK(state) /\ SameOptions(state, log.cpplint)
      /\ state.error_count = log.cpplint.error_count + 1
      /\ state.errors_by_category = Counted(log.cpplint, e.cat)
  BY IncrementIs DEF LogShape
<1>6. IsSeq(all) /\ IsSeq(rep)
  BY AppendAny DEF LogShape
<1>7. state = IncrementErrorCount(log.cpplint, e.cat) /\ rep = Append(log.reported, e) /\ all = Append(log.stderr, Printed(log, e))
  OBVIOUS
<1> HIDE DEF y, state, all, rep, print, x
<1>8. CASE print
  <2>1. x = y
    BY <1>1, <1>8
  <2>2. LogShape(x)
    BY <1>2, <1>3, <1>4, <1>5, <1>6, <1>7, <2>1 DEF LogShape
  <2>3. QED
    BY <1>3, <1>4, <1>5, <1>7, <1>8, <2>1, <2>2 DEF Reports, print, x
<1>9. CASE ~print
  <2>1. x = known
    BY <1>1, <1>9
  <2>2. LogShape(x)
    BY <1>2, <1>3, <1>6, <2>1 DEF LogShape
  <2>3. SameOptions(log.cpplint, log.cpplint)
    BY DEF SameOptions
  <2>4. QED
    BY <1>3, <1>7, <1>9, <2>1, <2>2, <2>3 DEF Reports, print, x
<1>10. QED
  BY <1>8, <1>9

-----------------------------------------------------------------------------
(* What is logged has its type, and the filters let it through.            *)

\* An error that a rule may find with the verbosity v.
SoundError(e, v) ==
  /\ e.cat \in ERROR_CATEGORIES /\ e.conf \in 0 .. 5
  /\ e.cat = "readability/fn_size" /\ v <= 5 => e.conf >= v

Typed(log) ==
  /\ log.file \in Nat
  /\ DOMAIN log.nolint \subseteq ERROR_CATEGORIES \cup {ANY}
  /\ \A i \in DOMAIN log.reported : SoundError(log.reported[i], log.cpplint.verbose_level)
  /\ \A i \in DOMAIN log.stderr : log.stderr[i].conf \in 0 .. 5 /\ log.stderr[i].file \in 0 .. log.file

LEMMA TypedKept ==
  ASSUME NEW log, LogShape(log), Typed(log), NEW e, SoundError(e, log.cpplint.verbose_level),
         NEW next, Reports(log, e, next)
  PROVE  Typed(next)
<1>1. /\ next.file = log.file /\ next.nolint = log.nolint
      /\ next.cpplint.verbose_level = log.cpplint.verbose_level
      /\ next.reported = Append(log.reported, e)
      /\ next.stderr = log.stderr \/ next.stderr = Append(log.stderr, Printed(log, e))
  BY DEF Reports, SameOptions
<1>2. IsSeq(log.reported) /\ IsSeq(log.stderr)
  BY DEF LogShape
<1>3. \A i \in DOMAIN next.reported : SoundError(next.reported[i], next.cpplint.verbose_level)
  <2> DEFINE s == log.reported
             t == Append(s, e)
  <2>1. /\ Len(s) \in Nat /\ DOMAIN s = 1 .. Len(s) /\ DOMAIN t = 1 .. Len(s) + 1
        /\ t[Len(s) + 1] = e /\ \A i \in 1 .. Len(s) : t[i] = s[i]
    BY <1>2, AppendAny
  <2>2. \A i \in DOMAIN s : SoundError(s[i], log.cpplint.verbose_level)
    BY DEF Typed
  <2>3. t = next.reported
    BY <1>1
  <2> HIDE DEF s, t
  <2>4. \A i \in DOMAIN t : SoundError(t[i], log.cpplint.verbose_level)
    <3> SUFFICES ASSUME NEW i \in DOMAIN t PROVE SoundError(t[i], log.cpplint.verbose_level)
      OBVIOUS
    <3>1. i = Len(s) + 1 \/ i \in 1 .. Len(s)
      BY <2>1
    <3>2. QED
      BY <2>1, <2>2, <3>1
  <2>5. QED
    BY <1>1, <2>3, <2>4
<1>4. \A i \in DOMAIN next.stderr : next.stderr[i].conf \in 0 .. 5 /\ next.stderr[i].file \in 0 .. next.file
  <2> DEFINE s == log.stderr
             p == Printed(log, e)
             t == Append(s, p)
  <2>1. /\ Len(s) \in Nat /\ DOMAIN s = 1 .. Len(s) /\ DOMAIN t = 1 .. Len(s) + 1
        /\ t[Len(s) + 1] = p /\ \A i \in 1 .. Len(s) : t[i] = s[i]
    <3> HIDE DEF p
    <3>1. QED
      BY <1>2, AppendAny
  <2>2. \A i \in DOMAIN s : s[i].conf \in 0 .. 5 /\ s[i].file \in 0 .. log.file
    BY DEF Typed
  <2>3. p.conf \in 0 .. 5 /\ p.file \in 0 .. log.file
    BY DEF Printed, SoundError, Typed
  <2>4. next.stderr = s \/ next.stderr = t
    BY <1>1
  <2> HIDE DEF s, t, p
  <2>5. \A i \in DOMAIN t : t[i].conf \in 0 .. 5 /\ t[i].file \in 0 .. log.file
    <3> SUFFICES ASSUME NEW i \in DOMAIN t PROVE t[i].conf \in 0 .. 5 /\ t[i].file \in 0 .. log.file
      OBVIOUS
    <3>1. i = Len(s) + 1 \/ i \in 1 .. Len(s)
      BY <2>1
    <3>2. QED
      BY <2>1, <2>2, <2>3, <3>1
  <2>6. QED
    BY <1>1, <2>2, <2>4, <2>5
<1>5. QED
  BY <1>1, <1>3, <1>4 DEF Typed

Suppressed(nolint_, e) == IsErrorSuppressedByNolint(nolint_, e.cat, e.line)
IsPrinted(log, e) ==
  \E i \in DOMAIN log.stderr :
    /\ log.stderr[i].file = log.file /\ log.stderr[i].line = e.line
    /\ log.stderr[i].cat = e.cat /\ log.stderr[i].conf = e.conf
Let_(state, e) == e.conf >= state.verbose_level /\ Through(state.filters, e.cat)

\* FiltersDecide of what is logged.
AllDecided(log) ==
  /\ \A i \in DOMAIN log.stderr : log.stderr[i].file = log.file => Let_(log.cpplint, log.stderr[i])
  /\ \A i \in DOMAIN log.reported :
       LET e == log.reported[i] IN
       Let_(log.cpplint, e) /\ ~Suppressed(log.nolint, e) =>
         IsPrinted(log, e) \/ (log.file > 1 /\ e.cat = "readability/nolint")

LEMMA ShouldPrintIs ==
  ASSUME NEW log, Signed(log.cpplint.filters), NEW e
  PROVE  _ShouldPrintError(log, e) <=> Let_(log.cpplint, e) /\ ~Suppressed(log.nolint, e)
  BY FilteredIsNotThrough DEF _ShouldPrintError, Let_, Suppressed

LEMMA DecisionsKept ==
  ASSUME NEW log, LogShape(log), Signed(log.cpplint.filters), AllDecided(log), NEW e,
         NEW next, Reports(log, e, next)
  PROVE  AllDecided(next)
<1> DEFINE p == Printed(log, e)
           s == log.stderr
           t == next.stderr
           r == log.reported
           q == next.reported
           print == _ShouldPrintError(log, e)
<1>1. /\ next.file = log.file /\ next.nolint = log.nolint
      /\ next.cpplint.verbose_level = log.cpplint.verbose_level
      /\ next.cpplint.filters = log.cpplint.filters
      /\ q = Append(r, e)
      /\ (IF print THEN t = Append(s, p) ELSE t = s)
  BY DEF Reports, SameOptions
<1>2. IsSeq(s) /\ IsSeq(r)
  BY DEF LogShape
<1>3. \A d : Let_(next.cpplint, d) <=> Let_(log.cpplint, d)
  BY <1>1 DEF Let_
<1>4. print <=> Let_(log.cpplint, e) /\ ~Suppressed(log.nolint, e)
  BY ShouldPrintIs
<1>5. p.file = log.file /\ p.line = e.line /\ p.cat = e.cat /\ p.conf = e.conf
  BY DEF Printed
<1>6. Let_(log.cpplint, p) <=> Let_(log.cpplint, e)
  BY <1>5 DEF Let_
<1> HIDE DEF p, s, t, r, q, print
<1>7. Len(s) \in Nat /\ DOMAIN s = 1 .. Len(s)
  BY <1>2, IsSeqDomain
<1>8. print => /\ DOMAIN t = 1 .. Len(s) + 1 /\ t[Len(s) + 1] = p
               /\ \A i \in 1 .. Len(s) : t[i] = s[i]
  BY <1>1, <1>2, AppendAny
<1>9. \A i \in DOMAIN s : i \in DOMAIN t /\ t[i] = s[i]
  BY <1>1, <1>7, <1>8
<1>10. \A i \in DOMAIN t : (i \in DOMAIN s /\ t[i] = s[i]) \/ (print /\ t[i] = p)
  BY <1>1, <1>7, <1>8
<1>11. \A i \in DOMAIN t : t[i].file = next.file => Let_(next.cpplint, t[i])
  BY <1>1, <1>3, <1>4, <1>6, <1>10 DEF AllDecided, s
<1>12. /\ Len(r) \in Nat /\ DOMAIN r = 1 .. Len(r) /\ DOMAIN q = 1 .. Len(r) + 1
       /\ q[Len(r) + 1] = e /\ \A i \in 1 .. Len(r) : q[i] = r[i]
  BY <1>1, <1>2, AppendAny
<1>13. \A i \in DOMAIN q : (i \in DOMAIN r /\ q[i] = r[i]) \/ q[i] = e
  BY <1>12
<1>14. \A d : IsPrinted(log, d) => IsPrinted(next, d)
  BY <1>1, <1>9 DEF IsPrinted, s, t
<1>15. print => IsPrinted(next, e)
  <2> SUFFICES ASSUME print PROVE IsPrinted(next, e)
    OBVIOUS
  <2>1. Len(s) + 1 \in DOMAIN t /\ t[Len(s) + 1] = p
    BY <1>7, <1>8
  <2>2. QED
    BY <1>1, <1>5, <2>1 DEF IsPrinted, t
<1>16. ASSUME NEW i \in DOMAIN q, Let_(next.cpplint, q[i]), ~Suppressed(next.nolint, q[i])
       PROVE  IsPrinted(next, q[i]) \/ (next.file > 1 /\ q[i].cat = "readability/nolint")
  <2>1. CASE i \in DOMAIN r /\ q[i] = r[i]
    <3>1. Let_(log.cpplint, r[i]) /\ ~Suppressed(log.nolint, r[i])
      BY <1>1, <1>3, <1>16, <2>1
    <3>2. IsPrinted(log, r[i]) \/ (log.file > 1 /\ r[i].cat = "readability/nolint")
      BY <2>1, <3>1 DEF AllDecided, r
    <3>3. QED
      BY <1>1, <1>14, <2>1, <3>2
  <2>2. CASE q[i] = e
    <3>1. print
      BY <1>1, <1>3, <1>4, <1>16, <2>2
    <3>2. QED
      BY <1>15, <2>2, <3>1
  <2>3. QED
    BY <1>13, <2>1, <2>2
<1>17. QED
  BY <1>11, <1>16 DEF AllDecided, t, q

\* NolintHolds of what is logged, for the lines that are left of the file.
Held(log, raw) ==
  \A i \in DOMAIN log.stderr :
    LET e == log.stderr[i] IN
    e.file = log.file /\ e.line \in DOMAIN raw /\ e.cat \notin Early =>
      ~Covered(raw, e.line, e.cat)

LEMMA HeldKept ==
  ASSUME NEW log, LogShape(log), NEW raw, Held(log, raw), NEW e,
         e.line \in DOMAIN raw /\ e.cat \notin Early /\ Covered(raw, e.line, e.cat) =>
           Suppressed(log.nolint, e),
         NEW next, Reports(log, e, next)
  PROVE  Held(next, raw)
<1> DEFINE p == Printed(log, e)
           s == log.stderr
           t == next.stderr
<1>1. next.file = log.file /\ (t = s \/ (t = Append(s, p) /\ ~Suppressed(log.nolint, e)))
  BY DEF Reports, _ShouldPrintError, Suppressed
<1>2. p.file = log.file /\ p.line = e.line /\ p.cat = e.cat
  BY DEF Printed
<1>3. IsSeq(s)
  BY DEF LogShape
<1> HIDE DEF p, s, t
<1>4. /\ Len(s) \in Nat /\ DOMAIN s = 1 .. Len(s)
      /\ DOMAIN Append(s, p) = 1 .. Len(s) + 1 /\ Append(s, p)[Len(s) + 1] = p
      /\ \A i \in 1 .. Len(s) : Append(s, p)[i] = s[i]
  BY <1>3, AppendAny
<1>5. \A i \in DOMAIN t : (i \in DOMAIN s /\ t[i] = s[i]) \/ (t[i] = p /\ ~Suppressed(log.nolint, e))
  BY <1>1, <1>4
<1>6. QED
  BY <1>1, <1>2, <1>5 DEF Held, s, t

-----------------------------------------------------------------------------
(* The counts.                                                             *)

LEMMA SumFunctionIsSumOver ==
  ASSUME NEW f
  PROVE  SumFunction(f) = SumOver(f, DOMAIN f)
  BY Zenon DEF SumFunction, SumFunctionOnSet, FoldFunctionOnSet, SumOver, MapThenSumSet

\* A count more.
LEMMA SumBump ==
  ASSUME NEW f, IsFiniteSet(DOMAIN f), \A x \in DOMAIN f : f[x] \in Nat, NEW k
  PROVE  SumFunction(Bump(f, k)) = SumFunction(f) + 1
<1> DEFINE b == Bump(f, k)
           D == DOMAIN f
           E == D \cup {k}
           R == D \ {k}
<1>1. /\ DOMAIN b = E /\ \A x \in R : b[x] = f[x] + 0
      /\ (k \in D => b[k] = f[k] + 1) /\ (k \notin D => b[k] = 0 + 1)
  BY DEF Bump
<1>2. IsFiniteSet(E) /\ IsFiniteSet(R)
  <2>1. R \subseteq D
    OBVIOUS
  <2>2. QED
    BY <2>1, FS_AddElement, FS_Subset
<1>3. \A x \in E : b[x] \in Nat
  <2> SUFFICES ASSUME NEW x \in E PROVE b[x] \in Nat
    OBVIOUS
  <2> HIDE DEF b
  <2>1. x \in R \/ x = k
    OBVIOUS
  <2>2. QED
    BY <1>1, <2>1
<1>4. \A x \in R : b[x] = f[x]
  <2>1. \A x \in R : f[x] \in Nat
    OBVIOUS
  <2> HIDE DEF b
  <2>2. QED
    BY <1>1, <2>1
<1>5. E \ {k} = R /\ k \in E
  OBVIOUS
<1>6. SumFunction(b) = SumOver(b, E) /\ SumFunction(f) = SumOver(f, D)
  BY <1>1, SumFunctionIsSumOver
<1> HIDE DEF b, D, E, R
<1>7. SumOver(b, E) = b[k] + SumOver(b, R)
  BY <1>2, <1>3, <1>5, SumOverRemove
<1>8. SumOver(b, R) = SumOver(f, R)
  BY <1>2, <1>4, SumOverSame
<1>9. \A x \in D : f[x] \in Nat
  BY DEF D
<1>10. SumOver(f, R) \in Nat
  <2>1. \A x \in R : f[x] \in Nat
    BY <1>9 DEF R
  <2>2. QED
    BY <1>2, <2>1, SumOverType
<1>11. CASE k \in D
  <2>1. SumOver(f, D) = f[k] + SumOver(f, R)
    <3>1. IsFiniteSet(D)
      BY DEF D
    <3>2. SumOver(f, D) = f[k] + SumOver(f, D \ {k})
      BY <1>9, <1>11, <3>1, SumOverRemove
    <3>3. QED
      BY <3>2 DEF R
  <2>2. f[k] \in Nat
    BY <1>9, <1>11
  <2>3. QED
    BY <1>1, <1>6, <1>7, <1>8, <1>10, <1>11, <2>1, <2>2 DEF b
<1>12. CASE k \notin D
  <2>1. R = D
    BY <1>12 DEF R
  <2>2. QED
    BY <1>1, <1>6, <1>7, <1>8, <1>10, <1>12, <2>1 DEF b
<1>13. QED
  BY <1>11, <1>12

Counting == {"toplevel", "detailed"}
Key(counting, cat) == IF counting = "detailed" THEN cat ELSE TopLevel[cat]
Of(log, c) == {i \in DOMAIN log.stderr : Key(log.cpplint.counting, log.stderr[i].cat) = c}
CountsOf(log, counts) ==
  /\ IsFiniteSet(DOMAIN counts) /\ SumFunction(counts) = Len(log.stderr)
  /\ \A c : IF c \in DOMAIN counts THEN counts[c] = Cardinality(Of(log, c)) ELSE Of(log, c) = {}
CountsOK(log) ==
  /\ log.cpplint.error_count = Len(log.stderr)
  /\ IF log.cpplint.counting \in Counting THEN CountsOf(log, log.cpplint.errors_by_category)
     ELSE DOMAIN log.cpplint.errors_by_category = {}

LEMMA CountsKept ==
  ASSUME NEW log, LogShape(log), CountsOK(log), NEW e, NEW next, Reports(log, e, next)
  PROVE  CountsOK(next)
<1> DEFINE p == Printed(log, e)
           s == log.stderr
           t == next.stderr
           counting == log.cpplint.counting
           counts == log.cpplint.errors_by_category
           more == next.cpplint.errors_by_category
           k == Key(counting, e.cat)
           print == _ShouldPrintError(log, e)
<1>1. next.cpplint.counting = counting
  BY DEF Reports, SameOptions
<1>2. CASE ~print
  <2>1. t = s /\ next.cpplint = log.cpplint
    BY <1>2 DEF Reports
  <2> HIDE DEF print
  <2>2. QED
    BY <2>1 DEF CountsOK, CountsOf, Of
<1>3. CASE print
  <2>1. t = Append(s, p) /\ next.cpplint.error_count = log.cpplint.error_count + 1
        /\ more = Counted(log.cpplint, e.cat)
    BY <1>3 DEF Reports
  <2>2. more = IF counting \in Counting THEN Bump(counts, k) ELSE counts
    <3>1. more = CASE counting = "detailed" -> Bump(counts, e.cat)
                   [] counting = "toplevel" -> Bump(counts, TopLevel[e.cat])
                   [] OTHER -> counts
      BY <2>1, Zenon DEF Counted
    <3>2. k = IF counting = "detailed" THEN e.cat ELSE TopLevel[e.cat]
      BY DEF Key
    <3> HIDE DEF more, k, counting, counts
    <3>3. QED
      BY <3>1, <3>2 DEF Counting
  <2>3. p.cat = e.cat
    BY DEF Printed
  <2>4. IsSeq(s)
    BY DEF LogShape
  <2>5. log.cpplint.error_count = Len(s)
    BY DEF CountsOK
  <2>6. /\ counting \in Counting => CountsOf(log, counts)
        /\ counting \notin Counting => DOMAIN counts = {}
    BY DEF CountsOK
  <2>9. /\ \A c : Of(log, c) = {i \in DOMAIN s : Key(counting, s[i].cat) = c}
        /\ \A c : Of(next, c) = {i \in DOMAIN t : Key(counting, t[i].cat) = c}
    BY <1>1 DEF Of
  <2>10. k = Key(counting, p.cat)
    BY <2>3
  <2> HIDE DEF p, s, t, counting, counts, more, k, print
  <2>7. /\ Len(s) \in Nat /\ DOMAIN s = 1 .. Len(s) /\ Len(t) = Len(s) + 1
        /\ DOMAIN t = 1 .. Len(s) + 1 /\ t[Len(s) + 1] = p
        /\ \A i \in 1 .. Len(s) : t[i] = s[i]
    BY <2>1, <2>4, AppendAny
  <2>8. next.cpplint.error_count = Len(t)
    BY <2>1, <2>5, <2>7
  <2>11. ASSUME NEW c, c # k PROVE Of(next, c) = Of(log, c)
    <3>1. \A i \in DOMAIN t : i = Len(s) + 1 \/ (i \in DOMAIN s /\ t[i] = s[i])
      BY <2>7
    <3>2. \A i \in DOMAIN s : i \in DOMAIN t /\ t[i] = s[i]
      BY <2>7
    <3>3. Key(counting, t[Len(s) + 1].cat) # c
      BY <2>7, <2>10, <2>11
    <3>5. \A i : i \in Of(next, c) => i \in Of(log, c)
      BY <2>9, <3>1, <3>3
    <3>6. \A i : i \in Of(log, c) => i \in Of(next, c)
      BY <2>9, <3>2
    <3>7. \A i : i \in Of(next, c) <=> i \in Of(log, c)
      BY <3>5, <3>6
    <3> DEFINE A == Of(next, c)
               B == Of(log, c)
    <3> HIDE DEF A, B
    <3>8. A = B
      BY <3>7 DEF A, B
    <3>9. QED
      BY <3>8 DEF A, B
  <2>12. Of(next, k) = Of(log, k) \cup {Len(s) + 1} /\ Len(s) + 1 \notin Of(log, k)
    <3>1. \A i \in DOMAIN t : i = Len(s) + 1 \/ (i \in DOMAIN s /\ t[i] = s[i])
      BY <2>7
    <3>2. \A i \in DOMAIN s : i \in DOMAIN t /\ t[i] = s[i]
      BY <2>7
    <3>3. Key(counting, t[Len(s) + 1].cat) = k /\ Len(s) + 1 \in DOMAIN t /\ Len(s) + 1 \notin DOMAIN s
      BY <2>7, <2>10
    <3>4. QED
      BY <2>9, <3>1, <3>2, <3>3
  <2>13. CASE counting \in Counting
    <3>1. /\ IsFiniteSet(DOMAIN counts) /\ SumFunction(counts) = Len(s)
          /\ \A c : IF c \in DOMAIN counts THEN counts[c] = Cardinality(Of(log, c)) ELSE Of(log, c) = {}
      BY <2>6, <2>13 DEF CountsOf, s
    <3>2. more = Bump(counts, k)
      BY <2>2, <2>13
    <3>3. \A c : IsFiniteSet(Of(log, c))
      <4>1. IsFiniteSet(1 .. Len(s))
        BY <2>7, FS_Interval
      <4>2. \A c : Of(log, c) \subseteq 1 .. Len(s)
        BY <2>7, <2>9
      <4>3. QED
        BY <4>1, <4>2, FS_Subset
    <3>4. \A c \in DOMAIN counts : counts[c] \in Nat
      <4> SUFFICES ASSUME NEW c \in DOMAIN counts PROVE counts[c] \in Nat
        OBVIOUS
      <4>1. counts[c] = Cardinality(Of(log, c))
        BY <3>1
      <4>2. QED
        BY <3>3, <4>1, FS_CardinalityType
    <3>5. SumFunction(more) = Len(t)
      BY <2>7, <3>1, <3>2, <3>4, SumBump
    <3>6. DOMAIN more = DOMAIN counts \cup {k}
      BY <3>2 DEF Bump
    <3>7. IsFiniteSet(DOMAIN more)
      BY <3>1, <3>6, FS_AddElement
    <3>8. \A c \in DOMAIN more : more[c] = (IF c \in DOMAIN counts THEN counts[c] ELSE 0) + (IF c = k THEN 1 ELSE 0)
      BY <3>2 DEF Bump
    <3>9. PICK N \in Nat : N = Cardinality(Of(log, k))
      BY <3>3, FS_CardinalityType
    <3>10. Cardinality(Of(next, k)) = N + 1
      BY <2>12, <3>3, <3>9, FS_AddElement
    <3>11. more[k] = N + 1
      <4>1. k \in DOMAIN counts => counts[k] = N
        BY <3>1, <3>9
      <4>2. k \notin DOMAIN counts => N = 0
        BY <3>1, <3>9, FS_EmptySet
      <4>3. more[k] = (IF k \in DOMAIN counts THEN counts[k] ELSE 0) + 1
        BY <3>6, <3>8
      <4>4. QED
        BY <4>1, <4>2, <4>3
    <3>12. ASSUME NEW c
           PROVE  IF c \in DOMAIN more THEN more[c] = Cardinality(Of(next, c)) ELSE Of(next, c) = {}
      <4>1. CASE c = k
        BY <3>6, <3>10, <3>11, <4>1
      <4>2. CASE c # k
        <5>1. Of(next, c) = Of(log, c)
          BY <2>11, <4>2
        <5>2. c \in DOMAIN more <=> c \in DOMAIN counts
          BY <3>6, <4>2
        <5>3. c \in DOMAIN counts => more[c] = counts[c]
          <6>1. c \in DOMAIN counts => more[c] = counts[c] + 0
            BY <3>8, <4>2, <5>2
          <6>2. QED
            BY <3>4, <6>1
        <5>4. QED
          BY <3>1, <5>1, <5>2, <5>3
      <4>3. QED
        BY <4>1, <4>2
    <3>13. CountsOf(next, more)
      BY <3>5, <3>7, <3>12 DEF CountsOf, t
    <3>14. QED
      BY <1>1, <2>8, <2>13, <3>13 DEF CountsOK, t, more
  <2>14. CASE counting \notin Counting
    <3>1. DOMAIN more = {}
      BY <2>2, <2>6, <2>14
    <3>2. QED
      BY <1>1, <2>8, <2>14, <3>1 DEF CountsOK, t, more
  <2>15. QED
    BY <2>13, <2>14
<1>4. QED
  BY <1>2, <1>3

-----------------------------------------------------------------------------
(* What the log keeps from report to report.                               *)

LogOK(log, raw) ==
  /\ LogShape(log) /\ Signed(log.cpplint.filters)
  /\ Typed(log) /\ AllDecided(log) /\ Held(log, raw) /\ CountsOK(log)

\* Only errors have been reported in between.
Later(log, next) ==
  next.file = log.file /\ next.nolint = log.nolint /\ SameOptions(next.cpplint, log.cpplint)

\* If a NOLINT covers the error, it has been read.
Allowed(nolint_, raw, e) ==
  e.line \in DOMAIN raw /\ e.cat \notin Early /\ Covered(raw, e.line, e.cat) => Suppressed(nolint_, e)
Sound(log, raw, e) == SoundError(e, log.cpplint.verbose_level) /\ Allowed(log.nolint, raw, e)

LEMMA ErrorKeeps ==
  ASSUME NEW log, NEW raw, LogOK(log, raw), NEW e, Sound(log, raw, e)
  PROVE  LogOK(Error(log, e), raw) /\ Later(log, Error(log, e))
<1> DEFINE next == Error(log, e)
<1>1. Reports(log, e, next)
  BY ErrorReports DEF LogOK
<1> HIDE DEF next
<1>2. LogShape(next) /\ Later(log, next) /\ Signed(next.cpplint.filters)
  BY <1>1 DEF Reports, Later, SameOptions, LogOK
<1>3. Typed(next)
  BY <1>1, TypedKept DEF LogOK, Sound
<1>4. AllDecided(next)
  BY <1>1, DecisionsKept DEF LogOK
<1>5. Held(next, raw)
  BY <1>1, HeldKept DEF LogOK, Sound, Allowed
<1>6. CountsOK(next)
  BY <1>1, CountsKept DEF LogOK
<1>7. QED
  BY <1>2, <1>3, <1>4, <1>5, <1>6 DEF LogOK, next

LEMMA LaterSound ==
  ASSUME NEW log, NEW next, Later(log, next), NEW raw, NEW e
  PROVE  Sound(next, raw, e) <=> Sound(log, raw, e)
  BY DEF Later, Sound, SameOptions

LEMMA LaterTrans ==
  ASSUME NEW a, NEW b, NEW c, Later(a, b), Later(b, c)
  PROVE  Later(a, c)
  BY DEF Later, SameOptions

LEMMA ErrorsKeep ==
  ASSUME NEW log, NEW raw, LogOK(log, raw), NEW errors, IsSeq(errors),
         \A i \in DOMAIN errors : Sound(log, raw, errors[i])
  PROVE  LogOK(Errors(log, errors), raw) /\ Later(log, Errors(log, errors))
<1>1. PICK len \in Nat : len = Len(errors) /\ DOMAIN errors = 1 .. len
  BY IsSeqDomain
<1>0. ErrorsReach(log, errors, len)
  BY <1>1, ErrorsSteps
<1>2. PICK r : /\ r[0] = log
               /\ \A i \in 1 .. len : r[i] = Error(r[i - 1], errors[i])
               /\ Errors(log, errors) = r[len]
  BY <1>0 DEF ErrorsReach
<1> DEFINE N == {i \in Nat : i \in 0 .. len => LogOK(r[i], raw) /\ Later(log, r[i])}
<1>3. 0 \in N
  BY <1>2 DEF Later, SameOptions
<1>4. ASSUME NEW i \in Nat, i \in N PROVE i + 1 \in N
  <2>1. CASE i + 1 \in 0 .. len
    <3>1. LogOK(r[i], raw) /\ Later(log, r[i])
      BY <1>4, <2>1
    <3>2. r[i + 1] = Error(r[(i + 1) - 1], errors[i + 1]) /\ (i + 1) - 1 = i
      BY <1>2, <2>1
    <3>3. Sound(log, raw, errors[i + 1])
      BY <1>1, <2>1
    <3>4. Sound(r[i], raw, errors[i + 1])
      BY <3>1, <3>3, LaterSound
    <3> DEFINE a == r[i]
               b == Error(a, errors[i + 1])
    <3>5. LogOK(b, raw) /\ Later(a, b)
      BY <3>1, <3>4, ErrorKeeps
    <3> HIDE DEF a, b
    <3>6. Later(log, b)
      BY <3>1, <3>5, LaterTrans DEF a
    <3>7. r[i + 1] = b
      BY <3>2 DEF a, b
    <3>8. QED
      BY <3>5, <3>6, <3>7
  <2>2. QED
    BY <2>1
<1>5. Nat \subseteq N
  <2> HIDE DEF N
  <2>1. QED
    BY <1>3, <1>4, NatSetInduction
<1>6. QED
  BY <1>2, <1>5

-----------------------------------------------------------------------------
(* NOLINT: what is read of a line.                                         *)

Grown(a, b) == \A c \in DOMAIN a : c \in DOMAIN b /\ a[c] \subseteq b[c]

LEMMA GrownSuppresses ==
  ASSUME NEW a, NEW b, Grown(a, b), NEW e, Suppressed(a, e)
  PROVE  Suppressed(b, e)
  BY DEF Grown, Suppressed, IsErrorSuppressedByNolint

LEMMA SuppressGrows ==
  ASSUME NEW a, NEW c, NEW k
  PROVE  /\ Grown(a, Suppress(a, c, k)) /\ DOMAIN Suppress(a, c, k) = DOMAIN a \cup {c}
         /\ k \in Suppress(a, c, k)[c]
         /\ \A d \in DOMAIN Suppress(a, c, k) : \A l \in Suppress(a, c, k)[d] :
              (d \in DOMAIN a /\ l \in a[d]) \/ (d = c /\ l = k)
<1> DEFINE b == Suppress(a, c, k)
           In(d) == IF d \in DOMAIN a THEN a[d] ELSE {}
           Own(d) == IF d = c THEN {k} ELSE {}
<1>1. DOMAIN b = DOMAIN a \cup {c} /\ \A d \in DOMAIN a \cup {c} : b[d] = In(d) \cup Own(d)
  BY DEF Suppress
<1> HIDE DEF b
<1>2. \A d \in DOMAIN a : d \in DOMAIN b /\ a[d] \subseteq b[d]
  BY <1>1
<1>3. k \in b[c]
  BY <1>1
<1>4. ASSUME NEW d \in DOMAIN b, NEW l \in b[d]
      PROVE  (d \in DOMAIN a /\ l \in a[d]) \/ (d = c /\ l = k)
  BY <1>1, <1>4
<1>5. QED
  BY <1>1, <1>2, <1>3, <1>4 DEF b, Grown

\* The line that a NOLINT of line k is meant for.
MeantFor(line, k) == IF Begins(line, <<{"//"}, {"NOLINT"}>>) THEN k + 1 ELSE k
NolintOf(line) == CategoryAfter(line, "NOLINT")
IsNolint(line) == Contains(line, "NOLINT") /\ NolintOf(line) \in ERROR_CATEGORIES \cup {ANY}

\* The NOLINT of a line has been read.
IsRead(nolint_, line, k) ==
  IsNolint(line) => NolintOf(line) \in DOMAIN nolint_ /\ MeantFor(line, k) \in nolint_[NolintOf(line)]

\* Lines are kept from errors by NOLINTs of the file alone.
Marks(nolint_, lines) ==
  \A c \in DOMAIN nolint_ : \A k \in nolint_[c] \cap DOMAIN lines :
    \E d \in ERROR_CATEGORIES : Covered(lines, k, d) /\ (c = ANY \/ c = d)

LEMMA MeantIsCovered ==
  ASSUME NEW lines, NEW k \in Nat, k \in DOMAIN lines, IsNolint(lines[k])
  PROVE  \E d \in ERROR_CATEGORIES :
           Covered(lines, MeantFor(lines[k], k), d) /\ (NolintOf(lines[k]) = ANY \/ NolintOf(lines[k]) = d)
<1> DEFINE c == NolintOf(lines[k])
           d == IF c = ANY THEN "build/class" ELSE c
           b == Begins(lines[k], <<{"//"}, {"NOLINT"}>>)
           m == MeantFor(lines[k], k)
<1>1. d \in ERROR_CATEGORIES /\ c \in {d, ANY} /\ (c = ANY \/ c = d)
  BY DEF IsNolint, ERROR_CATEGORIES
<1>2. Contains(lines[k], "NOLINT") /\ CategoryAfter(lines[k], "NOLINT") = c
  BY DEF IsNolint, NolintOf
<1> HIDE DEF c, d
<1>3. CASE b
  <2>1. m = k + 1 /\ k + 1 > 0 /\ (k + 1) - 1 = k
    BY <1>3 DEF MeantFor
  <2>2. Covered(lines, k + 1, d)
    BY <1>1, <1>2, <1>3, <2>1 DEF Covered
  <2>3. QED
    BY <1>1, <2>1, <2>2 DEF c
<1>4. CASE ~b
  <2>1. m = k
    BY <1>4 DEF MeantFor
  <2>2. Covered(lines, k, d)
    BY <1>1, <1>2, <1>4 DEF Covered
  <2>3. QED
    BY <1>1, <2>1, <2>2 DEF c
<1>5. QED
  BY <1>3, <1>4

\* What reading a line for NOLINT may change.
Read(log, raw, line, k, next) ==
  /\ LogOK(next, raw) /\ next.file = log.file /\ SameOptions(next.cpplint, log.cpplint)
  /\ Grown(log.nolint, next.nolint) /\ IsRead(next.nolint, line, k)
  /\ next.nolint = log.nolint \/
       (IsNolint(line) /\ next.nolint = Suppress(log.nolint, NolintOf(line), MeantFor(line, k)))

LEMMA ParseReads ==
  ASSUME NEW log, NEW raw, LogOK(log, raw), NEW line, NEW k
  PROVE  Read(log, raw, line, k, ParseNolintSuppressions(log, line, k))
<1> DEFINE at == MeantFor(line, k)
           category == NolintOf(line)
           has == Contains(line, "NOLINT")
           known == category \in ERROR_CATEGORIES \cup {ANY}
           x == ParseNolintSuppressions(log, line, k)
           s == Suppress(log.nolint, category, at)
           a == [log EXCEPT !.nolint = s]
           e == Error_(at, "readability/nolint", 5)
           b == Error(log, e)
<1>1. x = CASE ~has -> log [] has /\ known -> a [] OTHER -> b
  BY Zenon DEF ParseNolintSuppressions, MeantFor, NolintOf
<1>2. IsNolint(line) <=> has /\ known
  BY DEF IsNolint
<1>3. Grown(log.nolint, log.nolint) /\ SameOptions(log.cpplint, log.cpplint)
  BY DEF Grown, SameOptions
<1>4. ~has => Read(log, raw, line, k, log)
  BY <1>2, <1>3 DEF Read, IsRead
<1>5. has /\ known => Read(log, raw, line, k, a)
  <2> SUFFICES ASSUME has, known PROVE Read(log, raw, line, k, a)
    OBVIOUS
  <2>1. /\ Grown(log.nolint, s) /\ DOMAIN s = DOMAIN log.nolint \cup {category}
        /\ at \in s[category]
    BY SuppressGrows, Zenon
  <2>2. DOMAIN log = {"file", "cpplint", "nolint", "stderr", "reported"}
    BY DEF LogOK, LogShape
  <2> HIDE DEF s, at, category, has, known
  <2>3. /\ DOMAIN a = DOMAIN log /\ a.file = log.file /\ a.cpplint = log.cpplint
        /\ a.stderr = log.stderr /\ a.reported = log.reported /\ a.nolint = s
    BY <2>2
  <2> HIDE DEF a
  <2>4. LogShape(a) /\ Signed(a.cpplint.filters) /\ CountsOK(a) /\ Held(a, raw)
    BY <2>3 DEF LogOK, LogShape, CountsOK, CountsOf, Of, Held
  <2>5. Typed(a)
    BY <2>1, <2>3 DEF LogOK, Typed, known
  <2>6. AllDecided(a)
    <3>1. \A d : ~Suppressed(s, d) => ~Suppressed(log.nolint, d)
      BY <2>1, GrownSuppresses
    <3>2. \A d : IsPrinted(a, d) <=> IsPrinted(log, d)
      BY <2>3 DEF IsPrinted
    <3>3. AllDecided(log)
      BY DEF LogOK
    <3>4. QED
      BY <2>3, <3>1, <3>2, <3>3 DEF AllDecided
  <2>7. LogOK(a, raw)
    BY <2>4, <2>5, <2>6 DEF LogOK
  <2>8. IsRead(a.nolint, line, k)
    BY <2>1, <2>3 DEF IsRead, at, category
  <2>9. IsNolint(line)
    BY <1>2
  <2>10. a.nolint = Suppress(log.nolint, NolintOf(line), MeantFor(line, k))
    BY <2>3 DEF s, at, category
  <2>11. QED
    BY <1>3, <2>1, <2>3, <2>7, <2>8, <2>9, <2>10 DEF Read
<1>6. ~known => Read(log, raw, line, k, b)
  <2> SUFFICES ASSUME ~known PROVE Read(log, raw, line, k, b)
    OBVIOUS
  <2>1. Sound(log, raw, e)
    <3>1. e.cat = "readability/nolint" /\ e.conf = 5
      BY DEF Error_
    <3>2. QED
      BY <3>1 DEF Sound, SoundError, Allowed, Early, ERROR_CATEGORIES
  <2> HIDE DEF e
  <2>2. LogOK(b, raw) /\ Later(log, b)
    BY <2>1, ErrorKeeps
  <2>3. QED
    BY <1>2, <1>3, <2>2 DEF Read, IsRead, Later
<1> HIDE DEF a, b, x, has, known
<1>7. Read(log, raw, line, k, x)
  BY <1>1, <1>4, <1>5, <1>6
<1>8. QED
  BY <1>7 DEF x

LEMMA MarksKept ==
  ASSUME NEW a, NEW lines, Marks(a, lines), NEW line, NEW k \in Nat,
         IsNolint(line) => k \in DOMAIN lines /\ lines[k] = line,
         NEW b, b = a \/ (IsNolint(line) /\ b = Suppress(a, NolintOf(line), MeantFor(line, k)))
  PROVE  Marks(b, lines)
<1>1. CASE b = a
  BY <1>1
<1>2. CASE IsNolint(line) /\ b = Suppress(a, NolintOf(line), MeantFor(line, k))
  <2> DEFINE c == NolintOf(line)
             m == MeantFor(line, k)
  <2>1. \E d \in ERROR_CATEGORIES : Covered(lines, m, d) /\ (c = ANY \/ c = d)
    BY <1>2, MeantIsCovered
  <2> HIDE DEF c, m
  <2>2. b = Suppress(a, c, m)
    BY <1>2 DEF c, m
  <2>3. \A d \in DOMAIN b : \A l \in b[d] : (d \in DOMAIN a /\ l \in a[d]) \/ (d = c /\ l = m)
    BY <2>2, SuppressGrows
  <2>4. QED
    BY <2>1, <2>3 DEF Marks
<1>3. QED
  BY <1>1, <1>2

-----------------------------------------------------------------------------
(* NOLINT: the lines above have been read.                                 *)

LEMMA BeginsHas ==
  ASSUME NEW line, IsSeq(line), Begins(line, <<{"//"}, {"NOLINT"}>>)
  PROVE  Contains(line, "NOLINT")
<1> DEFINE s == Strip(line)
           p == <<{"//"}, {"NOLINT"}>>
<1>1. 1 + Len(p) - 1 <= Len(s) /\ \A k \in DOMAIN p : s[1 + k - 1] \in p[k]
  BY DEF Begins, At
<1>2. Len(p) = 2 /\ 2 \in DOMAIN p /\ p[2] = {"NOLINT"} /\ 1 + 2 - 1 = 2
  OBVIOUS
<1> HIDE DEF p, s
<1>3. s[1 + 2 - 1] \in p[2] /\ 1 + 2 - 1 <= Len(s)
  BY <1>1, <1>2
<1>4. s[2] = "NOLINT" /\ 2 <= Len(s)
  BY <1>2, <1>3
<1>5. PICK len \in Nat : len = Len(line) /\ DOMAIN line = 1 .. len
  BY IsSeqDomain
<1>6. CASE Indented(line)
  <2>1. s = SubSeq(line, 2, len) /\ len > 0
    <3>1. line # <<>>
      BY <1>6 DEF Indented
    <3>2. len # 0
      BY <1>5, <3>1 DEF IsSeq
    <3>3. s = Tail(line)
      BY <1>6 DEF Strip, s
    <3>4. line \in Seq(Range(line))
      BY DEF IsSeq
    <3>5. Tail(line) = SubSeq(line, 2, Len(line))
      BY <3>1, <3>4, TailIsSubSeq
    <3>6. QED
      BY <1>5, <3>2, <3>3, <3>5
  <2>2. Len(s) = IF 2 <= len THEN len - 2 + 1 ELSE 0
    BY <1>5, <2>1, SubSeqAny
  <2>3. 2 \in 1 .. len - 2 + 1 /\ s[2] = line[2 + 2 - 1]
    BY <1>4, <1>5, <2>1, <2>2, SubSeqAny
  <2>4. 3 \in 1 .. len /\ line[3] = "NOLINT"
    BY <1>4, <1>5, <2>2, <2>3
  <2>5. QED
    BY <1>5, <2>4 DEF Contains
<1>7. CASE ~Indented(line)
  <2>1. s = line
    BY <1>7 DEF Strip, s
  <2>2. 2 \in 1 .. Len(line) /\ line[2] = "NOLINT"
    BY <1>4, <1>5, <2>1
  <2>3. QED
    BY <2>2 DEF Contains
<1>8. QED
  BY <1>6, <1>7

\* The NOLINT of every line above line k has been read.
ReadTo(nolint_, raw, k) == \A j \in 0 .. k - 1 : IsRead(nolint_, raw[j], j)

LEMMA GrownReads ==
  ASSUME NEW a, NEW b, Grown(a, b), NEW line, NEW k, IsRead(a, line, k)
  PROVE  IsRead(b, line, k)
  BY DEF Grown, IsRead

LEMMA ReadToNext ==
  ASSUME NEW a, NEW b, Grown(a, b), NEW raw, NEW k \in Nat, ReadTo(a, raw, k), IsRead(b, raw[k], k)
  PROVE  ReadTo(b, raw, k + 1)
<1> SUFFICES ASSUME NEW j \in 0 .. (k + 1) - 1 PROVE IsRead(b, raw[j], j)
  BY DEF ReadTo
<1>1. j = k \/ j \in 0 .. k - 1
  OBVIOUS
<1>2. QED
  BY <1>1, GrownReads DEF ReadTo

LEMMA CoveredIsSuppressed ==
  ASSUME NEW nolint_, NEW raw, NEW last, Document(raw, last), NEW k \in 0 .. last + 1, ReadTo(nolint_, raw, k),
         NEW e, e.line \in 0 .. k - 1, e.cat \in ERROR_CATEGORIES, Covered(raw, e.line, e.cat)
  PROVE  Suppressed(nolint_, e)
<1> DEFINE l == e.line
           cat == e.cat
<1>1. l \in Nat /\ l \in 0 .. last /\ IsSeq(raw[l]) /\ IsRead(nolint_, raw[l], l)
  BY DEF Document, ReadTo
<1>2. PICK c \in {cat, ANY} :
        \/ /\ Contains(raw[l], "NOLINT")
           /\ ~Begins(raw[l], <<{"//"}, {"NOLINT"}>>)
           /\ CategoryAfter(raw[l], "NOLINT") = c
        \/ /\ l > 0 /\ Begins(raw[l - 1], <<{"//"}, {"NOLINT"}>>)
           /\ CategoryAfter(raw[l - 1], "NOLINT") = c
  BY DEF Covered
<1>3. c \in ERROR_CATEGORIES \cup {ANY}
  OBVIOUS
<1>4. ASSUME c \in DOMAIN nolint_, l \in nolint_[c]
      PROVE  Suppressed(nolint_, e)
  BY <1>2, <1>4 DEF Suppressed, IsErrorSuppressedByNolint
<1>5. CASE /\ Contains(raw[l], "NOLINT")
           /\ ~Begins(raw[l], <<{"//"}, {"NOLINT"}>>)
           /\ CategoryAfter(raw[l], "NOLINT") = c
  <2>1. NolintOf(raw[l]) = c /\ IsNolint(raw[l]) /\ MeantFor(raw[l], l) = l
    BY <1>3, <1>5 DEF NolintOf, IsNolint, MeantFor
  <2>2. c \in DOMAIN nolint_ /\ l \in nolint_[c]
    BY <1>1, <2>1 DEF IsRead
  <2>3. QED
    BY <1>4, <2>2
<1>6. CASE /\ l > 0 /\ Begins(raw[l - 1], <<{"//"}, {"NOLINT"}>>)
           /\ CategoryAfter(raw[l - 1], "NOLINT") = c
  <2>1. PICK j \in Nat : j = l - 1 /\ j + 1 = l
    BY <1>1, <1>6
  <2>2. IsSeq(raw[j]) /\ IsRead(nolint_, raw[j], j)
    BY <1>1, <2>1 DEF Document, ReadTo
  <2>3. Begins(raw[j], <<{"//"}, {"NOLINT"}>>) /\ CategoryAfter(raw[j], "NOLINT") = c
    BY <1>6, <2>1
  <2>4. Contains(raw[j], "NOLINT")
    BY <2>2, <2>3, BeginsHas
  <2>5. NolintOf(raw[j]) = c /\ IsNolint(raw[j]) /\ MeantFor(raw[j], j) = l
    BY <1>3, <2>1, <2>3, <2>4 DEF NolintOf, IsNolint, MeantFor
  <2>6. c \in DOMAIN nolint_ /\ l \in nolint_[c]
    BY <2>2, <2>5 DEF IsRead
  <2>7. QED
    BY <1>4, <2>6
<1>7. QED
  BY <1>2, <1>5, <1>6

-----------------------------------------------------------------------------
(* Reports about line k.                                                   *)

\* What the rules about line k find is sound once its NOLINT has been read.
LEMMA LineErrorsSound ==
  ASSUME NEW log, NEW raw, NEW last, Document(raw, last), NEW k \in 0 .. last,
         ReadTo(log.nolint, raw, k + 1), NEW l,
         NEW e \in LineErrors(k, l, log.cpplint.verbose_level) \cup OrderErrors(k)
  PROVE  Sound(log, raw, e)
<1> DEFINE v == log.cpplint.verbose_level
<1>1. CASE e = LoopError(l)
  <2>1. e.cat = "whitespace/empty_loop_body" /\ e.conf = 5
    BY <1>1 DEF LoopError, Error_
  <2>2. QED
    BY <2>1 DEF Sound, SoundError, Allowed, Early, ERROR_CATEGORIES
<1>2. CASE e \in ErrorsAt({k}) \cup OrderErrors(k) \cup SizeErrors(k, v)
  <2>1. e.line = k /\ e.conf \in 0 .. 5 /\ e.cat \in ERROR_CATEGORIES
    BY <1>2 DEF ErrorsAt, OrderErrors, SizeErrors, FoundCategories, ERROR_CATEGORIES
  <2>2. SoundError(e, v)
    <3>1. CASE e \in ErrorsAt({k}) \cup OrderErrors(k)
      BY <2>1, <3>1 DEF ErrorsAt, OrderErrors, FoundCategories, SoundError
    <3>2. CASE e \in SizeErrors(k, v)
      <4>1. v <= 5 => v <= e.conf
        BY <3>2 DEF SizeErrors
      <4>2. e.conf >= v <=> v <= e.conf
        OBVIOUS
      <4>3. QED
        BY <2>1, <4>1, <4>2 DEF SoundError
    <3>3. QED
      BY <1>2, <3>1, <3>2
  <2>3. Covered(raw, e.line, e.cat) => Suppressed(log.nolint, e)
    <3>1. k + 1 \in 0 .. last + 1 /\ k \in 0 .. (k + 1) - 1
      BY DEF Document
    <3>2. QED
      BY <2>1, <3>1, CoveredIsSuppressed
  <2>4. QED
    BY <2>2, <2>3 DEF Sound, Allowed
<1>3. QED
  BY <1>1, <1>2 DEF LineErrors

\* Reports of what is found on line k keep the log as it should be.
LEMMA AllOnKeep ==
  ASSUME NEW log, NEW raw, LogOK(log, raw), NEW last, Document(raw, last), NEW k \in 0 .. last,
         ReadTo(log.nolint, raw, k + 1), NEW l,
         NEW errors \in AllOn(k, l, log.cpplint.verbose_level)
  PROVE  LogOK(Errors(log, errors), raw) /\ Later(log, Errors(log, errors))
<1> DEFINE E == LineErrors(k, l, log.cpplint.verbose_level) \cup OrderErrors(k)
<1>1. errors \in Seq(E)
  BY DEF AllOn
<1>2. \A e \in E : Sound(log, raw, e)
  BY LineErrorsSound
<1> HIDE DEF E
<1>3. IsSeq(errors) /\ DOMAIN errors = 1 .. Len(errors) /\ \A i \in 1 .. Len(errors) : errors[i] \in E
  BY <1>1, SeqOfAny
<1>4. QED
  BY <1>2, <1>3, ErrorsKeep

\* The same behind the last line.
LEMMA SomeFoundKeep ==
  ASSUME NEW log, NEW raw, LogOK(log, raw), NEW last, Document(raw, last),
         ReadTo(log.nolint, raw, last + 1), NEW errors, SomeFound(errors)
  PROVE  LogOK(Errors(log, errors), raw) /\ Later(log, Errors(log, errors))
<1>1. PICK L : errors \in Seq(ErrorsAt(L))
  BY DEF SomeFound
<1>2. ASSUME NEW e \in ErrorsAt(L) PROVE Sound(log, raw, e)
  <2>1. e.conf \in 0 .. 5 /\ e.cat \in ERROR_CATEGORIES /\ e.cat # "readability/fn_size"
    BY DEF ErrorsAt, FoundCategories
  <2>2. ASSUME e.line \in DOMAIN raw, Covered(raw, e.line, e.cat) PROVE Suppressed(log.nolint, e)
    <3>1. last + 1 \in 0 .. last + 1 /\ e.line \in 0 .. (last + 1) - 1
      BY <2>2 DEF Document
    <3>2. QED
      BY <2>1, <2>2, <3>1, CoveredIsSuppressed
  <2>3. QED
    BY <2>1, <2>2 DEF Sound, SoundError, Allowed
<1>3. IsSeq(errors) /\ DOMAIN errors = 1 .. Len(errors) /\ \A i \in 1 .. Len(errors) : errors[i] \in ErrorsAt(L)
  BY <1>1, SeqOfAny
<1>4. QED
  BY <1>2, <1>3, ErrorsKeep

\* An error that is found before its line is read.
LEMMA EarlySound ==
  ASSUME NEW log, NEW raw, NEW e, e.cat \in Early, e.conf \in 0 .. 5
  PROVE  Sound(log, raw, e)
  BY DEF Sound, SoundError, Allowed, Early, ERROR_CATEGORIES

LEMMA WhenEarlyKeeps ==
  ASSUME NEW log, NEW raw, LogOK(log, raw), NEW c, NEW k, NEW cat \in Early
  PROVE  LogOK(Errors(log, When(c, k, cat, 5)), raw) /\ Later(log, Errors(log, When(c, k, cat, 5)))
<1> DEFINE e == Error_(k, cat, 5)
           errors == When(c, k, cat, 5)
<1>1. Sound(log, raw, e)
  <2>1. e.cat = cat /\ e.conf = 5
    BY DEF Error_
  <2>2. QED
    BY <2>1, EarlySound
<1>2. errors = <<e>> \/ errors = <<>>
  BY DEF When
<1> HIDE DEF e, errors
<1>3. IsSeq(errors) /\ \A i \in DOMAIN errors : errors[i] = e
  <2>1. DOMAIN <<e>> = 1 .. 1 /\ <<e>>[1] = e /\ IsSeq(<<e>>)
    BY SingleAny
  <2>2. CASE errors = <<e>>
    BY <2>1, <2>2
  <2>3. CASE errors = <<>>
    BY <2>3, EmptyAny
  <2>4. QED
    BY <1>2, <2>2, <2>3
<1>4. QED
  BY <1>1, <1>3, ErrorsKeep DEF errors

-----------------------------------------------------------------------------
(* Reports before the first line.                                          *)

\* A log of a file with these lines, of which comments have been removed in raw.
FileOK(base, raw, lines, log) ==
  /\ LogOK(log, raw) /\ log.file = base.file /\ SameOptions(log.cpplint, base.cpplint)
  /\ Marks(log.nolint, lines)

LEMMA LaterFileOK ==
  ASSUME NEW base, NEW raw, NEW lines, NEW log, FileOK(base, raw, lines, log),
         NEW next, LogOK(next, raw), Later(log, next)
  PROVE  FileOK(base, raw, lines, next)
  BY DEF FileOK, Later, SameOptions

LEMMA ReadFileOK ==
  ASSUME NEW base, NEW raw, NEW lines, NEW last, Document(lines, last),
         NEW log, FileOK(base, raw, lines, log), NEW k \in 0 .. last
  PROVE  FileOK(base, raw, lines, ParseNolintSuppressions(log, lines[k], k))
<1> DEFINE next == ParseNolintSuppressions(log, lines[k], k)
           line == lines[k]
<1>1. Read(log, raw, line, k, next)
  BY ParseReads DEF FileOK
<1>2. k \in Nat /\ k \in DOMAIN lines /\ lines[k] = line
  BY DEF Document
<1> HIDE DEF next, line
<1>3. next.nolint = log.nolint \/
        (IsNolint(line) /\ next.nolint = Suppress(log.nolint, NolintOf(line), MeantFor(line, k)))
  BY <1>1 DEF Read
<1>4. Marks(next.nolint, lines)
  BY <1>2, <1>3, MarksKept DEF FileOK
<1>5. QED
  BY <1>1, <1>4 DEF Read, FileOK, SameOptions, next, line

LEMMA GuardErrorKeeps ==
  ASSUME NEW base, NEW raw, NEW lines, NEW last, Document(lines, last),
         NEW log, FileOK(base, raw, lines, log), NEW e \in Guards(last)
  PROVE  FileOK(base, raw, lines, GuardError(log, lines, e))
<1> DEFINE read == ParseNolintSuppressions(log, lines[e.line], e.line)
           x == IF e.reads THEN read ELSE log
           d == Error_(e.line, e.cat, e.conf)
<1>1. e.line \in 0 .. last /\ e.cat = "build/header_guard" /\ e.conf = 5
  BY DEF Guards, Guard
<1>2. FileOK(base, raw, lines, read)
  BY <1>1, ReadFileOK
<1> HIDE DEF read
<1>3. FileOK(base, raw, lines, x)
  BY <1>2
<1>4. d.cat \in Early /\ d.conf \in 0 .. 5
  BY <1>1 DEF Error_, Early
<1>5. GuardError(log, lines, e) = Error(x, d)
  BY DEF GuardError, read
<1> HIDE DEF x, d
<1>6. LogOK(Error(x, d), raw) /\ Later(x, Error(x, d))
  BY <1>3, <1>4, EarlySound, ErrorKeeps DEF FileOK
<1>7. QED
  BY <1>3, <1>5, <1>6, LaterFileOK

LEMMA GuardErrorsKeep ==
  ASSUME NEW base, NEW raw, NEW lines, NEW last, Document(lines, last),
         NEW log, FileOK(base, raw, lines, log), NEW errors \in Seq(Guards(last))
  PROVE  FileOK(base, raw, lines, GuardErrors(log, lines, errors))
<1>1. PICK len \in Nat : len = Len(errors) /\ DOMAIN errors = 1 .. len /\ \A i \in 1 .. len : errors[i] \in Guards(last)
  BY SeqOfAny
<1>0. GuardReach(log, lines, errors, len)
  BY <1>1, GuardSteps
<1>2. PICK r : /\ r[0] = log
               /\ \A i \in 1 .. len : r[i] = GuardError(r[i - 1], lines, errors[i])
               /\ GuardErrors(log, lines, errors) = r[len]
  BY <1>0 DEF GuardReach
<1> DEFINE N == {i \in Nat : i \in 0 .. len => FileOK(base, raw, lines, r[i])}
<1>3. 0 \in N
  BY <1>2
<1>4. ASSUME NEW i \in Nat, i \in N PROVE i + 1 \in N
  <2>1. CASE i + 1 \in 0 .. len
    <3>1. FileOK(base, raw, lines, r[i])
      BY <1>4, <2>1
    <3>2. r[i + 1] = GuardError(r[(i + 1) - 1], lines, errors[i + 1]) /\ (i + 1) - 1 = i
      BY <1>2, <2>1
    <3>3. errors[i + 1] \in Guards(last)
      BY <1>1, <2>1
    <3> DEFINE a == r[i]
               e == errors[i + 1]
    <3> HIDE DEF a, e
    <3>4. FileOK(base, raw, lines, GuardError(a, lines, e))
      BY <3>1, <3>3, GuardErrorKeeps DEF a, e
    <3>5. QED
      BY <3>2, <3>4 DEF a, e
  <2>2. QED
    BY <2>1
<1>5. Nat \subseteq N
  <2> HIDE DEF N
  <2>1. QED
    BY <1>3, <1>4, NatSetInduction
<1>6. QED
  BY <1>2, <1>5

-----------------------------------------------------------------------------
(* GLOBAL_NOLINT.                                                          *)

\* Nothing has been said of this file.
Silent(log) == log.reported = <<>> /\ \A i \in DOMAIN log.stderr : log.stderr[i].file # log.file

\* A log of the start of a file: the search for GLOBAL_NOLINT may only add to
\* the filters and report a category that does not exist.
GlobalOK(base, raw, acc) ==
  /\ DOMAIN acc = {"ended", "log"}
  /\ LogOK(acc.log, raw) /\ acc.log.file = base.file /\ acc.log.nolint = base.nolint
  /\ ~acc.ended => Silent(acc.log)
  /\ \A i \in DOMAIN acc.log.reported : acc.log.reported[i].cat = "readability/nolint"

LEMMA FilterAdded ==
  ASSUME NEW log, NEW raw, LogOK(log, raw), Silent(log), NEW cat,
         NEW next,
         /\ DOMAIN next = DOMAIN log /\ next.file = log.file /\ next.nolint = log.nolint
         /\ next.stderr = log.stderr /\ next.reported = log.reported
         /\ next.cpplint = [log.cpplint EXCEPT !.filters = Append(@, Filter("-", cat))]
  PROVE  LogOK(next, raw)
<1> DEFINE old == log.cpplint.filters
           f == Filter("-", cat)
           all == Append(old, f)
           new == next.cpplint
<1>1. DOMAIN log.cpplint = Fields /\ log.cpplint.verbose_level \in Int
  BY DEF LogOK, LogShape, StateOK
<1>2. /\ DOMAIN new = Fields /\ new.filters = all /\ new.verbose_level = log.cpplint.verbose_level
      /\ new.counting = log.cpplint.counting /\ new.error_count = log.cpplint.error_count
      /\ new.errors_by_category = log.cpplint.errors_by_category
  BY <1>1 DEF Fields
<1>3. Signed(all)
  <2>1. f.sign = "-"
    BY DEF Filter
  <2>2. IsSeq(old) /\ \A i \in DOMAIN old : old[i].sign \in {"+", "-"}
    BY DEF LogOK, Signed
  <2> HIDE DEF old, f
  <2>3. /\ IsSeq(all) /\ Len(old) \in Nat /\ DOMAIN old = 1 .. Len(old) /\ DOMAIN all = 1 .. Len(old) + 1
        /\ all[Len(old) + 1] = f /\ \A i \in 1 .. Len(old) : all[i] = old[i]
    BY <2>2, AppendAny
  <2> HIDE DEF all
  <2>4. ASSUME NEW i \in DOMAIN all PROVE all[i].sign \in {"+", "-"}
    <3>1. i = Len(old) + 1 \/ i \in 1 .. Len(old)
      BY <2>3
    <3>2. QED
      BY <2>1, <2>2, <2>3, <3>1
  <2>5. QED
    BY <2>3, <2>4 DEF Signed
<1> HIDE DEF all, new
<1>4. LogShape(next)
  BY <1>1, <1>2 DEF LogOK, LogShape, StateOK, new
<1>5. Signed(next.cpplint.filters)
  BY <1>2, <1>3 DEF new
<1>6. Typed(next)
  BY <1>2 DEF LogOK, Typed, new
<1>7. AllDecided(next)
  <2>1. \A i \in DOMAIN next.stderr : next.stderr[i].file # next.file
    BY DEF Silent
  <2>2. \A i \in DOMAIN next.reported : FALSE
    <3>1. DOMAIN next.reported = 1 .. 0
      BY EmptyAny DEF Silent
    <3>2. QED
      BY <3>1
  <2>3. QED
    BY <2>1, <2>2 DEF AllDecided
<1>8. Held(next, raw)
  BY DEF LogOK, Held
<1>9. CountsOK(next)
  BY <1>2 DEF LogOK, CountsOK, CountsOf, Of, new
<1>10. QED
  BY <1>4, <1>5, <1>6, <1>7, <1>8, <1>9 DEF LogOK

LEMMA GlobalKeeps ==
  ASSUME NEW base, NEW raw, NEW acc, GlobalOK(base, raw, acc), NEW lines, NEW k
  PROVE  GlobalOK(base, raw, GlobalNolint(acc, lines, k))
<1> DEFINE category == CategoryAfter(lines[k], "GLOBAL_NOLINT")
           x == GlobalNolint(acc, lines, k)
           skip == acc.ended \/ ~Has(lines[k], <<{"//"}, {"GLOBAL_NOLINT"}>>)
           a == [acc EXCEPT !.ended = TRUE]
           b == [acc EXCEPT !.log.cpplint.filters = Append(@, Filter("-", category))]
           e == Error_(k, "readability/nolint", 5)
           c == [ended |-> TRUE, log |-> Error(acc.log, e)]
<1>1. x = CASE skip -> acc
            [] OTHER -> CASE category = ANY -> a
                          [] category \in ERROR_CATEGORIES -> b
                          [] OTHER -> c
  BY Zenon DEF GlobalNolint
<1>2. DOMAIN acc = {"ended", "log"} /\ LogOK(acc.log, raw)
  BY DEF GlobalOK
<1>3. GlobalOK(base, raw, a)
  <2>1. DOMAIN a = DOMAIN acc /\ a.ended = TRUE /\ a.log = acc.log
    BY <1>2
  <2>2. QED
    BY <2>1 DEF GlobalOK
<1>4. ASSUME ~skip PROVE GlobalOK(base, raw, b)
  <2> DEFINE log == acc.log
             state == [log.cpplint EXCEPT !.filters = Append(@, Filter("-", category))]
             next == [log EXCEPT !.cpplint = state]
  <2>1. b = [acc EXCEPT !.log = next]
    OBVIOUS
  <2> HIDE DEF next, b
  <2>2. DOMAIN b = DOMAIN acc /\ b.ended = acc.ended /\ b.log = next
    BY <1>2, <2>1
  <2>3. DOMAIN log = {"file", "cpplint", "nolint", "stderr", "reported"}
    BY <1>2 DEF LogOK, LogShape
  <2> HIDE DEF log, state
  <2>4. /\ DOMAIN next = DOMAIN log /\ next.file = log.file /\ next.nolint = log.nolint
        /\ next.stderr = log.stderr /\ next.reported = log.reported /\ next.cpplint = state
    BY <2>3 DEF next
  <2>5. Silent(log)
    BY <1>4 DEF GlobalOK, log
  <2>6. LogOK(next, raw)
    <3>1. next.cpplint = [log.cpplint EXCEPT !.filters = Append(@, Filter("-", category))]
      BY <2>4 DEF state
    <3>2. LogOK(log, raw)
      BY <1>2 DEF log
    <3> HIDE DEF category
    <3>3. QED
      BY <2>4, <2>5, <3>1, <3>2, FilterAdded
  <2>7. Silent(next)
    BY <2>4, <2>5 DEF Silent
  <2>8. QED
    BY <1>2, <2>2, <2>4, <2>6, <2>7 DEF GlobalOK, log
<1>5. ASSUME ~skip PROVE GlobalOK(base, raw, c)
  <2> DEFINE log == acc.log
             next == Error(log, e)
  <2>1. e.cat = "readability/nolint" /\ e.conf = 5
    BY DEF Error_
  <2>2. Sound(log, raw, e)
    BY <2>1, EarlySound DEF Early
  <2>3. c.ended = TRUE /\ c.log = next /\ DOMAIN c = {"ended", "log"}
    OBVIOUS
  <2> HIDE DEF e, c
  <2>4. LogOK(next, raw) /\ Later(log, next)
    BY <1>2, <2>2, ErrorKeeps
  <2>5. Reports(log, e, next)
    BY <1>2, ErrorReports DEF LogOK
  <2> HIDE DEF next
  <2>6. next.reported = Append(log.reported, e) /\ log.reported = <<>>
    BY <1>4, <1>5, <2>5 DEF Reports, GlobalOK, Silent
  <2>7. \A i \in DOMAIN next.reported : next.reported[i].cat = "readability/nolint"
    <3>1. DOMAIN Append(<<>>, e) = 1 .. 0 + 1 /\ Append(<<>>, e)[0 + 1] = e
      BY EmptyAny, AppendAny
    <3>2. QED
      BY <2>1, <2>6, <3>1
  <2>8. QED
    BY <2>3, <2>4, <2>7 DEF GlobalOK, Later
<1> HIDE DEF a, b, c, x, skip, category
<1>6. GlobalOK(base, raw, x)
  BY <1>1, <1>3, <1>4, <1>5
<1>7. QED
  BY <1>6 DEF x

LEMMA GlobalLog ==
  ASSUME NEW log, NEW lines
  PROVE  ParseGlobalNolintSuppressions(log, lines) = GlobalEnd(log, lines).log
  BY Zenon DEF ParseGlobalNolintSuppressions, GlobalEnd, LineNumbers

LEMMA GlobalEnds ==
  ASSUME NEW log, NEW raw, LogOK(log, raw), Silent(log), NEW lines, NEW last, Document(lines, last)
  PROVE  GlobalOK(log, raw, GlobalEnd(log, lines))
<1>1. PICK len \in Nat : len = last + 1
  BY DEF Document
<1>2. Last_(lines) = last
  BY DocumentLast
<1>3. DOMAIN LineNumbers(lines) = 1 .. len
  BY <1>1, <1>2 DEF LineNumbers
<1>0. GlobalReach(log, lines, len)
  BY <1>3, GlobalSteps
<1>4. PICK r : /\ r[0] = [ended |-> FALSE, log |-> log]
               /\ \A i \in 1 .. len : r[i] = GlobalNolint(r[i - 1], lines, LineNumbers(lines)[i])
               /\ GlobalEnd(log, lines) = r[len]
  BY <1>0 DEF GlobalReach
<1> DEFINE N == {i \in Nat : i \in 0 .. len => GlobalOK(log, raw, r[i])}
<1>5. 0 \in N
  <2> DEFINE base == [ended |-> FALSE, log |-> log]
  <2>1. DOMAIN base = {"ended", "log"} /\ base.log = log
    OBVIOUS
  <2>2. \A i \in DOMAIN log.reported : FALSE
    <3>1. DOMAIN log.reported = 1 .. 0
      BY EmptyAny DEF Silent
    <3>2. QED
      BY <3>1
  <2>3. GlobalOK(log, raw, base)
    BY <2>1, <2>2 DEF GlobalOK
  <2>4. QED
    BY <1>4, <2>3
<1>6. ASSUME NEW i \in Nat, i \in N PROVE i + 1 \in N
  <2>1. CASE i + 1 \in 0 .. len
    <3>1. GlobalOK(log, raw, r[i])
      BY <1>6, <2>1
    <3>2. r[i + 1] = GlobalNolint(r[(i + 1) - 1], lines, LineNumbers(lines)[i + 1]) /\ (i + 1) - 1 = i
      BY <1>4, <2>1
    <3> DEFINE a == r[i]
               k == LineNumbers(lines)[i + 1]
    <3> HIDE DEF a, k
    <3>3. GlobalOK(log, raw, GlobalNolint(a, lines, k))
      BY <3>1, GlobalKeeps DEF a
    <3>4. QED
      BY <3>2, <3>3 DEF a, k
  <2>2. QED
    BY <2>1
<1>7. Nat \subseteq N
  <2> HIDE DEF N
  <2>1. QED
    BY <1>5, <1>6, NatSetInduction
<1>8. QED
  BY <1>4, <1>7

-----------------------------------------------------------------------------
(* A file more.                                                            *)

\* A file more, of which nothing has been said.
LEMMA NextFileOK ==
  ASSUME NEW log, NEW old, LogOK(log, old), NEW raw, NEW next,
         /\ DOMAIN next = DOMAIN log /\ next.file = log.file + 1 /\ next.reported = <<>>
         /\ next.cpplint = log.cpplint /\ next.nolint = log.nolint /\ next.stderr = log.stderr
  PROVE  LogOK(next, raw) /\ Silent(next)
<1>1. log.file \in Nat /\ \A i \in DOMAIN log.stderr : log.stderr[i].file \in 0 .. log.file
  BY DEF LogOK, Typed
<1>2. Silent(next)
  BY <1>1 DEF Silent
<1>3. DOMAIN next.reported = 1 .. 0 /\ IsSeq(next.reported)
  BY EmptyAny
<1>4. \A i \in DOMAIN next.reported : FALSE
  BY <1>3
<1>5. LogShape(next) /\ Signed(next.cpplint.filters)
  BY <1>3 DEF LogOK, LogShape, StateOK
<1>6. Typed(next)
  <2>1. next.file \in Nat /\ \A i \in DOMAIN next.stderr : next.stderr[i].file \in 0 .. next.file
    BY <1>1
  <2>2. QED
    BY <1>4, <2>1 DEF LogOK, Typed
<1>7. AllDecided(next)
  BY <1>2, <1>4 DEF AllDecided, Silent
<1>8. Held(next, raw)
  BY <1>2 DEF Held, Silent
<1>9. CountsOK(next)
  BY DEF LogOK, CountsOK, CountsOf, Of
<1>10. QED
  BY <1>2, <1>5, <1>6, <1>7, <1>8, <1>9 DEF LogOK

\* ResetNolintSuppressions keeps what is true of the errors reported so far.
LEMMA ResetOK ==
  ASSUME NEW base, NEW raw, NEW acc, GlobalOK(base, raw, acc), base.file > 1 \/ DOMAIN base.nolint = {},
         NEW lines
  PROVE  LET next == [acc.log EXCEPT !.nolint = ResetNolintSuppressions(@)]
         IN FileOK(next, raw, lines, next) /\ next.file = base.file
<1> DEFINE log == acc.log
           none == ResetNolintSuppressions(log.nolint)
           next == [log EXCEPT !.nolint = ResetNolintSuppressions(@)]
<1>1. LogOK(log, raw) /\ log.file = base.file /\ log.nolint = base.nolint
      /\ \A i \in DOMAIN log.reported : log.reported[i].cat = "readability/nolint"
  BY DEF GlobalOK
<1>2. DOMAIN log = {"file", "cpplint", "nolint", "stderr", "reported"}
  BY <1>1 DEF LogOK, LogShape
<1>3. DOMAIN none = {}
  BY DEF ResetNolintSuppressions
<1> HIDE DEF log
<1>4. /\ DOMAIN next = DOMAIN log /\ next.file = log.file /\ next.nolint = none
      /\ next.cpplint = log.cpplint /\ next.stderr = log.stderr /\ next.reported = log.reported
  BY <1>2
<1> HIDE DEF next, none
<1>5. LogShape(next) /\ Signed(next.cpplint.filters) /\ Held(next, raw) /\ CountsOK(next)
  <2>1. LogShape(log) /\ Signed(log.cpplint.filters) /\ Held(log, raw) /\ CountsOK(log)
    BY <1>1 DEF LogOK
  <2>2. LogShape(next) /\ Signed(next.cpplint.filters)
    BY <1>4, <2>1 DEF LogShape
  <2>3. Held(next, raw)
    BY <1>4, <2>1 DEF Held
  <2>4. CountsOK(next)
    BY <1>4, <2>1 DEF CountsOK, CountsOf, Of
  <2>5. QED
    BY <2>2, <2>3, <2>4
<1>6. Typed(next)
  BY <1>1, <1>3, <1>4 DEF LogOK, Typed
<1>7. AllDecided(next)
  <2>1. AllDecided(log)
    BY <1>1 DEF LogOK
  <2>2. \A e : IsPrinted(next, e) <=> IsPrinted(log, e)
    BY <1>4 DEF IsPrinted
  <2>3. CASE base.file > 1
    BY <1>1, <1>4, <2>1, <2>3 DEF AllDecided
  <2>4. CASE DOMAIN base.nolint = {}
    <3>1. \A e : ~Suppressed(log.nolint, e)
      BY <1>1, <2>4 DEF Suppressed, IsErrorSuppressedByNolint
    <3>2. QED
      BY <1>1, <1>4, <2>1, <2>2, <3>1 DEF AllDecided
  <2>5. QED
    BY <2>3, <2>4
<1>8. Marks(next.nolint, lines)
  BY <1>3, <1>4 DEF Marks
<1>9. LogOK(next, raw)
  BY <1>5, <1>6, <1>7 DEF LogOK
<1>10. FileOK(next, raw, lines, next) /\ next.file = base.file
  BY <1>1, <1>4, <1>8, <1>9 DEF FileOK, SameOptions
<1>11. QED
  BY <1>10 DEF next, log

\* All that is reported before the first line.
StartLog(fresh, path, lines, header, c, k) ==
  LET global1 == ParseGlobalNolintSuppressions(fresh, lines)
      reset == [global1 EXCEPT !.nolint = ResetNolintSuppressions(@)]
      copyright == Errors(reset, CheckForCopyright(lines))
      guard == IF ~header THEN copyright
               ELSE GuardErrors(copyright, lines, CheckForHeaderGuard(path, lines))
  IN Errors(guard, When(c, k, "readability/multiline_comment", 5))

LEMMA StartKeeps ==
  ASSUME NEW fresh, NEW raw, LogOK(fresh, raw), Silent(fresh), fresh.file > 1 \/ DOMAIN fresh.nolint = {},
         NEW lines, NEW last, Document(lines, last), NEW path, NEW header, NEW c, NEW k
  PROVE  LET log == StartLog(fresh, path, lines, header, c, k)
         IN LogOK(log, raw) /\ log.file = fresh.file /\ Marks(log.nolint, lines)
<1> DEFINE global1 == ParseGlobalNolintSuppressions(fresh, lines)
           reset == [global1 EXCEPT !.nolint = ResetNolintSuppressions(@)]
           copyright == Errors(reset, CheckForCopyright(lines))
           guards == GuardErrors(copyright, lines, CheckForHeaderGuard(path, lines))
           guard == IF ~header THEN copyright ELSE guards
           log == Errors(guard, When(c, k, "readability/multiline_comment", 5))
<1>1. StartLog(fresh, path, lines, header, c, k) = log
  BY Zenon DEF StartLog
<1>2. FileOK(reset, raw, lines, reset) /\ reset.file = fresh.file
  <2>1. GlobalOK(fresh, raw, GlobalEnd(fresh, lines))
    BY GlobalEnds
  <2> DEFINE acc == GlobalEnd(fresh, lines)
  <2>2. global1 = acc.log
    BY GlobalLog, Zenon
  <2> HIDE DEF acc, global1
  <2>3. reset = [acc.log EXCEPT !.nolint = ResetNolintSuppressions(@)]
    BY <2>2
  <2> HIDE DEF reset
  <2>4. QED
    BY <2>1, <2>3, ResetOK DEF acc
<1> HIDE DEF reset
<1>3. FileOK(reset, raw, lines, copyright)
  <2>1. "legal/copyright" \in Early
    BY DEF Early
  <2> DEFINE w == \A j \in 1 .. Min({Last_(lines), 10}) : ~Contains(lines[j], "Copyright")
             errors == When(w, 1, "legal/copyright", 5)
  <2>2. CheckForCopyright(lines) = errors
    BY Zenon DEF CheckForCopyright
  <2> HIDE DEF w
  <2>3. LogOK(Errors(reset, errors), raw) /\ Later(reset, Errors(reset, errors))
    BY <1>2, <2>1, WhenEarlyKeeps DEF FileOK
  <2>4. FileOK(reset, raw, lines, Errors(reset, errors))
    BY <1>2, <2>3, LaterFileOK
  <2>5. QED
    BY <2>2, <2>4
<1> HIDE DEF copyright
<1>4. FileOK(reset, raw, lines, guards)
  BY <1>3, CheckForHeaderGuardFound, GuardErrorsKeep
<1> HIDE DEF guards
<1>5. FileOK(reset, raw, lines, guard)
  BY <1>3, <1>4
<1> HIDE DEF guard
<1>6. FileOK(reset, raw, lines, log)
  <2>1. "readability/multiline_comment" \in Early
    BY DEF Early
  <2>2. LogOK(log, raw) /\ Later(guard, log)
    BY <1>5, <2>1, WhenEarlyKeeps DEF FileOK
  <2> HIDE DEF log
  <2>3. QED
    BY <1>5, <2>2, LaterFileOK
<1>7. QED
  BY <1>1, <1>2, <1>6 DEF FileOK

-----------------------------------------------------------------------------
(* The log while the lines of a file go by, and the options.               *)

LEMMA SameLogOK ==
  ASSUME NEW log, NEW raw, LogOK(log, raw), NEW next,
         /\ DOMAIN next = {"file", "cpplint", "nolint", "stderr", "reported"}
         /\ next.file = log.file /\ next.cpplint = log.cpplint /\ next.nolint = log.nolint
         /\ next.stderr = log.stderr /\ next.reported = log.reported
  PROVE  LogOK(next, raw)
<1>1. /\ LogShape(log) /\ Signed(log.cpplint.filters) /\ Typed(log) /\ AllDecided(log)
      /\ Held(log, raw) /\ CountsOK(log)
  BY DEF LogOK
<1>2. LogShape(next) /\ Signed(next.cpplint.filters)
  BY <1>1 DEF LogShape
<1>3. Typed(next)
  BY <1>1 DEF Typed
<1>4. AllDecided(next)
  <2>1. \A e : IsPrinted(next, e) <=> IsPrinted(log, e)
    BY DEF IsPrinted
  <2>2. QED
    BY <1>1, <2>1 DEF AllDecided
<1>5. Held(next, raw)
  BY <1>1 DEF Held
<1>6. CountsOK(next)
  BY <1>1 DEF CountsOK, CountsOf, Of
<1>7. QED
  BY <1>2, <1>3, <1>4, <1>5, <1>6 DEF LogOK

LEMMA DummyIsNoNolint == ~IsNolint(DUMMY)
<1>1. Len(DUMMY) = 2 /\ DUMMY[1] # "NOLINT" /\ DUMMY[2] # "NOLINT"
  BY DEF DUMMY
<1>2. ~Contains(DUMMY, "NOLINT")
  BY <1>1 DEF Contains
<1>3. QED
  BY <1>2 DEF IsNolint

\* A log of a file down to line k.
LineOK(log, raw, lines, k, next) ==
  /\ LogOK(next, raw) /\ next.file = log.file /\ SameOptions(next.cpplint, log.cpplint)
  /\ ReadTo(next.nolint, raw, k + 1) /\ Marks(next.nolint, lines)

LEMMA LaterLineOK ==
  ASSUME NEW log, NEW raw, NEW lines, NEW k, NEW a, LineOK(log, raw, lines, k, a),
         NEW b, LogOK(b, raw), Later(a, b)
  PROVE  LineOK(log, raw, lines, k, b)
  BY DEF LineOK, Later, SameOptions

LEMMA LineKeeps ==
  ASSUME NEW log, NEW raw, NEW lines, NEW last, Document(raw, last), NEW k \in 0 .. last,
         NEW a, LineOK(log, raw, lines, k, a), NEW l,
         NEW errors \in AllOn(k, l, log.cpplint.verbose_level)
  PROVE  LineOK(log, raw, lines, k, Errors(a, errors))
<1>1. a.cpplint.verbose_level = log.cpplint.verbose_level /\ LogOK(a, raw) /\ ReadTo(a.nolint, raw, k + 1)
  BY DEF LineOK, SameOptions
<1>2. errors \in AllOn(k, l, a.cpplint.verbose_level)
  BY <1>1
<1>3. LogOK(Errors(a, errors), raw) /\ Later(a, Errors(a, errors))
  BY <1>1, <1>2, AllOnKeep
<1>4. QED
  BY <1>3, LaterLineOK

LEMMA LineStarts ==
  ASSUME NEW log, NEW raw, LogOK(log, raw), NEW last, Document(raw, last), NEW k \in 0 .. last,
         ReadTo(log.nolint, raw, k), NEW lines, Document(lines, last), Marks(log.nolint, lines),
         raw[k] \in {DUMMY, lines[k]}, NEW errors \in Found(k)
  PROVE  LineOK(log, raw, lines, k, Errors(ParseNolintSuppressions(log, raw[k], k), errors))
<1> DEFINE a == ParseNolintSuppressions(log, raw[k], k)
           line == raw[k]
<1>1. Read(log, raw, line, k, a)
  BY ParseReads
<1>2. k \in Nat /\ k \in DOMAIN lines
  BY DEF Document
<1>3. IsNolint(line) => lines[k] = line
  BY DummyIsNoNolint
<1> HIDE DEF a, line
<1>4. a.nolint = log.nolint \/
        (IsNolint(line) /\ a.nolint = Suppress(log.nolint, NolintOf(line), MeantFor(line, k)))
  BY <1>1 DEF Read
<1>5. Marks(a.nolint, lines)
  BY <1>2, <1>3, <1>4, MarksKept
<1>6. ReadTo(a.nolint, raw, k + 1)
  <2>1. Grown(log.nolint, a.nolint) /\ IsRead(a.nolint, raw[k], k)
    BY <1>1 DEF Read, line
  <2>2. QED
    BY <1>2, <2>1, ReadToNext
<1>7. LineOK(log, raw, lines, k, a)
  BY <1>1, <1>5, <1>6 DEF Read, LineOK
<1>8. errors \in AllOn(k, 0, log.cpplint.verbose_level)
  BY FoundIsOn, OnIsAll
<1>9. LineOK(log, raw, lines, k, Errors(a, errors))
  BY <1>7, <1>8, LineKeeps
<1>10. QED
  BY <1>9 DEF a

\* The options that have been read.
OptionsOK(acc) ==
  /\ DOMAIN acc = {"ends", "verbose_level", "output_format", "filters", "counting", "quiet"}
  /\ acc.verbose_level \in Int /\ IsSeq(acc.filters)

LEMMA OptionKeeps ==
  ASSUME NEW acc, OptionsOK(acc), NEW o, o.opt = "verbose" => o.val \in Int,
         o.opt = "filter" => IsSeq(o.val)
  PROVE  OptionsOK(ParseOption(acc, o))
<1> DEFINE x == ParseOption(acc, o)
           A == \/ o.opt = "help"
                \/ o.opt = "output" /\ o.val \notin {"emacs", "vs7"}
                \/ o.opt = "filter" /\ o.val = <<>>
                \/ o.opt = "counting" /\ o.val \notin {"total", "toplevel", "detailed"}
                \/ o.opt \notin {"help", "output", "verbose", "filter", "counting", "quiet"}
           r1 == [acc EXCEPT !.ends = TRUE]
           r2 == [acc EXCEPT !.verbose_level = o.val]
           r3 == [acc EXCEPT !.output_format = o.val]
           r4 == [acc EXCEPT !.filters = o.val]
           r5 == [acc EXCEPT !.counting = o.val]
           r6 == [acc EXCEPT !.quiet = TRUE]
<1>1. x = CASE acc.ends -> acc
            [] A -> r1
            [] OTHER ->
                 CASE o.opt = "verbose" -> r2
                   [] o.opt = "output" -> r3
                   [] o.opt = "filter" -> r4
                   [] o.opt = "counting" -> r5
                   [] o.opt = "quiet" -> r6
  BY Zenon DEF ParseOption
<1>2. OptionsOK(r1) /\ OptionsOK(r3) /\ OptionsOK(r5) /\ OptionsOK(r6)
  BY DEF OptionsOK
<1>3. o.opt = "verbose" => OptionsOK(r2)
  BY DEF OptionsOK
<1>4. o.opt = "filter" => OptionsOK(r4)
  BY DEF OptionsOK
<1>5. ~A => o.opt \in {"output", "verbose", "filter", "counting", "quiet"}
  OBVIOUS
<1> HIDE DEF A, r1, r2, r3, r4, r5, r6, x
<1>6. OptionsOK(x)
  BY <1>1, <1>2, <1>3, <1>4, <1>5
<1>7. QED
  BY <1>6 DEF x

LEMMA OptionsAreOK ==
  ASSUME NEW c \in Commands
  PROVE  OptionsOK(ParseOptions(c.opts))
<1> DEFINE opts == c.opts
<1>1. /\ IsSeq(opts)
      /\ \A i \in DOMAIN opts : /\ opts[i].opt = "verbose" => opts[i].val \in Int
                                /\ opts[i].opt = "filter" => IsSeq(opts[i].val)
  BY CommandsAssumption
<1>2. OptionsOK(NoOptions)
  BY EmptyAny DEF OptionsOK, NoOptions, _CppLintState
<1> HIDE DEF opts
<1>3. PICK len \in Nat : len = Len(opts) /\ DOMAIN opts = 1 .. len
  BY <1>1, IsSeqDomain
<1>0. OptionsReach(opts, len)
  BY <1>3, OptionsSteps
<1>4. PICK r : /\ r[0] = NoOptions
               /\ \A i \in 1 .. len : r[i] = ParseOption(r[i - 1], opts[i])
               /\ ParseOptions(opts) = r[len]
  BY <1>0 DEF OptionsReach
<1> DEFINE N == {i \in Nat : i \in 0 .. len => OptionsOK(r[i])}
<1>5. 0 \in N
  BY <1>2, <1>4
<1>6. ASSUME NEW i \in Nat, i \in N PROVE i + 1 \in N
  <2>1. CASE i + 1 \in 0 .. len
    <3>1. OptionsOK(r[i])
      BY <1>6, <2>1
    <3>2. r[i + 1] = ParseOption(r[(i + 1) - 1], opts[i + 1]) /\ (i + 1) - 1 = i
      BY <1>4, <2>1
    <3>3. /\ opts[i + 1].opt = "verbose" => opts[i + 1].val \in Int
          /\ opts[i + 1].opt = "filter" => IsSeq(opts[i + 1].val)
      BY <1>1, <1>3, <2>1
    <3> DEFINE a == r[i]
               o == opts[i + 1]
    <3>4. OptionsOK(a) /\ (o.opt = "verbose" => o.val \in Int) /\ (o.opt = "filter" => IsSeq(o.val))
      BY <3>1, <3>3
    <3> HIDE DEF a, o
    <3>5. OptionsOK(ParseOption(a, o))
      BY <3>4, OptionKeeps
    <3>6. QED
      BY <3>2, <3>5 DEF a, o
  <2>2. QED
    BY <2>1
<1>7. Nat \subseteq N
  <2> HIDE DEF N
  <2>1. QED
    BY <1>5, <1>6, NatSetInduction
<1>8. QED
  BY <1>4, <1>7 DEF opts

-----------------------------------------------------------------------------
(* Text: strings.                                                          *)

LEMMA LineAny ==
  ASSUME NEW s, IsSeq(s)
  PROVE  \E len \in Nat : len = Len(s) /\ DOMAIN s = 1 .. len /\ s \in [1 .. len -> Range(s)]
<1>1. Len(s) \in Nat /\ DOMAIN s = 1 .. Len(s)
  BY IsSeqDomain
<1>2. s \in Seq(Range(s))
  BY DEF IsSeq
<1> DEFINE R == Range(s)
<1> HIDE DEF R
<1>3. s \in Seq(R)
  BY <1>2 DEF R
<1>4. s \in [1 .. Len(s) -> R]
  BY <1>3, LenProperties
<1>5. QED
  BY <1>1, <1>4 DEF R

LEMMA BeforeAny ==
  ASSUME NEW s, NEW j \in Nat, j >= 1
  PROVE  /\ IsSeq(Before(s, j)) /\ Len(Before(s, j)) = j - 1 /\ DOMAIN Before(s, j) = 1 .. j - 1
         /\ \A x \in 1 .. j - 1 : Before(s, j)[x] = s[x]
<1>1. PICK m \in Nat : m = j - 1
  OBVIOUS
<1> DEFINE b == SubSeq(s, 1, m)
<1>2. /\ IsSeq(b) /\ Len(b) = IF 1 <= m THEN m - 1 + 1 ELSE 0
      /\ \A x \in 1 .. m - 1 + 1 : b[x] = s[1 + x - 1]
  BY SubSeqAny
<1> HIDE DEF b
<1>3. Len(b) = m /\ \A x \in 1 .. m : b[x] = s[x]
  <2>1. \A x \in 1 .. m : x \in 1 .. m - 1 + 1 /\ 1 + x - 1 = x
    OBVIOUS
  <2>2. Len(b) = m
    BY <1>2
  <2>3. QED
    BY <1>2, <2>1, <2>2
<1>4. DOMAIN b = 1 .. m
  BY <1>2, <1>3, IsSeqDomain
<1>5. Before(s, j) = b
  BY <1>1 DEF Before, b
<1>6. QED
  BY <1>1, <1>2, <1>3, <1>4, <1>5

LEMMA AfterAny ==
  ASSUME NEW s, NEW len \in Nat, Len(s) = len, NEW j \in 0 .. len
  PROVE  /\ IsSeq(After(s, j)) /\ Len(After(s, j)) = len - j /\ DOMAIN After(s, j) = 1 .. len - j
         /\ \A x \in 1 .. len - j : After(s, j)[x] = s[j + x]
<1> DEFINE b == SubSeq(s, j + 1, len)
<1>1. /\ IsSeq(b) /\ Len(b) = IF j + 1 <= len THEN len - (j + 1) + 1 ELSE 0
      /\ \A x \in 1 .. len - (j + 1) + 1 : b[x] = s[(j + 1) + x - 1]
  BY SubSeqAny
<1> HIDE DEF b
<1>2. Len(b) = len - j /\ \A x \in 1 .. len - j : b[x] = s[j + x]
  <2>1. \A x \in 1 .. len - j : x \in 1 .. len - (j + 1) + 1 /\ (j + 1) + x - 1 = j + x
    OBVIOUS
  <2>2. Len(b) = len - j
    BY <1>1
  <2>3. QED
    BY <1>1, <2>1, <2>2
<1>3. DOMAIN b = 1 .. len - j
  BY <1>1, <1>2, IsSeqDomain
<1>4. After(s, j) = b
  BY DEF After, b
<1>5. QED
  BY <1>1, <1>2, <1>3, <1>4

\* A line of which every element is picked.
LEMMA AllPicked ==
  ASSUME NEW line, IsSeq(line)
  PROVE  Picked(line, DOMAIN line) = line
<1>1. PICK len \in Nat : len = Len(line) /\ DOMAIN line = 1 .. len /\ line \in [1 .. len -> Range(line)]
  BY LineAny
<1>2. Cardinality(1 .. len) = len
  BY FS_Interval
<1>3. ASSUME NEW k \in 1 .. len PROVE InOrder(1 .. len)[k] = k
  <2>1. \A x \in 1 .. len : Cardinality({y \in 1 .. len : y <= x}) = x
    <3> SUFFICES ASSUME NEW x \in 1 .. len PROVE Cardinality({y \in 1 .. len : y <= x}) = x
      OBVIOUS
    <3>1. {y \in 1 .. len : y <= x} = 1 .. x
      OBVIOUS
    <3>2. Cardinality(1 .. x) = x
      BY FS_Interval
    <3>3. QED
      BY <3>1, <3>2
  <2>2. InOrder(1 .. len)[k] = CHOOSE x \in 1 .. len : Cardinality({y \in 1 .. len : y <= x}) = k
    BY <1>2 DEF InOrder
  <2>3. \A x \in 1 .. len : Cardinality({y \in 1 .. len : y <= x}) = k <=> x = k
    BY <2>1
  <2>4. (CHOOSE x \in 1 .. len : Cardinality({y \in 1 .. len : y <= x}) = k) = k
    BY <2>3, Zenon
  <2>5. QED
    BY <2>2, <2>4
<1>4. Picked(line, 1 .. len) = [i \in 1 .. len |-> line[InOrder(1 .. len)[i]]]
  BY <1>2 DEF Picked
<1>5. [i \in 1 .. len |-> line[InOrder(1 .. len)[i]]] = [i \in 1 .. len |-> line[i]]
  BY <1>3
<1>6. [i \in 1 .. len |-> line[i]] = line
  BY <1>1
<1>7. QED
  BY <1>1, <1>4, <1>5, <1>6

\* What _CollapseStrings leaves of a line without escaped quotes.
LEMMA CollapsePlain ==
  ASSUME NEW line, IsSeq(line), ESCAPED \notin ToSet(line), ~IsIncludeLine(line)
  PROVE  _CollapseStrings(line) = Picked(line, {i \in DOMAIN line : ~InString(line, i)})
<1> DEFINE A == {i \in DOMAIN line : line[i] # ESCAPED}
           plain == Picked(line, A)
<1>1. _CollapseStrings(line) = Picked(plain, {i \in DOMAIN plain : ~InString(plain, i)})
  BY Zenon DEF _CollapseStrings
<1>2. A = DOMAIN line
  BY DEF ToSet
<1>3. plain = line
  BY <1>2, AllPicked
<1> HIDE DEF plain
<1>4. QED
  BY <1>1, <1>3

\* Elements of a line that do not tell strings from code.
Inert == {"//", "/*", "*/", "{", "x"}
Inside(line, i) == /\ Count(Before(line, i), QUOTE) % 2 = 1 /\ line[i] # QUOTE
                   /\ Contains(After(line, i), QUOTE)

LEMMA InertChange ==
  ASSUME NEW line, IsSeq(line), NEW i \in DOMAIN line, NEW t \in Inert, line[i] # QUOTE,
         NEW other, other = [line EXCEPT ![i] = t]
  PROVE  /\ IsSeq(other) /\ DOMAIN other = DOMAIN line /\ Len(other) = Len(line)
         /\ \A j \in DOMAIN line : j # i => other[j] = line[j]
         /\ other[i] = t
         /\ \A j \in DOMAIN line : InString(other, j) <=> InString(line, j)
<1>1. PICK len \in Nat : len = Len(line) /\ DOMAIN line = 1 .. len /\ line \in [1 .. len -> Range(line)]
  BY LineAny
<1>2. /\ DOMAIN other = 1 .. len /\ other[i] = t
      /\ \A j \in 1 .. len : j # i => other[j] = line[j]
  BY <1>1
<1>3. IsSeq(other) /\ Len(other) = len
  <2> DEFINE T == Range(line) \cup {t}
  <2>1. other \in [1 .. len -> T]
    BY <1>1
  <2> HIDE DEF T
  <2>2. QED
    BY <1>1, <2>1, MadeSeq
<1>4. t # QUOTE
  BY DEF Inert, QUOTE
<1>5. \A j \in 1 .. len : other[j] = QUOTE <=> line[j] = QUOTE
  BY <1>1, <1>2, <1>4
<1>6. ASSUME NEW j \in 1 .. len PROVE InString(other, j) <=> InString(line, j)
  <2>0. j \in Nat /\ j >= 1 /\ j \in 0 .. len
    OBVIOUS
  <2>1. /\ DOMAIN Before(other, j) = 1 .. j - 1 /\ DOMAIN Before(line, j) = 1 .. j - 1
        /\ \A x \in 1 .. j - 1 : Before(other, j)[x] = other[x] /\ Before(line, j)[x] = line[x]
    BY <2>0, BeforeAny
  <2>3. {x \in DOMAIN Before(other, j) : Before(other, j)[x] = QUOTE}
          = {x \in DOMAIN Before(line, j) : Before(line, j)[x] = QUOTE}
    <3>2. \A x \in 1 .. j - 1 : x \in 1 .. len
      BY <1>1
    <3>3. \A x \in 1 .. j - 1 : Before(other, j)[x] = QUOTE <=> Before(line, j)[x] = QUOTE
      BY <1>5, <2>1, <3>2
    <3>4. QED
      BY <2>1, <3>3
  <2>4. IsCppString(Before(other, j)) <=> IsCppString(Before(line, j))
    BY <2>3, Zenon DEF IsCppString, Count
  <2>5. /\ Len(After(other, j)) = len - j /\ Len(After(line, j)) = len - j
        /\ \A x \in 1 .. len - j : /\ After(other, j)[x] = other[j + x]
                                   /\ After(line, j)[x] = line[j + x]
    <3>1. Len(other) = len /\ Len(line) = len
      BY <1>1, <1>3
    <3>2. /\ Len(After(other, j)) = len - j
          /\ \A x \in 1 .. len - j : After(other, j)[x] = other[j + x]
      BY <2>0, <3>1, AfterAny
    <3>3. /\ Len(After(line, j)) = len - j
          /\ \A x \in 1 .. len - j : After(line, j)[x] = line[j + x]
      BY <2>0, <3>1, AfterAny
    <3>4. QED
      BY <3>2, <3>3
  <2>6. Contains(After(other, j), QUOTE) <=> Contains(After(line, j), QUOTE)
    <3>1. \A x \in 1 .. len - j : j + x \in 1 .. len
      BY <1>1
    <3>2. \A x \in 1 .. len - j : After(other, j)[x] = QUOTE <=> After(line, j)[x] = QUOTE
      BY <1>5, <2>5, <3>1
    <3>3. Len(After(other, j)) = len - j /\ Len(After(line, j)) = len - j
      BY <2>5
    <3>4. QED
      BY <3>2, <3>3 DEF Contains
  <2>7. QED
    BY <1>5, <2>4, <2>6 DEF InString
<1>7. QED
  BY <1>1, <1>2, <1>3, <1>6

\* Such an element within a string may be any other: what is left is the same.
LEMMA StringsAreOpaque ==
  ASSUME NEW line, IsSeq(line), ESCAPED \notin ToSet(line), ~IsIncludeLine(line),
         NEW i \in DOMAIN line, Inside(line, i), NEW t \in Inert
  PROVE  _CollapseStrings([line EXCEPT ![i] = t]) = _CollapseStrings(line)
<1>1. PICK other : other = [line EXCEPT ![i] = t]
  OBVIOUS
<1>2. PICK len \in Nat : len = Len(line) /\ DOMAIN line = 1 .. len
  BY IsSeqDomain
<1>3. /\ IsSeq(other) /\ DOMAIN other = 1 .. len /\ Len(other) = len
      /\ \A j \in 1 .. len : j # i => other[j] = line[j]
      /\ other[i] = t
      /\ \A j \in 1 .. len : InString(other, j) <=> InString(line, j)
  <2>1. line[i] # QUOTE
    BY DEF Inside
  <2>2. QED
    BY <1>1, <1>2, <2>1, InertChange
<1>4. t \notin {IND, "#include", "<", QUOTE, ESCAPED} /\ t \notin EndsName
  BY DEF Inert, IND, QUOTE, ESCAPED, EndsName
<1>5. i # 1
  <2>1. SUFFICES ASSUME i = 1 PROVE FALSE
    OBVIOUS
  <2>2. Len(Before(line, 1)) = 0 /\ IsSeq(Before(line, 1))
    BY SubSeqAny DEF Before
  <2>3. DOMAIN Before(line, 1) = 1 .. 0
    BY <2>2, IsSeqDomain
  <2>4. {x \in DOMAIN Before(line, 1) : Before(line, 1)[x] = QUOTE} = {}
    BY <2>3
  <2>5. Count(Before(line, 1), QUOTE) = 0
    BY <2>4, FS_EmptySet DEF Count
  <2>6. QED
    BY <2>1, <2>5 DEF Inside
<1>6. ~IsIncludeLine(other)
  <2>1. SUFFICES ASSUME IsIncludeLine(other) PROVE FALSE
    OBVIOUS
  <2>2. /\ Len(Strip(other)) >= 3 /\ Strip(other)[1] = "#include" /\ Strip(other)[2] \in {"<", QUOTE}
        /\ \E m \in 3 .. Len(Strip(other)) : Strip(other)[m] \in EndsName
    BY <2>1, Zenon DEF IsIncludeLine
  <2>0. PICK m \in 3 .. Len(Strip(other)) : Strip(other)[m] \in EndsName
    BY <2>2
  <2>3. len >= 1 /\ other # <<>> /\ line # <<>> /\ Head(other) = other[1] /\ Head(line) = line[1]
        /\ other[1] = line[1]
    <3>1. len >= 1
      BY <1>2
    <3>2. QED
      BY <1>2, <1>3, <1>5, <3>1, EmptyAny DEF IsSeq
  <2>4. Indented(other) <=> Indented(line)
    BY <2>3 DEF Indented
  <2>5. CASE ~Indented(line)
    <3>1. Strip(other) = other /\ Strip(line) = line
      BY <2>4, <2>5 DEF Strip
    <3>2. len >= 3 /\ 1 \in 1 .. len /\ 2 \in 1 .. len
      BY <1>3, <2>2, <3>1
    <3>3. line[1] = "#include" /\ line[2] \in {"<", QUOTE}
      BY <1>3, <1>4, <2>2, <3>1, <3>2
    <3>6. m \in 3 .. len /\ other[m] \in EndsName
      BY <1>3, <2>0, <3>1
    <3>7. line[m] \in EndsName
      BY <1>3, <1>4, <3>6
    <3>4. IsIncludeLine(line)
      BY <1>2, <3>1, <3>2, <3>3, <3>6, <3>7 DEF IsIncludeLine
    <3>5. QED
      BY <3>4
  <2>6. CASE Indented(line)
    <3>1. Strip(other) = Tail(other) /\ Strip(line) = Tail(line)
      BY <2>4, <2>6 DEF Strip
    <3>2. /\ Len(Tail(other)) = len - 1 /\ Len(Tail(line)) = len - 1
          /\ \A x \in 1 .. len - 1 : Tail(other)[x] = other[x + 1] /\ Tail(line)[x] = line[x + 1]
      <4>1. other \in Seq(Range(other)) /\ line \in Seq(Range(line))
        BY <1>3 DEF IsSeq
      <4>2. QED
        BY <1>2, <1>3, <2>3, <4>1, HeadTailProperties
    <3>3. len >= 4 /\ 1 \in 1 .. len - 1 /\ 2 \in 1 .. len - 1 /\ 2 \in 1 .. len /\ 3 \in 1 .. len
      BY <2>2, <3>1, <3>2
    <3>4. other[2] = "#include" /\ other[3] \in {"<", QUOTE}
      BY <2>2, <3>1, <3>2, <3>3
    <3>5. line[2] = "#include" /\ line[3] \in {"<", QUOTE}
      BY <1>3, <1>4, <3>3, <3>4
    <3>6. Len(Strip(line)) >= 3 /\ Strip(line)[1] = "#include" /\ Strip(line)[2] \in {"<", QUOTE}
      BY <3>1, <3>2, <3>3, <3>5
    <3>9. m \in 3 .. Len(Strip(line)) /\ m + 1 \in 1 .. len /\ other[m + 1] \in EndsName
          /\ Strip(line)[m] = line[m + 1]
      BY <2>0, <3>1, <3>2, <3>3
    <3>10. Strip(line)[m] \in EndsName
      BY <1>3, <1>4, <3>9
    <3>7. IsIncludeLine(line)
      BY <3>6, <3>9, <3>10, Zenon DEF IsIncludeLine
    <3>8. QED
      BY <3>7
  <2>7. QED
    BY <2>5, <2>6
<1>7. ESCAPED \notin ToSet(other)
  BY <1>2, <1>3, <1>4 DEF ToSet
<1> DEFINE S == {j \in 1 .. len : ~InString(line, j)}
<1>8. _CollapseStrings(line) = Picked(line, S)
  BY <1>2, CollapsePlain
<1>9. {j \in DOMAIN other : ~InString(other, j)} = S
  BY <1>3
<1>10. _CollapseStrings(other) = Picked(other, S)
  BY <1>3, <1>6, <1>7, <1>9, CollapsePlain
<1>11. IsFiniteSet(S) /\ S \subseteq Int /\ S \subseteq 1 .. len
  <2>1. IsFiniteSet(1 .. len)
    BY FS_Interval
  <2>2. S \subseteq 1 .. len
    OBVIOUS
  <2> HIDE DEF S
  <2>3. IsFiniteSet(S)
    BY <2>1, <2>2, FS_Subset
  <2>4. 1 .. len \subseteq Int
    OBVIOUS
  <2>5. QED
    BY <2>2, <2>3, <2>4
<1>12. i \notin S
  BY DEF Inside, InString, IsCppString
<1> HIDE DEF S
<1>13. Picked(other, S) = Picked(line, S)
  <2>1. PICK N \in Nat : N = Cardinality(S)
    BY <1>11, FS_CardinalityType
  <2>2. \A k \in 1 .. N : InOrder(S)[k] \in S
    BY <1>11, <2>1, InOrderRank
  <2>3. \A k \in 1 .. N : other[InOrder(S)[k]] = line[InOrder(S)[k]]
    BY <1>3, <1>11, <1>12, <2>2
  <2>4. /\ Picked(other, S) = [k \in 1 .. N |-> other[InOrder(S)[k]]]
        /\ Picked(line, S) = [k \in 1 .. N |-> line[InOrder(S)[k]]]
    BY <2>1 DEF Picked
  <2>5. QED
    BY <2>3, <2>4
<1>14. QED
  BY <1>1, <1>8, <1>10, <1>13

-----------------------------------------------------------------------------
(* Text: comments that go over several lines.                              *)

\* The recursion of RemoveMultiLineComments.
CommentStart(lines, m) == FindNextMultiLineCommentStart(lines, m)
CommentEnd(lines, m) == FindNextMultiLineCommentEnd(lines, CommentStart(lines, m))
RemovedAt(f, lines, m) ==
  CASE CommentStart(lines, m) > Last_(lines) -> [gone |-> {}, error |-> -1]
    [] CommentStart(lines, m) <= Last_(lines) /\ CommentEnd(lines, m) > Last_(lines) ->
         [gone |-> {}, error |-> CommentStart(lines, m) + 1]
    [] OTHER -> [gone |-> f[CommentEnd(lines, m) + 1].gone
                            \cup (CommentStart(lines, m) .. CommentEnd(lines, m)),
                 error |-> f[CommentEnd(lines, m) + 1].error]
Removal(f, lines) == f = [m \in Nat |-> RemovedAt(f, lines, m)]

LEMMA RemovalUnfold ==
  ASSUME NEW lines
  PROVE  LET f == CHOOSE f : Removal(f, lines)
         IN RemoveMultiLineComments(lines).lines = RemoveMultiLineCommentsFromRange(lines, f[0].gone)
  BY Zenon DEF RemoveMultiLineComments, Removal, RemovedAt, CommentStart, CommentEnd

\* The first of some lines, from line m on.
FirstFrom(m, I, last) == FirstOf({k \in 0 .. last : k >= m /\ k \in I}, last + 1)
LEMMA FirstFromIs ==
  ASSUME NEW last \in Nat, NEW m \in Nat, NEW I
  PROVE  \E b \in Nat :
           /\ b = FirstFrom(m, I, last) /\ b <= last + 1
           /\ b <= last => b >= m /\ b \in I
           /\ \A k \in 0 .. last : k >= m /\ k < b => k \notin I
<1> DEFINE J == {k \in 0 .. last : k >= m /\ k \in I}
<1>1. FirstFrom(m, I, last) = IF J = {} THEN last + 1 ELSE Min(J)
  BY DEF FirstFrom, FirstOf
<1>2. J \subseteq Nat
  OBVIOUS
<1>3. CASE J = {}
  BY <1>1, <1>3
<1>4. CASE J # {}
  <2> HIDE DEF J
  <2>1. Min(J) \in J /\ \A x \in J : Min(J) <= x
    BY <1>2, <1>4, LeastOf
  <2>2. PICK b \in J : b = Min(J)
    BY <2>1
  <2>3. b \in Nat /\ b <= last + 1 /\ b <= last /\ b >= m /\ b \in I
    BY DEF J
  <2>4. \A k \in 0 .. last : k >= m /\ k < b => k \notin I
    <3> SUFFICES ASSUME NEW k \in 0 .. last, k >= m, k < b, k \in I PROVE FALSE
      OBVIOUS
    <3>1. k \in J
      BY DEF J
    <3>2. QED
      BY <2>1, <2>2, <2>3, <3>1
  <2>5. QED
    BY <1>1, <1>4, <2>2, <2>3, <2>4
<1>5. QED
  BY <1>3, <1>4

Openers(lines) == {k \in DOMAIN lines : OpensComment(lines[k])}
Closers(lines) == {k \in DOMAIN lines : EndsIn(lines[k], {"*/"})}

\* Where the comment starts that is looked for from line m on, and where it ends.
LEMMA CommentBounds ==
  ASSUME NEW lines, NEW last, Document(lines, last), NEW m \in Nat
  PROVE  \E b, e \in Nat :
           /\ b = CommentStart(lines, m) /\ e = CommentEnd(lines, m)
           /\ b <= last + 1 /\ e <= last + 1
           /\ b <= last => b >= m /\ b \in Openers(lines)
           /\ e <= last => e >= b /\ e \in Closers(lines)
           /\ \A k \in 0 .. last : k >= m /\ k < b => k \notin Openers(lines)
           /\ \A k \in 0 .. last : k >= b /\ k < e => k \notin Closers(lines)
<1>1. last \in Nat /\ DOMAIN lines = 0 .. last /\ Last_(lines) = last
  BY DocumentLast DEF Document
<1>2. CommentStart(lines, m) = FirstFrom(m, Openers(lines), last)
  <2>1. {k \in DOMAIN lines : k >= m /\ OpensComment(lines[k])}
          = {k \in 0 .. last : k >= m /\ k \in Openers(lines)}
    BY <1>1 DEF Openers
  <2>2. QED
    BY <1>1, <2>1, Zenon DEF CommentStart, FindNextMultiLineCommentStart, FirstFrom
<1>3. PICK b \in Nat :
        /\ b = CommentStart(lines, m) /\ b <= last + 1
        /\ b <= last => b >= m /\ b \in Openers(lines)
        /\ \A k \in 0 .. last : k >= m /\ k < b => k \notin Openers(lines)
  BY <1>1, <1>2, FirstFromIs
<1>4. CommentEnd(lines, m) = FirstFrom(b, Closers(lines), last)
  <2>1. {k \in DOMAIN lines : k >= b /\ EndsIn(lines[k], {"*/"})}
          = {k \in 0 .. last : k >= b /\ k \in Closers(lines)}
    BY <1>1 DEF Closers
  <2>2. QED
    BY <1>1, <1>3, <2>1, Zenon DEF CommentEnd, FindNextMultiLineCommentEnd, FirstFrom
<1>5. PICK e \in Nat :
        /\ e = CommentEnd(lines, m) /\ e <= last + 1
        /\ e <= last => e >= b /\ e \in Closers(lines)
        /\ \A k \in 0 .. last : k >= b /\ k < e => k \notin Closers(lines)
  BY <1>1, <1>4, FirstFromIs
<1>6. QED
  BY <1>3, <1>5

\* The recursion is well-founded: it goes on behind the end of a comment.
LEMMA RemovalExists ==
  ASSUME NEW lines, NEW last, Document(lines, last)
  PROVE  \E f : Removal(f, lines)
<1>1. last \in Nat /\ Last_(lines) = last
  BY DocumentLast
<1> DEFINE b(m) == CommentStart(lines, m)
           e(m) == CommentEnd(lines, m)
<1>2. \A m \in Nat : /\ b(m) \in Nat /\ e(m) \in Nat
                     /\ b(m) <= last => b(m) >= m
                     /\ b(m) <= last /\ e(m) <= last => e(m) + 1 > m
  <2> SUFFICES ASSUME NEW m \in Nat
               PROVE  /\ b(m) \in Nat /\ e(m) \in Nat
                      /\ b(m) <= last => b(m) >= m
                      /\ b(m) <= last /\ e(m) <= last => e(m) + 1 > m
    OBVIOUS
  <2>1. PICK x, y \in Nat :
           /\ x = CommentStart(lines, m) /\ y = CommentEnd(lines, m)
           /\ x <= last => x >= m
           /\ y <= last => y >= x
    BY CommentBounds
  <2>2. QED
    BY <1>1, <2>1
\* Two functions that agree further on give the same here.
<1>3. ASSUME NEW f, NEW g, NEW m \in Nat, \A i \in Nat : i > m => f[i] = g[i]
      PROVE  RemovedAt(f, lines, m) = RemovedAt(g, lines, m)
  <2>1. CASE b(m) > last
    BY <1>1, <2>1 DEF RemovedAt
  <2>2. CASE ~(b(m) > last) /\ e(m) > last
    <3>1. b(m) <= last
      BY <1>1, <1>2, <2>2
    <3>2. QED
      BY <1>1, <2>2, <3>1 DEF RemovedAt
  <2>3. CASE ~(b(m) > last) /\ ~(e(m) > last)
    <3>1. e(m) + 1 \in Nat /\ e(m) + 1 > m
      BY <1>1, <1>2, <2>3
    <3>2. f[e(m) + 1] = g[e(m) + 1]
      BY <1>3, <3>1
    <3>3. QED
      BY <1>1, <2>3, <3>2 DEF RemovedAt
  <2>4. QED
    BY <2>1, <2>2, <2>3
<1> DEFINE Good(f, m) == \A i \in Nat : i > last - m => f[i] = RemovedAt(f, lines, i)
           N == {m \in Nat : \E f : Good(f, m)}
<1>4. 0 \in N
  <2> DEFINE f == [i \in Nat |-> [gone |-> {}, error |-> -1]]
  <2>1. \A i \in Nat : i > last => b(i) > last
    BY <1>1, <1>2
  <2>2. ASSUME NEW i \in Nat, i > last PROVE RemovedAt(f, lines, i) = [gone |-> {}, error |-> -1]
    <3>1. CommentStart(lines, i) > Last_(lines)
      BY <1>1, <2>1, <2>2
    <3>2. ~(CommentStart(lines, i) <= Last_(lines))
      BY <1>1, <1>2, <2>1, <2>2
    <3>3. QED
      BY <3>1, <3>2 DEF RemovedAt
  <2>3. \A i \in Nat : i > last - 0 => f[i] = RemovedAt(f, lines, i)
    BY <1>1, <2>2
  <2> HIDE DEF f
  <2>4. QED
    BY <2>3
<1>5. ASSUME NEW m \in Nat, m \in N PROVE m + 1 \in N
  <2>1. PICK f : Good(f, m)
    BY <1>5
  <2> DEFINE g == [i \in Nat |-> IF i = last - m THEN RemovedAt(f, lines, i) ELSE f[i]]
  <2>2. \A i \in Nat : i # last - m => g[i] = f[i]
    OBVIOUS
  <2>3. \A i \in Nat : i = last - m => g[i] = RemovedAt(f, lines, i)
    OBVIOUS
  <2> HIDE DEF g
  <2>4. ASSUME NEW i \in Nat, i > last - (m + 1) PROVE g[i] = RemovedAt(g, lines, i)
    <3>1. \A j \in Nat : j > i => g[j] = f[j]
      BY <1>1, <2>2, <2>4
    <3>2. RemovedAt(f, lines, i) = RemovedAt(g, lines, i)
      BY <1>3, <3>1
    <3>3. i = last - m \/ i > last - m
      BY <1>1, <2>4
    <3>4. CASE i = last - m
      BY <2>3, <3>2, <3>4
    <3>5. CASE i > last - m
      BY <1>1, <2>1, <2>2, <3>2, <3>5
    <3>6. QED
      BY <3>3, <3>4, <3>5
  <2>5. Good(g, m + 1)
    BY <2>4
  <2> HIDE DEF Good
  <2>6. QED
    BY <2>5
<1>6. Nat \subseteq N
  <2> HIDE DEF N
  <2>1. QED
    BY <1>4, <1>5, NatSetInduction
<1>7. PICK f : Good(f, last + 1)
  <2> HIDE DEF Good
  <2>1. last + 1 \in Nat
    BY <1>1
  <2>2. last + 1 \in N
    <3> HIDE DEF N
    <3>1. QED
      BY <1>6, <2>1
  <2>3. QED
    BY <2>2
<1>8. \A i \in Nat : f[i] = RemovedAt(f, lines, i)
  BY <1>1, <1>7
<1> DEFINE h == [i \in Nat |-> f[i]]
<1>9. \A i \in Nat : h[i] = f[i]
  OBVIOUS
<1>10. h = [i \in Nat |-> h[i]]
  OBVIOUS
<1> HIDE DEF h
<1>11. \A i \in Nat : RemovedAt(f, lines, i) = RemovedAt(h, lines, i)
  BY <1>3, <1>9
<1>12. \A i \in Nat : h[i] = RemovedAt(h, lines, i)
  BY <1>8, <1>9, <1>11
<1>13. h = [i \in Nat |-> RemovedAt(h, lines, i)]
  BY <1>10, <1>12
<1>14. Removal(h, lines)
  BY <1>13, Zenon DEF Removal
<1>15. QED
  BY <1>14

\* Whether a comment is open above line k, as a run down the lines.
OpenAbove(f, lines) ==
  f = [k \in 0 .. Last_(lines) + 1 |->
         IF k = 0 THEN FALSE
         ELSE (f[k - 1] \/ Contains(lines[k - 1], "/*")) /\ ~Contains(lines[k - 1], "*/")]

LEMMA OpenAboveExists ==
  ASSUME NEW lines, NEW last, Document(lines, last)
  PROVE  \E f : OpenAbove(f, lines)
<1>1. last \in Nat /\ Last_(lines) = last
  BY DocumentLast
<1> DEFINE S(k) == Contains(lines[k], "/*")
           C(k) == Contains(lines[k], "*/")
           f == [k \in 0 .. last + 1 |-> \E j \in 0 .. k - 1 : S(j) /\ \A i \in j .. k - 1 : ~C(i)]
           g == [k \in 0 .. last + 1 |-> IF k = 0 THEN FALSE ELSE (f[k - 1] \/ S(k - 1)) /\ ~C(k - 1)]
<1>2. ASSUME NEW k \in 0 .. last + 1
      PROVE  f[k] = IF k = 0 THEN FALSE ELSE (f[k - 1] \/ S(k - 1)) /\ ~C(k - 1)
  <2> HIDE DEF S, C
  <2>1. CASE k = 0
    BY <2>1
  <2>2. CASE k # 0
    <3>1. k - 1 \in 0 .. last + 1
      BY <1>1, <2>2
    <3>2. ASSUME f[k] PROVE (f[k - 1] \/ S(k - 1)) /\ ~C(k - 1)
      <4>1. PICK j \in 0 .. k - 1 : S(j) /\ \A i \in j .. k - 1 : ~C(i)
        BY <3>2
      <4>2. ~C(k - 1)
        BY <4>1
      <4>3. CASE j = k - 1
        BY <4>1, <4>2, <4>3
      <4>4. CASE j # k - 1
        <5>1. j \in 0 .. (k - 1) - 1 /\ \A i \in j .. (k - 1) - 1 : i \in j .. k - 1
          BY <4>4
        <5>2. f[k - 1]
          BY <3>1, <4>1, <5>1
        <5>3. QED
          BY <4>2, <5>2
      <4>5. QED
        BY <4>3, <4>4
    <3>3. ASSUME f[k - 1] \/ S(k - 1), ~C(k - 1) PROVE f[k]
      <4>1. CASE S(k - 1)
        <5>1. k - 1 \in 0 .. k - 1 /\ \A i \in k - 1 .. k - 1 : i = k - 1
          BY <1>1, <2>2
        <5>2. QED
          BY <3>3, <4>1, <5>1
      <4>2. CASE f[k - 1]
        <5>1. PICK j \in 0 .. (k - 1) - 1 : S(j) /\ \A i \in j .. (k - 1) - 1 : ~C(i)
          BY <3>1, <4>2
        <5>2. j \in 0 .. k - 1 /\ \A i \in j .. k - 1 : i = k - 1 \/ i \in j .. (k - 1) - 1
          BY <1>1
        <5>3. \A i \in j .. k - 1 : ~C(i)
          BY <3>3, <5>1, <5>2
        <5>4. QED
          BY <5>1, <5>2, <5>3
      <4>3. QED
        BY <3>3, <4>1, <4>2
    <3>4. f[k] \in BOOLEAN
      OBVIOUS
    <3> HIDE DEF f
    <3>5. f[k] = ((f[k - 1] \/ S(k - 1)) /\ ~C(k - 1))
      BY <3>2, <3>3, <3>4
    <3>6. QED
      BY <2>2, <3>5
  <2>3. QED
    BY <2>1, <2>2
<1>3. f = [k \in 0 .. last + 1 |-> f[k]]
  OBVIOUS
<1> HIDE DEF f
<1>4. f = g
  BY <1>2, <1>3
<1>5. OpenAbove(f, lines)
  BY <1>1, <1>4, Zenon DEF OpenAbove
<1>6. QED
  BY <1>5

\* In a tidy text the comments that cpplint looks for are those that are open.
LEMMA TidyLines ==
  ASSUME NEW lines, NEW last, Document(lines, last), Tidy(lines), NEW k \in 0 .. last
  PROVE  /\ k \in Openers(lines) <=> Contains(lines[k], "/*") /\ ~Contains(lines[k], "*/")
         /\ k \in Closers(lines) <=> Contains(lines[k], "*/")
<1>1. DOMAIN lines = 0 .. last /\ IsSeq(lines[k])
  BY DEF Document
<1>2. PICK line : line = lines[k]
  OBVIOUS
<1>3. PICK len \in Nat : len = Len(line) /\ DOMAIN line = 1 .. len /\ line \in [1 .. len -> Range(line)]
  BY <1>1, <1>2, LineAny
<1>4. \A i \in 1 .. len : (line[i] = "/*" => i = 1) /\ (line[i] = "*/" => i = len)
  BY <1>1, <1>2, <1>3 DEF Tidy
<1>5. /\ Contains(line, "/*") <=> len >= 1 /\ line[1] = "/*"
      /\ Contains(line, "*/") <=> len >= 1 /\ line[len] = "*/"
  <2>1. \A e : Contains(line, e) <=> \E i \in 1 .. len : line[i] = e
    BY <1>3 DEF Contains
  <2>2. len >= 1 => 1 \in 1 .. len /\ len \in 1 .. len
    OBVIOUS
  <2>3. (\E i \in 1 .. len : TRUE) => len >= 1
    OBVIOUS
  <2>4. QED
    BY <1>4, <2>1, <2>2, <2>3
<1>6. line # <<>> <=> len >= 1
  <2>1. line = <<>> => len = 0
    BY <1>3, EmptyAny
  <2>2. len = 0 => line = <<>>
    BY <1>1, <1>2, <1>3, EmptySeq DEF IsSeq
  <2>3. QED
    BY <2>1, <2>2
<1>7. len >= 1 => Head(line) = line[1] /\ Last(line) = line[len]
  BY <1>3 DEF Last
<1>8. EndsIn(line, {"*/"}) <=> Contains(line, "*/")
  BY <1>5, <1>6, <1>7 DEF EndsIn
<1>9. OpensComment(line) <=> Contains(line, "/*") /\ ~Contains(line, "*/")
  <2>1. CASE ~Indented(line)
    <3>1. Strip(line) = line
      BY <2>1 DEF Strip
    <3>2. Starts(line, {"/*"}) <=> Contains(line, "/*")
      BY <1>5, <1>6, <1>7 DEF Starts
    <3>3. QED
      BY <3>1, <3>2 DEF OpensComment
  <2>2. CASE Indented(line)
    <3>1. len >= 1 /\ line[1] = IND
      BY <1>6, <1>7, <2>2 DEF Indented
    <3>2. ~Contains(line, "/*")
      BY <1>5, <3>1 DEF IND
    <3>3. Strip(line) = Tail(line)
      BY <2>2 DEF Strip
    <3>4. ASSUME Starts(Tail(line), {"/*"}) PROVE FALSE
      <4>1. /\ Len(Tail(line)) = len - 1 /\ IsSeq(Tail(line))
            /\ \A x \in 1 .. len - 1 : Tail(line)[x] = line[x + 1]
        <5>1. line \in Seq(Range(line)) /\ line # <<>>
          BY <1>1, <1>2, <1>6, <3>1 DEF IsSeq
        <5>2. QED
          BY <1>3, <5>1, HeadTailProperties, SeqOfAny
      <4>2. Tail(line) # <<>> /\ Head(Tail(line)) = "/*"
        BY <3>4 DEF Starts
      <4>3. len - 1 >= 1
        <5>1. len - 1 = 0 => Tail(line) = <<>>
          BY <4>1, EmptySeq DEF IsSeq
        <5>2. QED
          BY <1>3, <3>1, <4>2, <5>1
      <4>4. line[2] = "/*" /\ 2 \in 1 .. len
        BY <4>1, <4>2, <4>3
      <4>5. QED
        BY <1>4, <4>4
    <3>5. QED
      BY <3>2, <3>3, <3>4 DEF OpensComment
  <2>3. QED
    BY <2>1, <2>2
<1>10. QED
  BY <1>1, <1>2, <1>8, <1>9 DEF Openers, Closers

\* Down to which line comments are taken out: above one that does not end.
Unended(open, last) ==
  IF ~open[last + 1] THEN last + 1
  ELSE Max({k \in 0 .. last : ~open[k] /\ open[k + 1]})

\* Between two lines of which one alone is in a comment is one where it changes.
LEMMA ChangesBetween ==
  ASSUME NEW open, NEW i \in Nat, NEW j \in Nat, ~(open[i] <=> open[j]), i <= j
  PROVE  \E k \in i .. j - 1 : (open[k] <=> open[i]) /\ ~(open[k + 1] <=> open[i])
<1> DEFINE T == {k \in Nat : k >= i /\ k <= j /\ ~(open[k] <=> open[i])}
<1>1. j \in T /\ T \subseteq Nat
  OBVIOUS
<1>2. PICK m \in T : \A k \in T : m <= k
  BY <1>1, LeastNatural
<1>3. m > i /\ m <= j /\ m \in Nat /\ ~(open[m] <=> open[i])
  <2>1. m \in Nat /\ m >= i /\ m <= j /\ ~(open[m] <=> open[i])
    OBVIOUS
  <2>2. m # i
    BY <2>1
  <2>3. QED
    BY <2>1, <2>2
<1>4. m - 1 \notin T
  BY <1>2, <1>3
<1>5. (open[m - 1] <=> open[i]) /\ m - 1 \in i .. j - 1 /\ (m - 1) + 1 = m
  BY <1>3, <1>4
<1>6. QED
  BY <1>3, <1>5

LEMMA OpensBetween ==
  ASSUME NEW open, NEW i \in Nat, NEW j \in Nat, ~open[i], open[j], i <= j
  PROVE  \E k \in i .. j - 1 : ~open[k] /\ open[k + 1]
<1>1. ~(open[i] <=> open[j])
  OBVIOUS
<1>2. PICK k \in i .. j - 1 : (open[k] <=> open[i]) /\ ~(open[k + 1] <=> open[i])
  BY <1>1, ChangesBetween
<1>3. QED
  BY <1>2

LEMMA ClosesBetween ==
  ASSUME NEW open, NEW i \in Nat, NEW j \in Nat, open[i], ~open[j], i <= j
  PROVE  \E k \in i .. j - 1 : open[k] /\ ~open[k + 1]
<1>1. ~(open[i] <=> open[j])
  OBVIOUS
<1>2. PICK k \in i .. j - 1 : (open[k] <=> open[i]) /\ ~(open[k + 1] <=> open[i])
  BY <1>1, ChangesBetween
<1>3. QED
  BY <1>2

LEMMA GreatestLine ==
  ASSUME NEW last \in Nat, NEW U, U \subseteq 0 .. last, NEW x \in U
  PROVE  Max(U) \in U /\ \A y \in U : y <= Max(U)
<1> DEFINE V == {last - y : y \in U}
<1>1. V \subseteq Nat /\ V # {}
  OBVIOUS
<1>2. PICK m \in V : \A k \in V : m <= k
  BY <1>1, LeastNatural
<1>3. PICK z \in U : m = last - z
  OBVIOUS
<1>4. \A y \in U : z >= y
  <2> SUFFICES ASSUME NEW y \in U PROVE z >= y
    OBVIOUS
  <2>1. last - y \in V
    OBVIOUS
  <2>2. last - z <= last - y
    BY <1>2, <1>3, <2>1
  <2>3. y \in Int /\ z \in Int
    OBVIOUS
  <2> HIDE DEF V
  <2>4. QED
    BY <2>2, <2>3
<1>5. \E a \in U : \A y \in U : a >= y
  BY <1>4
<1>6. Max(U) \in U /\ \A y \in U : Max(U) >= y
  BY <1>5, Zenon DEF Max
<1>7. PICK a \in U : a = Max(U)
  BY <1>6
<1>8. \A y \in U : y <= a
  <2> SUFFICES ASSUME NEW y \in U PROVE y <= a
    OBVIOUS
  <2>1. a >= y /\ a \in Int /\ y \in Int
    BY <1>6, <1>7
  <2>2. QED
    BY <2>1
<1>9. QED
  BY <1>7, <1>8

\* What is taken out from line i on, if no comment is open there: what is in
\* comments, down to one that does not end.
TakesOut(gone, open, last, i) ==
  \A k \in 0 .. last : k \in gone <=> k >= i /\ k < Unended(open, last) /\ (open[k] \/ open[k + 1])

LEMMA CommentsTakenOut ==
  ASSUME NEW lines, NEW last, Document(lines, last), Tidy(lines),
         NEW open, OpenAbove(open, lines), NEW f, Removal(f, lines)
  PROVE  TakesOut(f[0].gone, open, last, 0)
<1>1. last \in Nat /\ Last_(lines) = last
  BY DocumentLast
<1>2. \A k \in 0 .. last :
        open[k + 1] <=> (open[k] \/ Contains(lines[k], "/*")) /\ ~Contains(lines[k], "*/")
  <2> DEFINE w == [k \in 0 .. last + 1 |->
         IF k = 0 THEN FALSE
         ELSE (open[k - 1] \/ Contains(lines[k - 1], "/*")) /\ ~Contains(lines[k - 1], "*/")]
  <2>1. open = w
    BY <1>1, Zenon DEF OpenAbove
  <2>2. \A k \in 0 .. last : k + 1 \in 0 .. last + 1 /\ k + 1 # 0 /\ (k + 1) - 1 = k
    BY <1>1
  <2>3. \A k \in 0 .. last + 1 : open[k] = IF k = 0 THEN FALSE
         ELSE (open[k - 1] \/ Contains(lines[k - 1], "/*")) /\ ~Contains(lines[k - 1], "*/")
    BY <2>1
  <2> HIDE DEF w
  <2>4. QED
    BY <2>2, <2>3
<1>3. ~open[0]
  <2> DEFINE w == [k \in 0 .. last + 1 |->
         IF k = 0 THEN FALSE
         ELSE (open[k - 1] \/ Contains(lines[k - 1], "/*")) /\ ~Contains(lines[k - 1], "*/")]
  <2>1. open = w
    BY <1>1, Zenon DEF OpenAbove
  <2>2. 0 \in 0 .. last + 1
    BY <1>1
  <2>3. w[0] = FALSE
    BY <2>2
  <2> HIDE DEF w
  <2>4. QED
    BY <2>1, <2>3
<1>4. \A k \in 0 .. last : /\ k \in Openers(lines) /\ ~open[k] => open[k + 1]
                           /\ k \notin Openers(lines) /\ ~open[k] => ~open[k + 1]
                           /\ k \in Closers(lines) => ~open[k + 1]
                           /\ k \notin Closers(lines) /\ open[k] => open[k + 1]
                           /\ k \in Openers(lines) => k \notin Closers(lines)
  BY <1>2, TidyLines
<1> DEFINE P == {m \in Nat : \A i \in 0 .. last + 1 :
                    i >= last + 1 - m /\ ~open[i] => TakesOut(f[i].gone, open, last, i)}
           u == Unended(open, last)
<1>5. ASSUME NEW i \in 0 .. last + 1, ~open[i],
             \A j \in 0 .. last + 1 : j > i /\ ~open[j] => TakesOut(f[j].gone, open, last, j)
      PROVE  TakesOut(f[i].gone, open, last, i)
  <2>1. PICK b, e \in Nat :
           /\ b = CommentStart(lines, i) /\ e = CommentEnd(lines, i)
           /\ b <= last + 1 /\ e <= last + 1
           /\ b <= last => b >= i /\ b \in Openers(lines)
           /\ e <= last => e >= b /\ e \in Closers(lines)
           /\ \A k \in 0 .. last : k >= i /\ k < b => k \notin Openers(lines)
           /\ \A k \in 0 .. last : k >= b /\ k < e => k \notin Closers(lines)
    <3>1. i \in Nat
      BY <1>1
    <3>2. QED
      BY <3>1, CommentBounds
  <2>2. f[i] = RemovedAt(f, lines, i)
    <3> DEFINE w == [m \in Nat |-> RemovedAt(f, lines, m)]
    <3>1. f = w
      BY Zenon DEF Removal
    <3>2. i \in Nat
      BY <1>1
    <3>3. w[i] = RemovedAt(f, lines, i)
      BY <3>2
    <3> HIDE DEF w
    <3>4. QED
      BY <3>1, <3>3
  <2>3. \A k \in i .. b : ~open[k]
    <3> SUFFICES ASSUME NEW k \in i .. b, open[k] PROVE FALSE
      OBVIOUS
    <3>1. i \in Nat /\ k \in Nat /\ i <= k
      BY <1>1, <2>1
    <3>2. PICK x \in i .. k - 1 : ~open[x] /\ open[x + 1]
      BY <1>5, <3>1, OpensBetween
    <3>3. x \in 0 .. last /\ x >= i /\ x < b
      BY <1>1, <2>1, <3>1
    <3>4. x \notin Openers(lines)
      BY <2>1, <3>3
    <3>5. QED
      BY <1>4, <3>2, <3>3, <3>4
  <2>4. CASE b > last
    <3>1. b = last + 1 /\ f[i].gone = {}
      <4>1. b = last + 1
        BY <1>1, <2>1, <2>4
      <4>2. f[i] = [gone |-> {}, error |-> -1]
        BY <1>1, <2>1, <2>2, <2>4 DEF RemovedAt
      <4>3. QED
        BY <4>1, <4>2
    <3>2. \A k \in 0 .. last : k >= i => ~open[k] /\ ~open[k + 1]
      BY <1>1, <2>3, <3>1
    <3>3. QED
      BY <3>1, <3>2 DEF TakesOut
  <2>5. CASE ~(b > last)
    <3>1. b \in i .. last /\ b \in Openers(lines) /\ open[b + 1] /\ ~open[b] /\ b \in 0 .. last
      <4>1. b \in i .. last /\ b \in Openers(lines) /\ b \in 0 .. last /\ b \in i .. b
        BY <1>1, <2>1, <2>5
      <4>2. QED
        BY <1>4, <2>3, <4>1
    <3>2. e > b
      <4>1. CASE e > last
        BY <1>1, <3>1, <4>1, <2>1
      <4>2. CASE ~(e > last)
        <5>1. e >= b /\ e \in Closers(lines) /\ e # b
          BY <1>1, <1>4, <2>1, <3>1, <4>2
        <5>2. QED
          BY <2>1, <5>1
      <4>3. QED
        BY <4>1, <4>2
    <3>3. \A k \in b + 1 .. e : open[k]
      <4> SUFFICES ASSUME NEW k \in b + 1 .. e, ~open[k] PROVE FALSE
        OBVIOUS
      <4>1. k \in Nat /\ b + 1 \in Nat /\ b + 1 <= k /\ k <= e
        BY <2>1
      <4>2. PICK x \in b + 1 .. k - 1 : open[x] /\ ~open[x + 1]
        BY <3>1, <4>1, ClosesBetween
      <4>6. x \in 0 .. last /\ x >= b /\ x < e
        BY <1>1, <2>1, <4>1
      <4>7. x \notin Closers(lines)
        BY <2>1, <4>6
      <4>8. QED
        BY <1>4, <4>2, <4>6, <4>7
    <3>4. CASE e > last
      <4>1. e = last + 1 /\ f[i].gone = {}
        <5>1. e = last + 1
          BY <1>1, <2>1, <3>4
        <5>2. f[i] = [gone |-> {}, error |-> b + 1]
          BY <1>1, <2>1, <2>2, <2>5, <3>4 DEF RemovedAt
        <5>3. QED
          BY <5>1, <5>2
      <4>2. u = b
        <5> DEFINE U == {k \in 0 .. last : ~open[k] /\ open[k + 1]}
        <5>1. b \in U /\ U \subseteq 0 .. last
          BY <3>1
        <5>2. \A k \in U : k <= b
          <6> SUFFICES ASSUME NEW k \in 0 .. last, ~open[k], k > b PROVE FALSE
            BY <2>1
          <6>1. k \in b + 1 .. e
            BY <1>1, <2>1, <4>1
          <6>2. QED
            BY <3>3, <6>1
        <5> HIDE DEF U
        <5>3. Max(U) \in U /\ b <= Max(U)
          BY <1>1, <5>1, GreatestLine
        <5>4. PICK a \in U : a = Max(U)
          BY <5>3
        <5>5. a <= b /\ b <= a /\ a \in Int /\ b \in Int
          BY <2>1, <5>1, <5>2, <5>3, <5>4
        <5>6. Max(U) = b
          BY <5>4, <5>5
        <5>7. open[last + 1]
          <6>1. last + 1 \in b + 1 .. e
            BY <1>1, <3>1, <4>1
          <6>2. QED
            BY <3>3, <6>1
        <5>8. QED
          BY <5>6, <5>7 DEF Unended, U
      <4>3. \A k \in 0 .. last : k >= i /\ k < b => ~open[k] /\ ~open[k + 1]
        BY <1>1, <2>1, <2>3
      <4> HIDE DEF u
      <4>4. QED
        BY <4>1, <4>2, <4>3 DEF TakesOut, u
    <3>5. CASE ~(e > last)
      <4>1. e \in 0 .. last /\ e + 1 \in 0 .. last + 1 /\ e + 1 > i /\ ~open[e + 1]
        <5>1. e \in 0 .. last /\ e + 1 \in 0 .. last + 1 /\ e + 1 > i /\ e \in Closers(lines)
          BY <1>1, <2>1, <3>1, <3>2, <3>5
        <5>2. QED
          BY <1>4, <5>1
      <4>2. f[i].gone = f[e + 1].gone \cup (b .. e)
        <5>1. f[i] = [gone |-> f[e + 1].gone \cup (b .. e), error |-> f[e + 1].error]
          BY <1>1, <2>1, <2>2, <2>5, <3>5 DEF RemovedAt
        <5>2. QED
          BY <5>1
      <4>3. TakesOut(f[e + 1].gone, open, last, e + 1)
        BY <1>5, <4>1
      <4>4. u \in Int /\ u > e
        <5>1. CASE ~open[last + 1]
          <6>1. u = last + 1
            BY <5>1 DEF Unended
          <6>2. QED
            BY <1>1, <4>1, <6>1
        <5>2. CASE open[last + 1]
          <6> DEFINE U == {k \in 0 .. last : ~open[k] /\ open[k + 1]}
          <6>1. e + 1 \in Nat /\ last + 1 \in Nat /\ e + 1 <= last + 1
            BY <1>1, <4>1
          <6>2. PICK x \in e + 1 .. (last + 1) - 1 : ~open[x] /\ open[x + 1]
            BY <4>1, <5>2, <6>1, OpensBetween
          <6>3. x \in U /\ U \subseteq 0 .. last /\ x > e /\ x \in Int
            BY <1>1, <4>1, <6>2
          <6>4. u = Max(U)
            BY <5>2 DEF Unended
          <6> HIDE DEF U, u
          <6>5. Max(U) \in U /\ x <= Max(U)
            BY <1>1, <6>3, GreatestLine
          <6>6. PICK a \in 0 .. last : a = Max(U)
            BY <6>3, <6>5
          <6>7. QED
            BY <4>1, <6>3, <6>4, <6>5, <6>6
        <5>3. QED
          BY <5>1, <5>2
      <4> HIDE DEF u
      <4>5. ASSUME NEW k \in 0 .. last
            PROVE  k \in f[i].gone <=> k >= i /\ k < u /\ (open[k] \/ open[k + 1])
        <5>1. k \in f[e + 1].gone <=> k >= e + 1 /\ k < u /\ (open[k] \/ open[k + 1])
          BY <4>3 DEF TakesOut, u
        <5>2. CASE k < b
          <6>1. k \notin f[i].gone
            BY <1>1, <2>1, <3>2, <4>2, <5>1, <5>2
          <6>2. k >= i => ~open[k] /\ ~open[k + 1]
            <7>1. k >= i => k \in i .. b /\ k + 1 \in i .. b
              BY <1>1, <2>1, <5>2
            <7>2. QED
              BY <2>3, <7>1
          <6>3. QED
            BY <6>1, <6>2
        <5>3. CASE k >= b /\ k <= e
          <6>1. k \in f[i].gone /\ k >= i /\ k < u
            BY <1>1, <2>1, <3>1, <4>1, <4>2, <4>4, <5>3
          <6>2. open[k] \/ open[k + 1]
            <7>1. k = b \/ k \in b + 1 .. e
              BY <2>1, <5>3
            <7>2. QED
              BY <3>1, <3>3, <7>1
          <6>3. QED
            BY <6>1, <6>2
        <5>4. CASE k > e
          <6>1. k \notin b .. e /\ k >= e + 1 /\ k >= i
            BY <1>1, <2>1, <4>1, <5>4
          <6>2. QED
            BY <4>2, <5>1, <6>1
        <5>5. QED
          BY <2>1, <5>2, <5>3, <5>4
      <4>6. QED
        BY <4>5 DEF TakesOut, u
    <3>6. QED
      BY <2>1, <1>1, <3>4, <3>5
  <2>6. QED
    BY <2>4, <2>5
<1> HIDE DEF u
<1>6. 0 \in P
  <2> SUFFICES ASSUME NEW i \in 0 .. last + 1, i >= last + 1 - 0, ~open[i]
               PROVE  TakesOut(f[i].gone, open, last, i)
    OBVIOUS
  <2>1. \A j \in 0 .. last + 1 : ~(j > i)
    BY <1>1
  <2>2. QED
    BY <1>5, <2>1
<1>7. ASSUME NEW m \in Nat, m \in P PROVE m + 1 \in P
  <2> SUFFICES ASSUME NEW i \in 0 .. last + 1, i >= last + 1 - (m + 1), ~open[i]
               PROVE  TakesOut(f[i].gone, open, last, i)
    OBVIOUS
  <2>1. \A j \in 0 .. last + 1 : j > i => j >= last + 1 - m
    BY <1>1
  <2>2. \A j \in 0 .. last + 1 : j > i /\ ~open[j] => TakesOut(f[j].gone, open, last, j)
    BY <1>7, <2>1
  <2>3. QED
    BY <1>5, <2>2
<1>8. Nat \subseteq P
  <2> HIDE DEF P
  <2>1. QED
    BY <1>6, <1>7, NatSetInduction
<1>9. last + 1 \in Nat /\ 0 \in 0 .. last + 1 /\ 0 >= last + 1 - (last + 1)
  BY <1>1
<1>10. last + 1 \in P
  <2> HIDE DEF P
  <2>1. QED
    BY <1>8, <1>9
<1>11. QED
  BY <1>3, <1>9, <1>10

-----------------------------------------------------------------------------
(* The order of includes: on which lines something is said of it.          *)

\* Whether the order of includes is complained of at line l.
Said(errors, l) ==
  \E i \in DOMAIN errors : errors[i].line = l /\ errors[i].cat = "build/include_order"

LEMMA SaidAppend ==
  ASSUME NEW s, IsSeq(s), NEW e, NEW l
  PROVE  Said(Append(s, e), l) <=> Said(s, l) \/ (e.line = l /\ e.cat = "build/include_order")
<1> DEFINE a == Append(s, e)
<1>1. /\ Len(s) \in Nat /\ DOMAIN s = 1 .. Len(s) /\ DOMAIN a = 1 .. Len(s) + 1
      /\ a[Len(s) + 1] = e /\ \A i \in 1 .. Len(s) : a[i] = s[i]
  BY AppendAny
<1> HIDE DEF a
<1>2. PICK len \in Nat : len = Len(s)
  BY <1>1
<1>3. \A i \in DOMAIN a : i \in 1 .. len \/ i = len + 1
  BY <1>1, <1>2
<1>4. \A i \in 1 .. len : i \in DOMAIN a /\ a[i] = s[i]
  BY <1>1, <1>2
<1>5. len + 1 \in DOMAIN a /\ a[len + 1] = e /\ DOMAIN s = 1 .. len
  BY <1>1, <1>2
<1>6. Said(a, l) <=> Said(s, l) \/ (e.line = l /\ e.cat = "build/include_order")
  BY <1>3, <1>4, <1>5 DEF Said
<1>7. QED
  BY <1>6 DEF a

LEMMA SaidConcat ==
  ASSUME NEW s, IsSeq(s), NEW t, IsSeq(t), NEW l
  PROVE  Said(s \o t, l) <=> Said(s, l) \/ Said(t, l)
<1> DEFINE a == s \o t
<1>1. /\ Len(s) \in Nat /\ DOMAIN s = 1 .. Len(s) /\ Len(t) \in Nat /\ DOMAIN t = 1 .. Len(t)
      /\ DOMAIN a = 1 .. Len(s) + Len(t)
      /\ \A i \in 1 .. Len(s) : a[i] = s[i]
      /\ \A i \in 1 .. Len(t) : a[Len(s) + i] = t[i]
  <2> DEFINE S == Range(s) \cup Range(t)
  <2>1. s \in Seq(Range(s)) /\ t \in Seq(Range(t))
    BY DEF IsSeq
  <2>2. s \in Seq(S) /\ t \in Seq(S)
    BY <2>1, SeqMonotonic
  <2> HIDE DEF S
  <2>3. /\ Len(s) \in Nat /\ Len(t) \in Nat /\ DOMAIN s = 1 .. Len(s) /\ DOMAIN t = 1 .. Len(t)
        /\ a \in Seq(S) /\ Len(a) = Len(s) + Len(t) /\ DOMAIN a = 1 .. Len(a)
    BY <2>2, ConcatProperties, LenProperties
  <2>4. \A i \in 1 .. Len(s) + Len(t) : a[i] = IF i <= Len(s) THEN s[i] ELSE t[i - Len(s)]
    BY <2>2, ConcatProperties
  <2> HIDE DEF a
  <2>5. QED
    BY <2>3, <2>4
<1> HIDE DEF a
<1>2. PICK m \in Nat, k \in Nat : m = Len(s) /\ k = Len(t)
  BY <1>1
<1>3. ASSUME Said(a, l) PROVE Said(s, l) \/ Said(t, l)
  <2>1. PICK i \in 1 .. m + k : a[i].line = l /\ a[i].cat = "build/include_order"
    BY <1>1, <1>2, <1>3 DEF Said
  <2>2. CASE i \in 1 .. m
    BY <1>1, <1>2, <2>1, <2>2 DEF Said
  <2>3. CASE i \notin 1 .. m
    <3>1. i - m \in 1 .. k /\ m + (i - m) = i
      BY <2>3
    <3>2. a[i] = t[i - m]
      BY <1>1, <1>2, <3>1
    <3>3. QED
      BY <1>1, <1>2, <2>1, <3>1, <3>2 DEF Said
  <2>4. QED
    BY <2>2, <2>3
<1>4. Said(s, l) => Said(a, l)
  BY <1>1, <1>2 DEF Said
<1>5. Said(t, l) => Said(a, l)
  <2>1. \A i \in 1 .. k : m + i \in 1 .. m + k
    OBVIOUS
  <2>2. QED
    BY <1>1, <1>2, <2>1 DEF Said
<1>6. QED
  BY <1>3, <1>4, <1>5 DEF a

LEMMA SaidErrors ==
  ASSUME NEW log, LogShape(log), NEW errors, IsSeq(errors)
  PROVE  /\ LogShape(Errors(log, errors))
         /\ \A l : Said(Errors(log, errors).reported, l) <=> Said(log.reported, l) \/ Said(errors, l)
<1>1. PICK len \in Nat : len = Len(errors) /\ DOMAIN errors = 1 .. len
  BY IsSeqDomain
<1>0. ErrorsReach(log, errors, len)
  BY <1>1, ErrorsSteps
<1>2. PICK r : /\ r[0] = log
               /\ \A i \in 1 .. len : r[i] = Error(r[i - 1], errors[i])
               /\ Errors(log, errors) = r[len]
  BY <1>0 DEF ErrorsReach
<1> DEFINE To(i, l) == \E j \in 1 .. i : errors[j].line = l /\ errors[j].cat = "build/include_order"
           N == {i \in Nat : i \in 0 .. len =>
                   /\ LogShape(r[i])
                   /\ \A l : Said(r[i].reported, l) <=> Said(log.reported, l) \/ To(i, l)}
<1>3. 0 \in N
  BY <1>2
<1>4. ASSUME NEW i \in Nat, i \in N PROVE i + 1 \in N
  <2>1. CASE i + 1 \in 0 .. len
    <3> DEFINE a == r[i]
               e == errors[i + 1]
               b == Error(a, e)
    <3>1. /\ LogShape(a)
          /\ \A l : Said(a.reported, l) <=> Said(log.reported, l) \/ To(i, l)
      BY <1>4, <2>1
    <3>2. r[i + 1] = b
      BY <1>2, <2>1
    <3> HIDE DEF a, b, e
    <3>3. Reports(a, e, b)
      BY <3>1, ErrorReports DEF b
    <3>4. LogShape(b) /\ b.reported = Append(a.reported, e) /\ IsSeq(a.reported)
      BY <3>1, <3>3 DEF Reports, LogShape
    <3>5. ASSUME NEW l PROVE Said(b.reported, l) <=> Said(log.reported, l) \/ To(i + 1, l)
      <4>1. Said(b.reported, l) <=> Said(a.reported, l) \/ (e.line = l /\ e.cat = "build/include_order")
        BY <3>4, SaidAppend
      <4>2. To(i + 1, l) <=> To(i, l) \/ (e.line = l /\ e.cat = "build/include_order")
        <5>1. \A j \in 1 .. i + 1 : j \in 1 .. i \/ j = i + 1
          OBVIOUS
        <5>2. i + 1 \in 1 .. i + 1 /\ \A j \in 1 .. i : j \in 1 .. i + 1
          OBVIOUS
        <5>3. QED
          BY <5>1, <5>2 DEF e
      <4> HIDE DEF To
      <4>3. QED
        BY <3>1, <4>1, <4>2
    <3> HIDE DEF To
    <3>6. /\ LogShape(r[i + 1])
          /\ \A l : Said(r[i + 1].reported, l) <=> Said(log.reported, l) \/ To(i + 1, l)
      BY <3>2, <3>4, <3>5
    <3>7. QED
      BY <3>6
  <2>2. QED
    BY <2>1
<1>5. Nat \subseteq N
  <2> HIDE DEF N
  <2>1. QED
    BY <1>3, <1>4, NatSetInduction
<1>6. len \in N
  <2> HIDE DEF N
  <2>1. QED
    BY <1>5
<1>7. \A l : To(len, l) <=> Said(errors, l)
  BY <1>1 DEF Said
<1> HIDE DEF To
<1>8. QED
  BY <1>1, <1>2, <1>6, <1>7

LEMMA FoundSays ==
  ASSUME NEW k, NEW l, NEW v, NEW s \in FoundOn(k, l, v), NEW m
  PROVE  ~Said(s, m) /\ IsSeq(s)
<1> DEFINE E == LineErrors(k, l, v)
<1>1. s \in Seq(E)
  BY DEF FoundOn
<1>2. \A e \in E : e.cat # "build/include_order"
  BY DEF LineErrors, ErrorsAt, FoundCategories, LoopError, Error_, SizeErrors
<1> HIDE DEF E
<1>3. IsSeq(s) /\ DOMAIN s = 1 .. Len(s) /\ \A i \in 1 .. Len(s) : s[i] \in E
  BY <1>1, SeqOfAny
<1>4. QED
  BY <1>2, <1>3 DEF Said

LEMMA ParseSays ==
  ASSUME NEW log, LogShape(log), NEW line, NEW k
  PROVE  LET next == ParseNolintSuppressions(log, line, k)
         IN LogShape(next) /\ \A l : Said(next.reported, l) <=> Said(log.reported, l)
<1> DEFINE at == MeantFor(line, k)
           category == NolintOf(line)
           has == Contains(line, "NOLINT")
           known == category \in ERROR_CATEGORIES \cup {ANY}
           x == ParseNolintSuppressions(log, line, k)
           s == Suppress(log.nolint, category, at)
           a == [log EXCEPT !.nolint = s]
           e == Error_(at, "readability/nolint", 5)
           b == Error(log, e)
           Good(next) == LogShape(next) /\ \A l : Said(next.reported, l) <=> Said(log.reported, l)
<1>1. x = CASE ~has -> log [] has /\ known -> a [] OTHER -> b
  BY Zenon DEF ParseNolintSuppressions, MeantFor, NolintOf
<1>2. Good(a)
  <2> HIDE DEF s
  <2>1. DOMAIN a = DOMAIN log /\ a.cpplint = log.cpplint /\ a.stderr = log.stderr /\ a.reported = log.reported
    BY DEF LogShape
  <2> HIDE DEF a
  <2>2. QED
    BY <2>1 DEF LogShape
<1>3. Good(b)
  <2>1. e.cat # "build/include_order"
    BY DEF Error_
  <2> HIDE DEF e, b
  <2>2. Reports(log, e, b)
    BY ErrorReports DEF b
  <2>3. LogShape(b) /\ b.reported = Append(log.reported, e) /\ IsSeq(log.reported)
    BY <2>2 DEF Reports, LogShape
  <2>4. QED
    BY <2>1, <2>3, SaidAppend
<1>4. Good(log)
  OBVIOUS
<1> HIDE DEF Good, a, b, x, has, known
<1>5. Good(x)
  BY <1>1, <1>2, <1>3, <1>4
<1>6. QED
  BY <1>5 DEF Good, x

LEMMA GuardSays ==
  ASSUME NEW log, LogShape(log), NEW raw, NEW last, NEW errors \in Seq(Guards(last)),
         \A l : ~Said(log.reported, l)
  PROVE  LET next == GuardErrors(log, raw, errors)
         IN LogShape(next) /\ \A l : ~Said(next.reported, l)
<1> DEFINE Good(next) == LogShape(next) /\ \A l : ~Said(next.reported, l)
<1>1. PICK len \in Nat : len = Len(errors) /\ DOMAIN errors = 1 .. len /\ \A i \in 1 .. len : errors[i] \in Guards(last)
  BY SeqOfAny
<1>0. GuardReach(log, raw, errors, len)
  BY <1>1, GuardSteps
<1>2. PICK r : /\ r[0] = log
               /\ \A i \in 1 .. len : r[i] = GuardError(r[i - 1], raw, errors[i])
               /\ GuardErrors(log, raw, errors) = r[len]
  BY <1>0 DEF GuardReach
<1>3. ASSUME NEW a, Good(a), NEW e \in Guards(last) PROVE Good(GuardError(a, raw, e))
  <2> DEFINE read == ParseNolintSuppressions(a, raw[e.line], e.line)
             x == IF e.reads THEN read ELSE a
             d == Error_(e.line, e.cat, e.conf)
             b == Error(x, d)
  <2>1. d.cat # "build/include_order"
    BY DEF Guards, Guard, Error_
  <2>2. Good(read)
    BY <1>3, ParseSays
  <2>3. GuardError(a, raw, e) = b
    BY DEF GuardError
  <2> HIDE DEF read
  <2>4. Good(x)
    BY <1>3, <2>2
  <2> HIDE DEF x, d
  <2>5. Reports(x, d, b)
    BY <2>4, ErrorReports
  <2> HIDE DEF b
  <2>6. LogShape(b) /\ b.reported = Append(x.reported, d) /\ IsSeq(x.reported)
    BY <2>4, <2>5 DEF Reports, LogShape
  <2>7. QED
    BY <2>1, <2>3, <2>4, <2>6, SaidAppend
<1> DEFINE N == {i \in Nat : i \in 0 .. len => Good(r[i])}
<1> HIDE DEF Good
<1>4. 0 \in N
  BY <1>2 DEF Good
<1>5. ASSUME NEW i \in Nat, i \in N PROVE i + 1 \in N
  <2>1. CASE i + 1 \in 0 .. len
    <3>1. Good(r[i])
      BY <1>5, <2>1
    <3>2. r[i + 1] = GuardError(r[i], raw, errors[i + 1])
      BY <1>2, <2>1
    <3>3. errors[i + 1] \in Guards(last)
      BY <1>1, <2>1
    <3>4. QED
      BY <1>3, <3>1, <3>2, <3>3
  <2>2. QED
    BY <2>1
<1>6. Nat \subseteq N
  <2> HIDE DEF N
  <2>1. QED
    BY <1>4, <1>5, NatSetInduction
<1>7. len \in N
  <2> HIDE DEF N
  <2>1. QED
    BY <1>6
<1>8. QED
  BY <1>2, <1>7 DEF Good

LEMMA WhenSays ==
  ASSUME NEW log, LogShape(log), \A l : ~Said(log.reported, l),
         NEW c, NEW k, NEW cat, cat # "build/include_order"
  PROVE  LET next == Errors(log, When(c, k, cat, 5))
         IN LogShape(next) /\ \A l : ~Said(next.reported, l)
<1> DEFINE e == Error_(k, cat, 5)
           s == When(c, k, cat, 5)
<1>1. e.cat # "build/include_order"
  BY DEF Error_
<1>2. s = <<e>> \/ s = <<>>
  BY DEF When
<1> HIDE DEF e, s
<1>3. IsSeq(s) /\ \A l : ~Said(s, l)
  <2>1. DOMAIN <<e>> = 1 .. 1 /\ <<e>>[1] = e /\ IsSeq(<<e>>)
    BY SingleAny
  <2>2. CASE s = <<e>>
    BY <1>1, <2>1, <2>2 DEF Said
  <2>3. CASE s = <<>>
    BY <2>3, EmptyAny DEF Said
  <2>4. QED
    BY <1>2, <2>2, <2>3
<1>4. QED
  BY <1>3, SaidErrors DEF s

LEMMA StartSays ==
  ASSUME NEW fresh, NEW raw, LogOK(fresh, raw), Silent(fresh), fresh.file > 1 \/ DOMAIN fresh.nolint = {},
         NEW lines, NEW last, Document(lines, last), NEW path, NEW header, NEW c, NEW k
  PROVE  \A l : ~Said(StartLog(fresh, path, lines, header, c, k).reported, l)
<1> DEFINE global1 == ParseGlobalNolintSuppressions(fresh, lines)
           reset == [global1 EXCEPT !.nolint = ResetNolintSuppressions(@)]
           copyright == Errors(reset, CheckForCopyright(lines))
           guards == GuardErrors(copyright, lines, CheckForHeaderGuard(path, lines))
           guard == IF ~header THEN copyright ELSE guards
           log == Errors(guard, When(c, k, "readability/multiline_comment", 5))
           Good(next) == LogShape(next) /\ \A l : ~Said(next.reported, l)
<1>1. StartLog(fresh, path, lines, header, c, k) = log
  BY Zenon DEF StartLog
<1>2. Good(reset)
  <2>1. GlobalOK(fresh, raw, GlobalEnd(fresh, lines))
    BY GlobalEnds
  <2> DEFINE acc == GlobalEnd(fresh, lines)
  <2>2. global1 = acc.log
    BY GlobalLog, Zenon
  <2> HIDE DEF acc, global1
  <2>3. LogShape(acc.log) /\ \A i \in DOMAIN acc.log.reported : acc.log.reported[i].cat = "readability/nolint"
    BY <2>1 DEF acc, GlobalOK, LogOK
  <2>4. \A l : ~Said(acc.log.reported, l)
    BY <2>3 DEF Said
  <2> DEFINE a == acc.log
             b == ResetNolintSuppressions(a.nolint)
  <2>5. reset = [a EXCEPT !.nolint = b]
    BY <2>2
  <2> HIDE DEF a, b, reset
  <2>6. DOMAIN reset = DOMAIN a /\ reset.cpplint = a.cpplint /\ reset.stderr = a.stderr /\ reset.reported = a.reported
    BY <2>3, <2>5 DEF LogShape, a
  <2>7. LogShape(reset)
    BY <2>3, <2>6 DEF LogShape, a
  <2>8. QED
    BY <2>4, <2>6, <2>7 DEF a
<1> HIDE DEF reset
<1>3. Good(copyright)
  <2> DEFINE w == \A j \in 1 .. Min({Last_(lines), 10}) : ~Contains(lines[j], "Copyright")
  <2>1. CheckForCopyright(lines) = When(w, 1, "legal/copyright", 5)
    BY Zenon DEF CheckForCopyright
  <2> HIDE DEF w
  <2>2. QED
    BY <1>2, <2>1, WhenSays
<1> HIDE DEF copyright
<1>4. Good(guards)
  BY <1>3, CheckForHeaderGuardFound, GuardSays
<1> HIDE DEF guards
<1>5. Good(guard)
  BY <1>3, <1>4
<1> HIDE DEF guard
<1>6. Good(log)
  BY <1>5, WhenSays
<1>7. QED
  BY <1>1, <1>6

-----------------------------------------------------------------------------
(* The order of includes in one scope: F are the lines of its headers.     *)

KindAt(path, lines, k) == _ClassifyInclude(path, Included(lines[k]), IsSystem(lines[k]))
MyAt(path, lines, k) == KindAt(path, lines, k) \in {"likely my", "possible my"}
OthersIn(path, lines, F) ==
  {j \in F : \/ KindAt(path, lines, j) = "other"
             \/ MyAt(path, lines, j) /\ \E i \in F : i < j /\ ~MyAt(path, lines, i)}
LateIn(path, lines, F, k) ==
  \/ /\ KindAt(path, lines, k) = "C"
     /\ \/ \E j \in OthersIn(path, lines, F) : j < k
        \/ \E j \in F : j < k /\ KindAt(path, lines, j) = "C++"
  \/ KindAt(path, lines, k) = "C++" /\ \E j \in OthersIn(path, lines, F) : j < k
BehindIn(lines, F, k) ==
  k - 1 \in F /\ Included(lines[k]).dir = <<>> /\ Included(lines[k - 1]).dir # <<>>

\* The section says what kinds of headers there are.
SectionIs(section, path, lines, F) ==
  /\ section \in 0 .. 4
  /\ section > 3 <=> \E j \in F : j \in OthersIn(path, lines, F)
  /\ section > 2 <=> \E j \in F : j \in OthersIn(path, lines, F) \/ KindAt(path, lines, j) = "C++"
  /\ section > 1 <=> \E j \in F : ~MyAt(path, lines, j)
ScopeFields == {"section", "last_header", "last_line", "line"}
ScopeIs(scope, path, lines, m, F, errors) ==
  /\ DOMAIN scope = ScopeFields /\ F = Range(scope.line)
  /\ F \subseteq 0 .. m - 1
  /\ SectionIs(scope.section, path, lines, F)
  /\ scope.last_header.dir = <<>> \/
       (scope.last_line \in F /\ Included(lines[scope.last_line]).dir = scope.last_header.dir)
  /\ \A k \in F : /\ LateIn(path, lines, F, k) => Said(errors, k)
                  /\ Said(errors, k) => LateIn(path, lines, F, k) \/ BehindIn(lines, F, k)
ScopeOK(scope, path, lines, m, errors) ==
  \E F : ScopeIs(scope, path, lines, m, F, errors)

LEMMA KindIsOne ==
  ASSUME NEW path, NEW lines, NEW k
  PROVE  KindAt(path, lines, k) \in {"C", "C++", "likely my", "possible my", "other"}
  BY Zenon DEF KindAt, _ClassifyInclude

\* What is said of lines from m on does not matter.
LEMMA ScopeStays ==
  ASSUME NEW scope, NEW path, NEW lines, NEW m \in Nat, NEW a, NEW b,
         ScopeOK(scope, path, lines, m, a), \A l \in 0 .. m - 1 : Said(a, l) <=> Said(b, l)
  PROVE  ScopeOK(scope, path, lines, m + 1, b)
<1>1. PICK F : ScopeIs(scope, path, lines, m, F, a)
  BY DEF ScopeOK
<1>2. F \subseteq 0 .. m - 1 /\ F \subseteq 0 .. (m + 1) - 1
  BY <1>1 DEF ScopeIs
<1>3. \A k \in F : Said(a, k) <=> Said(b, k)
  BY <1>2
<1>4. ScopeIs(scope, path, lines, m + 1, F, b)
  BY <1>1, <1>2, <1>3 DEF ScopeIs
<1>5. QED
  BY <1>4 DEF ScopeOK

LEMMA NewScope ==
  ASSUME NEW path, NEW lines, NEW m \in Nat, NEW errors
  PROVE  ScopeOK(_ScopedIncludeState, path, lines, m, errors)
<1> DEFINE F == {}
           s == _ScopedIncludeState
<1>1. /\ DOMAIN s = ScopeFields /\ s.section = 0 /\ s.last_header.dir = <<>>
      /\ DOMAIN s.line = {}
  BY DEF _ScopedIncludeState, ScopeFields, NoHeader, _INITIAL_SECTION
<1>2. F = Range(s.line)
  BY <1>1 DEF Range
<1> HIDE DEF s
<1>3. SectionIs(0, path, lines, F)
  BY DEF SectionIs
<1>4. ScopeIs(s, path, lines, m, F, errors)
  BY <1>1, <1>2, <1>3 DEF ScopeIs
<1>5. QED
  BY <1>4 DEF ScopeOK, s

\* The next header, at line m.
LEMMA SectionGrows ==
  ASSUME NEW path, NEW lines, NEW m \in Nat, NEW F, F \subseteq 0 .. m - 1,
         NEW scope, DOMAIN scope = ScopeFields, SectionIs(scope.section, path, lines, F)
  PROVE  LET order == CheckNextIncludeOrder(scope, KindAt(path, lines, m))
         IN /\ DOMAIN order.scope = ScopeFields /\ order.scope.line = scope.line
            /\ order.scope.last_line = scope.last_line
            /\ order.scope.last_header = NoHeader \/ order.scope.last_header = scope.last_header
            /\ SectionIs(order.scope.section, path, lines, F \cup {m})
            /\ ~order.ok <=> LateIn(path, lines, F \cup {m}, m)
<1> DEFINE G == F \cup {m}
           type == KindAt(path, lines, m)
           order == CheckNextIncludeOrder(scope, type)
           section == scope.section
           my == type \in {"likely my", "possible my"}
           to == CASE type = "C" -> 2
                   [] type = "C++" -> 3
                   [] my -> IF section <= 1 THEN 1 ELSE 4
                   [] type = "other" -> 4
           ok == section <= to
           next == IF ok THEN to ELSE section
           K(j) == KindAt(path, lines, j)
           My(j) == MyAt(path, lines, j)
           OF == OthersIn(path, lines, F)
           OG == OthersIn(path, lines, G)
<1>1. /\ DOMAIN order.scope = ScopeFields /\ order.scope.line = scope.line
      /\ order.scope.last_line = scope.last_line /\ order.scope.section = next /\ order.ok = ok
      /\ order.scope.last_header = IF ok /\ section = to THEN scope.last_header ELSE NoHeader
  <2> DEFINE t == CASE type = "C" -> _C_SECTION
                    [] type = "C++" -> _CPP_SECTION
                    [] type \in {"likely my", "possible my"} ->
                         IF scope.section <= _MY_H_SECTION THEN _MY_H_SECTION
                         ELSE _OTHER_H_SECTION
                    [] type = "other" -> _OTHER_H_SECTION
             e == [scope EXCEPT
                     !.section = IF section <= t THEN t ELSE @,
                     !.last_header = IF section <= t /\ section = t THEN @ ELSE NoHeader]
  <2>1. order = [scope |-> e, ok |-> section <= t]
    BY Zenon DEF CheckNextIncludeOrder
  <2>2. t = to
    BY Zenon DEF _C_SECTION, _CPP_SECTION, _MY_H_SECTION, _OTHER_H_SECTION
  <2> HIDE DEF t, to, order
  <2>3. order.scope = e /\ order.ok = ok
    BY <2>1, <2>2
  <2>4. /\ DOMAIN e = ScopeFields /\ e.line = scope.line /\ e.last_line = scope.last_line
        /\ e.section = IF section <= t THEN t ELSE section
        /\ e.last_header = IF section <= t /\ section = t THEN scope.last_header ELSE NoHeader
    BY DEF ScopeFields
  <2> HIDE DEF e
  <2>5. QED
    BY <2>2, <2>3, <2>4
<1>2. type \in {"C", "C++", "likely my", "possible my", "other"}
  BY KindIsOne
<1>3. /\ K(m) = type /\ (My(m) <=> my)
  BY DEF MyAt
<1>4. /\ section \in 0 .. 4 /\ (section > 3 <=> \E j \in F : j \in OF)
      /\ section > 2 <=> \E j \in F : j \in OF \/ K(j) = "C++"
      /\ section > 1 <=> \E j \in F : ~My(j)
  BY DEF SectionIs
<1>5. \A j \in F : j \in 0 .. m - 1 /\ j < m /\ j # m /\ j \in Nat
  OBVIOUS
<1>6. \A j : j \in OF <=> j \in F /\ (K(j) = "other" \/ (My(j) /\ \E i \in F : i < j /\ ~My(i)))
  BY DEF OthersIn
<1>7. \A j : j \in OG <=> j \in G /\ (K(j) = "other" \/ (My(j) /\ \E i \in G : i < j /\ ~My(i)))
  BY DEF OthersIn
<1>8. LateIn(path, lines, G, m) <=>
        \/ type = "C" /\ ((\E j \in OG : j < m) \/ \E j \in G : j < m /\ K(j) = "C++")
        \/ type = "C++" /\ \E j \in OG : j < m
  BY DEF LateIn
<1>9. SectionIs(next, path, lines, G) <=>
        /\ next \in 0 .. 4
        /\ next > 3 <=> \E j \in G : j \in OG
        /\ next > 2 <=> \E j \in G : j \in OG \/ K(j) = "C++"
        /\ next > 1 <=> \E j \in G : ~My(j)
  BY DEF SectionIs
<1>21. \A j : j \in G <=> j \in F \/ j = m
  OBVIOUS
<1> HIDE DEF K, My, OF, OG, type, section, order, G
<1>23. \A j \in F : (\E i \in G : i < j /\ ~My(i)) <=> (\E i \in F : i < j /\ ~My(i))
  <2>1. \A j \in F : j < m /\ ~(m < j)
    BY <1>5
  <2>2. QED
    BY <1>21, <2>1, Zenon
<1>10. \A j \in F : j \in OG <=> j \in OF
  BY <1>6, <1>7, <1>21, <1>23, Zenon
<1>11. m \in OG <=> type = "other" \/ (my /\ section > 1)
  BY <1>3, <1>4, <1>5, <1>7, <1>21
<1>12. \A j : j \in OG => j \in G
  BY <1>7, Zenon
<1>22. \A j : j \in OG /\ j < m => j \in F
  BY <1>12, <1>21
<1>13. (\E j \in OG : j < m) <=> section > 3
  BY <1>4, <1>5, <1>10, <1>22
<1>14. ((\E j \in OG : j < m) \/ \E j \in G : j < m /\ K(j) = "C++") <=> section > 2
  <2>1. (\E j \in G : j < m /\ K(j) = "C++") <=> \E j \in F : K(j) = "C++"
    <3>1. ~(m < m)
      OBVIOUS
    <3>2. QED
      BY <1>5, <1>21, <3>1, Zenon
  <2>2. (\E j \in OG : j < m) <=> \E j \in F : j \in OF
    BY <1>5, <1>10, <1>22
  <2>3. QED
    BY <1>4, <2>1, <2>2, Zenon
<1>15. (\E j \in G : j \in OG) <=> section > 3 \/ m \in OG
  BY <1>4, <1>10, <1>21
<1>16. (\E j \in G : j \in OG \/ K(j) = "C++") <=> section > 2 \/ m \in OG \/ type = "C++"
  BY <1>3, <1>4, <1>10, <1>21
<1>17. (\E j \in G : ~My(j)) <=> section > 1 \/ ~my
  BY <1>3, <1>4, <1>21
<1> DEFINE Late == LateIn(path, lines, G, m)
           Next_ == SectionIs(next, path, lines, G)
<1>18. /\ Late <=> (type = "C" /\ section > 2) \/ (type = "C++" /\ section > 3)
       /\ Next_ <=> /\ next \in 0 .. 4
                    /\ next > 3 <=> section > 3 \/ type = "other" \/ (my /\ section > 1)
                    /\ next > 2 <=> section > 2 \/ type = "other" \/ (my /\ section > 1) \/ type = "C++"
                    /\ next > 1 <=> section > 1 \/ ~my
  <2> HIDE DEF Late, Next_, next, my, G
  <2>1. Late <=> (type = "C" /\ section > 2) \/ (type = "C++" /\ section > 3)
    BY <1>8, <1>13, <1>14 DEF Late
  <2>2. QED
    BY <1>9, <1>11, <1>15, <1>16, <1>17, <2>1 DEF Next_
<1> HIDE DEF Late, Next_
<1>19. (~ok <=> Late) /\ Next_
  <2>1. CASE type = "C"
    BY <1>4, <1>18, <2>1
  <2>2. CASE type = "C++"
    BY <1>4, <1>18, <2>2
  <2>3. CASE type = "other"
    BY <1>4, <1>18, <2>3
  <2>4. CASE type = "likely my"
    <3>1. my /\ to = IF section <= 1 THEN 1 ELSE 4
      BY <2>4
    <3>2. type # "other" /\ type # "C" /\ type # "C++"
      BY <2>4
    <3> HIDE DEF my, to, ok, next
    <3>3. /\ ~Late
          /\ Next_ <=> /\ next \in 0 .. 4
                       /\ next > 3 <=> section > 3 \/ section > 1
                       /\ next > 2 <=> section > 2 \/ section > 1
                       /\ next > 1 <=> section > 1
      BY <1>18, <3>1, <3>2, Zenon
    <3>4. section \in 0 .. 4
      BY <1>4
    <3>5. ok /\ next = to
      BY <3>1, <3>4 DEF ok, next
    <3>6. Next_
      BY <3>1, <3>3, <3>4, <3>5
    <3>7. QED
      BY <3>3, <3>5, <3>6
  <2>6. CASE type = "possible my"
    <3>1. my /\ to = IF section <= 1 THEN 1 ELSE 4
      BY <2>6
    <3>2. type # "other" /\ type # "C" /\ type # "C++"
      BY <2>6
    <3> HIDE DEF my, to, ok, next
    <3>3. /\ ~Late
          /\ Next_ <=> /\ next \in 0 .. 4
                       /\ next > 3 <=> section > 3 \/ section > 1
                       /\ next > 2 <=> section > 2 \/ section > 1
                       /\ next > 1 <=> section > 1
      BY <1>18, <3>1, <3>2, Zenon
    <3>4. section \in 0 .. 4
      BY <1>4
    <3>5. ok /\ next = to
      BY <3>1, <3>4 DEF ok, next
    <3>6. Next_
      BY <3>1, <3>3, <3>4, <3>5
    <3>7. QED
      BY <3>3, <3>5, <3>6
  <2>5. QED
    BY <1>2, <2>1, <2>2, <2>3, <2>4, <2>6
<1>20. QED
  BY <1>1, <1>19 DEF Late, Next_, section, order, type, G

\* What a header at line m changes for those above it: nothing.
LEMMA OthersGrow ==
  ASSUME NEW path, NEW lines, NEW m \in Nat, NEW F, F \subseteq 0 .. m - 1, NEW k \in F
  PROVE  /\ LateIn(path, lines, F \cup {m}, k) <=> LateIn(path, lines, F, k)
         /\ BehindIn(lines, F, k) => BehindIn(lines, F \cup {m}, k)
<1> DEFINE G == F \cup {m}
           K(j) == KindAt(path, lines, j)
           My(j) == MyAt(path, lines, j)
           OF == OthersIn(path, lines, F)
           OG == OthersIn(path, lines, G)
<1>1. \A j : j \in OF <=> j \in F /\ (K(j) = "other" \/ (My(j) /\ \E i \in F : i < j /\ ~My(i)))
  BY DEF OthersIn
<1>2. \A j : j \in OG <=> j \in G /\ (K(j) = "other" \/ (My(j) /\ \E i \in G : i < j /\ ~My(i)))
  BY DEF OthersIn
<1>3. \A j : j \in G <=> j \in F \/ j = m
  OBVIOUS
<1>4. \A j \in F : j < m /\ ~(m < j)
  OBVIOUS
<1>5. /\ LateIn(path, lines, G, k) <=>
           \/ K(k) = "C" /\ ((\E j \in OG : j < k) \/ \E j \in G : j < k /\ K(j) = "C++")
           \/ K(k) = "C++" /\ \E j \in OG : j < k
      /\ LateIn(path, lines, F, k) <=>
           \/ K(k) = "C" /\ ((\E j \in OF : j < k) \/ \E j \in F : j < k /\ K(j) = "C++")
           \/ K(k) = "C++" /\ \E j \in OF : j < k
  BY DEF LateIn
<1> HIDE DEF K, My, OF, OG, G
<1>6. \A j \in F : (\E i \in G : i < j /\ ~My(i)) <=> (\E i \in F : i < j /\ ~My(i))
  BY <1>3, <1>4, Zenon
<1>7. \A j : j < k => (j \in OG <=> j \in OF)
  <2>1. ~(m < k)
    BY <1>4
  <2>2. \A j : j < k => (j \in G <=> j \in F)
    BY <1>3, <2>1, Zenon
  <2>3. QED
    BY <1>1, <1>2, <1>6, <2>2, Zenon
<1>8. \A j : j < k => (j \in G <=> j \in F)
  BY <1>3, <1>4, Zenon
<1>9. LateIn(path, lines, G, k) <=> LateIn(path, lines, F, k)
  BY <1>5, <1>7, <1>8, Zenon
<1>10. BehindIn(lines, F, k) => BehindIn(lines, G, k)
  BY <1>3 DEF BehindIn
<1>11. QED
  BY <1>9, <1>10 DEF G

LEMMA AlphaSays ==
  ASSUME NEW scope, DOMAIN scope = ScopeFields, NEW header, NEW m
  PROVE  LET alpha == CheckIncludeAlphabeticalOrder(scope, header, m)
         IN /\ DOMAIN alpha.scope = ScopeFields /\ alpha.scope.line = scope.line
            /\ alpha.scope.section = scope.section /\ alpha.scope.last_line = m
            /\ alpha.scope.last_header.dir = header.dir
            /\ alpha.errors \in Ordered(m)
            /\ Said(alpha.errors, m) <=>
                 m = scope.last_line + 1 /\ header.dir = <<>> /\ scope.last_header.dir # <<>>
<1> DEFINE alpha == CheckIncludeAlphabeticalOrder(scope, header, m)
           canonical == CanonicalizeAlphabeticalOrder(header)
           last == scope.last_header
           abutting == m = scope.last_line + 1
           sorted == last = NoHeader \/ Alphabet[canonical] >= Alphabet[last]
           c == abutting /\ (header.dir = <<>> <=> last.dir = <<>>) /\ ~sorted
           d == abutting /\ header.dir = <<>> /\ last.dir # <<>>
           one == When(c, m, "build/include_alpha", 4)
           two == When(d, m, "build/include_order", 4)
           set == [scope EXCEPT !.last_header = canonical, !.last_line = m]
<1>1. alpha = [scope |-> set, errors |-> one \o two]
  BY Zenon DEF CheckIncludeAlphabeticalOrder
<1>2. canonical.dir = header.dir
  <2>1. canonical = header \/ canonical = [header EXCEPT !.parts = Front_(@)]
    BY DEF CanonicalizeAlphabeticalOrder, WithoutSuffix
  <2>2. [header EXCEPT !.parts = Front_(@)].dir = header.dir
    OBVIOUS
  <2> HIDE DEF canonical
  <2>3. QED
    BY <2>1, <2>2
<1>3. /\ DOMAIN set = ScopeFields /\ set.line = scope.line /\ set.section = scope.section
      /\ set.last_line = m /\ set.last_header = canonical
  <2> HIDE DEF canonical
  <2>1. QED
    BY DEF ScopeFields
<1>4. Said(one \o two, m) <=> d
  <2> DEFINE a == Error_(m, "build/include_alpha", 4)
             b == Error_(m, "build/include_order", 4)
  <2>1. one = (IF c THEN <<a>> ELSE <<>>) /\ two = (IF d THEN <<b>> ELSE <<>>)
    BY Zenon DEF When
  <2>2. a.cat # "build/include_order" /\ b.cat = "build/include_order" /\ b.line = m
    BY DEF Error_
  <2> HIDE DEF a, b, c, d, one, two
  <2>3. /\ IsSeq(<<a>>) /\ DOMAIN <<a>> = 1 .. 1 /\ <<a>>[1] = a
        /\ IsSeq(<<b>>) /\ DOMAIN <<b>> = 1 .. 1 /\ <<b>>[1] = b
        /\ IsSeq(<<>>) /\ DOMAIN <<>> = 1 .. 0
    BY SingleAny, EmptyAny
  <2>4. IsSeq(one) /\ IsSeq(two)
    BY <2>1, <2>3
  <2> DEFINE x == <<a>>
             y == <<b>>
             z == <<>>
  <2>8. /\ DOMAIN x = 1 .. 1 /\ x[1] = a /\ DOMAIN y = 1 .. 1 /\ y[1] = b /\ DOMAIN z = 1 .. 0
    BY <2>3
  <2>5. ~Said(x, m) /\ Said(y, m) /\ ~Said(z, m)
    <3> HIDE DEF x, y, z
    <3>1. ~Said(x, m)
      BY <2>2, <2>8 DEF Said
    <3>2. Said(y, m)
      BY <2>2, <2>8 DEF Said
    <3>3. ~Said(z, m)
      BY <2>8 DEF Said
    <3>4. QED
      BY <3>1, <3>2, <3>3
  <2>6. ~Said(one, m) /\ (Said(two, m) <=> d)
    BY <2>1, <2>5
  <2>7. QED
    BY <2>4, <2>6, SaidConcat
<1>5. alpha.errors \in Ordered(m)
  BY CheckIncludeAlphabeticalOrderOrdered
<1> HIDE DEF set, one, two, canonical
<1>6. alpha.scope = set /\ alpha.errors = one \o two
  BY <1>1
<1> HIDE DEF alpha
<1>7. QED
  BY <1>2, <1>3, <1>4, <1>5, <1>6 DEF alpha

\* The next header of a scope, at line m.  "b" is what has been said behind it.
LEMMA ScopeGrows ==
  ASSUME NEW path, NEW lines, NEW m \in Nat, NEW scope, NEW a, NEW b,
         ScopeOK(scope, path, lines, m, a), Included(lines[m]) \notin DOMAIN scope.line,
         \A l \in 0 .. m - 1 : Said(a, l) <=> Said(b, l)
  PROVE  LET header == Included(lines[m])
             order == CheckNextIncludeOrder(scope, KindAt(path, lines, m))
             alpha == CheckIncludeAlphabeticalOrder(order.scope, header, m)
             seen == [alpha.scope EXCEPT !.line =
                        [h \in DOMAIN @ \cup {header} |-> IF h = header THEN m ELSE @[h]]]
         IN  (Said(b, m) <=> ~order.ok \/ Said(alpha.errors, m)) => ScopeOK(seen, path, lines, m + 1, b)
<1> DEFINE header == Included(lines[m])
           order == CheckNextIncludeOrder(scope, KindAt(path, lines, m))
           alpha == CheckIncludeAlphabeticalOrder(order.scope, header, m)
           line == [h \in DOMAIN scope.line \cup {header} |-> IF h = header THEN m ELSE scope.line[h]]
           seen == [alpha.scope EXCEPT !.line =
                      [h \in DOMAIN @ \cup {header} |-> IF h = header THEN m ELSE @[h]]]
<1>1. PICK F : ScopeIs(scope, path, lines, m, F, a)
  BY DEF ScopeOK
<1> DEFINE G == F \cup {m}
<1>2. /\ DOMAIN scope = ScopeFields /\ F = Range(scope.line) /\ F \subseteq 0 .. m - 1
      /\ SectionIs(scope.section, path, lines, F)
      /\ scope.last_header.dir = <<>> \/
           (scope.last_line \in F /\ Included(lines[scope.last_line]).dir = scope.last_header.dir)
      /\ \A k \in F : /\ LateIn(path, lines, F, k) => Said(a, k)
                      /\ Said(a, k) => LateIn(path, lines, F, k) \/ BehindIn(lines, F, k)
  BY <1>1 DEF ScopeIs
<1>3. /\ DOMAIN order.scope = ScopeFields /\ order.scope.line = scope.line
      /\ order.scope.last_line = scope.last_line
      /\ order.scope.last_header = NoHeader \/ order.scope.last_header = scope.last_header
      /\ SectionIs(order.scope.section, path, lines, G)
      /\ ~order.ok <=> LateIn(path, lines, G, m)
  <2>1. /\ F \subseteq 0 .. m - 1 /\ DOMAIN scope = ScopeFields
        /\ SectionIs(scope.section, path, lines, F)
    BY <1>2
  <2> HIDE DEF seen, alpha, line, header
  <2>2. QED
    BY <2>1, SectionGrows, Zenon
<1> HIDE DEF order
<1>4. /\ DOMAIN alpha.scope = ScopeFields /\ alpha.scope.line = order.scope.line
      /\ alpha.scope.section = order.scope.section /\ alpha.scope.last_line = m
      /\ alpha.scope.last_header.dir = header.dir
      /\ Said(alpha.errors, m) <=>
           m = order.scope.last_line + 1 /\ header.dir = <<>> /\ order.scope.last_header.dir # <<>>
  BY <1>3, AlphaSays
<1> HIDE DEF alpha
<1>5. /\ DOMAIN seen = ScopeFields /\ seen.line = line /\ seen.section = order.scope.section
      /\ seen.last_line = m /\ seen.last_header.dir = header.dir
  <2>1. alpha.scope.line = scope.line
    BY <1>3, <1>4
  <2> HIDE DEF header
  <2>2. QED
    BY <1>4, <2>1 DEF ScopeFields
<1>6. Range(line) = G
  <2> HIDE DEF header
  <2>1. /\ DOMAIN line = DOMAIN scope.line \cup {header} /\ line[header] = m
        /\ \A h \in DOMAIN scope.line : line[h] = scope.line[h]
    BY DEF header
  <2> HIDE DEF line
  <2>2. F = {scope.line[h] : h \in DOMAIN scope.line} /\ Range(line) = {line[h] : h \in DOMAIN line}
    BY <1>2 DEF Range
  <2>3. \A k \in Range(line) : k \in G
    BY <2>1, <2>2
  <2>4. \A k \in G : k \in Range(line)
    BY <2>1, <2>2
  <2>5. QED
    BY <2>3, <2>4
<1> HIDE DEF seen, line
<1>7. SUFFICES ASSUME Said(b, m) <=> ~order.ok \/ Said(alpha.errors, m)
               PROVE  ScopeOK(seen, path, lines, m + 1, b)
  BY DEF seen, alpha, order
<1>8. Said(alpha.errors, m) => BehindIn(lines, G, m)
  <2> SUFFICES ASSUME Said(alpha.errors, m) PROVE BehindIn(lines, G, m)
    OBVIOUS
  <2>1. m = scope.last_line + 1 /\ header.dir = <<>> /\ order.scope.last_header.dir # <<>>
    BY <1>3, <1>4
  <2>2. order.scope.last_header = scope.last_header
    <3>1. NoHeader.dir = <<>>
      BY DEF NoHeader
    <3>2. QED
      BY <1>3, <2>1, <3>1, Zenon
  <2>3. scope.last_line \in F /\ Included(lines[scope.last_line]).dir # <<>>
    BY <1>2, <2>1, <2>2
  <2>4. m - 1 = scope.last_line
    <3>1. scope.last_line \in Nat
      BY <1>2, <2>3
    <3>2. QED
      BY <2>1, <3>1
  <2>5. QED
    BY <2>1, <2>3, <2>4 DEF BehindIn
<1>9. \A k \in G : /\ LateIn(path, lines, G, k) => Said(b, k)
                   /\ Said(b, k) => LateIn(path, lines, G, k) \/ BehindIn(lines, G, k)
  <2> SUFFICES ASSUME NEW k \in G
               PROVE  /\ LateIn(path, lines, G, k) => Said(b, k)
                      /\ Said(b, k) => LateIn(path, lines, G, k) \/ BehindIn(lines, G, k)
    OBVIOUS
  <2>1. CASE k \in F
    <3>1. Said(a, k) <=> Said(b, k)
      BY <1>2, <2>1
    <3>2. /\ LateIn(path, lines, G, k) <=> LateIn(path, lines, F, k)
          /\ BehindIn(lines, F, k) => BehindIn(lines, G, k)
      BY <1>2, <2>1, OthersGrow
    <3>3. QED
      BY <1>2, <2>1, <3>1, <3>2
  <2>2. CASE k = m
    BY <1>3, <1>7, <1>8, <2>2
  <2>3. QED
    BY <2>1, <2>2
<1>10. G \subseteq 0 .. (m + 1) - 1
  BY <1>2
<1>11. m \in G
  OBVIOUS
<1> HIDE DEF G
<1>12. ScopeIs(seen, path, lines, m + 1, G, b)
  BY <1>3, <1>5, <1>6, <1>9, <1>10, <1>11 DEF ScopeIs, header
<1>13. QED
  BY <1>12 DEF ScopeOK

\* All scopes of a file.
ScopesOK(scopes, path, lines, m, errors) ==
  \A s \in DOMAIN scopes : ScopeOK(scopes[s], path, lines, m, errors)

LEMMA ScopesStay ==
  ASSUME NEW scopes, NEW path, NEW lines, NEW m \in Nat, NEW a, NEW b,
         ScopesOK(scopes, path, lines, m, a), \A l \in 0 .. m - 1 : Said(a, l) <=> Said(b, l)
  PROVE  ScopesOK(scopes, path, lines, m + 1, b)
  BY ScopeStays DEF ScopesOK

LEMMA PushOrder ==
  ASSUME NEW state, IncludeStateOK(state), NEW path, NEW lines, NEW m \in Nat, NEW errors,
         ScopesOK(state.scopes, path, lines, m, errors)
  PROVE  ScopesOK(PushScope(state).scopes, path, lines, m, errors)
<1> DEFINE a == state.scopes
           e == _ScopedIncludeState
           b == Append(a, e)
<1>1. IsSeq(a) /\ ScopesOK(a, path, lines, m, errors)
  BY DEF IncludeStateOK
<1>2. PushScope(state).scopes = b
  BY DEF PushScope, IncludeStateOK
<1>3. ScopeOK(e, path, lines, m, errors)
  BY NewScope
<1> HIDE DEF a, e
<1>4. /\ Len(a) \in Nat /\ DOMAIN a = 1 .. Len(a) /\ DOMAIN b = 1 .. Len(a) + 1
      /\ b[Len(a) + 1] = e /\ \A i \in 1 .. Len(a) : b[i] = a[i]
  BY <1>1, AppendAny
<1> HIDE DEF b
<1>5. PICK len \in Nat : len = Len(a)
  BY <1>4
<1>6. \A i \in DOMAIN b : i \in 1 .. len \/ i = len + 1
  BY <1>4, <1>5
<1>7. \A i \in DOMAIN b : (i \in DOMAIN a /\ b[i] = a[i]) \/ b[i] = e
  BY <1>4, <1>5, <1>6
<1>8. ScopesOK(b, path, lines, m, errors)
  BY <1>1, <1>3, <1>7, Zenon DEF ScopesOK
<1>9. QED
  BY <1>2, <1>8

LEMMA PopKeepsScopes ==
  ASSUME NEW state, IncludeStateOK(state)
  PROVE  PopScope(state).scopes = state.scopes
  BY DEF PopScope, IncludeStateOK

LEMMA SaidWhen ==
  ASSUME NEW c, NEW k, NEW conf
  PROVE  /\ Said(When(c, k, "build/include_order", conf), k) <=> c
         /\ IsSeq(When(c, k, "build/include_order", conf))
<1> DEFINE e == Error_(k, "build/include_order", conf)
           x == <<e>>
           z == <<>>
           w == When(c, k, "build/include_order", conf)
<1>1. w = IF c THEN x ELSE z
  BY Zenon DEF When
<1>2. e.line = k /\ e.cat = "build/include_order"
  BY DEF Error_
<1> HIDE DEF e, w
<1>3. IsSeq(x) /\ DOMAIN x = 1 .. 1 /\ x[1] = e /\ IsSeq(z) /\ DOMAIN z = 1 .. 0
  BY SingleAny, EmptyAny
<1> HIDE DEF x, z
<1>4. Said(x, k)
  BY <1>2, <1>3 DEF Said
<1>5. ~Said(z, k)
  BY <1>3 DEF Said
<1>6. QED
  BY <1>1, <1>3, <1>4, <1>5 DEF w

LEMMA FoundSaysNot ==
  ASSUME NEW k, NEW s \in Found(k), NEW m
  PROVE  ~Said(s, m) /\ IsSeq(s)
<1>1. s \in FoundOn(k, 0, 0)
  BY FoundIsOn
<1>2. QED
  BY <1>1, FoundSays

LEMMA OrderedSays ==
  ASSUME NEW k, NEW s \in Ordered(k)
  PROVE  IsSeq(s) /\ \A l : Said(s, l) => l = k
<1> DEFINE E == ErrorsAt({k}) \cup OrderErrors(k)
<1>1. s \in Seq(E)
  BY DEF Ordered
<1>2. \A e \in E : e.line = k
  BY DEF ErrorsAt, OrderErrors
<1> HIDE DEF E
<1>3. IsSeq(s) /\ DOMAIN s = 1 .. Len(s) /\ \A i \in 1 .. Len(s) : s[i] \in E
  BY <1>1, SeqOfAny
<1>4. QED
  BY <1>2, <1>3 DEF Said

\* What an include line does to the scopes, and what is said of it.
LEMMA IncludeLineOrder ==
  ASSUME NEW path, NEW lines, NEW m \in Nat, NEW state, IncludeStateOK(state), NEW a, NEW b,
         ScopesOK(state.scopes, path, lines, m, a),
         \A l \in 0 .. m - 1 : Said(a, l) <=> Said(b, l),
         Said(b, m) <=> Said(CheckIncludeLine(path, lines, m, state).errors, m)
  PROVE  ScopesOK(CheckIncludeLine(path, lines, m, state).state.scopes, path, lines, m + 1, b)
<1> DEFINE line == lines[m]
           opened == IF state.stack = <<>> THEN PushScope(state) ELSE state
           top == Last(opened.stack)
           scope == opened.scopes[top]
           header == Included(line)
           old == When(/\ ~IsSystem(line) /\ header.dir = <<>> /\ header.ext = "h",
                       m, "build/include", 4)
           again == header \in DOMAIN scope.line
           order == CheckNextIncludeOrder(scope,
                      _ClassifyInclude(path, header, IsSystem(line)))
           alpha == CheckIncludeAlphabeticalOrder(order.scope, header, m)
           seen == [alpha.scope EXCEPT !.line =
                      [h \in DOMAIN @ \cup {header} |-> IF h = header THEN m ELSE @[h]]]
           streams == When(/\ header.dir = <<>> /\ header.ext = ""
                           /\ Len(header.parts) = 1 /\ header.parts[1] \in StreamHeaders
                           /\ ~_IsTestFilename(path), m, "readability/streams", 3)
           late == When(~order.ok, m, "build/include_order", 4)
           twice == When(TRUE, m, "build/include", 4)
           dirs == IncludeLinePaths(line, m)
           popped == PopScope(state)
           r == CheckIncludeLine(path, lines, m, state)
           set == [opened EXCEPT !.scopes[top] = seen]
           al == alpha.errors
           first == old \o dirs \o late \o al \o streams
           second == old \o dirs \o twice \o streams
           isEnd == IsDirective(line, EndifDirective)
           isElse == IsDirective(line, ElseDirective)
           isIf == IsDirective(line, IfDirective)
           r1 == [state |-> popped, errors |-> <<>>]
           r2 == [state |-> IF popped.raised THEN popped ELSE PushScope(popped),
                  errors |-> <<>>]
           r3 == [state |-> PushScope(state), errors |-> <<>>]
           r4 == [state |-> set, errors |-> first]
           r5 == [state |-> opened, errors |-> second]
           r6 == [state |-> opened, errors |-> <<>>]
           Good(x) == ScopesOK(x.scopes, path, lines, m + 1, b)
<1>1. r = CASE isEnd -> r1 [] isElse -> r2 [] isIf -> r3
            [] IsInclude(line) /\ ~again -> r4 [] IsInclude(line) /\ again -> r5
            [] OTHER -> r6
  BY Zenon DEF CheckIncludeLine
<1>2. IncludeStateOK(opened) /\ opened.stack # <<>> /\ ScopesOK(opened.scopes, path, lines, m, a)
  <2>1. CASE state.stack = <<>>
    <3>1. opened = PushScope(state)
      BY <2>1
    <3>2. /\ IncludeStateOK(PushScope(state)) /\ PushScope(state).stack # <<>>
          /\ ScopesOK(PushScope(state).scopes, path, lines, m, a)
      BY PushScopeOK, PushOrder
    <3> HIDE DEF opened
    <3>3. QED
      BY <3>1, <3>2
  <2>2. CASE state.stack # <<>>
    <3>1. opened = state
      BY <2>2
    <3>2. QED
      BY <2>2, <3>1, Zenon
  <2>3. QED
    BY <2>1, <2>2
<1>3. ScopesOK(popped.scopes, path, lines, m, a) /\ IncludeStateOK(popped)
  BY PopKeepsScopes, PopScopeOK
<1>4. Good(popped) /\ Good(PushScope(popped)) /\ Good(PushScope(state)) /\ Good(opened)
  <2>1. /\ ScopesOK(PushScope(popped).scopes, path, lines, m, a)
        /\ ScopesOK(PushScope(state).scopes, path, lines, m, a)
    BY <1>3, PushOrder
  <2> HIDE DEF popped, opened
  <2>2. QED
    BY <1>2, <1>3, <2>1, ScopesStay
<1> HIDE DEF opened
<1>5. top \in DOMAIN opened.scopes
  <2>1. IsSeq(opened.stack) /\ \A i \in DOMAIN opened.stack : opened.stack[i] \in DOMAIN opened.scopes
    BY <1>2 DEF IncludeStateOK
  <2>2. QED
    BY <1>2, <2>1, LastOf
<1> HIDE DEF top
<1>6. IsSeq(first) /\ (Said(first, m) <=> ~order.ok \/ Said(al, m))
  <2>1. /\ "build/include" \in FoundCategories /\ "readability/streams" \in FoundCategories
        /\ 3 \in 0 .. 5 /\ 4 \in 0 .. 5
    BY DEF FoundCategories, ERROR_CATEGORIES
  <2>2. old \in Found(m) /\ streams \in Found(m) /\ dirs \in Found(m)
    BY <2>1, WhenFound, IncludeLinePathsFound, Zenon
  <2>3. IsSeq(late) /\ (Said(late, m) <=> ~order.ok)
    BY SaidWhen, Zenon
  <2>4. al \in Ordered(m)
    BY CheckIncludeAlphabeticalOrderOrdered
  <2> DEFINE u == old \o dirs
             v == u \o late
             w == v \o al
  <2>5. first = w \o streams
    OBVIOUS
  <2> HIDE DEF old, dirs, late, al, streams, first, order
  <2>6. /\ IsSeq(old) /\ IsSeq(dirs) /\ IsSeq(streams) /\ IsSeq(al)
        /\ ~Said(old, m) /\ ~Said(dirs, m) /\ ~Said(streams, m)
    BY <2>2, <2>4, FoundSaysNot, OrderedSays
  <2>7. IsSeq(u) /\ ~Said(u, m)
    BY <2>6, SaidConcat, ConcatAny
  <2> HIDE DEF u
  <2>8. IsSeq(v) /\ (Said(v, m) <=> ~order.ok)
    BY <2>3, <2>7, SaidConcat, ConcatAny
  <2> HIDE DEF v
  <2>9. IsSeq(w) /\ (Said(w, m) <=> ~order.ok \/ Said(al, m))
    BY <2>6, <2>8, SaidConcat, ConcatAny
  <2> HIDE DEF w
  <2>10. IsSeq(w \o streams) /\ (Said(w \o streams, m) <=> Said(w, m) \/ Said(streams, m))
    <3>1. IsSeq(w) /\ IsSeq(streams)
      BY <2>6, <2>9
    <3>2. IsSeq(w \o streams)
      BY <3>1, ConcatAny
    <3>3. Said(w \o streams, m) <=> Said(w, m) \/ Said(streams, m)
      BY <3>1, SaidConcat
    <3>4. QED
      BY <3>2, <3>3
  <2>11. QED
    BY <2>5, <2>6, <2>9, <2>10, Zenon
<1>7. ASSUME ~again, r = r4 PROVE Good(set)
  <2>1. Said(b, m) <=> ~order.ok \/ Said(al, m)
    <3>1. r.errors = first
      <4> HIDE DEF r, first, set
      <4>1. QED
        BY <1>7
    <3> HIDE DEF first, order, al
    <3>2. QED
      BY <1>6, <3>1 DEF r
  <2>2. ScopeOK(scope, path, lines, m, a)
    BY <1>2, <1>5 DEF ScopesOK
  <2>3. order = CheckNextIncludeOrder(scope, KindAt(path, lines, m))
    BY Zenon DEF KindAt
  <2> HIDE DEF scope
  <2>4. header \notin DOMAIN scope.line
    BY <1>7
  <2>5. ScopeOK(seen, path, lines, m + 1, b)
    BY <2>1, <2>2, <2>3, <2>4, ScopeGrows, Zenon DEF KindAt
  <2>6. set.scopes = [opened.scopes EXCEPT ![top] = seen]
    <3> HIDE DEF seen
    <3>1. QED
      BY <1>2 DEF IncludeStateOK
  <2> HIDE DEF seen, set
  <2>7. /\ DOMAIN set.scopes = DOMAIN opened.scopes
        /\ \A s \in DOMAIN set.scopes : set.scopes[s] = IF s = top THEN seen ELSE opened.scopes[s]
    BY <2>6
  <2>8. \A s \in DOMAIN opened.scopes : ScopeOK(opened.scopes[s], path, lines, m + 1, b)
    BY <1>4 DEF ScopesOK
  <2>9. QED
    BY <2>5, <2>7, <2>8, Zenon DEF ScopesOK
<1> HIDE DEF r, set, again, popped, first, second
<1>8. Good(r.state)
  <2>1. CASE r = r1 \/ r = r3 \/ r = r5 \/ r = r6
    BY <1>4, <2>1
  <2>2. CASE r = r2
    BY <1>4, <2>2
  <2>3. CASE ~again /\ r = r4
    BY <1>7, <2>3
  <2>4. r = r1 \/ r = r2 \/ r = r3 \/ (~again /\ r = r4) \/ r = r5 \/ r = r6
    <3> HIDE DEF r1, r2, r3, r4, r5, r6, isEnd, isElse, isIf
    <3>1. QED
      BY <1>1
  <2>5. QED
    BY <2>1, <2>2, <2>3, <2>4
<1>9. QED
  BY <1>8 DEF r

LEMMA LanguageOrder ==
  ASSUME NEW path, NEW file_, NEW m \in Nat, NEW state, IncludeStateOK(state), NEW a, NEW b,
         ScopesOK(state.scopes, path, file_.lines, m, a),
         \A l \in 0 .. m - 1 : Said(a, l) <=> Said(b, l),
         Said(b, m) <=> Said(CheckLanguage(path, file_, m, state).errors, m)
  PROVE  ScopesOK(CheckLanguage(path, file_, m, state).state.scopes, path, file_.lines, m + 1, b)
<1> DEFINE line == file_.elided[m]
           lines == file_.lines
           r == CheckLanguage(path, file_, m, state)
           r1 == [state |-> state, errors |-> <<>>]
           r2 == CheckIncludeLine(path, lines, m, state)
           r3 == [state |-> state, errors |-> LanguageRules(path, file_, m)]
<1>1. r = CASE line = <<>> -> r1
            [] line # <<>> /\ (IsInclude(line) \/ IsCondition(line)) -> r2
            [] OTHER -> r3
  BY Zenon DEF CheckLanguage
<1> HIDE DEF r, lines
<1>2. ScopesOK(state.scopes, path, lines, m + 1, b)
  BY ScopesStay DEF lines
<1>3. ASSUME r = r2 PROVE ScopesOK(r2.state.scopes, path, lines, m + 1, b)
  <2>1. Said(b, m) <=> Said(r2.errors, m)
    BY <1>3 DEF r, lines
  <2>2. ScopesOK(state.scopes, path, lines, m, a)
    BY DEF lines
  <2>3. QED
    BY <2>1, <2>2, IncludeLineOrder
<1> HIDE DEF r2
<1>4. CASE r = r1 \/ r = r3
  BY <1>2, <1>4 DEF r, lines
<1>5. CASE r = r2
  BY <1>3, <1>5 DEF r, lines
<1>6. r = r1 \/ r = r2 \/ r = r3
  <2> HIDE DEF r1, r3, line
  <2>1. QED
    BY <1>1
<1>7. QED
  BY <1>4, <1>5, <1>6

-----------------------------------------------------------------------------
(* The inductive invariant.                                                *)

\* Nothing has been reported yet.
Untouched ==
  /\ file = 0 /\ stderr = <<>> /\ reported = <<>> /\ DOMAIN nolint = {}
  /\ cpplint.error_count = 0 /\ DOMAIN cpplint.errors_by_category = {}

\* A filter without a sign ends the program before it takes up a file.
LogKept ==
  \/ /\ LogOK(Log, clean.raw)
     /\ file = 0 => DOMAIN nolint = {}
     /\ status = "start" => Untouched /\ cpplint = _CppLintState
  \/ status = "raised" /\ Untouched /\ cpplint.counting = "total"

\* The lines of the file in hand, down to line n.
LinesTo(last) ==
  LET lines == LinesOf(Content) IN
  /\ Document(clean.raw, last) /\ Document(clean.lines, last) /\ Document(clean.elided, last)
  /\ Document(lines, last) /\ \A k \in 0 .. last : clean.raw[k] \in {DUMMY, lines[k]}
  /\ n \in 0 .. last + 1 /\ ReadTo(nolint, clean.raw, n) /\ Marks(nolint, lines)
LinesKept ==
  /\ DOMAIN clean.raw = DOMAIN clean.lines
  /\ Working => \E last : LinesTo(last)

BlocksKept ==
  /\ NestingOK(nesting_state) /\ IncludeStateOK(include_state)
  /\ FunctionStateOK(function_state)

CommandKept ==
  /\ command \in Commands /\ file \in 0 .. Len(command.files)
  /\ status \in {"start", "file", "line", "exited", "raised", "hung"}
  /\ Working => file > 0

LintInv == CommandKept /\ LogKept /\ LinesKept /\ BlocksKept

LEMMA FirstBlocksOK ==
  NestingOK(_NestingState) /\ IncludeStateOK(_IncludeState) /\ FunctionStateOK(_FunctionState)
<1>1. IsSeq(<<>>) /\ DOMAIN <<>> = 1 .. 0
  BY EmptyAny
<1> DEFINE e == <<>>
<1>2. IsSeq(e) /\ \A i \in DOMAIN e : FALSE
  BY <1>1
<1> HIDE DEF e
<1>3. NestingOK([stack |-> e, pp_stack |-> e])
  BY <1>2 DEF NestingOK
<1>4. IncludeStateOK([scopes |-> e, stack |-> e, raised |-> FALSE])
  BY <1>2 DEF IncludeStateOK
<1>5. FunctionStateOK(_FunctionState)
  BY DEF FunctionStateOK, _FunctionState
<1>6. QED
  BY <1>3, <1>4, <1>5 DEF e, _NestingState, _IncludeState

LEMMA FirstLogOK ==
  ASSUME NEW log, NEW raw,
         /\ DOMAIN log = {"file", "cpplint", "nolint", "stderr", "reported"}
         /\ log.file = 0 /\ DOMAIN log.nolint = {} /\ log.stderr = <<>> /\ log.reported = <<>>
         /\ StateOK(log.cpplint) /\ Signed(log.cpplint.filters) /\ log.cpplint.error_count = 0
         /\ DOMAIN log.cpplint.errors_by_category = {}
  PROVE  LogOK(log, raw)
<1>1. /\ IsSeq(log.stderr) /\ IsSeq(log.reported) /\ Len(log.stderr) = 0
      /\ DOMAIN log.stderr = 1 .. 0 /\ DOMAIN log.reported = 1 .. 0
  BY EmptyAny
<1>2. (\A i \in DOMAIN log.stderr : FALSE) /\ (\A i \in DOMAIN log.reported : FALSE)
  BY <1>1
<1>3. LogShape(log) /\ Typed(log) /\ AllDecided(log) /\ Held(log, raw)
  BY <1>1, <1>2 DEF LogShape, Typed, AllDecided, Held
<1>4. CountsOK(log)
  <2> DEFINE counts == log.cpplint.errors_by_category
  <2>1. DOMAIN counts = {} /\ IsFiniteSet(DOMAIN counts)
    BY FS_EmptySet
  <2>2. SumFunction(counts) = 0
    BY <2>1, SumFunctionIsSumOver, SumOverEmpty
  <2>3. \A c : Of(log, c) = {}
    BY <1>2 DEF Of
  <2>4. CountsOf(log, counts)
    BY <1>1, <2>1, <2>2, <2>3 DEF CountsOf
  <2>5. QED
    BY <1>1, <2>1, <2>4 DEF CountsOK
<1>5. QED
  BY <1>3, <1>4 DEF LogOK

LEMMA DefaultFilters == Signed(_DEFAULT_FILTERS)
<1> DEFINE f == _DEFAULT_FILTERS
<1>1. DOMAIN f = 1 .. 4 /\ \A i \in 1 .. 4 : f[i].sign = "-"
  BY DEF _DEFAULT_FILTERS, Filter
<1>2. f \in Seq(Range(f))
  BY DEF _DEFAULT_FILTERS, Filter, Range
<1>3. QED
  BY <1>1, <1>2 DEF Signed, IsSeq

LEMMA InitKept == Init => LintInv
<1> SUFFICES ASSUME Init PROVE LintInv
  OBVIOUS
<1> USE DEF Init
<1>1. CommandKept
  <2>1. IsSeq(command.files)
    BY CommandsAssumption
  <2>2. Len(command.files) \in Nat
    BY <2>1, IsSeqDomain
  <2>3. QED
    BY <2>2 DEF CommandKept, Working
<1>2. BlocksKept
  BY FirstBlocksOK DEF BlocksKept
<1>3. LinesKept
  BY DEF LinesKept, Working
<1>4. /\ StateOK(cpplint) /\ Signed(cpplint.filters) /\ cpplint.error_count = 0
      /\ DOMAIN cpplint.errors_by_category = {}
  BY DefaultFilters DEF StateOK, Fields, _CppLintState
<1>5. DOMAIN nolint = {}
  OBVIOUS
<1>6. LogOK(Log, clean.raw)
  <2>1. /\ DOMAIN Log = {"file", "cpplint", "nolint", "stderr", "reported"}
        /\ Log.file = 0 /\ Log.nolint = nolint /\ Log.stderr = <<>> /\ Log.reported = <<>>
        /\ Log.cpplint = cpplint
    BY DEF Log
  <2>2. QED
    BY <1>4, <1>5, <2>1, FirstLogOK
<1>7. LogKept
  BY <1>4, <1>5, <1>6 DEF LogKept, Untouched
<1>8. QED
  BY <1>1, <1>2, <1>3, <1>7 DEF LintInv

-----------------------------------------------------------------------------
(* Every action keeps the invariant.                                       *)

LEMMA ParseArgumentsKept == LintInv /\ ParseArguments => LintInv'
<1> SUFFICES ASSUME LintInv, ParseArguments PROVE LintInv'
  OBVIOUS
<1> DEFINE opts == ParseOptions(command.opts)
           f == _DEFAULT_FILTERS \o opts.filters
           unsigned == \E i \in DOMAIN f : f[i].sign \notin {"+", "-"}
           A == /\ opts.ends \/ command.files = <<>>
                /\ status' = "exited" /\ UNCHANGED cpplint
           B == /\ ~opts.ends /\ command.files # <<>> /\ unsigned
                /\ status' = "raised"
                /\ cpplint' = [cpplint EXCEPT !.filters = f,
                                 !.verbose_level = opts.verbose_level,
                                 !.output_format = opts.output_format]
           C == /\ ~opts.ends /\ command.files # <<>> /\ ~unsigned
                /\ status' = "file"
                /\ cpplint' = [_CppLintState EXCEPT !.filters = f,
                                 !.verbose_level = opts.verbose_level,
                                 !.output_format = opts.output_format,
                                 !.counting = opts.counting, !.quiet = opts.quiet]
<1>1. (A \/ B \/ C) /\ status = "start" /\ UNCHANGED <<command, file, local, nolint, stderr, reported, n>>
  BY DEF ParseArguments
<1>2. CommandKept /\ LogKept /\ LinesKept /\ BlocksKept
  BY DEF LintInv
<1>3. OptionsOK(opts)
  BY <1>2, OptionsAreOK DEF CommandKept, Working
<1>4. cpplint = _CppLintState /\ Untouched /\ LogOK(Log, clean.raw)
  BY <1>1, <1>2 DEF LogKept
<1>5. IsSeq(f)
  <2>1. IsSeq(_DEFAULT_FILTERS) /\ IsSeq(opts.filters)
    BY <1>3, DefaultFilters DEF OptionsOK, Signed
  <2> DEFINE a == opts.filters
             b == _DEFAULT_FILTERS
  <2> HIDE DEF a, b
  <2>2. IsSeq(b \o a)
    BY <2>1, ConcatAny DEF a, b
  <2>3. QED
    BY <2>2 DEF a, b
<1>6. opts.verbose_level \in Int
  BY <1>3 DEF OptionsOK
<1> HIDE DEF opts, f, unsigned
<1>7. status' \in {"exited", "raised", "file"}
  BY <1>1
<1>8. UNCHANGED <<command, file, clean, include_state, function_state, nesting_state, nolint, stderr, reported, n>>
  BY <1>1 DEF local
<1>9. CommandKept'
  BY <1>2, <1>7, <1>8 DEF CommandKept, Working
<1>10. BlocksKept'
  BY <1>2, <1>8 DEF BlocksKept
<1>11. LinesKept'
  BY <1>2, <1>7, <1>8 DEF LinesKept, Working
<1>12. LogKept'
  <2>1. /\ DOMAIN Log' = {"file", "cpplint", "nolint", "stderr", "reported"}
        /\ Log'.file = 0 /\ DOMAIN Log'.nolint = {} /\ Log'.stderr = <<>> /\ Log'.reported = <<>>
        /\ Log'.cpplint = cpplint' /\ Log'.nolint = nolint
    BY <1>4, <1>8 DEF Log, Untouched
  <2>2. file' = 0 /\ DOMAIN nolint' = {} /\ status' # "start" /\ stderr' = <<>> /\ reported' = <<>>
    BY <1>4, <1>7, <1>8 DEF Untouched
  <2>3. CASE A
    <3>1. Log' = Log /\ clean'.raw = clean.raw
      BY <1>8, <2>3 DEF Log
    <3>2. LogOK(Log', clean'.raw)
      BY <1>4, <3>1
    <3>3. QED
      BY <2>2, <3>2 DEF LogKept
  <2>4. CASE B
    <3>1. cpplint'.error_count = 0 /\ DOMAIN cpplint'.errors_by_category = {} /\ cpplint'.counting = "total"
      BY <1>4, <2>4 DEF _CppLintState
    <3>2. Untouched'
      BY <2>2, <3>1 DEF Untouched
    <3>3. QED
      BY <2>4, <3>1, <3>2 DEF LogKept
  <2>5. CASE C
    <3>1. /\ DOMAIN cpplint' = Fields /\ cpplint'.verbose_level = opts.verbose_level
          /\ cpplint'.filters = f /\ cpplint'.error_count = 0
          /\ DOMAIN cpplint'.errors_by_category = {}
      BY <2>5 DEF _CppLintState, Fields
    <3>2. Signed(f)
      BY <1>5, <2>5 DEF Signed, unsigned
    <3>3. LogOK(Log', clean'.raw)
      <4>1. StateOK(cpplint') /\ Signed(cpplint'.filters)
        BY <1>6, <3>1, <3>2 DEF StateOK
      <4> DEFINE next == Log'
      <4> HIDE DEF next
      <4>2. LogOK(next, clean'.raw)
        BY <2>1, <3>1, <4>1, FirstLogOK DEF next
      <4>3. QED
        BY <4>2 DEF next
    <3>4. QED
      BY <2>2, <3>3 DEF LogKept
  <2>6. QED
    BY <1>1, <2>3, <2>4, <2>5
<1>13. QED
  BY <1>9, <1>10, <1>11, <1>12 DEF LintInv

LEMMA SkipFileKept == LintInv /\ SkipFile => LintInv'
<1> SUFFICES ASSUME LintInv, SkipFile PROVE LintInv'
  OBVIOUS
<1>1. /\ status = "file" /\ file < Len(command.files) /\ file' = file + 1 /\ reported' = <<>>
      /\ UNCHANGED <<command, cpplint, clean, include_state, function_state, nesting_state,
                     status, nolint, stderr, n>>
  BY DEF SkipFile, HasFile, local
<1>2. CommandKept /\ LogKept /\ LinesKept /\ BlocksKept
  BY DEF LintInv
<1>3. file \in Nat /\ Len(command.files) \in Nat /\ CommandKept'
  <2>1. Len(command.files) \in Nat
    BY <1>2, CommandsAssumption, IsSeqDomain DEF CommandKept, Working
  <2>2. QED
    BY <1>1, <1>2, <2>1 DEF CommandKept, Working
<1>4. BlocksKept' /\ LinesKept'
  BY <1>1, <1>2 DEF BlocksKept, LinesKept, Working
<1>5. LogKept'
  <2>1. LogOK(Log, clean.raw)
    BY <1>1, <1>2 DEF LogKept
  <2> DEFINE next == Log'
  <2>2. /\ DOMAIN next = DOMAIN Log /\ next.file = Log.file + 1 /\ next.reported = <<>>
        /\ next.cpplint = Log.cpplint /\ next.nolint = Log.nolint /\ next.stderr = Log.stderr
    BY <1>1 DEF Log
  <2> HIDE DEF next
  <2>3. LogOK(next, clean.raw)
    BY <2>1, <2>2, NextFileOK
  <2>4. LogOK(Log', clean'.raw)
    BY <1>1, <2>3 DEF next
  <2>5. file' # 0 /\ status' # "start"
    BY <1>1, <1>3
  <2>6. QED
    BY <2>4, <2>5 DEF LogKept
<1>6. QED
  BY <1>3, <1>4, <1>5 DEF LintInv

LEMMA ExitKept == LintInv /\ Exit => LintInv'
<1> SUFFICES ASSUME LintInv, Exit PROVE LintInv'
  OBVIOUS
<1>1. /\ status = "file" /\ status' = "exited"
      /\ UNCHANGED <<command, file, cpplint, clean, include_state, function_state, nesting_state,
                     nolint, stderr, reported, n>>
  BY DEF Exit, global, local
<1>2. CommandKept /\ LogKept /\ LinesKept /\ BlocksKept
  BY DEF LintInv
<1>3. CommandKept' /\ BlocksKept' /\ LinesKept'
  BY <1>1, <1>2 DEF CommandKept, BlocksKept, LinesKept, Working
<1>4. LogKept'
  <2>1. Log' = Log /\ clean'.raw = clean.raw
    BY <1>1 DEF Log
  <2>2. LogOK(Log', clean'.raw)
    BY <1>1, <1>2, <2>1 DEF LogKept
  <2>3. QED
    BY <1>1, <1>2, <2>2 DEF LogKept
<1>5. QED
  BY <1>3, <1>4 DEF LintInv

LEMMA StutterKept == LintInv /\ UNCHANGED vars => LintInv'
<1> SUFFICES ASSUME LintInv, UNCHANGED vars PROVE LintInv'
  OBVIOUS
<1>1. UNCHANGED <<command, file, cpplint, clean, include_state, function_state, nesting_state,
                  status, nolint, stderr, reported, n>>
  BY DEF vars, global, local
<1>2. CommandKept /\ LogKept /\ LinesKept /\ BlocksKept
  BY DEF LintInv
<1>3. CommandKept' /\ BlocksKept'
  BY <1>1, <1>2 DEF CommandKept, BlocksKept, Working
<1>4. LogKept'
  BY <1>1, <1>2 DEF LogKept, Log, Untouched
<1>5. LinesKept'
  BY <1>1, <1>2 DEF LinesKept, Working, LinesTo, Content
<1>6. QED
  BY <1>3, <1>4, <1>5 DEF LintInv

LEMMA FinishFileKept == LintInv /\ FinishFile => LintInv'
<1> SUFFICES ASSUME LintInv, FinishFile PROVE LintInv'
  OBVIOUS
<1> DEFINE s1 == CheckClassFinished(nesting_state.stack)
           s2 == CheckForIncludeWhatYouUse(Content.path, clean.elided, GetAll(include_state))
           s3 == CheckForUnicodeReplacementCharacters(clean.raw)
           s4 == CheckForNewlineAtEOF(clean.raw)
           s5 == When(CarriageReturn(ReadWithEncodingDetect(Content)), 0, "whitespace/newline", 1)
           errors == s1 \o s2 \o s3 \o s4 \o s5
           next == Errors(Log, errors)
<1>1. /\ status = "line" /\ n \notin DOMAIN clean.raw /\ SetLog(next) /\ status' = "file"
      /\ UNCHANGED <<command, file, clean, include_state, function_state, nesting_state, n>>
  BY Zenon DEF FinishFile, local
<1>2. CommandKept /\ LogKept /\ LinesKept /\ BlocksKept
  BY DEF LintInv
<1>3. PICK last : LinesTo(last)
  BY <1>1, <1>2 DEF LinesKept, Working
<1>4. Document(clean.raw, last) /\ Document(clean.elided, last) /\ ReadTo(nolint, clean.raw, last + 1)
  <2>1. Document(clean.raw, last) /\ Document(clean.elided, last) /\ n \in 0 .. last + 1 /\ ReadTo(nolint, clean.raw, n)
    BY <1>3, Zenon DEF LinesTo
  <2>2. n = last + 1
    BY <1>1, <2>1 DEF Document
  <2>3. QED
    BY <2>1, <2>2
<1>5. SomeFound(errors)
  <2>1. SomeFound(s1)
    BY <1>2, CheckClassFinishedSome DEF BlocksKept, NestingOK
  <2>2. SomeFound(s2) /\ SomeFound(s3) /\ SomeFound(s4)
    BY <1>4, CheckForIncludeWhatYouUseSome, CheckForUnicodeReplacementCharactersSome, CheckForNewlineAtEOFSome
  <2>3. SomeFound(s5)
    <3>1. "whitespace/newline" \in FoundCategories /\ 1 \in 0 .. 5
      BY DEF FoundCategories, ERROR_CATEGORIES
    <3>2. s5 \in Found(0)
      BY <3>1, WhenFound
    <3> HIDE DEF s5
    <3>3. QED
      BY <3>2, FoundIsSome
  <2> HIDE DEF s1, s2, s3, s4, s5
  <2>4. SomeFound(s1 \o s2)
    BY <2>1, <2>2, ConcatSome
  <2>5. SomeFound(s1 \o s2 \o s3)
    BY <2>2, <2>4, ConcatSome
  <2>6. SomeFound(s1 \o s2 \o s3 \o s4)
    BY <2>2, <2>5, ConcatSome
  <2>7. QED
    BY <2>3, <2>6, ConcatSome
<1> HIDE DEF errors
<1>6. LogOK(Log, clean.raw) /\ (file = 0 => DOMAIN nolint = {}) /\ Log.nolint = nolint /\ Log.file = file
  BY <1>1, <1>2 DEF LogKept, Log
<1>7. LogOK(next, clean.raw) /\ Later(Log, next)
  <2> DEFINE log == Log
             raw == clean.raw
  <2>1. LogOK(log, raw) /\ Document(raw, last) /\ ReadTo(log.nolint, raw, last + 1)
    BY <1>4, <1>6
  <2> HIDE DEF log, raw
  <2>2. LogOK(Errors(log, errors), raw) /\ Later(log, Errors(log, errors))
    BY <1>5, <2>1, SomeFoundKeep
  <2>3. QED
    BY <2>2 DEF log, raw
<1> HIDE DEF next
<1>8. LogOK(Log', clean'.raw)
  <2>1. /\ DOMAIN Log' = {"file", "cpplint", "nolint", "stderr", "reported"}
        /\ Log'.file = next.file /\ Log'.cpplint = next.cpplint /\ Log'.nolint = next.nolint
        /\ Log'.stderr = next.stderr /\ Log'.reported = next.reported
    BY <1>1, <1>6, <1>7 DEF Log, SetLog, Later
  <2>2. LogOK(Log', clean.raw)
    BY <1>7, <2>1, SameLogOK
  <2>3. QED
    BY <1>1, <2>2
<1>9. LogKept'
  BY <1>1, <1>6, <1>7, <1>8 DEF LogKept, Later, SetLog
<1>10. CommandKept' /\ BlocksKept' /\ LinesKept'
  BY <1>1, <1>2 DEF CommandKept, BlocksKept, LinesKept, Working
<1>11. QED
  BY <1>9, <1>10 DEF LintInv

LEMMA StartFileKept == LintInv /\ StartFile => LintInv'
<1> SUFFICES ASSUME LintInv, StartFile PROVE LintInv'
  OBVIOUS
<1> DEFINE content == NextContent
           lines == LinesOf(content)
           kept == RemoveMultiLineComments(lines)
           header == content.path.ext \in HeaderExtensions
           fresh == [Log EXCEPT !.file = @ + 1, !.reported = <<>>]
           log == StartLog(fresh, content.path, lines, header, kept.error >= 0, kept.error)
<1>1. SetLog(log)
  BY Zenon DEF StartFile, StartLog
<1>2. clean' = [raw |-> kept.lines, lines |-> CleansedLines(kept.lines),
                elided |-> Elided(kept.lines)]
  BY Zenon DEF StartFile
<1>3. /\ status = "file" /\ file < Len(command.files) /\ file' = file + 1 /\ status' = "line"
      /\ n' = 0 /\ include_state' = _IncludeState /\ function_state' = _FunctionState
      /\ nesting_state' = _NestingState /\ UNCHANGED command
  BY DEF StartFile, HasFile
<1>4. CommandKept /\ LogKept /\ LinesKept /\ BlocksKept
  BY DEF LintInv
<1>5. /\ file \in Nat /\ Len(command.files) \in Nat /\ CommandKept'
      /\ file + 1 \in DOMAIN command.files
  <2>1. Len(command.files) \in Nat /\ DOMAIN command.files = 1 .. Len(command.files)
    BY <1>4, CommandsAssumption, IsSeqDomain DEF CommandKept, Working
  <2>2. QED
    BY <1>3, <1>4, <2>1 DEF CommandKept, Working
<1>6. BlocksKept'
  BY <1>3, FirstBlocksOK DEF BlocksKept
<1>7. PICK last : Document(lines, last)
  <2>1. IsText(content.utf8) /\ IsText(content.gbk)
    BY <1>4, <1>5, CommandsAssumption DEF CommandKept, NextContent
  <2> HIDE DEF content
  <2>2. QED
    BY <2>1, LinesOfDocument
<1>8. Content' = content
  BY <1>3 DEF Content, NextContent
<1>9. LogOK(Log, clean.raw) /\ (file = 0 => DOMAIN nolint = {})
  BY <1>3, <1>4 DEF LogKept
<1>10. LogOK(fresh, kept.lines) /\ Silent(fresh) /\ fresh.file = file + 1
       /\ (fresh.file > 1 \/ DOMAIN fresh.nolint = {})
  <2>1. /\ DOMAIN fresh = DOMAIN Log /\ fresh.file = Log.file + 1 /\ fresh.reported = <<>>
        /\ fresh.cpplint = Log.cpplint /\ fresh.nolint = Log.nolint /\ fresh.stderr = Log.stderr
    BY DEF Log
  <2> HIDE DEF fresh, kept
  <2>2. LogOK(fresh, kept.lines) /\ Silent(fresh)
    BY <1>9, <2>1, NextFileOK
  <2>3. Log.file = file /\ Log.nolint = nolint
    BY DEF Log
  <2>4. file + 1 > 1 \/ file = 0
    BY <1>5
  <2>5. QED
    BY <1>9, <2>1, <2>2, <2>3, <2>4
<1> HIDE DEF fresh
<1>11. LogOK(log, kept.lines) /\ log.file = file + 1 /\ Marks(log.nolint, lines)
  <2> DEFINE raw == kept.lines
             c == kept.error >= 0
             k == kept.error
             path == content.path
  <2>1. log = StartLog(fresh, path, lines, header, c, k)
    OBVIOUS
  <2>2. LogOK(fresh, raw)
    BY <1>10
  <2> HIDE DEF raw, c, k, path, lines, header, log, content
  <2>3. LogOK(log, raw) /\ log.file = fresh.file /\ Marks(log.nolint, lines)
    BY <1>7, <1>10, <2>1, <2>2, StartKeeps
  <2>4. QED
    BY <1>10, <2>3 DEF raw
<1> HIDE DEF log
<1>12. Document(kept.lines, last) /\ \A k \in 0 .. last : kept.lines[k] \in {DUMMY, lines[k]}
  <2> HIDE DEF lines
  <2>1. QED
    BY <1>7, KeptDocument
<1>13. Document(CleansedLines(kept.lines), last) /\ Document(Elided(kept.lines), last)
  <2> HIDE DEF kept
  <2>1. QED
    BY <1>12, CleanDocument
<1> HIDE DEF kept, lines, header, content
<1>14. clean'.raw = kept.lines /\ clean'.lines = CleansedLines(kept.lines) /\ clean'.elided = Elided(kept.lines)
  BY <1>2
<1>15. LogOK(Log', clean'.raw)
  <2>1. /\ DOMAIN Log' = {"file", "cpplint", "nolint", "stderr", "reported"}
        /\ Log'.file = log.file /\ Log'.cpplint = log.cpplint /\ Log'.nolint = log.nolint
        /\ Log'.stderr = log.stderr /\ Log'.reported = log.reported
    BY <1>1, <1>3, <1>11 DEF Log, SetLog
  <2>2. LogOK(Log', kept.lines)
    BY <1>11, <2>1, SameLogOK
  <2>3. QED
    BY <1>14, <2>2
<1>16. LogKept'
  BY <1>3, <1>5, <1>15 DEF LogKept
<1>17. LinesKept'
  <2>1. LinesOf(Content)' = lines
    BY <1>8 DEF lines
  <2>2. 0 \in 0 .. last + 1 /\ ReadTo(nolint', clean'.raw, 0)
    BY <1>7 DEF ReadTo, Document
  <2>3. Marks(nolint', lines)
    BY <1>1, <1>11 DEF SetLog
  <2>4. LinesTo(last)'
    BY <1>3, <1>7, <1>12, <1>13, <1>14, <2>1, <2>2, <2>3 DEF LinesTo
  <2>5. DOMAIN clean'.raw = DOMAIN clean'.lines
    BY <1>12, <1>13, <1>14 DEF Document
  <2>6. QED
    BY <2>4, <2>5 DEF LinesKept
<1>18. QED
  BY <1>5, <1>6, <1>16, <1>17 DEF LintInv

\* What one of the ways through a line leaves behind: the errors it adds to
\* those that the blocks of the line gave.
Leaves(next) ==
  /\ SetLog(next)
  /\ \/ n' = n + 1 /\ status' = "line"
     \/ n' = n /\ status' \in {"hung", "raised"}

LEMMA ProcessLineKept == LintInv /\ ProcessLine => LintInv'
<1> SUFFICES ASSUME LintInv, ProcessLine PROVE LintInv'
  OBVIOUS
<1> DEFINE raw == clean.raw
           elided == clean.elided
           update == Update(nesting_state, raw, elided, n)
           nested == Errors(ParseNolintSuppressions(Log, raw[n], n), update.errors)
           path == Content.path
           stack == update.nest.stack
           length == CheckForFunctionLengths(clean.lines, n, function_state,
                                             cpplint.verbose_level)
           first == length.errors \o CheckForMultilineCommentsAndStrings(elided[n], n)
           before == Errors(nested, first)
           hung == Errors(before, StyleBeforeBraces(path, clean, n))
           language == CheckLanguage(path, clean, n, include_state)
           styled == Errors(before, CheckStyle(path, clean, n, stack))
           more == language.errors
                   \o CheckForNonStandardConstructs(elided[n], n, stack)
                   \o CheckPosixThreading(elided[n], n)
                   \o CheckInvalidIncrement(elided[n], n)
                   \o CheckMakePairUsesDeduction(raw[n], n)
           rest == Errors(styled, more)
           A == /\ SetLog(nested) /\ n' = n + 1
                /\ UNCHANGED <<status, include_state, function_state>>
           E == /\ SetLog(nested) /\ status' = "raised"
                /\ UNCHANGED <<n, include_state, function_state>>
           B == /\ SetLog(hung) /\ function_state' = length.state /\ status' = "hung"
                /\ UNCHANGED <<include_state, n>>
           C == /\ SetLog(styled) /\ function_state' = length.state
                /\ include_state' = language.state /\ status' = "raised" /\ UNCHANGED n
           D == /\ SetLog(rest) /\ function_state' = length.state
                /\ include_state' = language.state /\ n' = n + 1 /\ UNCHANGED status
<1>1. /\ status = "line" /\ n \in DOMAIN raw /\ nesting_state' = update.nest
      /\ UNCHANGED <<command, file, clean>>
  BY Zenon DEF ProcessLine
<1>2. A \/ B \/ C \/ D \/ E
  BY ZenonT(60) DEF ProcessLine, RestOfLine
<1>3. CommandKept /\ LogKept /\ LinesKept /\ BlocksKept
  BY DEF LintInv
<1>4. PICK last : LinesTo(last)
  BY <1>1, <1>3 DEF LinesKept, Working
<1> DEFINE lines == LinesOf(Content)
<1>5. /\ Document(raw, last) /\ Document(clean.lines, last) /\ Document(elided, last)
      /\ Document(lines, last) /\ \A k \in 0 .. last : raw[k] \in {DUMMY, lines[k]}
      /\ ReadTo(nolint, raw, n) /\ Marks(nolint, lines)
  BY <1>4, Zenon DEF LinesTo
<1>6. n \in 0 .. last /\ IsSeq(raw[n]) /\ IsSeq(elided[n])
  BY <1>1, <1>5 DEF Document
<1>7. LogOK(Log, raw) /\ Log.nolint = nolint /\ Log.file = file /\ Log.cpplint = cpplint
  BY <1>1, <1>3 DEF LogKept, Log
<1>8. cpplint.verbose_level \in Int
  BY <1>7 DEF LogOK, LogShape, StateOK
<1>9. /\ NestingOK(nesting_state) /\ IncludeStateOK(include_state) /\ FunctionStateOK(function_state)
  BY <1>3 DEF BlocksKept
<1>10. NestingOK(update.nest) /\ update.errors \in Found(n)
  <2> HIDE DEF raw, elided
  <2>1. QED
    BY <1>6, <1>9, UpdateFine
<1>11. length.errors \in Seq(SizeErrors(n, cpplint.verbose_level)) /\ FunctionStateOK(length.state)
  BY <1>8, <1>9, CheckForFunctionLengthsFound
<1>12. language.errors \in Ordered(n) /\ IncludeStateOK(language.state)
  BY <1>6, <1>9, CheckLanguageFound
<1> DEFINE v == cpplint.verbose_level
           l == LoopLine(elided, n)
           On == AllOn(n, l, v)
           Good(log) == LineOK(Log, raw, lines, n, log)
<1>13. first \in On
  <2> DEFINE a == length.errors
             b == CheckForMultilineCommentsAndStrings(elided[n], n)
  <2>1. a \in FoundOn(n, l, v)
    BY <1>11, SizeIsOn
  <2>2. b \in FoundOn(n, l, v)
    BY CheckForMultilineCommentsAndStringsFound, FoundIsOn
  <2> HIDE DEF a, b
  <2>3. a \o b \in On
    BY <2>1, <2>2, ConcatOn, OnIsAll
  <2>4. QED
    BY <2>3 DEF a, b
<1>14. StyleBeforeBraces(path, clean, n) \in On
  BY <1>6, StyleBeforeBracesFound, FoundIsOn, OnIsAll
<1>15. CheckStyle(path, clean, n, stack) \in On
  BY <1>6, CheckStyleFound, OnIsAll
<1>16. more \in On
  <2> DEFINE a == language.errors
             b == CheckForNonStandardConstructs(elided[n], n, stack)
             c == CheckPosixThreading(elided[n], n)
             d == CheckInvalidIncrement(elided[n], n)
             e == CheckMakePairUsesDeduction(raw[n], n)
  <2>1. b \in Found(n) /\ c \in Found(n) /\ d \in Found(n) /\ e \in Found(n)
    BY CheckForNonStandardConstructsFound, CheckPosixThreadingFound,
       CheckInvalidIncrementFound, CheckMakePairUsesDeductionFound
  <2>2. a \in Ordered(n)
    BY <1>12
  <2> HIDE DEF a, b, c, d, e
  <2>3. a \o b \o c \o d \o e \in On
    <3>1. b \in Ordered(n) /\ c \in Ordered(n) /\ d \in Ordered(n) /\ e \in Ordered(n)
      BY <2>1, FoundOrdered
    <3>2. a \o b \o c \o d \o e \in Ordered(n)
      BY <2>2, <3>1, Concat4Ordered
    <3>3. QED
      BY <3>2, OrderedIsAll
  <2>4. QED
    BY <2>3 DEF a, b, c, d, e
<1>17. Good(nested)
  <2> DEFINE log == Log
             errors == update.errors
  <2>1. LogOK(log, raw) /\ ReadTo(log.nolint, raw, n) /\ Marks(log.nolint, lines)
    BY <1>5, <1>7
  <2>2. raw[n] \in {DUMMY, lines[n]} /\ errors \in Found(n)
    BY <1>5, <1>6, <1>10
  <2> HIDE DEF log, errors, raw, lines
  <2>3. LineOK(log, raw, lines, n, Errors(ParseNolintSuppressions(log, raw[n], n), errors))
    BY <1>5, <1>6, <2>1, <2>2, LineStarts
  <2>4. QED
    BY <2>3 DEF log, errors
<1>18. \A a, errors : Good(a) /\ errors \in On => Good(Errors(a, errors))
  <2> SUFFICES ASSUME NEW a, NEW errors, Good(a), errors \in On PROVE Good(Errors(a, errors))
    OBVIOUS
  <2> DEFINE log == Log
  <2>1. v = log.cpplint.verbose_level
    BY <1>7
  <2> HIDE DEF log, raw, lines, l, v
  <2>2. LineOK(log, raw, lines, n, a) /\ errors \in AllOn(n, l, log.cpplint.verbose_level)
    BY <2>1 DEF log
  <2>3. LineOK(log, raw, lines, n, Errors(a, errors))
    BY <1>5, <1>6, <2>2, LineKeeps
  <2>4. QED
    BY <2>3 DEF log
<1> HIDE DEF Good, On, first, more, nested
<1>19. Good(before)
  BY <1>13, <1>17, <1>18
<1> HIDE DEF before
<1>20. Good(hung) /\ Good(styled)
  BY <1>14, <1>15, <1>18, <1>19
<1> HIDE DEF styled, hung
<1>21. Good(rest)
  BY <1>16, <1>18, <1>20
<1> HIDE DEF rest
<1>22. \E next : Good(next) /\ Leaves(next)
  <2>1. A => Leaves(nested)
    BY <1>1 DEF Leaves
  <2>0. E => Leaves(nested)
    BY <1>1 DEF Leaves
  <2>2. B => Leaves(hung)
    BY <1>1 DEF Leaves
  <2>3. C => Leaves(styled)
    BY <1>1 DEF Leaves
  <2>4. D => Leaves(rest)
    BY <1>1 DEF Leaves
  <2> HIDE DEF A, B, C, D, E
  <2>5. QED
    BY <1>2, <1>17, <1>20, <1>21, <2>0, <2>1, <2>2, <2>3, <2>4, Zenon
<1>23. PICK next : Good(next) /\ Leaves(next)
  BY <1>22
<1>24. /\ SetLog(next) /\ ((n' = n + 1 /\ status' = "line") \/ (n' = n /\ status' \in {"hung", "raised"}))
  BY <1>23 DEF Leaves
<1>25. /\ include_state' = include_state \/ include_state' = language.state
       /\ function_state' = function_state \/ function_state' = length.state
  BY <1>2
<1> HIDE DEF A, B, C, D, E, length, language
<1>26. BlocksKept'
  <2>1. NestingOK(nesting_state')
    BY <1>1, <1>10
  <2>2. IncludeStateOK(include_state')
    BY <1>9, <1>12, <1>25
  <2>3. FunctionStateOK(function_state')
    BY <1>9, <1>11, <1>25
  <2>4. QED
    BY <2>1, <2>2, <2>3 DEF BlocksKept
<1>27. CommandKept'
  BY <1>1, <1>3, <1>24 DEF CommandKept, Working
<1>28. /\ LogOK(next, raw) /\ next.file = file /\ ReadTo(next.nolint, raw, n + 1)
       /\ Marks(next.nolint, lines)
  BY <1>7, <1>23 DEF Good, LineOK
<1>29. LogOK(Log', clean'.raw)
  <2>1. /\ DOMAIN Log' = {"file", "cpplint", "nolint", "stderr", "reported"}
        /\ Log'.file = next.file /\ Log'.cpplint = next.cpplint /\ Log'.nolint = next.nolint
        /\ Log'.stderr = next.stderr /\ Log'.reported = next.reported
    BY <1>1, <1>24, <1>28 DEF Log, SetLog
  <2>2. LogOK(Log', raw)
    BY <1>28, <2>1, SameLogOK
  <2>3. QED
    BY <1>1, <2>2
<1>30. file' = 0 => DOMAIN nolint' = {}
  <2>1. file > 0
    BY <1>1, <1>3 DEF CommandKept, Working
  <2>2. QED
    BY <1>1, <2>1
<1>31. LogKept'
  BY <1>24, <1>29, <1>30 DEF LogKept
<1>32. LinesKept'
  <2>1. DOMAIN clean'.raw = DOMAIN clean'.lines
    BY <1>1, <1>3 DEF LinesKept
  <2>2. ASSUME Working' PROVE LinesTo(last)'
    <3>1. n' = n + 1 /\ nolint' = next.nolint
      BY <1>24, <2>2 DEF Working, SetLog
    <3>2. n' \in 0 .. last + 1
      <4>1. last \in Nat
        BY <1>5 DEF Document
      <4>2. QED
        BY <1>6, <3>1, <4>1
    <3>3. LinesOf(Content)' = lines
      BY <1>1 DEF Content, lines
    <3> HIDE DEF lines
    <3>4. QED
      BY <1>1, <1>5, <1>28, <3>1, <3>2, <3>3 DEF LinesTo
  <2>3. QED
    BY <2>1, <2>2 DEF LinesKept
<1>33. QED
  BY <1>26, <1>27, <1>31, <1>32 DEF LintInv

-----------------------------------------------------------------------------
(* The theorems.                                                           *)

\* The inductive invariant: which files are done and which line is next, the log,
\* the lines of the file in hand, and the state of its blocks and includes.
THEOREM LintInvariant == Spec => []LintInv
<1>1. Init => LintInv
  BY InitKept
<1>2. LintInv /\ [Next]_vars => LintInv'
  <2> SUFFICES ASSUME LintInv, [Next]_vars PROVE LintInv'
    OBVIOUS
  <2>1. CASE ParseArguments
    BY <2>1, ParseArgumentsKept
  <2>2. CASE SkipFile
    BY <2>2, SkipFileKept
  <2>3. CASE StartFile
    BY <2>3, StartFileKept
  <2>4. CASE ProcessLine
    BY <2>4, ProcessLineKept
  <2>5. CASE FinishFile
    BY <2>5, FinishFileKept
  <2>6. CASE Exit
    BY <2>6, ExitKept
  <2>7. CASE Stay
    BY <2>7, StutterKept DEF Stay
  <2>8. CASE UNCHANGED vars
    BY <2>8, StutterKept
  <2>9. QED
    BY <2>1, <2>2, <2>3, <2>4, <2>5, <2>6, <2>7, <2>8 DEF Next
<1>3. QED
  BY <1>1, <1>2, PTL DEF Spec

LEMMA ErrorsOK ==
  ASSUME LintInv
  PROVE  /\ DOMAIN nolint \subseteq ERROR_CATEGORIES \cup {ANY}
         /\ \A i \in DOMAIN reported : SoundError(reported[i], cpplint.verbose_level)
         /\ \A i \in DOMAIN stderr : stderr[i].conf \in 0 .. 5
<1>1. LogKept
  BY DEF LintInv
<1>2. CASE LogOK(Log, clean.raw)
  <2>1. /\ Log.nolint = nolint /\ Log.stderr = stderr /\ Log.reported = reported /\ Log.cpplint = cpplint
        /\ Typed(Log)
    BY <1>2 DEF Log, LogOK
  <2>2. QED
    BY <2>1 DEF Typed
<1>3. CASE Untouched
  <2>1. DOMAIN stderr = 1 .. 0 /\ DOMAIN reported = 1 .. 0
    BY <1>3, EmptyAny DEF Untouched
  <2>2. QED
    BY <1>3, <2>1 DEF Untouched
<1>4. QED
  BY <1>1, <1>2, <1>3 DEF LogKept

LEMMA TypeFollows == LintInv => TypeOK
<1> SUFFICES ASSUME LintInv PROVE TypeOK
  OBVIOUS
<1>1. \A c \in DOMAIN nolint : c \in ERROR_CATEGORIES \cup {ANY}
  BY ErrorsOK
<1>2. \A i \in DOMAIN reported : reported[i].cat \in ERROR_CATEGORIES
  BY ErrorsOK DEF SoundError
<1>3. \A i \in DOMAIN stderr : stderr[i].conf \in 0 .. 5
  BY ErrorsOK
<1>4. CommandKept /\ LinesKept /\ BlocksKept
  BY DEF LintInv
<1>5. Working => n \in 0 .. LastLine + 1
  <2> SUFFICES ASSUME Working PROVE n \in 0 .. LastLine + 1
    OBVIOUS
  <2>1. PICK last : LinesTo(last)
    BY <1>4 DEF LinesKept
  <2>2. n \in 0 .. last + 1 /\ Document(clean.elided, last)
    BY <2>1, Zenon DEF LinesTo
  <2>3. LastLine = last
    BY <2>2, DocumentLast DEF LastLine, Lines
  <2>4. QED
    BY <2>2, <2>3
<1>6. QED
  BY <1>1, <1>2, <1>3, <1>4, <1>5 DEF TypeOK, CommandKept, LinesKept, BlocksKept, IncludeStateOK

LEMMA CountsFollow == LintInv => CountsAgree
<1> SUFFICES ASSUME LintInv PROVE CountsAgree
  OBVIOUS
<1> DEFINE counts == cpplint.errors_by_category
           detailed == cpplint.counting = "detailed"
           of(c) == {i \in DOMAIN stderr : IF detailed THEN stderr[i].cat = c ELSE TopLevel[stderr[i].cat] = c}
<1>1. LogKept
  BY DEF LintInv
<1>2. CASE LogOK(Log, clean.raw)
  <2>1. /\ Log.stderr = stderr /\ Log.cpplint = cpplint /\ CountsOK(Log)
    BY <1>2 DEF Log, LogOK
  <2>2. cpplint.error_count = Len(stderr)
    BY <2>1 DEF CountsOK
  <2>3. \A c : of(c) = Of(Log, c)
    BY <2>1 DEF Of, Key
  <2>4. cpplint.counting \in Counting =>
          /\ SumFunction(counts) = Len(stderr)
          /\ \A c \in DOMAIN counts : counts[c] = Cardinality(of(c))
    <3> HIDE DEF of
    <3>1. QED
      BY <2>1, <2>3 DEF CountsOK, CountsOf
  <2>5. cpplint.counting \notin Counting => DOMAIN counts = {}
    BY <2>1 DEF CountsOK
  <2>6. \A c \in DOMAIN counts : counts[c] = Cardinality(of(c))
    <3> HIDE DEF of
    <3>1. QED
      BY <2>4, <2>5
  <2>7. cpplint.counting \in {"toplevel", "detailed"} => SumFunction(counts) = cpplint.error_count
    BY <2>2, <2>4 DEF Counting
  <2>8. QED
    BY <2>2, <2>6, <2>7, Zenon DEF CountsAgree
<1>3. CASE Untouched /\ cpplint.counting = "total"
  <2>1. cpplint.error_count = Len(stderr)
    BY <1>3, EmptyAny DEF Untouched
  <2>2. \A c \in DOMAIN counts : counts[c] = Cardinality(of(c))
    BY <1>3 DEF Untouched
  <2>3. cpplint.counting \in {"toplevel", "detailed"} => SumFunction(counts) = cpplint.error_count
    BY <1>3
  <2>4. QED
    BY <2>1, <2>2, <2>3, Zenon DEF CountsAgree
<1>4. QED
  BY <1>1, <1>2, <1>3 DEF LogKept

LEMMA NolintFollows == LintInv => NolintHolds
<1> SUFFICES ASSUME LintInv PROVE NolintHolds
  OBVIOUS
<1>1. ASSUME NEW i \in DOMAIN stderr, InHand(stderr[i]), stderr[i].cat \notin Early
      PROVE  ~Covered(clean.raw, stderr[i].line, stderr[i].cat)
  <2>1. CASE LogOK(Log, clean.raw)
    <3>1. Held(Log, clean.raw) /\ Log.stderr = stderr /\ Log.file = file
      BY <2>1 DEF LogOK, Log
    <3>2. QED
      BY <1>1, <3>1 DEF Held, InHand
  <2>2. CASE Untouched
    <3>1. DOMAIN stderr = 1 .. 0
      BY <2>2, EmptyAny DEF Untouched
    <3>2. QED
      BY <3>1
  <2>3. QED
    BY <2>1, <2>2 DEF LintInv, LogKept
<1>2. Working => Marks(nolint, LinesOf(Content))
  <2> SUFFICES ASSUME Working PROVE Marks(nolint, LinesOf(Content))
    OBVIOUS
  <2>1. PICK last : LinesTo(last)
    BY DEF LintInv, LinesKept
  <2>2. QED
    BY <2>1, Zenon DEF LinesTo
<1>3. QED
  BY <1>1, <1>2 DEF NolintHolds, Marks

LEMMA ShownFollows == LintInv => ErrorsAreShown
<1> SUFFICES ASSUME LintInv PROVE ErrorsAreShown
  OBVIOUS
<1>1. FnSizeIsShown
  BY ErrorsOK DEF FnSizeIsShown, SoundError
<1>2. CASE LogOK(Log, clean.raw)
  <2>1. /\ AllDecided(Log) /\ Log.stderr = stderr /\ Log.file = file /\ Log.nolint = nolint
        /\ Log.reported = reported /\ Log.cpplint = cpplint
    BY <1>2 DEF LogOK, Log
  <2> DEFINE fits(e) == {i \in DOMAIN cpplint.filters : IsPrefix(cpplint.filters[i].prefix, e.cat)}
             through(e) == \A i \in fits(e) : cpplint.filters[i].sign = "-" =>
                             \E j \in fits(e) : j > i /\ cpplint.filters[j].sign = "+"
             printed(e) == \E i \in DOMAIN stderr : stderr[i].file = file
                             /\ stderr[i].line = e.line /\ stderr[i].cat = e.cat
                             /\ stderr[i].conf = e.conf
             marked(e) == \E c \in DOMAIN nolint : c \in {e.cat, ANY}
                                                    /\ e.line \in nolint[c]
             before(e) == file > 1 /\ e.cat = "readability/nolint"
  <2>2. \A e : through(e) <=> Through(cpplint.filters, e.cat)
    BY DEF Through, Fits
  <2>3. \A e : printed(e) <=> IsPrinted(Log, e)
    BY <2>1 DEF IsPrinted
  <2>4. \A e : marked(e) <=> Suppressed(nolint, e)
    BY DEF Suppressed, IsErrorSuppressedByNolint
  <2>5. \A e : Let_(cpplint, e) <=> e.conf >= cpplint.verbose_level /\ through(e)
    <3> HIDE DEF through
    <3>1. QED
      BY <2>2 DEF Let_
  <2> HIDE DEF through, marked
  <2>6. ASSUME NEW i \in DOMAIN reported,
               reported[i].conf >= cpplint.verbose_level, through(reported[i]), ~marked(reported[i])
        PROVE  printed(reported[i]) \/ before(reported[i])
    <3> HIDE DEF printed
    <3>1. Let_(cpplint, reported[i]) /\ ~Suppressed(nolint, reported[i])
      BY <2>4, <2>5, <2>6
    <3>2. IsPrinted(Log, reported[i]) \/ (file > 1 /\ reported[i].cat = "readability/nolint")
      BY <2>1, <3>1 DEF AllDecided
    <3>3. QED
      BY <2>3, <3>2
  <2>7. ASSUME NEW i \in DOMAIN reported, printed(reported[i])
        PROVE  reported[i].conf >= cpplint.verbose_level /\ through(reported[i])
    <3>1. PICK j \in DOMAIN stderr : stderr[j].file = file
            /\ stderr[j].line = reported[i].line /\ stderr[j].cat = reported[i].cat
            /\ stderr[j].conf = reported[i].conf
      BY <2>7
    <3>2. Let_(cpplint, stderr[j])
      BY <2>1, <3>1 DEF AllDecided
    <3>3. Let_(cpplint, reported[i])
      BY <3>1, <3>2 DEF Let_
    <3>4. QED
      BY <2>5, <3>3
  <2>8. \A i \in DOMAIN reported :
          LET e == reported[i] IN
          /\ e.conf >= cpplint.verbose_level /\ through(e) /\ ~marked(e) => printed(e) \/ before(e)
          /\ printed(e) => e.conf >= cpplint.verbose_level /\ through(e)
    <3> HIDE DEF printed, before
    <3>1. QED
      BY <2>6, <2>7
  <2>9. FiltersDecide
    BY <2>8, Zenon DEF FiltersDecide, through, marked
  <2>10. QED
    BY <1>1, <2>9 DEF ErrorsAreShown
<1>3. CASE Untouched
  <2>1. DOMAIN reported = 1 .. 0
    BY <1>3, EmptyAny DEF Untouched
  <2>2. \A i \in DOMAIN reported : FALSE
    BY <2>1
  <2>3. FiltersDecide
    BY <2>2, Zenon DEF FiltersDecide
  <2>4. QED
    BY <1>1, <2>3 DEF ErrorsAreShown
<1>4. QED
  BY <1>2, <1>3 DEF LintInv, LogKept

\* Whatever the files say, what cpplint keeps has its type: every rule reports a
\* known category with a confidence of 0 .. 5 on a line, and no stack underflows.
THEOREM TypeCorrect == Spec => []TypeOK
  BY LintInvariant, TypeFollows, PTL

\* The totals that the end of a run prints, error_count and errors_by_category, are
\* the numbers of errors that have been written to stderr.
THEOREM CountsAreRight == Spec => []CountsAgree
  BY LintInvariant, CountsFollow, PTL

\* No error is written for a line that a NOLINT of the file covers, though the
\* NOLINTs are read line by line and rules look at lines above and below, but for
\* the Early categories, whose rules report before their line is read; and the
\* only lines kept from errors are those that a NOLINT of this file is for.
THEOREM NolintIsKept == Spec => []NolintHolds
  BY LintInvariant, NolintFollows, PTL

\* An error that a rule has reported about the file in hand is written to stderr
\* if its confidence is enough, the last filter that fits lets it through and no
\* NOLINT is about it, and only then, and that of a function that is too long is
\* always among those with enough confidence.
THEOREM NoErrorIsLost == Spec => []ErrorsAreShown
  BY LintInvariant, ShownFollows, PTL

\* Where the lines come from that the rules see.
TextKept ==
  Working => /\ clean.raw = RemoveMultiLineComments(LinesOf(Content)).lines
             /\ clean.elided = Elided(clean.raw)

LEMMA TextIsKept == TextKept /\ [Next]_vars => TextKept'
<1> SUFFICES ASSUME TextKept, [Next]_vars, Working' PROVE TextKept'
  BY DEF TextKept
<1>1. CASE StartFile
  <2>1. /\ clean'.raw = RemoveMultiLineComments(LinesOf(NextContent)).lines
        /\ clean'.elided = Elided(RemoveMultiLineComments(LinesOf(NextContent)).lines)
        /\ file' = file + 1 /\ command' = command
    <3>1. PICK lines : lines = LinesOf(NextContent)
      OBVIOUS
    <3>2. PICK kept : kept = RemoveMultiLineComments(lines)
      OBVIOUS
    <3>3. /\ clean' = [raw |-> kept.lines, lines |-> CleansedLines(kept.lines),
                       elided |-> Elided(kept.lines)]
          /\ file' = file + 1 /\ command' = command
      BY <1>1, <3>1, <3>2, Zenon DEF StartFile
    <3>4. clean'.raw = kept.lines /\ clean'.elided = Elided(kept.lines)
      BY <3>3
    <3>5. QED
      BY <3>1, <3>2, <3>3, <3>4
  <2>2. Content' = NextContent
    BY <2>1 DEF Content, NextContent
  <2>3. QED
    BY <2>1, <2>2 DEF TextKept
<1>2. ASSUME Working, UNCHANGED <<command, file, clean>> PROVE TextKept'
  <2>1. Content' = Content
    BY <1>2 DEF Content
  <2>2. QED
    BY <1>2, <2>1 DEF TextKept
<1>3. CASE ProcessLine
  BY <1>2, <1>3 DEF ProcessLine, Working
<1>4. CASE UNCHANGED vars
  BY <1>2, <1>4 DEF Working, vars, global, local
<1>5. ~ParseArguments /\ ~SkipFile /\ ~FinishFile /\ ~Exit
  BY DEF ParseArguments, SkipFile, FinishFile, Exit, HasFile, Working
<1>6. QED
  BY <1>1, <1>3, <1>4, <1>5 DEF Next, Stay

LEMMA StringsFollow == LintInv /\ TextKept => StringsOpaque
<1> SUFFICES ASSUME LintInv, TextKept, Working, n <= LastLine, ~IsIncludeLine(clean.raw[n]),
                    NEW i \in DOMAIN clean.raw[n], NEW t \in Inert,
                    Inside(clean.raw[n], i), ESCAPED \notin ToSet(clean.raw[n])
             PROVE  CleanseComments(_CollapseStrings([clean.raw[n] EXCEPT ![i] = t])) = Lines[n]
  BY Zenon DEF StringsOpaque, Inert, Inside
<1>1. PICK last : LinesTo(last)
  BY DEF LintInv, LinesKept
<1>2. n \in 0 .. last /\ n \in DOMAIN clean.raw /\ IsSeq(clean.raw[n])
  <2>1. Document(clean.raw, last) /\ Document(clean.elided, last) /\ n \in 0 .. last + 1
    BY <1>1 DEF LinesTo
  <2>2. Last_(clean.elided) = last /\ last \in Nat
    BY <2>1, DocumentLast
  <2>3. n \in 0 .. last
    BY <2>1, <2>2 DEF LastLine, Lines
  <2>4. QED
    BY <2>1, <2>3 DEF Document
<1>3. Lines[n] = CleanseComments(_CollapseStrings(clean.raw[n]))
  <2>1. clean.elided = [k \in DOMAIN clean.raw |-> CleanseComments(_CollapseStrings(clean.raw[k]))]
    BY Zenon DEF TextKept, Elided
  <2>2. QED
    BY <1>2, <2>1 DEF Lines
<1>4. PICK line : line = clean.raw[n]
  OBVIOUS
<1>5. _CollapseStrings([line EXCEPT ![i] = t]) = _CollapseStrings(line)
  BY <1>2, <1>4, StringsAreOpaque
<1>6. QED
  BY <1>3, <1>4, <1>5

LEMMA CommentsFollow == LintInv /\ TextKept => CommentLinesGone
<1> DEFINE lines == LinesOf(Content)
           open == CHOOSE f : OpenAbove(f, lines)
           end == Last_(lines) + 1
           unended == IF ~open[end] THEN end
                      ELSE Max({k \in DOMAIN lines : ~open[k] /\ open[k + 1]})
<1>0. (Working /\ Tidy(lines) =>
         \A k \in DOMAIN lines :
           clean.raw[k] = IF k < unended /\ (open[k] \/ open[k + 1]) THEN DUMMY ELSE lines[k])
      => CommentLinesGone
  BY Zenon DEF CommentLinesGone, OpenAbove
<1>1. SUFFICES ASSUME LintInv, TextKept, Working, Tidy(lines), NEW k \in DOMAIN lines
               PROVE  clean.raw[k] = IF k < unended /\ (open[k] \/ open[k + 1])
                                     THEN DUMMY ELSE lines[k]
  <2> HIDE DEF lines, unended, open
  <2>1. QED
    BY <1>0
<1>2. PICK last : LinesTo(last)
  BY <1>1 DEF LintInv, LinesKept
<1>3. Document(lines, last) /\ last \in Nat /\ Last_(lines) = last /\ DOMAIN lines = 0 .. last
  BY <1>2, DocumentLast DEF LinesTo, Document
<1> DEFINE taken == CHOOSE f : Removal(f, lines)
<1>4. clean.raw = [x \in DOMAIN lines |-> IF x \in taken[0].gone THEN DUMMY ELSE lines[x]]
  <2>1. clean.raw = RemoveMultiLineComments(lines).lines
    BY <1>1 DEF TextKept
  <2> HIDE DEF lines
  <2>2. RemoveMultiLineComments(lines).lines = RemoveMultiLineCommentsFromRange(lines, taken[0].gone)
    BY RemovalUnfold
  <2>3. QED
    BY <2>1, <2>2, Zenon DEF RemoveMultiLineCommentsFromRange
<1> HIDE DEF lines
<1>5. Removal(taken, lines)
  BY <1>3, RemovalExists
<1>6. OpenAbove(open, lines)
  BY <1>3, OpenAboveExists
<1>7. unended = Unended(open, last)
  BY <1>3, Zenon DEF Unended
<1> HIDE DEF taken, open, unended
<1>8. TakesOut(taken[0].gone, open, last, 0)
  BY <1>1, <1>3, <1>5, <1>6, CommentsTakenOut
<1>9. k \in taken[0].gone <=> k < unended /\ (open[k] \/ open[k + 1])
  BY <1>3, <1>7, <1>8 DEF TakesOut
<1>10. QED
  BY <1>4, <1>9

\* The rules that look at code see nothing of what stands in a string, and no line of a
\* comment of several lines: in every file, and all other lines as they are.
THEOREM TextIsHidden == Spec => []TextIsOpaque
<1>1. Init => TextKept
  BY DEF Init, TextKept, Working
<1>2. LintInv /\ TextKept => TextIsOpaque
  BY StringsFollow, CommentsFollow DEF TextIsOpaque
<1>3. QED
  BY <1>1, <1>2, TextIsKept, LintInvariant, PTL DEF Spec

-----------------------------------------------------------------------------
(* The order of includes, from line to line.                               *)

\* So much has been said of the lines above n, and of no other one.
OrderKept ==
  Working => /\ \A l : Said(reported, l) => l \in 0 .. n - 1
             /\ ScopesOK(include_state.scopes, Content.path, clean.lines, n, reported)

LEMMA StartFileOrder == LintInv /\ StartFile => OrderKept'
<1> SUFFICES ASSUME LintInv, StartFile PROVE OrderKept'
  OBVIOUS
<1> DEFINE content == NextContent
           lines == LinesOf(content)
           kept == RemoveMultiLineComments(lines)
           header == content.path.ext \in HeaderExtensions
           fresh == [Log EXCEPT !.file = @ + 1, !.reported = <<>>]
           log == StartLog(fresh, content.path, lines, header, kept.error >= 0, kept.error)
<1>1. SetLog(log)
  BY Zenon DEF StartFile, StartLog
<1>2. /\ status = "file" /\ file < Len(command.files) /\ include_state' = _IncludeState
  BY DEF StartFile, HasFile
<1>3. CommandKept /\ LogKept
  BY DEF LintInv
<1>4. /\ file \in Nat /\ file + 1 \in DOMAIN command.files
  <2>1. Len(command.files) \in Nat /\ DOMAIN command.files = 1 .. Len(command.files)
    BY <1>3, CommandsAssumption, IsSeqDomain DEF CommandKept
  <2>2. QED
    BY <1>2, <1>3, <2>1 DEF CommandKept
<1>5. PICK last : Document(lines, last)
  <2>1. IsText(content.utf8) /\ IsText(content.gbk)
    BY <1>3, <1>4, CommandsAssumption DEF CommandKept, NextContent
  <2> HIDE DEF content
  <2>2. QED
    BY <2>1, LinesOfDocument
<1>6. LogOK(Log, clean.raw) /\ (file = 0 => DOMAIN nolint = {})
  BY <1>2, <1>3 DEF LogKept
<1>7. LogOK(fresh, kept.lines) /\ Silent(fresh) /\ (fresh.file > 1 \/ DOMAIN fresh.nolint = {})
  <2>1. /\ DOMAIN fresh = DOMAIN Log /\ fresh.file = Log.file + 1 /\ fresh.reported = <<>>
        /\ fresh.cpplint = Log.cpplint /\ fresh.nolint = Log.nolint /\ fresh.stderr = Log.stderr
    BY DEF Log
  <2> HIDE DEF fresh, kept
  <2>2. LogOK(fresh, kept.lines) /\ Silent(fresh)
    BY <1>6, <2>1, NextFileOK
  <2>3. Log.file = file /\ Log.nolint = nolint
    BY DEF Log
  <2>4. file + 1 > 1 \/ file = 0
    BY <1>4
  <2>5. QED
    BY <1>6, <2>1, <2>2, <2>3, <2>4
<1> HIDE DEF fresh
<1>8. \A l : ~Said(log.reported, l)
  <2> DEFINE raw == kept.lines
             c == kept.error >= 0
             k == kept.error
             path == content.path
  <2>1. log = StartLog(fresh, path, lines, header, c, k)
    OBVIOUS
  <2>2. LogOK(fresh, raw)
    BY <1>7
  <2> HIDE DEF raw, c, k, path, lines, header, log, content
  <2>3. QED
    BY <1>5, <1>7, <2>1, <2>2, StartSays
<1> HIDE DEF log
<1>9. \A l : ~Said(reported', l)
  BY <1>1, <1>8 DEF SetLog
<1>10. DOMAIN include_state'.scopes = {}
  <2>1. include_state'.scopes = <<>>
    BY <1>2 DEF _IncludeState
  <2>2. QED
    BY <2>1, EmptyAny
<1>11. QED
  BY <1>9, <1>10 DEF OrderKept, ScopesOK

LEMMA ProcessLineOrder == LintInv /\ OrderKept /\ ProcessLine => OrderKept'
<1> SUFFICES ASSUME LintInv, OrderKept, ProcessLine, Working' PROVE OrderKept'
  BY DEF OrderKept
<1> DEFINE raw == clean.raw
           elided == clean.elided
           update == Update(nesting_state, raw, elided, n)
           parsed == ParseNolintSuppressions(Log, raw[n], n)
           nested == Errors(parsed, update.errors)
           path == Content.path
           stack == update.nest.stack
           length == CheckForFunctionLengths(clean.lines, n, function_state,
                                             cpplint.verbose_level)
           first == length.errors \o CheckForMultilineCommentsAndStrings(elided[n], n)
           before == Errors(nested, first)
           language == CheckLanguage(path, clean, n, include_state)
           style == CheckStyle(path, clean, n, stack)
           styled == Errors(before, style)
           more == language.errors
                   \o CheckForNonStandardConstructs(elided[n], n, stack)
                   \o CheckPosixThreading(elided[n], n)
                   \o CheckInvalidIncrement(elided[n], n)
                   \o CheckMakePairUsesDeduction(raw[n], n)
           rest == Errors(styled, more)
           A == /\ reported' = nested.reported /\ n' = n + 1 /\ include_state' = include_state
           D == /\ reported' = rest.reported /\ n' = n + 1 /\ include_state' = language.state
<1>1. /\ status = "line" /\ n \in DOMAIN raw /\ UNCHANGED <<command, file, clean>>
  BY Zenon DEF ProcessLine
<1>2. A \/ D
  <2>1. \/ status' \in {"hung", "raised"}
        \/ SetLog(nested) /\ n' = n + 1 /\ include_state' = include_state
        \/ SetLog(rest) /\ n' = n + 1 /\ include_state' = language.state
    BY ZenonT(60) DEF ProcessLine, RestOfLine
  <2> HIDE DEF nested, rest, language
  <2>2. QED
    BY <2>1 DEF SetLog, Working
<1>3. LogKept /\ LinesKept /\ BlocksKept
  BY DEF LintInv
<1>4. PICK last : LinesTo(last)
  BY <1>1, <1>3 DEF LinesKept, Working
<1>5. /\ Document(raw, last) /\ Document(elided, last)
  BY <1>4, Zenon DEF LinesTo
<1>6. n \in 0 .. last /\ last \in Nat /\ IsSeq(raw[n]) /\ IsSeq(elided[n])
  BY <1>1, <1>5 DEF Document
<1>7. n \in Nat
  BY <1>6
<1>8. LogShape(Log) /\ Log.reported = reported /\ cpplint.verbose_level \in Int
  BY <1>1, <1>3 DEF LogKept, Log, LogOK, LogShape, StateOK
<1>9. NestingOK(nesting_state) /\ IncludeStateOK(include_state) /\ FunctionStateOK(function_state)
  BY <1>3 DEF BlocksKept
<1>10. /\ \A l : Said(reported, l) => l \in 0 .. n - 1
       /\ ScopesOK(include_state.scopes, path, clean.lines, n, reported)
  BY <1>1 DEF OrderKept, Working
<1> DEFINE Quiet(errors) == IsSeq(errors) /\ \A l : ~Said(errors, l)
           Same(log) == LogShape(log) /\ \A l : Said(log.reported, l) <=> Said(reported, l)
           v == cpplint.verbose_level
           l0 == LoopLine(elided, n)
<1>11. \A e \in Found(n) : Quiet(e)
  BY FoundSaysNot
<1>12. \A e \in FoundOn(n, l0, v) : Quiet(e)
  BY FoundSays
<1>13. \A log, e : Same(log) /\ Quiet(e) => Same(Errors(log, e))
  BY SaidErrors
<1>14. Same(parsed)
  <2> DEFINE log == Log
             line == raw[n]
  <2>1. LogShape(log) /\ log.reported = reported
    BY <1>8
  <2> HIDE DEF log, line
  <2>2. Same(ParseNolintSuppressions(log, line, n))
    BY <2>1, ParseSays
  <2>3. QED
    BY <2>2 DEF log, line
<1>15. Quiet(update.errors)
  <2>1. update.errors \in Found(n)
    <3> HIDE DEF raw, elided
    <3>1. QED
      BY <1>6, <1>9, UpdateFine
  <2> HIDE DEF update, Quiet
  <2>2. QED
    BY <1>11, <2>1
<1>16. Quiet(first)
  <2> DEFINE a == length.errors
             b == CheckForMultilineCommentsAndStrings(elided[n], n)
  <2>1. a \in Seq(SizeErrors(n, cpplint.verbose_level))
    BY <1>8, <1>9, CheckForFunctionLengthsFound
  <2>2. a \in FoundOn(n, l0, v)
    BY <2>1, SizeIsOn
  <2>3. b \in FoundOn(n, l0, v)
    BY CheckForMultilineCommentsAndStringsFound, FoundIsOn
  <2> HIDE DEF a, b, l0, v
  <2>4. a \o b \in FoundOn(n, l0, v)
    BY <2>2, <2>3, ConcatOn
  <2> HIDE DEF Quiet
  <2>5. Quiet(a \o b)
    BY <1>12, <2>4
  <2>6. QED
    BY <2>5 DEF a, b
<1>17. Quiet(style)
  <2>1. style \in FoundOn(n, l0, v)
    BY <1>6, CheckStyleFound
  <2> HIDE DEF style, Quiet, l0, v
  <2>2. QED
    BY <1>12, <2>1
<1>18. /\ IsSeq(language.errors) /\ \A l : Said(language.errors, l) => l = n
  <2>1. language.errors \in Ordered(n)
    BY <1>6, <1>9, CheckLanguageFound
  <2> HIDE DEF language
  <2>2. QED
    BY <2>1, OrderedSays
<1>19. IsSeq(more) /\ \A l : Said(more, l) <=> Said(language.errors, l)
  <2> DEFINE a == language.errors
             b == CheckForNonStandardConstructs(elided[n], n, stack)
             c == CheckPosixThreading(elided[n], n)
             d == CheckInvalidIncrement(elided[n], n)
             e == CheckMakePairUsesDeduction(raw[n], n)
  <2>1. b \in Found(n) /\ c \in Found(n) /\ d \in Found(n) /\ e \in Found(n)
    BY CheckForNonStandardConstructsFound, CheckPosixThreadingFound,
       CheckInvalidIncrementFound, CheckMakePairUsesDeductionFound
  <2>2. IsSeq(a)
    BY <1>18
  <2> HIDE DEF a, b, c, d, e, Quiet
  <2>3. Quiet(b) /\ Quiet(c) /\ Quiet(d) /\ Quiet(e)
    BY <1>11, <2>1
  <2>4. \A s, t : IsSeq(s) /\ Quiet(t) => IsSeq(s \o t) /\ \A l : Said(s \o t, l) <=> Said(s, l)
    BY SaidConcat, ConcatAny DEF Quiet
  <2> DEFINE x == a \o b
             y == x \o c
             z == y \o d
             w == z \o e
  <2>5. IsSeq(x) /\ \A l : Said(x, l) <=> Said(a, l)
    BY <2>2, <2>3, <2>4
  <2> HIDE DEF x
  <2>6. IsSeq(y) /\ \A l : Said(y, l) <=> Said(x, l)
    BY <2>3, <2>4, <2>5
  <2> HIDE DEF y
  <2>7. IsSeq(z) /\ \A l : Said(z, l) <=> Said(y, l)
    BY <2>3, <2>4, <2>6
  <2> HIDE DEF z
  <2>8. IsSeq(w) /\ \A l : Said(w, l) <=> Said(z, l)
    BY <2>3, <2>4, <2>7
  <2>9. more = w
    BY Zenon DEF a, b, c, d, e, x, y, z
  <2> HIDE DEF w, more
  <2>10. QED
    BY <2>5, <2>6, <2>7, <2>8, <2>9, Zenon DEF a
<1> HIDE DEF Quiet, Same, parsed, update, first, style, more
<1>20. Same(nested)
  BY <1>13, <1>14, <1>15
<1> HIDE DEF nested
<1>21. Same(before)
  BY <1>13, <1>16, <1>20
<1> HIDE DEF before
<1>22. Same(styled)
  BY <1>13, <1>17, <1>21
<1> HIDE DEF styled
<1>23. \A l : Said(rest.reported, l) <=> Said(reported, l) \/ Said(language.errors, l)
  <2>1. LogShape(styled) /\ \A l : Said(styled.reported, l) <=> Said(reported, l)
    BY <1>22 DEF Same
  <2> HIDE DEF language
  <2>2. \A l : Said(rest.reported, l) <=> Said(styled.reported, l) \/ Said(more, l)
    BY <1>19, <2>1, SaidErrors
  <2>3. QED
    BY <1>19, <2>1, <2>2, Zenon
<1> HIDE DEF rest
<1>24. Content.path' = path
  BY <1>1 DEF Content
<1> HIDE DEF path
<1>25. n' = n + 1 /\ clean' = clean
  BY <1>1, <1>2
<1>26. ~Said(reported, n)
  BY <1>7, <1>10
<1>27. \A l \in 0 .. n - 1 : l # n
  BY <1>7
<1>28. /\ \A l : Said(reported', l) => l \in 0 .. n
       /\ ScopesOK(include_state'.scopes, path, clean.lines, n + 1, reported')
  <2>1. CASE A
    <3>1. \A l : Said(reported', l) <=> Said(reported, l)
      BY <1>20, <2>1 DEF Same
    <3>2. \A l : Said(reported', l) => l \in 0 .. n
      BY <1>7, <1>10, <3>1
    <3>3. include_state'.scopes = include_state.scopes
      BY <2>1
    <3> DEFINE b == reported'
    <3> HIDE DEF b
    <3>4. \A l \in 0 .. n - 1 : Said(reported, l) <=> Said(b, l)
      BY <3>1 DEF b
    <3>5. ScopesOK(include_state.scopes, path, clean.lines, n + 1, b)
      BY <1>7, <1>10, <3>4, ScopesStay
    <3>6. QED
      BY <3>2, <3>3, <3>5 DEF b
  <2>2. CASE D
    <3>1. \A l : Said(reported', l) <=> Said(reported, l) \/ Said(language.errors, l)
      BY <1>23, <2>2
    <3>2. \A l : Said(reported', l) => l \in 0 .. n
      <4> HIDE DEF language
      <4>1. QED
        BY <1>7, <1>10, <1>18, <3>1
    <3>3. include_state'.scopes = language.state.scopes
      <4> HIDE DEF language
      <4>1. QED
        BY <2>2
    <3> DEFINE b == reported'
    <3> HIDE DEF b
    <3>4. \A l \in 0 .. n - 1 : Said(reported, l) <=> Said(b, l)
      <4> HIDE DEF language
      <4>1. QED
        BY <1>18, <1>27, <3>1 DEF b
    <3>5. Said(b, n) <=> Said(language.errors, n)
      <4> HIDE DEF language
      <4>1. QED
        BY <1>26, <3>1 DEF b
    <3>6. ScopesOK(language.state.scopes, path, clean.lines, n + 1, b)
      BY <1>7, <1>9, <1>10, <3>4, <3>5, LanguageOrder
    <3> HIDE DEF language
    <3>7. QED
      BY <3>2, <3>3, <3>6 DEF b
  <2> HIDE DEF A, D
  <2>3. QED
    BY <1>2, <2>1, <2>2
<1>29. 0 .. n = 0 .. (n + 1) - 1
  BY <1>7
<1>30. QED
  BY <1>24, <1>25, <1>28, <1>29 DEF OrderKept

LEMMA OrderIsKept == LintInv /\ OrderKept /\ [Next]_vars => OrderKept'
<1> SUFFICES ASSUME LintInv, OrderKept, [Next]_vars, Working' PROVE OrderKept'
  BY DEF OrderKept
<1>1. CASE StartFile
  BY <1>1, StartFileOrder
<1>2. CASE ProcessLine
  BY <1>2, ProcessLineOrder
<1>3. CASE UNCHANGED vars
  <2>1. /\ Working /\ Content' = Content /\ clean' = clean /\ n' = n /\ reported' = reported
        /\ include_state' = include_state
    BY <1>3 DEF Working, vars, global, local, Content
  <2>2. QED
    BY <2>1 DEF OrderKept
<1>4. ~ParseArguments /\ ~SkipFile /\ ~FinishFile /\ ~Exit
  BY DEF ParseArguments, SkipFile, FinishFile, Exit, HasFile, Working
<1>5. QED
  BY <1>1, <1>2, <1>3, <1>4 DEF Next, Stay

LEMMA OrderFollows == OrderKept => IncludesInOrder
<1> SUFFICES ASSUME OrderKept, Working, NEW s \in DOMAIN include_state.scopes
             PROVE  LET first == Range(include_state.scopes[s].line)
                        others(k) == {j \in first : j < k /\
                          (Kind(j) = "other" \/ (IsMy(j) /\ \E i \in first : i < j /\ ~IsMy(i)))}
                        late(k) == \/ Kind(k) = "C" /\ (others(k) # {}
                                        \/ \E j \in first : j < k /\ Kind(j) = "C++")
                                   \/ Kind(k) = "C++" /\ others(k) # {}
                        said(k) == \E i \in DOMAIN reported :
                          reported[i].line = k /\ reported[i].cat = "build/include_order"
                        behind(k) == k - 1 \in first /\ Included(clean.lines[k]).dir = <<>>
                                     /\ Included(clean.lines[k - 1]).dir # <<>>
                    IN \A k \in first : /\ late(k) => said(k)
                                        /\ said(k) => late(k) \/ behind(k)
  BY Zenon DEF IncludesInOrder
<1> DEFINE path == Content.path
           lines == clean.lines
           first == Range(include_state.scopes[s].line)
           others(k) == {j \in first : j < k /\
             (Kind(j) = "other" \/ (IsMy(j) /\ \E i \in first : i < j /\ ~IsMy(i)))}
           late(k) == \/ Kind(k) = "C" /\ (others(k) # {}
                           \/ \E j \in first : j < k /\ Kind(j) = "C++")
                      \/ Kind(k) = "C++" /\ others(k) # {}
           said(k) == \E i \in DOMAIN reported :
             reported[i].line = k /\ reported[i].cat = "build/include_order"
           behind(k) == k - 1 \in first /\ Included(clean.lines[k]).dir = <<>>
                        /\ Included(clean.lines[k - 1]).dir # <<>>
<1>1. ScopeOK(include_state.scopes[s], path, lines, n, reported)
  BY DEF OrderKept, ScopesOK
<1>2. \A k \in first : /\ LateIn(path, lines, first, k) => Said(reported, k)
                       /\ Said(reported, k) => LateIn(path, lines, first, k) \/ BehindIn(lines, first, k)
  BY <1>1, Zenon DEF ScopeOK, ScopeIs
<1>3. \A k : Kind(k) = KindAt(path, lines, k) /\ (IsMy(k) <=> MyAt(path, lines, k))
  BY Zenon DEF Kind, KindAt, IsMy, MyAt
<1>4. \A k : said(k) <=> Said(reported, k)
  BY Zenon DEF Said
<1>5. \A k : behind(k) <=> BehindIn(lines, first, k)
  BY Zenon DEF BehindIn
<1>6. \A j : j \in OthersIn(path, lines, first) <=>
        j \in first /\ (Kind(j) = "other" \/ (IsMy(j) /\ \E i \in first : i < j /\ ~IsMy(i)))
  BY <1>3 DEF OthersIn
<1>7. \A k : others(k) # {} <=> \E j \in OthersIn(path, lines, first) : j < k
  BY <1>6
<1>8. \A k : late(k) <=> LateIn(path, lines, first, k)
  <2> HIDE DEF others, first, path, lines
  <2>1. QED
    BY <1>3, <1>7 DEF LateIn
<1> HIDE DEF late, said, behind, others
<1>9. \A k \in first : /\ late(k) => said(k)
                       /\ said(k) => late(k) \/ behind(k)
  BY <1>2, <1>4, <1>5, <1>8, Zenon
<1>10. QED
  BY <1>9, Zenon DEF late, said, behind, others

\* In each branch of a file a header is reported if and only if it breaks the order of own
\* headers, those of C, those of C++ and all others: for all headers, branches and lines.
THEOREM IncludesAreOrdered == Spec => []IncludesInOrder
<1>1. Init => OrderKept
  BY DEF Init, OrderKept, Working
<1>2. QED
  BY <1>1, OrderIsKept, OrderFollows, LintInvariant, PTL DEF Spec
=============================================================================

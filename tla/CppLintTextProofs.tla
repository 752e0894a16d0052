-------------------------- MODULE CppLintTextProofs --------------------------
(***************************************************************************)
(* Cpplint's picture of a file is that of its text: BracketsMatch,         *)
(* ScopesAreBranches and NestingIsOfKeptText, for all files.               *)
(*                                                                         *)
(* A search for a bracket is run beside the stack that WellNested keeps    *)
(* over the same text.  Within a line the two stacks are alike until the   *)
(* end or a mismatch (Follows); forward from a < the search holds the      *)
(* openers whose closers the stack holds (Mirrors), backward from a > it   *)
(* holds the stack itself (PreviousSound).  Over several lines it is a sum *)
(* of what each line leaves open (OpenSums), which is what the whole text  *)
(* leaves open (BetweenNet).                                               *)
(*                                                                         *)
(* The conditions open above a line are counted (Levels); the stack of     *)
(* scopes holds, for each of them, the scope of the branch that began last *)
(* (ScopesHeld), and of all branches around a line that is the innermost   *)
(* one (BranchIsLast).                                                     *)
(*                                                                         *)
(* The blocks open above a line are those of the lines kept above it       *)
(* (NestingHeld), and the stacks kept for a condition are those of the     *)
(* lines kept above its first line and above its second branch             *)
(* (ConditionsHeld).  What a line changes in the lines kept is one step    *)
(* back, to such a line, and itself (KeptOther, KeptElse, KeptEndif).      *)
(***************************************************************************)
EXTENDS CppLintProofs

-----------------------------------------------------------------------------
(* The searches for brackets, one token after the other.                   *)

\* A run of each search down its text: its state before the first token and behind each.
NestRun(r, text, len, kinds) ==
  r[0] = <<>> /\ \A i \in 1 .. len : r[i] = Nest(kinds, r[i - 1], text[i])
NestReach(text, kinds, len) ==
  \E r : /\ r[0] = <<>>
         /\ \A i \in 1 .. len : r[i] = Nest(kinds, r[i - 1], text[i])
         /\ WellNested(text, kinds) <=> r[len] = <<>>

NestFolds(g, text, kinds) ==
  g = [S \in SUBSET DOMAIN text |->
         IF S = {} THEN <<>> ELSE Nest(kinds, g[S \ {Max(S)}], text[Max(S)])]

LEMMA NestUnfold ==
  ASSUME NEW text, NEW kinds
  PROVE  WellNested(text, kinds) <=> (CHOOSE g : NestFolds(g, text, kinds))[DOMAIN text] = <<>>
  BY Zenon DEF WellNested, FoldLeft, MapThenFoldSet, NestFolds, Nest

LEMMA NestSteps ==
  ASSUME NEW text, NEW kinds, NEW len \in Nat, DOMAIN text = 1 .. len
  PROVE  NestReach(text, kinds, len)
<1> DEFINE c == CHOOSE g : NestFolds(g, text, kinds)
           p == kinds
           base == <<>>
           text_ == text
<1>1. DOMAIN text_ = 1 .. len
  OBVIOUS
<1>2. \A acc, e : Fold("nested", p, acc, e) = Nest(kinds, acc, e)
  BY DEF Fold
<1>3. ASSUME NEW g PROVE NestFolds(g, text, kinds) <=> Folds(g, "nested", p, base, text_, len)
  <2> DEFINE x == [S \in SUBSET DOMAIN text_ |->
                     IF S = {} THEN base ELSE Nest(kinds, g[S \ {Max(S)}], text_[Max(S)])]
             y == [S \in SUBSET (1 .. len) |->
                     IF S = {} THEN base ELSE Fold("nested", p, g[S \ {Max(S)}], text_[Max(S)])]
  <2>1. NestFolds(g, text, kinds) <=> g = x
    BY DEF NestFolds
  <2>2. Folds(g, "nested", p, base, text_, len) <=> g = y
    BY DEF Folds
  <2>3. \A S \in SUBSET (1 .. len) : x[S] = y[S]
    <3> HIDE DEF p, base, text_
    <3>1. QED
      BY <1>1, <1>2
  <2>4. x = y
    <3> HIDE DEF p, base, text_
    <3>1. QED
      BY <1>1, <2>3
  <2> HIDE DEF x, y
  <2>5. QED
    BY <2>1, <2>2, <2>4
<1>4. WellNested(text, kinds) <=> c[1 .. len] = <<>>
  BY <1>1, NestUnfold
<1> HIDE DEF p, base, text_
<1>5. \E g : Folds(g, "nested", p, base, text_, len)
  BY FoldExists
<1>6. \E g : NestFolds(g, text, kinds)
  BY <1>3, <1>5
<1>7. NestFolds(c, text, kinds)
  <2> DEFINE P(g) == NestFolds(g, text, kinds)
  <2>1. \E g : P(g)
    BY <1>6
  <2> HIDE DEF P
  <2>2. P(CHOOSE g : P(g))
    BY <2>1, Zenon
  <2>3. QED
    BY <2>2 DEF P
<1> HIDE DEF c
<1>8. Folds(c, "nested", p, base, text_, len)
  BY <1>3, <1>7
<1>9. Stepwise("nested", p, base, text_, len, c[1 .. len])
  BY <1>8, FoldSteps
<1>10. PICK r : /\ r[0] = base /\ r[len] = c[1 .. len]
               /\ \A i \in 1 .. len : r[i] = Fold("nested", p, r[i - 1], text_[i])
  BY <1>9, Zenon DEF Stepwise
<1>11. \A i \in 1 .. len : r[i] = Nest(kinds, r[i - 1], text_[i])
  BY <1>2, <1>10, Zenon
<1>12. WellNested(text, kinds) <=> r[len] = <<>>
  BY <1>4, <1>10
<1>13. r[0] = <<>>
  BY <1>10 DEF base
<1>14. \A i \in 1 .. len : r[i] = Nest(kinds, r[i - 1], text[i])
  BY <1>11 DEF text_
<1>15. QED
  BY <1>12, <1>13, <1>14, Zenon DEF NestReach

NextReach(text, len) ==
  \E r : /\ r[0] = Undecided(<<"<">>)
         /\ \A i \in 1 .. len : r[i] = NextStep(r[i - 1], text[i])
         /\ FindNextMatchingAngleBracket(text) <=> r[len].verdict # "no"

NextFolds(g, text) ==
  g = [S \in SUBSET DOMAIN text |->
         IF S = {} THEN Undecided(<<"<">>) ELSE NextStep(g[S \ {Max(S)}], text[Max(S)])]

LEMMA NextUnfold ==
  ASSUME NEW text
  PROVE  FindNextMatchingAngleBracket(text) <=> ((CHOOSE g : NextFolds(g, text))[DOMAIN text]).verdict # "no"
  BY Zenon DEF FindNextMatchingAngleBracket, FoldLeft, MapThenFoldSet, NextFolds, NextStep

LEMMA NextSteps ==
  ASSUME NEW text, NEW len \in Nat, DOMAIN text = 1 .. len
  PROVE  NextReach(text, len)
<1> DEFINE c == CHOOSE g : NextFolds(g, text)
           p == <<>>
           base == Undecided(<<"<">>)
           text_ == text
<1>1. DOMAIN text_ = 1 .. len
  OBVIOUS
<1>2. \A acc, e : Fold("next", p, acc, e) = NextStep(acc, e)
  BY DEF Fold
<1>3. ASSUME NEW g PROVE NextFolds(g, text) <=> Folds(g, "next", p, base, text_, len)
  <2> DEFINE x == [S \in SUBSET DOMAIN text_ |->
                     IF S = {} THEN base ELSE NextStep(g[S \ {Max(S)}], text_[Max(S)])]
             y == [S \in SUBSET (1 .. len) |->
                     IF S = {} THEN base ELSE Fold("next", p, g[S \ {Max(S)}], text_[Max(S)])]
  <2>1. NextFolds(g, text) <=> g = x
    BY DEF NextFolds
  <2>2. Folds(g, "next", p, base, text_, len) <=> g = y
    BY DEF Folds
  <2>3. \A S \in SUBSET (1 .. len) : x[S] = y[S]
    <3> HIDE DEF p, base, text_
    <3>1. QED
      BY <1>1, <1>2
  <2>4. x = y
    <3> HIDE DEF p, base, text_
    <3>1. QED
      BY <1>1, <2>3
  <2> HIDE DEF x, y
  <2>5. QED
    BY <2>1, <2>2, <2>4
<1>4. FindNextMatchingAngleBracket(text) <=> (c[1 .. len]).verdict # "no"
  BY <1>1, NextUnfold
<1> HIDE DEF p, base, text_
<1>5. \E g : Folds(g, "next", p, base, text_, len)
  BY FoldExists
<1>6. \E g : NextFolds(g, text)
  BY <1>3, <1>5
<1>7. NextFolds(c, text)
  <2> DEFINE P(g) == NextFolds(g, text)
  <2>1. \E g : P(g)
    BY <1>6
  <2> HIDE DEF P
  <2>2. P(CHOOSE g : P(g))
    BY <2>1, Zenon
  <2>3. QED
    BY <2>2 DEF P
<1> HIDE DEF c
<1>8. Folds(c, "next", p, base, text_, len)
  BY <1>3, <1>7
<1>9. Stepwise("next", p, base, text_, len, c[1 .. len])
  BY <1>8, FoldSteps
<1>10. PICK r : /\ r[0] = base /\ r[len] = c[1 .. len]
               /\ \A i \in 1 .. len : r[i] = Fold("next", p, r[i - 1], text_[i])
  BY <1>9, Zenon DEF Stepwise
<1>11. \A i \in 1 .. len : r[i] = NextStep(r[i - 1], text_[i])
  BY <1>2, <1>10, Zenon
<1>12. FindNextMatchingAngleBracket(text) <=> (r[len]).verdict # "no"
  BY <1>4, <1>10
<1>13. r[0] = Undecided(<<"<">>)
  BY <1>10 DEF base
<1>14. \A i \in 1 .. len : r[i] = NextStep(r[i - 1], text[i])
  BY <1>11 DEF text_
<1>15. QED
  BY <1>12, <1>13, <1>14, Zenon DEF NextReach

PreviousReach(text, len) ==
  \E r : /\ r[0] = Undecided(<<">">>)
         /\ \A i \in 1 .. len : r[i] = PreviousStep(r[i - 1], Reverse(text)[i])
         /\ FindPreviousMatchingAngleBracket(text) <=> r[len].verdict = "yes"

PreviousFolds(g, text) ==
  g = [S \in SUBSET DOMAIN Reverse(text) |->
         IF S = {} THEN Undecided(<<">">>) ELSE PreviousStep(g[S \ {Max(S)}], Reverse(text)[Max(S)])]

LEMMA PreviousUnfold ==
  ASSUME NEW text
  PROVE  FindPreviousMatchingAngleBracket(text) <=> ((CHOOSE g : PreviousFolds(g, text))[DOMAIN Reverse(text)]).verdict = "yes"
  BY Zenon DEF FindPreviousMatchingAngleBracket, FoldLeft, MapThenFoldSet, PreviousFolds, PreviousStep

LEMMA PreviousSteps ==
  ASSUME NEW text, NEW len \in Nat, DOMAIN Reverse(text) = 1 .. len
  PROVE  PreviousReach(text, len)
<1> DEFINE c == CHOOSE g : PreviousFolds(g, text)
           p == <<>>
           base == Undecided(<<">">>)
           text_ == Reverse(text)
<1>1. DOMAIN text_ = 1 .. len
  OBVIOUS
<1>2. \A acc, e : Fold("previous", p, acc, e) = PreviousStep(acc, e)
  BY DEF Fold
<1>3. ASSUME NEW g PROVE PreviousFolds(g, text) <=> Folds(g, "previous", p, base, text_, len)
  <2> DEFINE x == [S \in SUBSET DOMAIN text_ |->
                     IF S = {} THEN base ELSE PreviousStep(g[S \ {Max(S)}], text_[Max(S)])]
             y == [S \in SUBSET (1 .. len) |->
                     IF S = {} THEN base ELSE Fold("previous", p, g[S \ {Max(S)}], text_[Max(S)])]
  <2>1. PreviousFolds(g, text) <=> g = x
    BY DEF PreviousFolds
  <2>2. Folds(g, "previous", p, base, text_, len) <=> g = y
    BY DEF Folds
  <2>3. \A S \in SUBSET (1 .. len) : x[S] = y[S]
    <3> HIDE DEF p, base, text_
    <3>1. QED
      BY <1>1, <1>2
  <2>4. x = y
    <3> HIDE DEF p, base, text_
    <3>1. QED
      BY <1>1, <2>3
  <2> HIDE DEF x, y
  <2>5. QED
    BY <2>1, <2>2, <2>4
<1>4. FindPreviousMatchingAngleBracket(text) <=> (c[1 .. len]).verdict = "yes"
  BY <1>1, PreviousUnfold
<1> HIDE DEF p, base, text_
<1>5. \E g : Folds(g, "previous", p, base, text_, len)
  BY FoldExists
<1>6. \E g : PreviousFolds(g, text)
  BY <1>3, <1>5
<1>7. PreviousFolds(c, text)
  <2> DEFINE P(g) == PreviousFolds(g, text)
  <2>1. \E g : P(g)
    BY <1>6
  <2> HIDE DEF P
  <2>2. P(CHOOSE g : P(g))
    BY <2>1, Zenon
  <2>3. QED
    BY <2>2 DEF P
<1> HIDE DEF c
<1>8. Folds(c, "previous", p, base, text_, len)
  BY <1>3, <1>7
<1>9. Stepwise("previous", p, base, text_, len, c[1 .. len])
  BY <1>8, FoldSteps
<1>10. PICK r : /\ r[0] = base /\ r[len] = c[1 .. len]
               /\ \A i \in 1 .. len : r[i] = Fold("previous", p, r[i - 1], text_[i])
  BY <1>9, Zenon DEF Stepwise
<1>11. \A i \in 1 .. len : r[i] = PreviousStep(r[i - 1], text_[i])
  BY <1>2, <1>10, Zenon
<1>12. FindPreviousMatchingAngleBracket(text) <=> (r[len]).verdict = "yes"
  BY <1>4, <1>10
<1>13. r[0] = Undecided(<<">">>)
  BY <1>10 DEF base
<1>14. \A i \in 1 .. len : r[i] = PreviousStep(r[i - 1], Reverse(text)[i])
  BY <1>11 DEF text_
<1>15. QED
  BY <1>12, <1>13, <1>14, Zenon DEF PreviousReach

Behind(line, j) == [k \in 1 .. Len(line) - j |-> j + k]
Opened(line, j) == [stack |-> <<CLOSER[line[j]]>>, verdict |-> "none", at |-> 0]
InsideReach(line, j, len) ==
  \E r : /\ r[0] = Opened(line, j)
         /\ \A i \in 1 .. len : r[i] = InsideStep(line, r[i - 1], Behind(line, j)[i])
         /\ _GetTextInside(line, j) = IF r[len].verdict = "closed"
                                      THEN <<SubSeq(line, j + 1, r[len].at - 1)>> ELSE <<>>

InsideFolds(g, line, j) ==
  g = [S \in SUBSET DOMAIN Behind(line, j) |->
         IF S = {} THEN Opened(line, j) ELSE InsideStep(line, g[S \ {Max(S)}], Behind(line, j)[Max(S)])]

LEMMA InsideUnfold ==
  ASSUME NEW line, NEW j
  PROVE  _GetTextInside(line, j) =
           IF ((CHOOSE g : InsideFolds(g, line, j))[DOMAIN Behind(line, j)]).verdict = "closed"
           THEN <<SubSeq(line, j + 1, ((CHOOSE g : InsideFolds(g, line, j))[DOMAIN Behind(line, j)]).at - 1)>> ELSE <<>>
  BY Zenon DEF _GetTextInside, Behind, Opened, FoldLeft, MapThenFoldSet, InsideFolds, InsideStep

LEMMA InsideSteps ==
  ASSUME NEW line, NEW j, NEW len \in Nat, DOMAIN Behind(line, j) = 1 .. len
  PROVE  InsideReach(line, j, len)
<1> DEFINE c == CHOOSE g : InsideFolds(g, line, j)
           p == line
           base == Opened(line, j)
           text_ == Behind(line, j)
<1>1. DOMAIN text_ = 1 .. len
  OBVIOUS
<1>2. \A acc, e : Fold("inside", p, acc, e) = InsideStep(line, acc, e)
  BY DEF Fold
<1>3. ASSUME NEW g PROVE InsideFolds(g, line, j) <=> Folds(g, "inside", p, base, text_, len)
  <2> DEFINE x == [S \in SUBSET DOMAIN text_ |->
                     IF S = {} THEN base ELSE InsideStep(line, g[S \ {Max(S)}], text_[Max(S)])]
             y == [S \in SUBSET (1 .. len) |->
                     IF S = {} THEN base ELSE Fold("inside", p, g[S \ {Max(S)}], text_[Max(S)])]
  <2>1. InsideFolds(g, line, j) <=> g = x
    BY DEF InsideFolds
  <2>2. Folds(g, "inside", p, base, text_, len) <=> g = y
    BY DEF Folds
  <2>3. \A S \in SUBSET (1 .. len) : x[S] = y[S]
    <3> HIDE DEF p, base, text_
    <3>1. QED
      BY <1>1, <1>2
  <2>4. x = y
    <3> HIDE DEF p, base, text_
    <3>1. QED
      BY <1>1, <2>3
  <2> HIDE DEF x, y
  <2>5. QED
    BY <2>1, <2>2, <2>4
<1>4. _GetTextInside(line, j) =
           IF (c[1 .. len]).verdict = "closed"
           THEN <<SubSeq(line, j + 1, (c[1 .. len]).at - 1)>> ELSE <<>>
  BY <1>1, InsideUnfold
<1> HIDE DEF p, base, text_
<1>5. \E g : Folds(g, "inside", p, base, text_, len)
  BY FoldExists
<1>6. \E g : InsideFolds(g, line, j)
  BY <1>3, <1>5
<1>7. InsideFolds(c, line, j)
  <2> DEFINE P(g) == InsideFolds(g, line, j)
  <2>1. \E g : P(g)
    BY <1>6
  <2> HIDE DEF P
  <2>2. P(CHOOSE g : P(g))
    BY <2>1, Zenon
  <2>3. QED
    BY <2>2 DEF P
<1> HIDE DEF c
<1>8. Folds(c, "inside", p, base, text_, len)
  BY <1>3, <1>7
<1>9. Stepwise("inside", p, base, text_, len, c[1 .. len])
  BY <1>8, FoldSteps
<1>10. PICK r : /\ r[0] = base /\ r[len] = c[1 .. len]
               /\ \A i \in 1 .. len : r[i] = Fold("inside", p, r[i - 1], text_[i])
  BY <1>9, Zenon DEF Stepwise
<1>11. \A i \in 1 .. len : r[i] = InsideStep(line, r[i - 1], text_[i])
  BY <1>2, <1>10, Zenon
<1>12. _GetTextInside(line, j) =
           IF (r[len]).verdict = "closed"
           THEN <<SubSeq(line, j + 1, (r[len]).at - 1)>> ELSE <<>>
  BY <1>4, <1>10
<1>13. r[0] = Opened(line, j)
  BY <1>10 DEF base
<1>14. \A i \in 1 .. len : r[i] = InsideStep(line, r[i - 1], Behind(line, j)[i])
  BY <1>11 DEF text_
<1>15. QED
  BY <1>12, <1>13, <1>14, Zenon DEF InsideReach

-----------------------------------------------------------------------------
(* A stack over a text, and what a mismatch does to it.                    *)

LEMMA ConcatParts ==
  ASSUME NEW s, IsSeq(s), NEW t, IsSeq(t)
  PROVE  /\ \A i \in 1 .. Len(s) : (s \o t)[i] = s[i]
         /\ \A i \in 1 .. Len(t) : (s \o t)[Len(s) + i] = t[i]
<1> DEFINE S == Range(s) \cup Range(t)
           u == s \o t
<1>1. s \in Seq(S) /\ t \in Seq(S)
  <2>1. s \in Seq(Range(s)) /\ t \in Seq(Range(t))
    BY DEF IsSeq
  <2>2. QED
    BY <2>1, SeqMonotonic
<1>2. \A i \in 1 .. Len(s) + Len(t) : u[i] = IF i <= Len(s) THEN s[i] ELSE t[i - Len(s)]
  BY <1>1, ConcatProperties
<1>3. Len(s) \in Nat /\ Len(t) \in Nat
  BY IsSeqDomain
<1> HIDE DEF u
<1>4. \A i \in 1 .. Len(s) : u[i] = s[i]
  BY <1>2, <1>3
<1>5. ASSUME NEW i \in 1 .. Len(t) PROVE u[Len(s) + i] = t[i]
  <2>1. PICK k \in 1 .. Len(s) + Len(t) : k = Len(s) + i
    BY <1>3
  <2>2. ~(k <= Len(s)) /\ k - Len(s) = i
    BY <1>3, <2>1
  <2>3. QED
    BY <1>2, <2>1, <2>2
<1>6. QED
  BY <1>4, <1>5 DEF u

LEMMA EmptyLen == ASSUME NEW s, IsSeq(s) PROVE Len(s) \in Nat /\ (s = <<>> <=> Len(s) = 0)
<1>1. s \in Seq(Range(s))
  BY DEF IsSeq
<1>2. Len(s) \in Nat /\ (s # <<>> => Len(s) \in Nat \ {0}) /\ Len(<<>>) = 0
  BY <1>1, EmptySeq, LenProperties
<1>3. QED
  BY <1>2

LEMMA FrontAny ==
  ASSUME NEW s, IsSeq(s), s # <<>>
  PROVE  /\ IsSeq(Front(s)) /\ Front_(s) = Front(s)
         /\ Len(s) \in Nat /\ Len(s) >= 1 /\ Len(Front(s)) = Len(s) - 1
         /\ \A i \in 1 .. Len(s) - 1 : Front(s)[i] = s[i]
<1>1. Len(s) \in Nat /\ Len(s) # 0
  BY EmptyLen
<1>2. PICK m \in Nat : Len(s) = m + 1
  BY <1>1
<1>3. Front(s) = SubSeq(s, 1, m) /\ Front_(s) = SubSeq(s, 1, m)
  <2>1. Len(s) - 1 = m
    BY <1>2
  <2>2. QED
    BY <2>1 DEF Front, Front_
<1>4. /\ IsSeq(SubSeq(s, 1, m))
      /\ Len(SubSeq(s, 1, m)) = IF 1 <= m THEN m - 1 + 1 ELSE 0
      /\ \A i \in 1 .. m - 1 + 1 : SubSeq(s, 1, m)[i] = s[1 + i - 1]
  BY SubSeqAny
<1> DEFINE f == SubSeq(s, 1, m)
<1>5. IsSeq(f) /\ Len(f) = IF 1 <= m THEN m - 1 + 1 ELSE 0
  BY <1>4
<1>6. \A i \in 1 .. m - 1 + 1 : f[i] = s[1 + i - 1]
  BY <1>4
<1> HIDE DEF f
<1>7. Len(f) = m
  BY <1>5
<1>8. ASSUME NEW i \in 1 .. m PROVE f[i] = s[i]
  <2>1. i \in 1 .. m - 1 + 1 /\ 1 + i - 1 = i
    OBVIOUS
  <2>2. QED
    BY <1>6, <2>1
<1>9. Front(s) = f /\ Front_(s) = f
  BY <1>3 DEF f
<1>10. QED
  BY <1>1, <1>2, <1>5, <1>7, <1>8, <1>9

\* WellNested goes by the last stack of any run through the text.
LEMMA NestIs ==
  ASSUME NEW text, NEW kinds, NEW len \in Nat, DOMAIN text = 1 .. len,
         NEW r, NestRun(r, text, len, kinds)
  PROVE  WellNested(text, kinds) <=> r[len] = <<>>
<1>1. NestReach(text, kinds, len)
  BY NestSteps
<1>2. PICK q : /\ q[0] = <<>>
               /\ \A i \in 1 .. len : q[i] = Nest(kinds, q[i - 1], text[i])
               /\ WellNested(text, kinds) <=> q[len] = <<>>
  BY <1>1, Zenon DEF NestReach
<1>3. r[0] = <<>> /\ \A i \in 1 .. len : r[i] = Nest(kinds, r[i - 1], text[i])
  BY DEF NestRun
<1> DEFINE N == {m \in Nat : m <= len => r[m] = q[m]}
<1>4. 0 \in N
  BY <1>2, <1>3
<1>5. ASSUME NEW m \in Nat, m \in N PROVE m + 1 \in N
  <2>1. ASSUME m + 1 <= len PROVE r[m + 1] = q[m + 1]
    <3>1. m + 1 \in 1 .. len /\ (m + 1) - 1 = m /\ m <= len
      BY <2>1
    <3>2. r[m] = q[m]
      BY <1>5, <3>1
    <3>3. r[m + 1] = Nest(kinds, r[m], text[m + 1]) /\ q[m + 1] = Nest(kinds, q[m], text[m + 1])
      BY <1>2, <1>3, <3>1
    <3>4. QED
      BY <3>2, <3>3
  <2>2. QED
    BY <2>1
<1> HIDE DEF N
<1>6. Nat \subseteq N
  BY <1>4, <1>5, NatSetInduction
<1>7. r[len] = q[len]
  BY <1>6 DEF N
<1>8. QED
  BY <1>2, <1>7

LEMMA NestRunExists ==
  ASSUME NEW text, NEW kinds, NEW len \in Nat, DOMAIN text = 1 .. len
  PROVE  \E r : NestRun(r, text, len, kinds)
<1>1. NestReach(text, kinds, len)
  BY NestSteps
<1>2. QED
  BY <1>1, Zenon DEF NestReach, NestRun

LEMMA NestSeq ==
  ASSUME NEW kinds, NEW q, IsSeq(q), NEW t
  PROVE  IsSeq(Nest(kinds, q, t))
<1>1. IsSeq(Append(q, Pair[t]))
  BY AppendAny
<1>2. ASSUME q # <<>> PROVE IsSeq(Front_(q))
  BY <1>2, FrontAny
<1>3. IsSeq(<<"mismatch">> \o q)
  BY SingleAny, ConcatAny
<1>4. QED
  BY <1>1, <1>2, <1>3, Zenon DEF Nest

\* A stack that holds a mismatch keeps it.
Wrong(q) == IsSeq(q) /\ q # <<>> /\ q[1] = "mismatch"

LEMMA MismatchIsWrong ==
  ASSUME NEW q, IsSeq(q)
  PROVE  Wrong(<<"mismatch">> \o q)
<1> DEFINE u == <<"mismatch">> \o q
           o == <<"mismatch">>
<1>1. IsSeq(o) /\ Len(o) = 1 /\ o[1] = "mismatch"
  BY SingleAny
<1>2. IsSeq(o \o q) /\ Len(o \o q) = Len(o) + Len(q) /\ Len(q) \in Nat
  BY <1>1, ConcatAny
<1>3. (o \o q)[1] = o[1]
  BY <1>1, ConcatParts
<1>4. IsSeq(u) /\ Len(u) # 0 /\ u[1] = "mismatch"
  BY <1>1, <1>2, <1>3
<1> HIDE DEF u
<1>5. u # <<>>
  BY <1>4, EmptyLen
<1>6. QED
  BY <1>4, <1>5 DEF Wrong, u

Brackets == {"(", "[", "{", "<"}
LEMMA PairIs ==
  /\ DOMAIN CLOSER = {"(", "[", "{"}
  /\ CLOSER["("] = ")" /\ CLOSER["["] = "]" /\ CLOSER["{"] = "}"
  /\ Pair["("] = ")" /\ Pair["["] = "]" /\ Pair["{"] = "}" /\ Pair["<"] = ">"
<1>1. /\ DOMAIN CLOSER = {"(", "[", "{"}
      /\ CLOSER["("] = ")" /\ CLOSER["["] = "]" /\ CLOSER["{"] = "}"
  BY DEF CLOSER
<1>2. \A c \in {"(", "[", "{", "<"} : Pair[c] = IF c = "<" THEN ">" ELSE CLOSER[c]
  BY DEF Pair
<1>3. QED
  BY <1>1, <1>2

LEMMA WrongStays ==
  ASSUME NEW kinds, kinds \subseteq Brackets, NEW q, Wrong(q), NEW t
  PROVE  Wrong(Nest(kinds, q, t))
<1>1. IsSeq(q) /\ q # <<>> /\ q[1] = "mismatch"
  BY DEF Wrong
<1>2. Len(q) \in Nat /\ Len(q) >= 1 /\ Last(q) = q[Len(q)]
  BY <1>1, FrontAny, LastOf
<1> DEFINE a == Append(q, Pair[t])
           f == Front_(q)
<1>3. Wrong(a)
  <2>1. IsSeq(a) /\ Len(a) = Len(q) + 1 /\ \A i \in 1 .. Len(q) : a[i] = q[i]
    BY <1>1, AppendAny
  <2> HIDE DEF a
  <2>2. Len(a) # 0 /\ a[1] = q[1]
    BY <1>2, <2>1
  <2>3. a # <<>>
    BY <2>1, <2>2, EmptyLen
  <2>4. QED
    BY <1>1, <2>1, <2>2, <2>3 DEF Wrong
<1>4. ASSUME t \in {Pair[c] : c \in kinds}, Last(q) = t PROVE Wrong(f)
  <2>1. IsSeq(f) /\ Len(f) = Len(q) - 1 /\ \A i \in 1 .. Len(q) - 1 : f[i] = q[i]
    <3>1. Front_(q) = Front(q)
      BY <1>1, FrontAny
    <3>2. QED
      BY <1>1, <3>1, FrontAny
  <2> HIDE DEF f
  <2>2. t # "mismatch"
    BY <1>4, PairIs DEF Brackets
  <2>3. Len(q) # 1
    BY <1>1, <1>2, <1>4, <2>2
  <2>4. Len(f) # 0 /\ f[1] = q[1]
    BY <1>2, <2>1, <2>3
  <2>5. f # <<>>
    BY <2>1, <2>4, EmptyLen
  <2>6. QED
    BY <1>1, <2>1, <2>4, <2>5 DEF Wrong
<1>5. Wrong(<<"mismatch">> \o q)
  BY <1>1, MismatchIsWrong
<1> HIDE DEF a, f
<1>6. Nest(kinds, q, t) \in {a, f, <<"mismatch">> \o q, q}
      /\ (Nest(kinds, q, t) = f => Wrong(f) \/ Nest(kinds, q, t) \in {a, <<"mismatch">> \o q, q})
  BY <1>4, Zenon DEF Nest, a, f
<1>7. QED
  BY <1>3, <1>5, <1>6

-----------------------------------------------------------------------------
(* The search within a line, beside the stack over the text behind its     *)
(* bracket.                                                                *)

\* A stack q over the text behind a bracket, and the stack st of a search that
\* started at the bracket, whose closing one is c.
Expects(q, ends) == IsSeq(q) /\ \A x \in 1 .. Len(q) : q[x] \in ends
Over(st, c, q) == /\ IsSeq(st) /\ Len(st) = Len(q) + 1 /\ st[1] = c
                  /\ \A x \in 1 .. Len(q) : st[x + 1] = q[x]
Looking(st) == [stack |-> st, verdict |-> "none", at |-> 0]
Round == {"(", "[", "{"}
RoundEnds == {")", "]", "}"}

LEMMA OverLast ==
  ASSUME NEW st, NEW c, NEW q, NEW ends, Expects(q, ends), Over(st, c, q)
  PROVE  /\ st # <<>> /\ Len(q) \in Nat /\ Len(st) = Len(q) + 1
         /\ Last(st) = IF q = <<>> THEN c ELSE Last(q)
         /\ (q = <<>> <=> Len(q) = 0) /\ (Len(st) = 1 <=> q = <<>>)
<1>1. /\ IsSeq(q) /\ IsSeq(st) /\ Len(st) = Len(q) + 1 /\ st[1] = c
      /\ \A x \in 1 .. Len(q) : st[x + 1] = q[x]
  BY DEF Expects, Over
<1>2. Len(q) \in Nat /\ (q = <<>> <=> Len(q) = 0)
  BY <1>1, EmptyLen
<1>3. st # <<>>
  BY <1>1, <1>2, EmptyLen
<1>4. Last(st) = st[Len(st)] /\ (q # <<>> => Last(q) = q[Len(q)])
  BY <1>1, <1>3, LastOf
<1>5. Len(st) = 1 <=> q = <<>>
  BY <1>1, <1>2
<1>6. CASE q = <<>>
  BY <1>1, <1>2, <1>3, <1>4, <1>6, <1>5
<1>7. CASE q # <<>>
  <2>1. Len(q) \in 1 .. Len(q)
    BY <1>2, <1>7
  <2>2. st[Len(q) + 1] = q[Len(q)]
    BY <1>1, <2>1
  <2>3. QED
    BY <1>1, <1>2, <1>3, <1>4, <1>7, <1>5, <2>2
<1>8. QED
  BY <1>6, <1>7

LEMMA ExpectsLast ==
  ASSUME NEW q, NEW ends, Expects(q, ends), q # <<>>
  PROVE  Last(q) \in ends
<1>1. IsSeq(q) /\ \A x \in 1 .. Len(q) : q[x] \in ends
  BY DEF Expects
<1>2. Last(q) = q[Len(q)] /\ Len(q) \in DOMAIN q /\ DOMAIN q = 1 .. Len(q)
  BY <1>1, LastOf, IsSeqDomain
<1>3. QED
  BY <1>1, <1>2

LEMMA ExpectsMore ==
  ASSUME NEW q, NEW ends, Expects(q, ends), NEW e \in ends
  PROVE  Expects(Append(q, e), ends)
<1>1. IsSeq(q) /\ \A x \in 1 .. Len(q) : q[x] \in ends
  BY DEF Expects
<1> DEFINE a == Append(q, e)
<1>2. IsSeq(a) /\ Len(q) \in Nat /\ Len(a) = Len(q) + 1 /\ a[Len(q) + 1] = e
      /\ \A i \in 1 .. Len(q) : a[i] = q[i]
  BY <1>1, AppendAny
<1> HIDE DEF a
<1>3. \A x \in 1 .. Len(a) : x \in 1 .. Len(q) \/ x = Len(q) + 1
  BY <1>2
<1>4. Expects(a, ends)
  BY <1>1, <1>2, <1>3 DEF Expects
<1>5. QED
  BY <1>4 DEF a

LEMMA PushOver ==
  ASSUME NEW st, NEW c, NEW q, NEW ends, Expects(q, ends), Over(st, c, q), NEW e \in ends
  PROVE  Expects(Append(q, e), ends) /\ Over(Append(st, e), c, Append(q, e))
<1>1. /\ IsSeq(q) /\ IsSeq(st) /\ Len(st) = Len(q) + 1 /\ st[1] = c
      /\ \A x \in 1 .. Len(q) : st[x + 1] = q[x]
      /\ \A x \in 1 .. Len(q) : q[x] \in ends
  BY DEF Expects, Over
<1> DEFINE a == Append(q, e)
           b == Append(st, e)
<1>2. IsSeq(a) /\ Len(q) \in Nat /\ Len(a) = Len(q) + 1 /\ a[Len(q) + 1] = e
      /\ \A i \in 1 .. Len(q) : a[i] = q[i]
  BY <1>1, AppendAny
<1>3. IsSeq(b) /\ Len(b) = Len(st) + 1 /\ b[Len(st) + 1] = e
      /\ \A i \in 1 .. Len(st) : b[i] = st[i]
  BY <1>1, AppendAny
<1> HIDE DEF a, b
<1>4. \A x \in 1 .. Len(a) : x \in 1 .. Len(q) \/ x = Len(q) + 1
  BY <1>2
<1>5. Expects(a, ends)
  BY ExpectsMore DEF a
<1>6. Over(b, c, a)
  <2>1. Len(b) = Len(a) + 1 /\ b[1] = c
    BY <1>1, <1>2, <1>3
  <2>2. ASSUME NEW x \in 1 .. Len(a) PROVE b[x + 1] = a[x]
    <3>1. CASE x \in 1 .. Len(q)
      <4>1. x + 1 \in 1 .. Len(st)
        BY <1>1, <1>2, <3>1
      <4>2. QED
        BY <1>1, <1>2, <1>3, <3>1, <4>1
    <3>2. CASE x = Len(q) + 1
      BY <1>1, <1>2, <1>3, <3>2
    <3>3. QED
      BY <1>4, <3>1, <3>2
  <2>3. QED
    BY <1>3, <2>1, <2>2 DEF Over
<1>7. QED
  BY <1>5, <1>6 DEF a, b

LEMMA PopOver ==
  ASSUME NEW st, NEW c, NEW q, NEW ends, Expects(q, ends), Over(st, c, q), q # <<>>
  PROVE  Expects(Front(q), ends) /\ Over(Front(st), c, Front(q))
<1>1. /\ IsSeq(q) /\ IsSeq(st) /\ Len(st) = Len(q) + 1 /\ st[1] = c
      /\ \A x \in 1 .. Len(q) : st[x + 1] = q[x]
      /\ \A x \in 1 .. Len(q) : q[x] \in ends
  BY DEF Expects, Over
<1>2. st # <<>>
  BY OverLast
<1> DEFINE a == Front(q)
           b == Front(st)
<1>3. IsSeq(a) /\ Len(q) \in Nat /\ Len(q) >= 1 /\ Len(a) = Len(q) - 1
      /\ \A i \in 1 .. Len(q) - 1 : a[i] = q[i]
  BY <1>1, FrontAny
<1>4. IsSeq(b) /\ Len(b) = Len(st) - 1
      /\ \A i \in 1 .. Len(st) - 1 : b[i] = st[i]
  BY <1>1, <1>2, FrontAny
<1> HIDE DEF a, b
<1>5. Expects(a, ends)
  <2>1. \A x \in 1 .. Len(a) : x \in 1 .. Len(q) - 1 /\ x \in 1 .. Len(q)
    BY <1>3
  <2>2. QED
    BY <1>1, <1>3, <2>1 DEF Expects
<1>6. Over(b, c, a)
  <2>1. Len(b) = Len(a) + 1
    BY <1>1, <1>3, <1>4
  <2>2. 1 \in 1 .. Len(st) - 1
    BY <1>1, <1>3
  <2>3. ASSUME NEW x \in 1 .. Len(a) PROVE b[x + 1] = a[x]
    <3>1. x \in 1 .. Len(q) - 1 /\ x \in 1 .. Len(q) /\ x + 1 \in 1 .. Len(st) - 1
      BY <1>1, <1>3
    <3>2. QED
      BY <1>1, <1>3, <1>4, <3>1
  <2>4. QED
    BY <1>1, <1>4, <2>1, <2>2, <2>3 DEF Over
<1>7. QED
  BY <1>5, <1>6 DEF a, b

\* One token of either search: the search has found the end where nothing is
\* open and the closing bracket stands, and else the stacks stay alike until
\* both see a mismatch.
StepAlike(run, next, c, q, qnext, t, at) ==
  \/ /\ q = <<>> /\ t = c /\ next.verdict = "closed" /\ next.at = at
  \/ /\ ~(q = <<>> /\ t = c)
     /\ \E st : next = Looking(st) /\ Expects(qnext, RoundEnds) /\ Over(st, c, qnext)
  \/ /\ ~(q = <<>> /\ t = c)
     /\ next.verdict = "mismatch" /\ Wrong(qnext)

LEMMA InsideStepIs ==
  ASSUME NEW line, NEW k, NEW st, NEW c \in {")", "]", "}"}, NEW q, Expects(q, RoundEnds), Over(st, c, q)
  PROVE  StepAlike(Looking(st), InsideStep(line, Looking(st), k), c, q,
                   Nest(Round, q, line[k]), line[k], k)
<1> DEFINE t == line[k]
           run == Looking(st)
           next == InsideStep(line, run, k)
           qnext == Nest(Round, q, t)
           p == Pair[t]
<1>1. IsSeq(q) /\ IsSeq(st)
  BY DEF Expects, Over
<1>2. /\ st # <<>> /\ Len(q) \in Nat /\ Len(st) = Len(q) + 1
      /\ Last(st) = IF q = <<>> THEN c ELSE Last(q)
      /\ (q = <<>> <=> Len(q) = 0) /\ (Len(st) = 1 <=> q = <<>>)
  BY OverLast
<1>3. run.stack = st /\ run.verdict = "none" /\ run.at = 0
  BY DEF Looking
<1>4. q # <<>> => Last(q) \in {")", "]", "}"}
  BY ExpectsLast DEF RoundEnds
<1>5. Last(st) \in {")", "]", "}"}
  BY <1>2, <1>4
<1>6. {Pair[b] : b \in Round} = {")", "]", "}"}
  BY PairIs DEF Round
<1>7. DOMAIN CLOSER = Round
  BY PairIs DEF Round
<1>8. next =
        CASE t = Last(st) ->
               IF Len(st) = 1
               THEN [stack |-> <<>>, verdict |-> "closed", at |-> k]
               ELSE [run EXCEPT !.stack = Front(@)]
          [] t # Last(st) /\ t \in {")", "]", "}"} -> [run EXCEPT !.verdict = "mismatch"]
          [] t \in DOMAIN CLOSER -> [run EXCEPT !.stack = Append(@, CLOSER[t])]
          [] OTHER -> run
  <2> HIDE DEF run
  <2>1. QED
    BY <1>3, Zenon DEF InsideStep
<1>9. qnext =
        CASE t \in Round -> Append(q, Pair[t])
          [] t \in {Pair[b] : b \in Round} ->
               IF q # <<>> /\ Last(q) = t THEN Front_(q) ELSE <<"mismatch">> \o q
          [] OTHER -> q
  BY Zenon DEF Nest
<1>10. CASE t = Last(st)
  <2>1. t \in {")", "]", "}"} /\ t \notin Round
    BY <1>5, <1>10 DEF Round
  <2>2. CASE q = <<>>
    <3>1. next = [stack |-> <<>>, verdict |-> "closed", at |-> k]
      <4>1. Len(st) = 1
        BY <1>2, <2>2
      <4>2. t \notin DOMAIN CLOSER
        BY <1>7, <2>1
      <4> HIDE DEF run, t, next, qnext
      <4>3. QED
        BY <1>8, <1>10, <4>1, <4>2, Zenon
    <3>2. t = c
      BY <1>2, <1>10, <2>2
    <3>3. next.verdict = "closed" /\ next.at = k
      <4> HIDE DEF next, run, t, qnext
      <4>1. QED
        BY <3>1
    <3> HIDE DEF next, t, qnext, run
    <3>4. StepAlike(run, next, c, q, qnext, t, k)
      BY <2>2, <3>2, <3>3 DEF StepAlike
    <3>5. QED
      BY <3>4 DEF next, t, qnext, run
  <2>3. CASE q # <<>>
    <3>1. next = [run EXCEPT !.stack = Front(@)]
      <4>1. Len(st) # 1
        BY <1>2, <2>3
      <4>2. t \notin DOMAIN CLOSER
        BY <1>7, <2>1
      <4> HIDE DEF run, t, next, qnext
      <4>3. QED
        BY <1>8, <1>10, <4>1, <4>2, Zenon
    <3>2. next = Looking(Front(st))
      BY <3>1 DEF Looking
    <3>3. qnext = Front(q)
      <4>1. Last(q) = t
        BY <1>2, <1>10, <2>3
      <4>2. Front_(q) = Front(q)
        BY <1>1, <2>3, FrontAny
      <4> HIDE DEF t, qnext
      <4>3. QED
        BY <1>6, <1>9, <2>1, <2>3, <4>1, <4>2
    <3>4. Expects(Front(q), RoundEnds) /\ Over(Front(st), c, Front(q))
      BY <2>3, PopOver
    <3> HIDE DEF next, t, qnext, run
    <3>5. StepAlike(run, next, c, q, qnext, t, k)
      BY <2>3, <3>2, <3>3, <3>4 DEF StepAlike
    <3>6. QED
      BY <3>5 DEF next, t, qnext, run
  <2>4. QED
    BY <2>2, <2>3
<1>11. CASE t # Last(st) /\ t \in {")", "]", "}"}
  <2>1. t \notin Round
    BY <1>11 DEF Round
  <2>2. next = [run EXCEPT !.verdict = "mismatch"]
    <3> HIDE DEF run, t, next, qnext
    <3>1. QED
      BY <1>7, <1>8, <1>11, <2>1
  <2>3. next.verdict = "mismatch"
    BY <2>2 DEF Looking
  <2>4. ~(q # <<>> /\ Last(q) = t) /\ ~(q = <<>> /\ t = c)
    BY <1>2, <1>11
  <2>5. qnext = <<"mismatch">> \o q
    <3> HIDE DEF t, qnext
    <3>1. QED
      BY <1>6, <1>9, <1>11, <2>1, <2>4
  <2>6. Wrong(<<"mismatch">> \o q)
    BY <1>1, MismatchIsWrong
  <2> HIDE DEF next, t, qnext, run
  <2>7. StepAlike(run, next, c, q, qnext, t, k)
    BY <2>3, <2>4, <2>5, <2>6 DEF StepAlike
  <2>8. QED
    BY <2>7 DEF next, t, qnext, run
<1>12. CASE t \in Round
  <2>1. t # Last(st) /\ t \notin {")", "]", "}"} /\ ~(q = <<>> /\ t = c)
    BY <1>5, <1>12 DEF Round
  <2>2. next = [run EXCEPT !.stack = Append(@, CLOSER[t])]
    <3> HIDE DEF run, t, next, qnext
    <3>1. QED
      BY <1>7, <1>8, <1>12, <2>1
  <2>3. CLOSER[t] = p /\ p \in RoundEnds
    BY <1>12, PairIs DEF Round, RoundEnds
  <2>4. next = Looking(Append(st, p))
    <3> HIDE DEF p, t, next
    <3>1. QED
      BY <2>2, <2>3 DEF Looking
  <2>5. qnext = Append(q, p)
    <3> HIDE DEF t, qnext
    <3>1. QED
      BY <1>9, <1>6, <1>12, <2>1
  <2>6. Expects(Append(q, p), RoundEnds) /\ Over(Append(st, p), c, Append(q, p))
    <3> HIDE DEF p
    <3>1. QED
      BY <2>3, PushOver
  <2> HIDE DEF next, t, qnext, run, p
  <2>7. StepAlike(run, next, c, q, qnext, t, k)
    BY <2>1, <2>4, <2>5, <2>6 DEF StepAlike
  <2>8. QED
    BY <2>7 DEF next, t, qnext, run
<1>13. CASE t # Last(st) /\ t \notin {")", "]", "}"} /\ t \notin Round
  <2>1. next = run
    <3> HIDE DEF run, t, next, qnext
    <3>1. QED
      BY <1>7, <1>8, <1>13
  <2>2. qnext = q
    <3> HIDE DEF t, qnext
    <3>1. QED
      BY <1>6, <1>9, <1>13
  <2>3. t # c \/ q # <<>>
    BY <1>2, <1>13
  <2> HIDE DEF next, t, qnext
  <2>4. StepAlike(run, next, c, q, qnext, t, k)
    BY <2>1, <2>2, <2>3 DEF StepAlike
  <2>5. QED
    BY <2>4 DEF next, t, qnext
<1>14. QED
  BY <1>10, <1>11, <1>12, <1>13

\* The closing bracket y tokens behind j is that of the one at j.
Ends(r, line, j, c, y) == r[y - 1] = <<>> /\ line[j + y] = c
Follows(run, r, line, j, c, x) ==
  \/ /\ \E st : run = Looking(st) /\ Expects(r[x], RoundEnds) /\ Over(st, c, r[x])
     /\ \A y \in 1 .. x : ~Ends(r, line, j, c, y)
  \/ run.verdict = "closed" /\ \E y \in 1 .. x : run.at = j + y /\ Ends(r, line, j, c, y)
  \/ /\ run.verdict = "mismatch" /\ Wrong(r[x])
     /\ \A y \in 1 .. x : ~Ends(r, line, j, c, y)

LEMMA FollowsStep ==
  ASSUME NEW run, NEW next, NEW r, NEW line, NEW j \in Nat, NEW c \in RoundEnds, NEW x \in Nat,
         Follows(run, r, line, j, c, x),
         next = InsideStep(line, run, j + (x + 1)),
         r[x + 1] = Nest(Round, r[x], line[j + (x + 1)])
  PROVE  Follows(next, r, line, j, c, x + 1)
<1> DEFINE before == \A y \in 1 .. x : ~Ends(r, line, j, c, y)
           k == j + (x + 1)
<1>1. \A y \in 1 .. x + 1 : y \in 1 .. x \/ y = x + 1
  OBVIOUS
<1>2. Ends(r, line, j, c, x + 1) <=> r[x] = <<>> /\ line[k] = c
  <2>1. (x + 1) - 1 = x
    OBVIOUS
  <2>2. QED
    BY <2>1 DEF Ends
<1>3. ASSUME NEW st, run = Looking(st), Expects(r[x], RoundEnds), Over(st, c, r[x]), before
      PROVE  Follows(next, r, line, j, c, x + 1)
  <2> DEFINE q == r[x]
             qnext == r[x + 1]
  <2>1. c \in {")", "]", "}"}
    BY DEF RoundEnds
  <2>2. StepAlike(run, next, c, q, qnext, line[k], k)
    BY <1>3, <2>1, InsideStepIs
  <2>3. CASE q = <<>> /\ line[k] = c /\ next.verdict = "closed" /\ next.at = k
    <3>1. x + 1 \in 1 .. x + 1 /\ Ends(r, line, j, c, x + 1)
      BY <1>2, <2>3
    <3>2. QED
      BY <2>3, <3>1 DEF Follows
  <2>4. ASSUME ~(q = <<>> /\ line[k] = c)
        PROVE  \A y \in 1 .. x + 1 : ~Ends(r, line, j, c, y)
    BY <1>1, <1>2, <1>3, <2>4
  <2>5. CASE /\ ~(q = <<>> /\ line[k] = c)
             /\ \E s : next = Looking(s) /\ Expects(qnext, RoundEnds) /\ Over(s, c, qnext)
    BY <2>4, <2>5 DEF Follows
  <2>6. CASE /\ ~(q = <<>> /\ line[k] = c) /\ next.verdict = "mismatch" /\ Wrong(qnext)
    BY <2>4, <2>6 DEF Follows
  <2> HIDE DEF q, qnext, k
  <2>7. QED
    BY <2>2, <2>3, <2>5, <2>6, Zenon DEF StepAlike
<1>4. ASSUME run.verdict # "none" PROVE next = run
  BY <1>4, Zenon DEF InsideStep
<1>5. ASSUME run.verdict = "closed", NEW y \in 1 .. x, run.at = j + y, Ends(r, line, j, c, y)
      PROVE  Follows(next, r, line, j, c, x + 1)
  <2>1. next = run /\ y \in 1 .. x + 1
    BY <1>4, <1>5
  <2>2. QED
    BY <1>5, <2>1 DEF Follows
<1>6. ASSUME run.verdict = "mismatch", Wrong(r[x]), before
      PROVE  Follows(next, r, line, j, c, x + 1)
  <2>1. next = run
    BY <1>4, <1>6
  <2>2. Round \subseteq Brackets
    BY DEF Round, Brackets
  <2>3. Wrong(r[x + 1])
    BY <1>6, <2>2, WrongStays
  <2>4. r[x] # <<>>
    BY <1>6 DEF Wrong
  <2>5. \A y \in 1 .. x + 1 : ~Ends(r, line, j, c, y)
    BY <1>1, <1>2, <1>6, <2>4
  <2>6. QED
    BY <1>6, <2>1, <2>3, <2>5 DEF Follows
<1>7. QED
  BY <1>3, <1>5, <1>6, Zenon DEF Follows

Nested(line, i, j) ==
  line[j] = CLOSER[line[i]] /\ WellNested(SubSeq(line, i + 1, j - 1), Round)
TextIsNested(line, i) ==
  LET text == _GetTextInside(line, i) IN
  IF text = <<>> THEN \A j \in i + 1 .. Len(line) : ~Nested(line, i, j)
  ELSE text = <<SubSeq(line, i + 1, i + Len(text[1]))>>
       /\ Nested(line, i, i + Len(text[1]) + 1)

LEMMA TextNested ==
  ASSUME NEW line, IsSeq(line), NEW j \in DOMAIN line, line[j] \in Round
  PROVE  TextIsNested(line, j)
<1> DEFINE text == After(line, j)
           c == CLOSER[line[j]]
           result == _GetTextInside(line, j)
<1>1. PICK total \in Nat : total = Len(line) /\ DOMAIN line = 1 .. total
  BY IsSeqDomain
<1>2. j \in Nat /\ j \in 0 .. total
  BY <1>1
<1>3. PICK len \in Nat : len = total - j
  BY <1>1, <1>2
<1>4. DOMAIN text = 1 .. len /\ \A x \in 1 .. len : text[x] = line[j + x]
  <2>1. /\ DOMAIN After(line, j) = 1 .. total - j
        /\ \A x \in 1 .. total - j : After(line, j)[x] = line[j + x]
    BY <1>1, <1>2, AfterAny
  <2>2. QED
    BY <1>3, <2>1
<1>5. c \in RoundEnds
  BY PairIs DEF Round, RoundEnds
<1>6. PICK r : NestRun(r, text, len, Round)
  BY <1>4, NestRunExists
<1>7. r[0] = <<>> /\ \A x \in 1 .. len : r[x] = Nest(Round, r[x - 1], text[x])
  BY <1>6 DEF NestRun
<1>8. DOMAIN Behind(line, j) = 1 .. len /\ \A x \in 1 .. len : Behind(line, j)[x] = j + x
  BY <1>1, <1>3 DEF Behind
<1>9. InsideReach(line, j, len)
  BY <1>8, InsideSteps
<1>10. PICK w : /\ w[0] = Opened(line, j)
                /\ \A x \in 1 .. len : w[x] = InsideStep(line, w[x - 1], Behind(line, j)[x])
                /\ result = IF w[len].verdict = "closed"
                            THEN <<SubSeq(line, j + 1, w[len].at - 1)>> ELSE <<>>
  BY <1>9, Zenon DEF InsideReach
<1> HIDE DEF text, c, result
<1>11. Follows(w[0], r, line, j, c, 0)
  <2>1. w[0] = Looking(<<c>>)
    BY <1>10 DEF Opened, Looking, c
  <2>2. Expects(<<>>, RoundEnds)
    BY EmptyAny DEF Expects
  <2>3. Over(<<c>>, c, <<>>)
    BY EmptyAny, SingleAny DEF Over
  <2>4. \A y \in 1 .. 0 : ~Ends(r, line, j, c, y)
    OBVIOUS
  <2>5. Expects(r[0], RoundEnds) /\ Over(<<c>>, c, r[0])
    BY <1>7, <2>2, <2>3
  <2>6. QED
    BY <2>1, <2>4, <2>5, Zenon DEF Follows
<1> DEFINE N == {m \in Nat : m <= len => Follows(w[m], r, line, j, c, m)}
<1>12. 0 \in N
  BY <1>11
<1>13. ASSUME NEW m \in Nat, m \in N PROVE m + 1 \in N
  <2>1. ASSUME m + 1 <= len PROVE Follows(w[m + 1], r, line, j, c, m + 1)
    <3>1. m + 1 \in 1 .. len /\ (m + 1) - 1 = m /\ m <= len
      BY <2>1
    <3>2. Follows(w[m], r, line, j, c, m)
      BY <1>13, <3>1
    <3>3. w[m + 1] = InsideStep(line, w[m], j + (m + 1))
      BY <1>8, <1>10, <3>1
    <3>4. r[m + 1] = Nest(Round, r[m], line[j + (m + 1)])
      BY <1>4, <1>7, <3>1
    <3>5. QED
      BY <1>2, <1>5, <3>2, <3>3, <3>4, FollowsStep
  <2>2. QED
    BY <2>1
<1> HIDE DEF N
<1>14. Nat \subseteq N
  BY <1>12, <1>13, NatSetInduction
<1>15. Follows(w[len], r, line, j, c, len)
  BY <1>14 DEF N
<1>16. ASSUME NEW y \in 1 .. len PROVE Nested(line, j, j + y) <=> Ends(r, line, j, c, y)
  <2> DEFINE part == SubSeq(line, j + 1, (j + y) - 1)
  <2>1. PICK m \in Nat : m = y - 1
    OBVIOUS
  <2>2. m <= len /\ (j + y) - 1 = j + m
    BY <1>2, <2>1
  <2>3. /\ IsSeq(part) /\ Len(part) = IF j + 1 <= j + m THEN j + m - (j + 1) + 1 ELSE 0
        /\ \A i \in 1 .. j + m - (j + 1) + 1 : part[i] = line[j + 1 + i - 1]
    BY <1>2, <2>2, SubSeqAny
  <2> HIDE DEF part
  <2>4. DOMAIN part = 1 .. m
    <3>1. Len(part) = m
      BY <1>2, <2>3
    <3>2. QED
      BY <2>3, <3>1, IsSeqDomain
  <2>5. \A i \in 1 .. m : part[i] = text[i]
    <3>1. \A i \in 1 .. m : /\ i \in 1 .. j + m - (j + 1) + 1 /\ j + 1 + i - 1 = j + i
                            /\ i \in 1 .. len
      BY <1>2, <2>2
    <3>2. QED
      BY <1>4, <2>3, <3>1
  <2>6. NestRun(r, part, m, Round)
    <3>1. \A i \in 1 .. m : i \in 1 .. len
      BY <2>2
    <3>2. QED
      BY <1>7, <2>5, <3>1 DEF NestRun
  <2>7. WellNested(part, Round) <=> r[m] = <<>>
    BY <2>4, <2>6, NestIs
  <2>8. QED
    BY <2>1, <2>7 DEF Nested, Ends, part, c
<1>17. CASE w[len].verdict = "closed"
  <2>1. PICK y \in 1 .. len : w[len].at = j + y /\ Ends(r, line, j, c, y)
    <3>1. \A st : Looking(st).verdict # "closed"
      BY DEF Looking
    <3>2. \E y \in 1 .. len : w[len].at = j + y /\ Ends(r, line, j, c, y)
      BY <1>15, <1>17, <3>1, Zenon DEF Follows
    <3>3. QED
      BY <3>2
  <2> DEFINE inside == SubSeq(line, j + 1, (j + y) - 1)
  <2>2. result = <<inside>>
    BY <1>10, <1>17, <2>1
  <2>3. Len(inside) = IF j + 1 <= (j + y) - 1 THEN (j + y) - 1 - (j + 1) + 1 ELSE 0
    <3>1. j + 1 \in Int /\ (j + y) - 1 \in Int
      BY <1>2
    <3>2. QED
      BY <3>1, SubSeqAny
  <2>4. Nested(line, j, j + y)
    BY <1>16, <2>1
  <2>5. SubSeq(line, j + 1, (j + y) - 1) = inside
    OBVIOUS
  <2> HIDE DEF inside
  <2>6. Len(inside) = y - 1 /\ j + Len(inside) = (j + y) - 1 /\ j + Len(inside) + 1 = j + y
    BY <1>2, <2>3
  <2>7. result # <<>> /\ result[1] = inside
    <3>1. IsSeq(<<inside>>) /\ Len(<<inside>>) = 1 /\ <<inside>>[1] = inside
      BY SingleAny
    <3>2. <<inside>> # <<>>
      BY <3>1, EmptyAny
    <3>3. QED
      BY <2>2, <3>1, <3>2
  <2>8. /\ result = <<SubSeq(line, j + 1, j + Len(result[1]))>>
        /\ Nested(line, j, j + Len(result[1]) + 1)
    BY <2>2, <2>4, <2>5, <2>6, <2>7
  <2>9. QED
    BY <2>7, <2>8, Zenon DEF TextIsNested, result
<1>18. CASE w[len].verdict # "closed"
  <2>1. \A y \in 1 .. len : ~Ends(r, line, j, c, y)
    BY <1>15, <1>18, Zenon DEF Follows
  <2>2. result = <<>>
    BY <1>10, <1>18
  <2>3. ASSUME NEW i \in j + 1 .. Len(line) PROVE ~Nested(line, j, i)
    <3>1. PICK y \in 1 .. len : i = j + y
      <4>1. i - j \in 1 .. len /\ i = j + (i - j)
        BY <1>1, <1>2, <1>3
      <4>2. QED
        BY <4>1
    <3>2. QED
      BY <1>16, <2>1, <3>1
  <2>4. QED
    BY <2>2, <2>3, Zenon DEF TextIsNested, result
<1>19. QED
  BY <1>17, <1>18

-----------------------------------------------------------------------------
(* Templates: the stack over the text between their brackets, beside the   *)
(* searches from either end.                                               *)

\* The arguments of templates.
Angled == {"<", "(", "["}
AngledEnds == {")", "]", ">"}

LEMMA AngledPairs == {Pair[c] : c \in Angled} = AngledEnds /\ Angled \cap AngledEnds = {}
                     /\ Angled \subseteq Brackets
  BY PairIs DEF Angled, AngledEnds, Brackets

\* One token of a text in which the brackets do match.
Matches(q, next, t) ==
  \/ t \in Angled /\ next = Append(q, Pair[t])
  \/ t \in AngledEnds /\ q # <<>> /\ Last(q) = t /\ next = Front(q)
  \/ t \notin Angled /\ t \notin AngledEnds /\ next = q

LEMMA RunMatches ==
  ASSUME NEW text, NEW len \in Nat, NEW r, NestRun(r, text, len, Angled), r[len] = <<>>
  PROVE  /\ \A x \in 0 .. len : Expects(r[x], AngledEnds)
         /\ \A x \in 1 .. len : Matches(r[x - 1], r[x], text[x])
<1>1. r[0] = <<>> /\ \A x \in 1 .. len : r[x] = Nest(Angled, r[x - 1], text[x])
  BY DEF NestRun
<1>2. ASSUME NEW x \in 0 .. len PROVE ~Wrong(r[x])
  <2> SUFFICES ASSUME Wrong(r[x]) PROVE FALSE
    OBVIOUS
  <2> DEFINE N == {m \in Nat : x <= m /\ m <= len => Wrong(r[m])}
  <2>1. 0 \in N
    OBVIOUS
  <2>2. ASSUME NEW m \in Nat, m \in N PROVE m + 1 \in N
    <3>1. ASSUME x <= m + 1, m + 1 <= len PROVE Wrong(r[m + 1])
      <4>1. CASE x = m + 1
        BY <4>1
      <4>2. CASE x # m + 1
        <5>1. x <= m /\ m <= len /\ m + 1 \in 1 .. len /\ (m + 1) - 1 = m
          BY <3>1, <4>2
        <5>2. Wrong(r[m])
          BY <2>2, <5>1
        <5>3. r[m + 1] = Nest(Angled, r[m], text[m + 1])
          BY <1>1, <5>1
        <5>4. QED
          BY <5>2, <5>3, AngledPairs, WrongStays
      <4>3. QED
        BY <4>1, <4>2
    <3>2. QED
      BY <3>1
  <2> HIDE DEF N
  <2>3. Nat \subseteq N
    BY <2>1, <2>2, NatSetInduction
  <2>4. Wrong(r[len])
    BY <2>3 DEF N
  <2>5. QED
    BY <2>4 DEF Wrong
<1>3. ASSUME NEW x \in 1 .. len, Expects(r[x - 1], AngledEnds)
      PROVE  Matches(r[x - 1], r[x], text[x]) /\ Expects(r[x], AngledEnds)
  <2> DEFINE q == r[x - 1]
             next == r[x]
             t == text[x]
             wrong == <<"mismatch">> \o q
  <2>1. IsSeq(q)
    BY <1>3 DEF Expects
  <2>2. next = Nest(Angled, q, t)
    BY <1>1
  <2>3. ~Wrong(next) /\ Wrong(wrong)
    BY <1>2, <2>1, MismatchIsWrong
  <2>4. next # wrong
    BY <2>3
  <2>5. q # <<>> => Front_(q) = Front(q)
    BY <2>1, FrontAny
  <2> HIDE DEF q, next, t
  <2>6. next = CASE t \in Angled -> Append(q, Pair[t])
                 [] t \in AngledEnds ->
                      IF q # <<>> /\ Last(q) = t THEN Front_(q) ELSE wrong
                 [] OTHER -> q
    BY <2>2, AngledPairs, Zenon DEF Nest
  <2>7. t \in Angled => t \notin AngledEnds
    BY AngledPairs
  <2> HIDE DEF wrong
  <2>8. Matches(q, next, t)
    BY <2>4, <2>5, <2>6, <2>7, Zenon DEF Matches
  <2>9. Expects(q, AngledEnds)
    BY <1>3 DEF q
  <2>10. Expects(next, AngledEnds)
    <3>1. CASE t \in Angled /\ next = Append(q, Pair[t])
      <4>1. Pair[t] \in AngledEnds
        BY <3>1, AngledPairs
      <4>2. PICK e \in AngledEnds : e = Pair[t]
        BY <4>1
      <4>3. Expects(Append(q, e), AngledEnds)
        BY <2>9, ExpectsMore
      <4>4. QED
        BY <3>1, <4>2, <4>3
    <3>2. CASE q # <<>> /\ next = Front(q)
      <4>1. /\ IsSeq(Front(q)) /\ Len(q) \in Nat /\ Len(Front(q)) = Len(q) - 1
            /\ \A y \in 1 .. Len(q) - 1 : Front(q)[y] = q[y]
        BY <2>1, <3>2, FrontAny
      <4>2. \A y \in 1 .. Len(q) - 1 : y \in 1 .. Len(q)
        BY <4>1
      <4>3. QED
        BY <2>9, <3>2, <4>1, <4>2 DEF Expects
    <3>3. CASE next = q
      BY <2>9, <3>3
    <3>4. QED
      BY <2>8, <3>1, <3>2, <3>3, Zenon DEF Matches
  <2>11. QED
    BY <2>8, <2>10 DEF q, next, t
<1> DEFINE N == {m \in Nat : m <= len => Expects(r[m], AngledEnds)}
<1>4. 0 \in N
  <2>1. Expects(<<>>, AngledEnds)
    BY EmptyAny DEF Expects
  <2>2. QED
    BY <1>1, <2>1
<1>5. ASSUME NEW m \in Nat, m \in N PROVE m + 1 \in N
  <2>1. ASSUME m + 1 <= len PROVE Expects(r[m + 1], AngledEnds)
    <3>1. m + 1 \in 1 .. len /\ (m + 1) - 1 = m /\ m <= len
      BY <2>1
    <3>2. Expects(r[(m + 1) - 1], AngledEnds)
      BY <1>5, <3>1
    <3>3. QED
      BY <1>3, <3>1, <3>2
  <2>2. QED
    BY <2>1
<1> HIDE DEF N
<1>6. Nat \subseteq N
  BY <1>4, <1>5, NatSetInduction
<1>7. \A x \in 0 .. len : Expects(r[x], AngledEnds)
  BY <1>6 DEF N
<1>8. ASSUME NEW x \in 1 .. len PROVE Matches(r[x - 1], r[x], text[x])
  <2>1. x - 1 \in 0 .. len
    OBVIOUS
  <2>2. QED
    BY <1>3, <1>7, <2>1
<1>9. QED
  BY <1>7, <1>8

\* Looking for the end of a template, the stack holds the brackets whose
\* closing ones the other stack holds.
Mirrors(run, q) ==
  \E st : /\ run = Undecided(st) /\ IsSeq(st) /\ Len(st) = Len(q)
          /\ \A x \in 1 .. Len(q) : st[x] \in Angled /\ Pair[st[x]] = q[x]
          /\ IsSeq(q) /\ q # <<>> /\ q[1] = ">"
NextSound(run, q) == run.verdict = "yes" \/ Mirrors(run, q)

\* The tokens that do not stand in the arguments of a template.
InTemplate(t) == t # ";"

LEMMA UndecidedIs == ASSUME NEW st PROVE /\ Undecided(st).stack = st
                                         /\ Undecided(st).verdict = "none"
                                         /\ Decided("yes").verdict = "yes"
  BY DEF Undecided, Decided

LEMMA NextStepIs ==
  ASSUME NEW run, NEW q, NEW tok, NEW q1, InTemplate(tok), Matches(q, q1, tok), NextSound(run, q)
  PROVE  NextSound(NextStep(run, tok), q1)
<1> DEFINE next == NextStep(run, tok)
<1>1. CASE run.verdict = "yes"
  <2>1. next = run
    BY <1>1, Zenon DEF NextStep
  <2>2. QED
    BY <1>1, <2>1 DEF NextSound
<1>2. ASSUME NEW st, run = Undecided(st), IsSeq(st), Len(st) = Len(q),
             \A x \in 1 .. Len(q) : st[x] \in Angled /\ Pair[st[x]] = q[x],
             IsSeq(q), q # <<>>, q[1] = ">"
      PROVE  NextSound(next, q1)
  <2>1. Len(q) \in Nat /\ Len(q) >= 1 /\ Last(q) = q[Len(q)] /\ st # <<>> /\ Last(st) = st[Len(st)]
    <3>1. Len(q) \in Nat /\ Len(q) >= 1
      BY <1>2, FrontAny
    <3>2. Len(st) # 0
      BY <1>2, <3>1
    <3>3. st # <<>>
      BY <1>2, <3>2, EmptyLen
    <3>4. QED
      BY <1>2, <3>1, <3>3, LastOf
  <2>2. Last(st) \in Angled /\ Pair[Last(st)] = Last(q)
    <3>1. Len(q) \in 1 .. Len(q)
      BY <2>1
    <3>2. QED
      BY <1>2, <2>1, <3>1
  <2>3. (Last(st) = "<" <=> Last(q) = ">") /\ Last(q) \in AngledEnds
    BY <2>2, PairIs DEF Angled, AngledEnds
  <2>4. next =
          CASE tok \in {"<", "(", "["} -> Push(run, tok)
            [] Last(st) = "<" /\ tok = ">" ->
                 IF Len(st) = 1 THEN Decided("yes") ELSE Pop(run)
            [] Last(st) = "<" /\ tok = "," -> Decided("yes")
            [] Last(st) = "<" /\ tok \in {")", "]", ";"} -> Decided("no")
            [] Last(st) # "<" /\ tok \in {")", "]"} -> Pop(run)
            [] OTHER -> run
    <3>1. run.stack = st /\ run.verdict = "none"
      BY <1>2, UndecidedIs
    <3>2. QED
      BY <3>1, Zenon DEF NextStep
  <2>5. Push(run, tok) = Undecided(Append(st, tok)) /\ Pop(run) = Undecided(Front(st))
    BY <1>2, UndecidedIs DEF Push, Pop
  <2>6. ASSUME Len(st) # 1
        PROVE  Mirrors(Undecided(Front(st)), Front(q))
    <3> DEFINE f == Front(st)
               g == Front(q)
    <3>1. IsSeq(f) /\ Len(f) = Len(st) - 1 /\ \A i \in 1 .. Len(st) - 1 : f[i] = st[i]
      BY <1>2, <2>1, FrontAny
    <3>2. IsSeq(g) /\ Len(g) = Len(q) - 1 /\ \A i \in 1 .. Len(q) - 1 : g[i] = q[i]
      BY <1>2, FrontAny
    <3> HIDE DEF f, g
    <3>3. Len(f) = Len(g) /\ Len(g) # 0 /\ g[1] = ">"
      BY <1>2, <2>1, <2>6, <3>1, <3>2
    <3>4. \A x \in 1 .. Len(g) : x \in 1 .. Len(q) /\ f[x] = st[x] /\ g[x] = q[x]
      BY <1>2, <2>1, <3>1, <3>2
    <3>5. \A x \in 1 .. Len(g) : f[x] \in Angled /\ Pair[f[x]] = g[x]
      BY <1>2, <3>4
    <3>6. g # <<>>
      BY <3>2, <3>3, EmptyLen
    <3>7. Mirrors(Undecided(f), g)
      BY <3>1, <3>2, <3>3, <3>5, <3>6 DEF Mirrors
    <3>8. QED
      BY <3>7 DEF f, g
  <2>7. CASE tok \in Angled /\ q1 = Append(q, Pair[tok])
    <3> DEFINE a == Append(st, tok)
               b == Append(q, Pair[tok])
    <3>1. IsSeq(a) /\ Len(a) = Len(st) + 1 /\ a[Len(st) + 1] = tok
          /\ \A i \in 1 .. Len(st) : a[i] = st[i]
      BY <1>2, AppendAny
    <3>2. IsSeq(b) /\ Len(b) = Len(q) + 1 /\ b[Len(q) + 1] = Pair[tok]
          /\ \A i \in 1 .. Len(q) : b[i] = q[i]
      BY <1>2, AppendAny
    <3>3. next = Undecided(a)
      <4>1. tok \in {"<", "(", "["} /\ tok # ">" /\ tok # "," /\ tok \notin {")", "]", ";"}
            /\ tok \notin {")", "]"}
        BY <2>7 DEF Angled
      <4> HIDE DEF next
      <4>2. next = Push(run, tok)
        BY <2>4, <4>1
      <4>3. QED
        BY <2>5, <4>2
    <3> HIDE DEF next, a, b
    <3>4. Len(a) = Len(b) /\ Len(b) # 0 /\ b[1] = ">"
      BY <1>2, <2>1, <3>1, <3>2
    <3>5. ASSUME NEW x \in 1 .. Len(b) PROVE a[x] \in Angled /\ Pair[a[x]] = b[x]
      <4>1. CASE x \in 1 .. Len(q)
        BY <1>2, <3>1, <3>2, <4>1
      <4>2. CASE x = Len(q) + 1
        BY <1>2, <2>7, <3>1, <3>2, <4>2
      <4>3. QED
        BY <2>1, <3>2, <4>1, <4>2
    <3>6. b # <<>>
      BY <3>2, <3>4, EmptyLen
    <3>7. Mirrors(next, b)
      BY <3>1, <3>2, <3>3, <3>4, <3>5, <3>6 DEF Mirrors
    <3>8. QED
      BY <2>7, <3>7 DEF NextSound, b
  <2>8. CASE tok \in AngledEnds /\ q # <<>> /\ Last(q) = tok /\ q1 = Front(q)
    <3>1. tok \notin {"<", "(", "["} /\ tok # ","
      BY <2>8 DEF AngledEnds
    <3>2. CASE tok = ">" /\ Len(st) = 1
      <4>1. next = Decided("yes")
        <5> HIDE DEF next
        <5>1. Last(st) = "<" /\ tok # "," /\ tok \notin {")", "]", ";"}
          BY <2>3, <2>8, <3>2
        <5>2. QED
          BY <2>4, <3>1, <3>2, <5>1
      <4>2. QED
        BY <4>1, UndecidedIs DEF NextSound
    <3>3. CASE tok = ">" /\ Len(st) # 1
      <4>1. next = Undecided(Front(st))
        <5> HIDE DEF next
        <5>1. Last(st) = "<" /\ tok # "," /\ tok \notin {")", "]", ";"}
          BY <2>3, <2>8, <3>3
        <5>2. next = Pop(run)
          BY <2>4, <3>1, <3>3, <5>1
        <5>3. QED
          BY <2>5, <5>2
      <4>2. QED
        BY <2>6, <2>8, <3>3, <4>1 DEF NextSound
    <3>4. CASE tok # ">"
      <4>1. Last(st) # "<" /\ tok \in {")", "]"}
        BY <2>3, <2>8, <3>4 DEF AngledEnds
      <4>2. next = Undecided(Front(st))
        <5> HIDE DEF next
        <5>1. next = Pop(run)
          BY <2>4, <3>1, <4>1
        <5>2. QED
          BY <2>5, <5>1
      <4>3. Len(st) # 1
        <5>1. Len(q) = 1 => q[1] = tok
          BY <2>1, <2>8
        <5>2. QED
          BY <1>2, <3>4, <5>1
      <4>4. QED
        BY <2>6, <2>8, <4>2, <4>3 DEF NextSound
    <3>5. QED
      BY <3>2, <3>3, <3>4
  <2>9. CASE tok \notin Angled /\ tok \notin AngledEnds /\ q1 = q
    <3>1. tok \notin {"<", "(", "["} /\ tok # ">" /\ tok \notin {")", "]", ";"} /\ tok \notin {")", "]"}
      BY <2>9, Zenon DEF Angled, AngledEnds, InTemplate
    <3>2. next \in {Decided("yes"), run}
      <4> HIDE DEF next
      <4>1. QED
        BY <2>4, <3>1
    <3>3. Mirrors(run, q)
      BY <1>2 DEF Mirrors
    <3> HIDE DEF next
    <3>4. QED
      BY <2>9, <3>2, <3>3, UndecidedIs DEF NextSound
  <2>10. QED
    BY <2>7, <2>8, <2>9 DEF Matches
<1>3. QED
  BY <1>1, <1>2 DEF NextSound, Mirrors

\* Looking for its beginning, the stack is what the other one was there.
PreviousSound(run, q) ==
  run.verdict = "yes" \/ (run = Undecided(q) /\ IsSeq(q) /\ q # <<>> /\ q[1] = ">")

LEMMA SameSeq ==
  ASSUME NEW s, NEW t, IsSeq(s), IsSeq(t), Len(s) = Len(t),
         \A i \in 1 .. Len(s) : s[i] = t[i]
  PROVE  s = t
<1> DEFINE S == Range(s) \cup Range(t)
<1>1. s \in Seq(S) /\ t \in Seq(S)
  <2>1. s \in Seq(Range(s)) /\ t \in Seq(Range(t))
    BY DEF IsSeq
  <2>2. QED
    BY <2>1, SeqMonotonic
<1> HIDE DEF S
<1>2. QED
  BY <1>1, SeqEqual

LEMMA FrontOfAppend ==
  ASSUME NEW s, IsSeq(s), NEW e
  PROVE  /\ Front(Append(s, e)) = s /\ Last(Append(s, e)) = e
         /\ Append(s, e) # <<>> /\ IsSeq(Append(s, e))
         /\ (Len(Append(s, e)) = 1 <=> s = <<>>)
<1> DEFINE a == Append(s, e)
<1>1. IsSeq(a) /\ Len(s) \in Nat /\ Len(a) = Len(s) + 1 /\ a[Len(s) + 1] = e
      /\ \A i \in 1 .. Len(s) : a[i] = s[i]
  BY AppendAny
<1> HIDE DEF a
<1>2. a # <<>> /\ (s = <<>> <=> Len(s) = 0)
  <2>1. Len(a) # 0
    BY <1>1
  <2>2. QED
    BY <1>1, <2>1, EmptyLen
<1>3. IsSeq(Front(a)) /\ Len(Front(a)) = Len(a) - 1 /\ \A i \in 1 .. Len(a) - 1 : Front(a)[i] = a[i]
  BY <1>1, <1>2, FrontAny
<1> DEFINE f == Front(a)
<1>4. IsSeq(f) /\ Len(f) = Len(s) /\ \A i \in 1 .. Len(f) : f[i] = s[i]
  <2>1. Len(a) - 1 = Len(s)
    BY <1>1
  <2>2. QED
    BY <1>1, <1>3, <2>1
<1> HIDE DEF f
<1>5. f = s
  BY <1>4, SameSeq
<1>6. Last(a) = a[Len(a)]
  BY <1>1, <1>2, LastOf
<1>7. QED
  BY <1>1, <1>2, <1>5, <1>6 DEF a, f

LEMMA AppendToFront ==
  ASSUME NEW s, IsSeq(s), s # <<>>
  PROVE  Append(Front(s), Last(s)) = s
<1>1. /\ IsSeq(Front(s)) /\ Len(s) \in Nat /\ Len(Front(s)) = Len(s) - 1 /\ Len(s) >= 1
      /\ \A i \in 1 .. Len(s) - 1 : Front(s)[i] = s[i]
  BY FrontAny
<1>2. Last(s) = s[Len(s)]
  BY LastOf
<1> DEFINE f == Front(s)
           a == Append(f, Last(s))
<1>3. IsSeq(a) /\ Len(a) = Len(f) + 1 /\ a[Len(f) + 1] = Last(s)
      /\ \A i \in 1 .. Len(f) : a[i] = f[i]
  BY <1>1, AppendAny
<1>4. IsSeq(f) /\ Len(f) = Len(s) - 1 /\ \A i \in 1 .. Len(s) - 1 : f[i] = s[i]
  BY <1>1
<1> HIDE DEF a, f
<1>5. Len(a) = Len(s)
  BY <1>1, <1>3, <1>4
<1>6. ASSUME NEW i \in 1 .. Len(a) PROVE a[i] = s[i]
  <2>1. CASE i \in 1 .. Len(f)
    BY <1>3, <1>4, <2>1
  <2>2. CASE i = Len(s)
    <3>1. i = Len(f) + 1
      BY <1>1, <1>4, <2>2
    <3>2. QED
      BY <1>2, <1>3, <2>2, <3>1
  <2>3. QED
    BY <1>1, <1>4, <1>5, <2>1, <2>2
<1>7. a = s
  BY <1>3, <1>5, <1>6, SameSeq
<1>8. QED
  BY <1>7 DEF a, f

LEMMA PreviousStepIs ==
  ASSUME NEW run, NEW q, NEW tok, NEW q0, IsSeq(q0), InTemplate(tok), Matches(q0, q, tok),
         PreviousSound(run, q)
  PROVE  PreviousSound(PreviousStep(run, tok), q0)
<1> DEFINE next == PreviousStep(run, tok)
<1>1. CASE run.verdict = "yes"
  <2>1. next = run
    BY <1>1, Zenon DEF PreviousStep
  <2>2. QED
    BY <1>1, <2>1 DEF PreviousSound
<1>2. ASSUME run = Undecided(q), IsSeq(q), q # <<>>, q[1] = ">"
      PROVE  PreviousSound(next, q0)
  <2>1. next =
          CASE tok \in {">", ")", "]"} -> Push(run, tok)
            [] Last(q) = ">" /\ tok = "<" ->
                 IF Len(q) = 1 THEN Decided("yes") ELSE Pop(run)
            [] Last(q) = ">" /\ tok = "," -> Decided("yes")
            [] Last(q) = ">" /\ tok \in {"(", "[", ";"} -> Decided("no")
            [] Last(q) # ">" /\ tok \in {"(", "["} -> Pop(run)
            [] OTHER -> run
    <3>1. run.stack = q /\ run.verdict = "none"
      BY <1>2, UndecidedIs
    <3>2. QED
      BY <3>1, Zenon DEF PreviousStep
  <2>2. Push(run, tok) = Undecided(Append(q, tok)) /\ Pop(run) = Undecided(Front(q))
    BY <1>2, UndecidedIs DEF Push, Pop
  <2>3. CASE tok \in Angled /\ q = Append(q0, Pair[tok])
    <3>1. Front(q) = q0 /\ Last(q) = Pair[tok] /\ (Len(q) = 1 <=> q0 = <<>>)
      BY <2>3, FrontOfAppend
    <3>2. ASSUME q0 # <<>> PROVE q0[1] = ">"
      <4>1. 1 \in 1 .. Len(q0)
        <5>1. Len(q0) \in Nat /\ Len(q0) # 0
          BY <3>2, EmptyLen
        <5>2. QED
          BY <5>1
      <4>2. q[1] = q0[1]
        BY <2>3, <4>1, AppendAny
      <4>3. QED
        BY <1>2, <4>2
    <3>3. tok \notin {">", ")", "]"} /\ tok # ","
      BY <2>3 DEF Angled
    <3>4. CASE tok = "<" /\ q0 = <<>>
      <4>1. next = Decided("yes")
        <5> HIDE DEF next
        <5>1. Last(q) = ">" /\ Len(q) = 1 /\ tok \notin {"(", "[", ";"}
          BY <3>1, <3>4, PairIs
        <5>2. QED
          BY <2>1, <3>3, <3>4, <5>1
      <4>2. QED
        BY <4>1, UndecidedIs DEF PreviousSound
    <3>5. CASE tok = "<" /\ q0 # <<>>
      <4>1. next = Undecided(q0)
        <5> HIDE DEF next
        <5>1. Last(q) = ">" /\ Len(q) # 1 /\ tok \notin {"(", "[", ";"}
          BY <3>1, <3>5, PairIs
        <5>2. next = Pop(run)
          BY <2>1, <3>3, <3>5, <5>1
        <5>3. QED
          BY <2>2, <3>1, <5>2
      <4>2. QED
        BY <3>2, <3>5, <4>1 DEF PreviousSound
    <3>6. CASE tok # "<"
      <4>1. tok \in {"(", "["} /\ Last(q) # ">"
        BY <2>3, <3>1, <3>6, PairIs DEF Angled
      <4>2. next = Undecided(q0)
        <5> HIDE DEF next
        <5>1. next = Pop(run)
          BY <2>1, <3>3, <4>1
        <5>2. QED
          BY <2>2, <3>1, <5>1
      <4>3. q0 # <<>>
        <5>1. Last(q) = q[Len(q)]
          BY <1>2, LastOf
        <5>2. Len(q) # 1
          BY <1>2, <4>1, <5>1
        <5>3. QED
          BY <3>1, <5>2
      <4>4. QED
        BY <3>2, <4>2, <4>3 DEF PreviousSound
    <3>7. QED
      BY <3>4, <3>5, <3>6
  <2>4. CASE tok \in AngledEnds /\ q0 # <<>> /\ Last(q0) = tok /\ q = Front(q0)
    <3>1. next = Push(run, tok)
      <4>1. tok \in {">", ")", "]"} /\ tok # "<" /\ tok # "," /\ tok \notin {"(", "[", ";"} /\ tok \notin {"(", "["}
        BY <2>4 DEF AngledEnds
      <4> HIDE DEF next
      <4>2. QED
        BY <2>1, <4>1
    <3>2. Append(q, tok) = q0
      BY <2>4, AppendToFront
    <3>3. q0[1] = ">"
      <4>1. Len(q) \in Nat /\ Len(q) # 0
        BY <1>2, EmptyLen
      <4>2. 1 \in 1 .. Len(q)
        BY <4>1
      <4>3. Append(q, tok)[1] = q[1]
        BY <1>2, <4>2, AppendAny
      <4>4. QED
        BY <1>2, <3>2, <4>3
    <3> HIDE DEF next
    <3>4. QED
      BY <2>2, <2>4, <3>1, <3>2, <3>3 DEF PreviousSound
  <2>5. CASE tok \notin Angled /\ tok \notin AngledEnds /\ q = q0
    <3>1. tok \notin {">", ")", "]"} /\ tok # "<" /\ tok \notin {"(", "[", ";"} /\ tok \notin {"(", "["}
      BY <2>5, Zenon DEF Angled, AngledEnds, InTemplate
    <3>2. next \in {Decided("yes"), run}
      <4> HIDE DEF next
      <4>1. QED
        BY <2>1, <3>1
    <3> HIDE DEF next
    <3>3. QED
      BY <1>2, <2>5, <3>2, UndecidedIs DEF PreviousSound
  <2>6. QED
    BY <2>3, <2>4, <2>5 DEF Matches
<1>3. QED
  BY <1>1, <1>2 DEF PreviousSound

\* The text between the brackets at i and j, both of them included, is nested.
Template(text, i, j) ==
  /\ text[i] = "<" /\ text[j] = ">"
  /\ ~AnyOf(SubSeq(text, i, j), {";", "{", "}"})
  /\ WellNested(SubSeq(text, i, j), {"<", "(", "["})

LEMMA PartIs ==
  ASSUME NEW text, IsSeq(text), NEW i \in Nat, NEW m \in Nat, i + m \in 1 .. Len(text), i >= 1
  PROVE  /\ DOMAIN SubSeq(text, i, i + m) = 1 .. m + 1
         /\ \A x \in 1 .. m + 1 : SubSeq(text, i, i + m)[x] = text[i + x - 1]
<1> DEFINE part == SubSeq(text, i, i + m)
<1>1. /\ IsSeq(part) /\ Len(part) = IF i <= i + m THEN i + m - i + 1 ELSE 0
      /\ \A x \in 1 .. i + m - i + 1 : part[x] = text[i + x - 1]
  BY SubSeqAny
<1> HIDE DEF part
<1>2. Len(part) = m + 1 /\ i + m - i + 1 = m + 1
  BY <1>1
<1>3. QED
  BY <1>1, <1>2, IsSeqDomain DEF part

\* The run over a template: it matches from one bracket to the other.
TemplateRun(r, text, i, m) ==
  /\ r[0] = <<>> /\ r[m + 1] = <<>>
  /\ \A x \in 0 .. m + 1 : IsSeq(r[x])
  /\ \A x \in 1 .. m + 1 : Matches(r[x - 1], r[x], text[i + x - 1]) /\ InTemplate(text[i + x - 1])

LEMMA TemplateRuns ==
  ASSUME NEW text, IsSeq(text), NEW i \in Nat, NEW m \in Nat, i + m \in 1 .. Len(text), i >= 1,
         Template(text, i, i + m)
  PROVE  \E r : TemplateRun(r, text, i, m)
<1> DEFINE part == SubSeq(text, i, i + m)
<1>1. /\ DOMAIN part = 1 .. m + 1
      /\ \A x \in 1 .. m + 1 : part[x] = text[i + x - 1]
  BY PartIs
<1>2. WellNested(part, Angled)
  BY Zenon DEF Template, Angled
<1>3. \A x \in DOMAIN part : InTemplate(part[x])
  <2>1. ToSet(part) \cap {";", "{", "}"} = {}
    BY Zenon DEF Template, AnyOf
  <2>2. ASSUME NEW x \in DOMAIN part PROVE part[x] # ";"
    <3>1. part[x] \in ToSet(part)
      BY Zenon DEF ToSet
    <3> HIDE DEF part
    <3>2. QED
      BY <2>1, <3>1, Zenon
  <2>3. QED
    BY <2>2, Zenon DEF InTemplate
<1> HIDE DEF part
<1>4. m + 1 \in Nat
  OBVIOUS
<1>5. PICK r : NestRun(r, part, m + 1, Angled)
  BY <1>1, <1>4, NestRunExists
<1>6. r[m + 1] = <<>>
  BY <1>1, <1>2, <1>4, <1>5, NestIs
<1>7. /\ \A x \in 0 .. m + 1 : Expects(r[x], AngledEnds)
      /\ \A x \in 1 .. m + 1 : Matches(r[x - 1], r[x], part[x])
  BY <1>4, <1>5, <1>6, RunMatches
<1>8. r[0] = <<>>
  BY <1>5 DEF NestRun
<1>9. TemplateRun(r, text, i, m)
  BY <1>1, <1>3, <1>6, <1>7, <1>8 DEF TemplateRun, Expects
<1>10. QED
  BY <1>9

\* A verdict stays.
LEMMA VerdictStays ==
  ASSUME NEW v, NEW m \in Nat, NEW len \in Nat, m <= len, v[m].verdict = "yes",
         \A x \in 1 .. len : v[x - 1].verdict = "yes" => v[x] = v[x - 1]
  PROVE  v[len].verdict = "yes"
<1> DEFINE N == {x \in Nat : m <= x /\ x <= len => v[x].verdict = "yes"}
<1>1. 0 \in N
  OBVIOUS
<1>2. ASSUME NEW x \in Nat, x \in N PROVE x + 1 \in N
  <2>1. ASSUME m <= x + 1, x + 1 <= len PROVE v[x + 1].verdict = "yes"
    <3>1. CASE m = x + 1
      BY <3>1
    <3>2. CASE m # x + 1
      <4>1. m <= x /\ x <= len /\ x + 1 \in 1 .. len /\ (x + 1) - 1 = x
        BY <2>1, <3>2
      <4>2. v[x].verdict = "yes"
        BY <1>2, <4>1
      <4>3. QED
        BY <4>1, <4>2
    <3>3. QED
      BY <3>1, <3>2
  <2>2. QED
    BY <2>1
<1> HIDE DEF N
<1>3. Nat \subseteq N
  BY <1>1, <1>2, NatSetInduction
<1>4. QED
  BY <1>3 DEF N

LEMMA NextFinds ==
  ASSUME NEW text, IsSeq(text), NEW i \in Nat, NEW m \in Nat, i + m \in 1 .. Len(text), i >= 1,
         text[i] = "<", NEW r, TemplateRun(r, text, i, m)
  PROVE  FindNextMatchingAngleBracket(After(text, i))
<1> DEFINE rest == After(text, i)
<1>1. /\ r[0] = <<>> /\ r[m + 1] = <<>>
      /\ \A x \in 0 .. m + 1 : IsSeq(r[x])
      /\ \A x \in 1 .. m + 1 : Matches(r[x - 1], r[x], text[i + x - 1]) /\ InTemplate(text[i + x - 1])
  BY DEF TemplateRun
<1>2. PICK len \in Nat : Len(text) = i + len /\ m <= len
  <2>1. PICK total \in Nat : Len(text) = total
    BY IsSeqDomain
  <2>2. total - i \in Nat /\ total = i + (total - i) /\ m <= total - i
    BY <2>1
  <2>3. QED
    BY <2>1, <2>2
<1>3. DOMAIN rest = 1 .. len /\ \A x \in 1 .. len : rest[x] = text[i + x]
  <2>1. PICK total \in Nat : total = i + len
    OBVIOUS
  <2>2. Len(text) = total /\ i \in 0 .. total
    BY <1>2, <2>1
  <2>3. /\ DOMAIN After(text, i) = 1 .. total - i
        /\ \A x \in 1 .. total - i : After(text, i)[x] = text[i + x]
    BY <2>2, AfterAny
  <2>4. total - i = len
    BY <2>1
  <2>5. QED
    BY <2>3, <2>4
<1> HIDE DEF rest
<1>4. NextReach(rest, len)
  BY <1>3, NextSteps
<1>5. PICK v : /\ v[0] = Undecided(<<"<">>)
               /\ \A x \in 1 .. len : v[x] = NextStep(v[x - 1], rest[x])
               /\ FindNextMatchingAngleBracket(rest) <=> v[len].verdict # "no"
  BY <1>4, Zenon DEF NextReach
<1> DEFINE N == {x \in Nat : x <= m => NextSound(v[x], r[x + 1])}
<1>6. 0 \in N
  <2>1. r[1] = Append(<<>>, ">")
    <3>1. 1 \in 1 .. m + 1 /\ i + 1 - 1 = i /\ 1 - 1 = 0
      OBVIOUS
    <3>2. Matches(r[0], r[1], "<")
      BY <1>1, <3>1
    <3>3. Matches(<<>>, r[1], "<")
      BY <1>1, <3>2
    <3>4. "<" \in Angled /\ "<" \notin AngledEnds /\ Pair["<"] = ">"
      BY PairIs DEF Angled, AngledEnds
    <3>5. QED
      BY <3>3, <3>4, Zenon DEF Matches
  <2> DEFINE q == Append(<<>>, ">")
             st == <<"<">>
  <2>2. IsSeq(q) /\ Len(q) = 1 /\ q[1] = ">" /\ q # <<>>
    <3>1. IsSeq(<<>>) /\ Len(<<>>) = 0
      BY EmptyAny
    <3>2. IsSeq(q) /\ Len(q) = Len(<<>>) + 1 /\ q[Len(<<>>) + 1] = ">"
      BY <3>1, AppendAny
    <3>3. q # <<>>
      BY <3>1, FrontOfAppend
    <3> HIDE DEF q
    <3>4. QED
      BY <3>1, <3>2, <3>3
  <2>3. IsSeq(st) /\ Len(st) = 1 /\ st[1] = "<"
    BY SingleAny
  <2>4. "<" \in Angled /\ Pair["<"] = ">"
    BY PairIs DEF Angled
  <2>5. v[0] = Undecided(st)
    BY <1>5
  <2> HIDE DEF q, st
  <2>6. Mirrors(v[0], q)
    <3>1. \A x \in 1 .. Len(q) : x = 1
      BY <2>2
    <3>2. \A x \in 1 .. Len(q) : st[x] \in Angled /\ Pair[st[x]] = q[x]
      BY <2>2, <2>3, <2>4, <3>1
    <3>3. Len(st) = Len(q)
      BY <2>2, <2>3
    <3>4. QED
      BY <2>2, <2>3, <2>5, <3>2, <3>3 DEF Mirrors
  <2>7. r[0 + 1] = q
    BY <2>1 DEF q
  <2>8. QED
    BY <2>6, <2>7 DEF NextSound
<1>7. ASSUME NEW x \in Nat, x \in N PROVE x + 1 \in N
  <2>1. ASSUME x + 1 <= m PROVE NextSound(v[x + 1], r[(x + 1) + 1])
    <3>1. /\ x + 1 \in 1 .. len /\ (x + 1) - 1 = x /\ x <= m
          /\ (x + 1) + 1 \in 1 .. m + 1 /\ ((x + 1) + 1) - 1 = x + 1
          /\ i + ((x + 1) + 1) - 1 = i + (x + 1)
      BY <1>2, <2>1
    <3>2. NextSound(v[x], r[x + 1])
      BY <1>7, <3>1
    <3>3. v[x + 1] = NextStep(v[x], text[i + (x + 1)])
      BY <1>3, <1>5, <3>1
    <3>4. /\ Matches(r[x + 1], r[(x + 1) + 1], text[i + (x + 1)])
          /\ InTemplate(text[i + (x + 1)])
      BY <1>1, <3>1
    <3>5. QED
      BY <3>2, <3>3, <3>4, NextStepIs
  <2>2. QED
    BY <2>1
<1> HIDE DEF N
<1>8. Nat \subseteq N
  BY <1>6, <1>7, NatSetInduction
<1>9. NextSound(v[m], r[m + 1])
  BY <1>8 DEF N
<1>10. v[m].verdict = "yes"
  BY <1>1, <1>9, Zenon DEF NextSound, Mirrors
<1>11. \A x \in 1 .. len : v[x - 1].verdict = "yes" => v[x] = v[x - 1]
  <2>1. \A run, e : run.verdict = "yes" => NextStep(run, e) = run
    BY Zenon DEF NextStep
  <2>2. QED
    BY <1>5, <2>1
<1>12. v[len].verdict = "yes"
  BY <1>2, <1>10, <1>11, VerdictStays
<1>13. QED
  BY <1>5, <1>12 DEF rest

LEMMA PreviousFinds ==
  ASSUME NEW text, IsSeq(text), NEW i \in Nat, NEW m \in Nat, i + m \in 1 .. Len(text), i >= 1,
         m >= 1, text[i + m] = ">", NEW r, TemplateRun(r, text, i, m)
  PROVE  FindPreviousMatchingAngleBracket(Before(text, i + m))
<1> DEFINE front == Before(text, i + m)
           back == Reverse(front)
<1>1. /\ r[0] = <<>> /\ r[m + 1] = <<>>
      /\ \A x \in 0 .. m + 1 : IsSeq(r[x])
      /\ \A x \in 1 .. m + 1 : Matches(r[x - 1], r[x], text[i + x - 1]) /\ InTemplate(text[i + x - 1])
  BY DEF TemplateRun
<1>2. PICK len \in Nat : len = i + m - 1 /\ m <= len
  <2>1. i + m - 1 \in Nat /\ m <= i + m - 1
    OBVIOUS
  <2>2. QED
    BY <2>1
<1>3. DOMAIN back = 1 .. len /\ \A x \in 1 .. len : back[x] = text[i + m - x]
  <2>1. PICK j \in Nat : j = i + m /\ j >= 1
    <3>1. i + m \in Nat /\ i + m >= 1
      OBVIOUS
    <3>2. QED
      BY <3>1
  <2>2. Len(front) = j - 1 /\ \A x \in 1 .. j - 1 : front[x] = text[x]
    BY <2>1, BeforeAny
  <2> HIDE DEF front
  <2>3. Len(front) = len /\ \A x \in 1 .. len : front[x] = text[x]
    BY <1>2, <2>1, <2>2
  <2>4. back = [x \in 1 .. len |-> front[(len - x) + 1]]
    BY <2>3 DEF Reverse
  <2>5. \A x \in 1 .. len : (len - x) + 1 \in 1 .. len /\ (len - x) + 1 = i + m - x
    BY <1>2
  <2> HIDE DEF back
  <2>6. DOMAIN back = 1 .. len /\ \A x \in 1 .. len : back[x] = front[(len - x) + 1]
    BY <2>4
  <2>7. ASSUME NEW x \in 1 .. len PROVE back[x] = text[i + m - x]
    <3>1. PICK y \in 1 .. len : y = (len - x) + 1 /\ y = i + m - x
      BY <2>5
    <3>2. back[x] = front[y] /\ front[y] = text[y]
      BY <2>3, <2>6, <3>1
    <3>3. QED
      BY <3>1, <3>2
  <2>8. QED
    BY <2>6, <2>7
<1>4. PreviousReach(front, len)
  <2>1. DOMAIN Reverse(front) = 1 .. len
    BY <1>3
  <2> HIDE DEF front
  <2>2. QED
    BY <2>1, PreviousSteps
<1>5. PICK v : /\ v[0] = Undecided(<<">">>)
               /\ \A x \in 1 .. len : v[x] = PreviousStep(v[x - 1], back[x])
               /\ FindPreviousMatchingAngleBracket(front) <=> v[len].verdict = "yes"
  BY <1>4, Zenon DEF PreviousReach
<1> HIDE DEF front, back
<1> DEFINE N == {x \in Nat : x <= m => PreviousSound(v[x], r[m - x])}
<1>6. 0 \in N
  <2> DEFINE q == r[m]
  <2>1. IsSeq(q)
    BY <1>1
  <2>2. Matches(q, <<>>, ">")
    <3>1. m + 1 \in 1 .. m + 1 /\ (m + 1) - 1 = m /\ i + (m + 1) - 1 = i + m
      OBVIOUS
    <3>2. Matches(r[m], r[m + 1], text[i + m])
      BY <1>1, <3>1
    <3>3. QED
      BY <1>1, <3>2
  <2> HIDE DEF q
  <2>3. ">" \notin Angled /\ ">" \in AngledEnds
    BY DEF Angled, AngledEnds
  <2>4. q # <<>> /\ Last(q) = ">" /\ <<>> = Front(q)
    BY <2>2, <2>3, Zenon DEF Matches
  <2>5. Append(<<>>, ">") = q
    BY <2>1, <2>4, AppendToFront
  <2>6. <<">">> = q
    <3> DEFINE o == <<">">>
    <3>1. IsSeq(o) /\ Len(o) = 1 /\ o[1] = ">"
      BY SingleAny
    <3>2. IsSeq(<<>>) /\ Len(<<>>) = 0
      BY EmptyAny
    <3>3. Len(q) = Len(<<>>) + 1 /\ q[Len(<<>>) + 1] = ">"
      BY <2>5, <3>2, AppendAny
    <3>4. Len(q) = 1 /\ q[1] = ">"
      BY <3>2, <3>3
    <3> HIDE DEF o
    <3>5. \A x \in 1 .. Len(o) : o[x] = q[x]
      BY <3>1, <3>4
    <3>6. Len(o) = Len(q)
      BY <3>1, <3>4
    <3>7. o = q
      BY <2>1, <3>1, <3>5, <3>6, SameSeq
    <3>8. QED
      BY <3>7 DEF o
  <2>7. q[1] = ">"
    BY <2>6, SingleAny
  <2>8. PreviousSound(v[0], q)
    BY <1>5, <2>1, <2>4, <2>6, <2>7 DEF PreviousSound
  <2>9. m - 0 = m
    OBVIOUS
  <2>10. QED
    BY <2>8, <2>9 DEF q
<1>7. ASSUME NEW x \in Nat, x \in N PROVE x + 1 \in N
  <2>1. ASSUME x + 1 <= m PROVE PreviousSound(v[x + 1], r[m - (x + 1)])
    <3>1. /\ x + 1 \in 1 .. len /\ (x + 1) - 1 = x /\ x <= m
          /\ m - x \in 1 .. m + 1 /\ (m - x) - 1 = m - (x + 1) /\ m - (x + 1) \in 0 .. m + 1
          /\ i + (m - x) - 1 = i + m - (x + 1)
      BY <1>2, <2>1
    <3>2. PreviousSound(v[x], r[m - x])
      BY <1>7, <3>1
    <3>3. v[x + 1] = PreviousStep(v[x], text[i + m - (x + 1)])
      BY <1>3, <1>5, <3>1
    <3>4. /\ Matches(r[m - (x + 1)], r[m - x], text[i + m - (x + 1)])
          /\ InTemplate(text[i + m - (x + 1)])
      BY <1>1, <3>1
    <3>5. IsSeq(r[m - (x + 1)])
      BY <1>1, <3>1
    <3>6. QED
      BY <3>2, <3>3, <3>4, <3>5, PreviousStepIs
  <2>2. QED
    BY <2>1
<1> HIDE DEF N
<1>8. Nat \subseteq N
  BY <1>6, <1>7, NatSetInduction
<1>9. PreviousSound(v[m], r[0])
  <2>1. m - m = 0
    OBVIOUS
  <2>2. QED
    BY <1>8, <2>1 DEF N
<1>10. v[m].verdict = "yes"
  BY <1>1, <1>9, Zenon DEF PreviousSound
<1>11. \A x \in 1 .. len : v[x - 1].verdict = "yes" => v[x] = v[x - 1]
  <2>1. \A run, e : run.verdict = "yes" => PreviousStep(run, e) = run
    BY Zenon DEF PreviousStep
  <2>2. QED
    BY <1>5, <2>1
<1>12. v[len].verdict = "yes"
  BY <1>2, <1>10, <1>11, VerdictStays
<1>13. QED
  BY <1>5, <1>12 DEF front

LEMMA TemplateFound ==
  ASSUME NEW text, IsSeq(text), NEW i \in Nat, i >= 1, NEW j \in i + 1 .. Len(text),
         Template(text, i, j)
  PROVE  /\ FindNextMatchingAngleBracket(After(text, i))
         /\ FindPreviousMatchingAngleBracket(Before(text, j))
<1>1. PICK m \in Nat : j = i + m /\ m >= 1 /\ i + m \in 1 .. Len(text)
  <2>1. PICK total \in Nat : Len(text) = total
    BY IsSeqDomain
  <2>2. j - i \in Nat /\ j = i + (j - i) /\ j - i >= 1 /\ i + (j - i) \in 1 .. total
    BY <2>1
  <2>3. QED
    BY <2>1, <2>2
<1>2. text[i] = "<" /\ text[j] = ">"
  BY Zenon DEF Template
<1>3. PICK r : TemplateRun(r, text, i, m)
  BY <1>1, TemplateRuns
<1>4. QED
  BY <1>1, <1>2, <1>3, NextFinds, PreviousFinds

-----------------------------------------------------------------------------
(* How many brackets a text leaves open.                                   *)

\* How often e is among the first k of s.
CountTo(s, e, k) == Cardinality({x \in 1 .. k : s[x] = e})

LEMMA CountNone == ASSUME NEW s, NEW e PROVE CountTo(s, e, 0) = 0
<1>1. {x \in 1 .. 0 : s[x] = e} = {}
  OBVIOUS
<1>2. QED
  BY <1>1, FS_EmptySet DEF CountTo

LEMMA CountMore ==
  ASSUME NEW s, NEW e, NEW k \in Nat
  PROVE  /\ CountTo(s, e, k) \in Nat
         /\ CountTo(s, e, k + 1) =
              IF s[k + 1] = e THEN CountTo(s, e, k) + 1 ELSE CountTo(s, e, k)
<1> DEFINE A == {x \in 1 .. k : s[x] = e}
           B == {x \in 1 .. k + 1 : s[x] = e}
<1>1. IsFiniteSet(A)
  <2>1. IsFiniteSet(1 .. k)
    BY FS_Interval
  <2>2. QED
    BY <2>1, FS_Subset
<1>2. k + 1 \notin A
  OBVIOUS
<1>3. B = IF s[k + 1] = e THEN A \cup {k + 1} ELSE A
  <2>1. 1 .. k + 1 = (1 .. k) \cup {k + 1}
    OBVIOUS
  <2>2. QED
    BY <2>1
<1> HIDE DEF A, B
<1>4. Cardinality(A) \in Nat
  BY <1>1, FS_CardinalityType
<1>5. Cardinality(A \cup {k + 1}) = Cardinality(A) + 1
  BY <1>1, <1>2, FS_AddElement
<1>6. Cardinality(B) = IF s[k + 1] = e THEN Cardinality(A) + 1 ELSE Cardinality(A)
  BY <1>3, <1>5
<1>7. QED
  BY <1>4, <1>6 DEF CountTo, A, B

LEMMA CountAll ==
  ASSUME NEW s, IsSeq(s), NEW e
  PROVE  Count(s, e) = CountTo(s, e, Len(s)) /\ Count(s, e) \in Nat
<1>1. Len(s) \in Nat /\ DOMAIN s = 1 .. Len(s)
  BY IsSeqDomain
<1>2. Count(s, e) = CountTo(s, e, Len(s))
  BY <1>1 DEF Count, CountTo
<1>3. QED
  BY <1>1, <1>2, CountMore

LEMMA CountSame ==
  ASSUME NEW s, NEW u, NEW e, NEW k, \A x \in 1 .. k : s[x] = u[x]
  PROVE  CountTo(s, e, k) = CountTo(u, e, k)
<1>1. {x \in 1 .. k : s[x] = e} = {x \in 1 .. k : u[x] = e}
  OBVIOUS
<1>2. QED
  BY <1>1 DEF CountTo

LEMMA CountConcat ==
  ASSUME NEW s, IsSeq(s), NEW u, IsSeq(u), NEW e
  PROVE  Count(s \o u, e) = Count(s, e) + Count(u, e)
<1> DEFINE w == s \o u
<1>1. PICK a \in Nat : a = Len(s)
  BY IsSeqDomain
<1>2. PICK b \in Nat : b = Len(u)
  BY IsSeqDomain
<1>3. IsSeq(w) /\ Len(w) = Len(s) + Len(u)
  BY ConcatAny
<1>4. (\A i \in 1 .. Len(s) : w[i] = s[i]) /\ \A i \in 1 .. Len(u) : w[Len(s) + i] = u[i]
  BY ConcatParts
<1> HIDE DEF w
<1> DEFINE N == {k \in Nat : k <= b => CountTo(w, e, a + k) = Count(s, e) + CountTo(u, e, k)}
<1>5. 0 \in N
  <2>1. CountTo(w, e, a) = CountTo(s, e, a)
    BY <1>1, <1>4, CountSame
  <2>2. CountTo(s, e, a) = Count(s, e) /\ Count(s, e) \in Nat
    BY <1>1, CountAll
  <2>3. CountTo(u, e, 0) = 0
    BY CountNone
  <2>4. a + 0 = a
    OBVIOUS
  <2>5. QED
    BY <2>1, <2>2, <2>3, <2>4
<1>6. ASSUME NEW k \in Nat, k \in N PROVE k + 1 \in N
  <2>1. ASSUME k + 1 <= b PROVE CountTo(w, e, a + (k + 1)) = Count(s, e) + CountTo(u, e, k + 1)
    <3>1. k + 1 \in 1 .. b /\ k <= b /\ a + k \in Nat /\ a + (k + 1) = (a + k) + 1
      BY <2>1
    <3>2. w[(a + k) + 1] = u[k + 1]
      BY <1>1, <1>2, <1>4, <3>1
    <3>3. CountTo(w, e, a + k) = Count(s, e) + CountTo(u, e, k)
      BY <1>6, <3>1
    <3>4. CountTo(w, e, (a + k) + 1) =
            IF w[(a + k) + 1] = e THEN CountTo(w, e, a + k) + 1 ELSE CountTo(w, e, a + k)
      BY <3>1, CountMore
    <3>5. /\ CountTo(u, e, k + 1) =
               IF u[k + 1] = e THEN CountTo(u, e, k) + 1 ELSE CountTo(u, e, k)
          /\ CountTo(u, e, k) \in Nat
      BY <1>6, CountMore
    <3>6. Count(s, e) \in Nat
      BY CountAll
    <3>7. CASE u[k + 1] = e
      BY <3>1, <3>2, <3>3, <3>4, <3>5, <3>6, <3>7
    <3>8. CASE u[k + 1] # e
      BY <3>1, <3>2, <3>3, <3>4, <3>5, <3>6, <3>8
    <3>9. QED
      BY <3>7, <3>8
  <2>2. QED
    BY <2>1
<1> HIDE DEF N
<1>7. Nat \subseteq N
  BY <1>5, <1>6, NatSetInduction
<1>8. CountTo(w, e, a + b) = Count(s, e) + CountTo(u, e, b)
  BY <1>7 DEF N
<1>9. Count(w, e) = CountTo(w, e, a + b) /\ Count(u, e) = CountTo(u, e, b)
  BY <1>1, <1>2, <1>3, CountAll
<1>10. QED
  BY <1>8, <1>9 DEF w

LEMMA NetAny ==
  ASSUME NEW s, IsSeq(s), NEW open
  PROVE  Net(s, open) \in Int
  BY CountAll DEF Net

LEMMA NetConcat ==
  ASSUME NEW s, IsSeq(s), NEW u, IsSeq(u), NEW open
  PROVE  IsSeq(s \o u) /\ Net(s \o u, open) = Net(s, open) + Net(u, open)
<1> DEFINE c == CLOSER[open]
<1>1. /\ Count(s \o u, open) = Count(s, open) + Count(u, open)
      /\ Count(s \o u, c) = Count(s, c) + Count(u, c)
  BY CountConcat
<1>2. /\ Count(s, open) \in Nat /\ Count(u, open) \in Nat
      /\ Count(s, c) \in Nat /\ Count(u, c) \in Nat
  BY CountAll
<1>3. Net(s \o u, open) = Count(s \o u, open) - Count(s \o u, c)
      /\ Net(s, open) = Count(s, open) - Count(s, c)
      /\ Net(u, open) = Count(u, open) - Count(u, c)
  BY DEF Net
<1>4. QED
  BY <1>1, <1>2, <1>3, ConcatAny

\* One token more.
LEMMA NetStep ==
  ASSUME NEW s, NEW a \in Nat, NEW b \in Nat, a <= b + 1, NEW open \in Round
  PROVE  /\ Net(SubSeq(s, a, b), open) \in Int
         /\ Net(SubSeq(s, a, b + 1), open) =
              IF s[b + 1] = open THEN Net(SubSeq(s, a, b), open) + 1
              ELSE IF s[b + 1] = CLOSER[open] THEN Net(SubSeq(s, a, b), open) - 1
              ELSE Net(SubSeq(s, a, b), open)
<1> DEFINE p == SubSeq(s, a, b)
           q == SubSeq(s, a, b + 1)
           c == CLOSER[open]
<1>1. PICK k \in Nat : k = b + 1 - a
  BY SMT
<1>2. IsSeq(p) /\ Len(p) = k /\ \A x \in 1 .. k : p[x] = s[a + x - 1]
  <2>1. /\ IsSeq(SubSeq(s, a, b)) /\ Len(SubSeq(s, a, b)) = IF a <= b THEN b - a + 1 ELSE 0
        /\ \A x \in 1 .. b - a + 1 : SubSeq(s, a, b)[x] = s[a + x - 1]
    BY SubSeqAny
  <2>2. (IF a <= b THEN b - a + 1 ELSE 0) = k /\ b - a + 1 = k
    BY <1>1
  <2>3. QED
    BY <2>1, <2>2
<1>3. IsSeq(q) /\ Len(q) = k + 1 /\ \A x \in 1 .. k + 1 : q[x] = s[a + x - 1]
  <2>1. /\ IsSeq(SubSeq(s, a, b + 1))
        /\ Len(SubSeq(s, a, b + 1)) = IF a <= b + 1 THEN b + 1 - a + 1 ELSE 0
        /\ \A x \in 1 .. b + 1 - a + 1 : SubSeq(s, a, b + 1)[x] = s[a + x - 1]
    BY SubSeqAny
  <2>2. b + 1 - a + 1 = k + 1
    BY <1>1
  <2>3. QED
    BY <2>1, <2>2
<1> HIDE DEF p, q
<1>4. q[k + 1] = s[b + 1]
  <2>1. k + 1 \in 1 .. k + 1 /\ a + (k + 1) - 1 = b + 1
    BY <1>1
  <2>2. QED
    BY <1>3, <2>1
<1>5. \A x \in 1 .. k : q[x] = p[x]
  <2>1. \A x \in 1 .. k : x \in 1 .. k + 1
    OBVIOUS
  <2>2. QED
    BY <1>2, <1>3, <2>1
<1>6. ASSUME NEW e
      PROVE  /\ Count(p, e) \in Nat
             /\ Count(q, e) = IF s[b + 1] = e THEN Count(p, e) + 1 ELSE Count(p, e)
  <2>1. Count(q, e) = CountTo(q, e, k + 1) /\ Count(p, e) = CountTo(p, e, k) /\ Count(p, e) \in Nat
    BY <1>2, <1>3, CountAll
  <2>2. CountTo(q, e, k) = CountTo(p, e, k)
    BY <1>5, CountSame
  <2>3. CountTo(q, e, k + 1) = IF q[k + 1] = e THEN CountTo(q, e, k) + 1 ELSE CountTo(q, e, k)
    BY CountMore
  <2>4. QED
    BY <1>4, <2>1, <2>2, <2>3
<1>7. c # open
  BY PairIs DEF Round
<1>8. /\ Count(p, open) \in Nat /\ Count(p, c) \in Nat
      /\ Count(q, open) = IF s[b + 1] = open THEN Count(p, open) + 1 ELSE Count(p, open)
      /\ Count(q, c) = IF s[b + 1] = c THEN Count(p, c) + 1 ELSE Count(p, c)
  BY <1>6
<1>9. Net(p, open) = Count(p, open) - Count(p, c) /\ Net(q, open) = Count(q, open) - Count(q, c)
  BY DEF Net
<1> HIDE DEF c
<1>10. /\ Net(p, open) \in Int
       /\ Net(q, open) = IF s[b + 1] = open THEN Net(p, open) + 1
                         ELSE IF s[b + 1] = c THEN Net(p, open) - 1 ELSE Net(p, open)
  BY <1>7, <1>8, <1>9
<1>11. QED
  BY <1>10 DEF p, q, c

LEMMA NetNone == ASSUME NEW open PROVE IsSeq(<<>>) /\ Net(<<>>, open) = 0
<1>1. ASSUME NEW e PROVE Count(<<>>, e) = 0
  BY EmptyAny, CountAll, CountNone
<1>2. QED
  BY <1>1, EmptyAny DEF Net

\* From where the depth is positive it stays so until a closer makes it 0.
LEMMA DepthStays ==
  ASSUME NEW line, NEW open \in Round, NEW pos \in Nat, pos >= 1, NEW depth \in Nat,
         NEW s \in Nat, s >= pos - 1, depth + Net(SubSeq(line, pos, s), open) > 0,
         NEW m \in Nat, m >= s,
         \A i \in s + 1 .. m : ~(line[i] = CLOSER[open] /\ depth + Net(SubSeq(line, pos, i), open) = 0)
  PROVE  depth + Net(SubSeq(line, pos, m), open) > 0
<1> DEFINE D(i) == depth + Net(SubSeq(line, pos, i), open)
           N == {k \in Nat : s + k <= m => D(s + k) > 0}
<1>1. 0 \in N
  <2>1. s + 0 = s
    OBVIOUS
  <2>2. QED
    BY <2>1
<1>2. ASSUME NEW k \in Nat, k \in N PROVE k + 1 \in N
  <2>1. ASSUME s + (k + 1) <= m PROVE D(s + (k + 1)) > 0
    <3>1. PICK b \in Nat : b = s + k
      BY SMT
    <3>2. s + (k + 1) = b + 1 /\ b <= m /\ pos <= b + 1 /\ b + 1 \in s + 1 .. m
      BY <2>1, <3>1
    <3>3. D(b) > 0
      BY <1>2, <3>1, <3>2
    <3> HIDE DEF N
    <3>4. /\ Net(SubSeq(line, pos, b), open) \in Int
          /\ Net(SubSeq(line, pos, b + 1), open) =
              IF line[b + 1] = open THEN Net(SubSeq(line, pos, b), open) + 1
              ELSE IF line[b + 1] = CLOSER[open] THEN Net(SubSeq(line, pos, b), open) - 1
              ELSE Net(SubSeq(line, pos, b), open)
      BY <3>2, NetStep
    <3>5. ~(line[b + 1] = CLOSER[open] /\ D(b + 1) = 0)
      BY <3>2
    <3>6. D(b + 1) > 0
      <4> DEFINE v == Net(SubSeq(line, pos, b), open)
                 w == Net(SubSeq(line, pos, b + 1), open)
                 c == CLOSER[open]
      <4>1. v \in Int /\ w = (IF line[b + 1] = open THEN v + 1 ELSE IF line[b + 1] = c THEN v - 1 ELSE v)
        BY <3>4
      <4>2. depth + v > 0 /\ ~(line[b + 1] = c /\ depth + w = 0)
        BY <3>3, <3>5
      <4> HIDE DEF v, w, c
      <4>3. depth + w > 0
        BY <4>1, <4>2
      <4>4. QED
        BY <4>3 DEF w
    <3>7. QED
      BY <3>2, <3>6
  <2>2. QED
    BY <2>1
<1> HIDE DEF N
<1>3. Nat \subseteq N
  BY <1>1, <1>2, NatSetInduction
<1>4. PICK k \in Nat : s + k = m
  <2>1. m - s \in Nat /\ s + (m - s) = m
    OBVIOUS
  <2>2. QED
    BY <2>1
<1>5. D(s + k) > 0
  BY <1>3, <1>4 DEF N
<1>6. QED
  BY <1>4, <1>5

LEMMA FindEndIs ==
  ASSUME NEW line, IsSeq(line), NEW open \in Round, NEW pos \in Nat, pos >= 1, NEW depth \in Nat,
         NEW s \in Nat, s >= pos - 1, s <= Len(line), depth + Net(SubSeq(line, pos, s), open) > 0,
         s = pos - 1 \/ s = pos
  PROVE  \E e \in Nat :
           /\ e = FindEndOfExpressionInLine(line, pos, depth, open)
           /\ e > 0 => /\ e \in s + 1 .. Len(line)
                       /\ depth + Net(SubSeq(line, pos, e), open) = 0
                       /\ \A p \in pos .. e - 1 : depth + Net(SubSeq(line, pos, p), open) > 0
           /\ e = 0 => \A p \in s .. Len(line) : depth + Net(SubSeq(line, pos, p), open) > 0
<1> DEFINE D(i) == depth + Net(SubSeq(line, pos, i), open)
           I == {i \in pos .. Len(line) : line[i] = CLOSER[open] /\ D(i) = 0}
<1>1. FindEndOfExpressionInLine(line, pos, depth, open) = IF I = {} THEN 0 ELSE Min(I)
  BY DEF FindEndOfExpressionInLine, FirstOf
<1>2. Len(line) \in Nat
  BY IsSeqDomain
<1>3. ASSUME NEW m \in Nat, m >= s, m <= Len(line), \A i \in s + 1 .. m : i \notin I PROVE D(m) > 0
  <2>1. \A i \in s + 1 .. m : ~(line[i] = CLOSER[open] /\ D(i) = 0)
    <3> SUFFICES ASSUME NEW i \in s + 1 .. m PROVE ~(line[i] = CLOSER[open] /\ D(i) = 0)
      OBVIOUS
    <3>1. i \in pos .. Len(line)
      BY <1>2, <1>3
    <3> HIDE DEF D
    <3>2. QED
      BY <1>3, <3>1
  <2>2. QED
    BY <1>3, <2>1, DepthStays
<1>4. I \subseteq Nat /\ \A i \in I : i >= s + 1 /\ i <= Len(line) /\ D(i) = 0
  <2> SUFFICES ASSUME NEW i \in I PROVE i \in Nat /\ i >= s + 1 /\ i <= Len(line) /\ D(i) = 0
    OBVIOUS
  <2>1. D(s) > 0
    OBVIOUS
  <2> HIDE DEF D
  <2>2. i \in Nat /\ i >= pos /\ i <= Len(line) /\ D(i) = 0
    BY <1>2
  <2>3. i # s
    BY <2>1, <2>2
  <2>4. QED
    BY <2>2, <2>3
<1> HIDE DEF I, D
<1>5. CASE I = {}
  <2>1. \A p \in s .. Len(line) : D(p) > 0
    BY <1>2, <1>3, <1>5
  <2>2. QED
    BY <1>1, <1>5, <2>1 DEF D
<1>6. CASE I # {}
  <2>1. Min(I) \in I /\ \A x \in I : Min(I) <= x
    BY <1>4, <1>6, LeastOf
  <2>2. PICK e \in I : e = Min(I)
    BY <2>1
  <2>3. e \in Nat /\ e > 0 /\ e \in s + 1 .. Len(line) /\ D(e) = 0
    BY <1>2, <1>4
  <2>4. ASSUME NEW p \in pos .. e - 1 PROVE D(p) > 0
    <3>1. p \in Nat /\ p >= s /\ p <= Len(line) /\ p < e
      BY <1>2, <2>3
    <3>2. \A i \in s + 1 .. p : i < e
      BY <2>3, <3>1
    <3>3. \A i \in s + 1 .. p : i \notin I
      <4> SUFFICES ASSUME NEW i \in s + 1 .. p, i \in I PROVE FALSE
        OBVIOUS
      <4>1. e <= i /\ i < e
        BY <2>1, <2>2, <3>2
      <4>2. i \in Int /\ e \in Int
        BY <2>3
      <4>3. QED
        BY <4>1, <4>2
    <3>4. QED
      BY <1>3, <3>1, <3>3
  <2>5. QED
    BY <1>1, <1>6, <2>2, <2>3, <2>4 DEF D
<1>7. QED
  BY <1>5, <1>6

\* The sequences f of a joined to i ones.
Joined(f, seqs, k) == f = [i \in 1 .. k |-> IF i = 1 THEN seqs[i] ELSE f[i - 1] \o seqs[i]]
LEMMA FlattenRuns ==
  ASSUME NEW seqs, Len(seqs) # 0
  PROVE  FlattenSeq(seqs) = (CHOOSE f : Joined(f, seqs, Len(seqs)))[Len(seqs)]
  BY Zenon DEF FlattenSeq, Joined

LEMMA JoinedExists == ASSUME NEW seqs, NEW k \in Nat PROVE \E f : Joined(f, seqs, k)
<1> DEFINE N == {m \in Nat : \E f : Joined(f, seqs, m)}
<1>1. 0 \in N
  <2>1. Joined([i \in 1 .. 0 |-> 0], seqs, 0)
    BY DEF Joined
  <2>2. QED
    BY <2>1
<1>2. ASSUME NEW m \in Nat, m \in N PROVE m + 1 \in N
  <2>1. PICK f : Joined(f, seqs, m)
    BY <1>2
  <2> DEFINE J(h, i) == IF i = 1 THEN seqs[i] ELSE h[i - 1] \o seqs[i]
             g == [i \in 1 .. m + 1 |-> IF i <= m THEN f[i] ELSE J(f, i)]
  <2>2. \A i \in 1 .. m : f[i] = J(f, i)
    BY <2>1 DEF Joined
  <2>3. \A i \in 1 .. m + 1 : g[i] = IF i <= m THEN f[i] ELSE J(f, i)
    OBVIOUS
  <2>4. g = [i \in 1 .. m + 1 |-> g[i]]
    OBVIOUS
  <2> HIDE DEF g
  <2>5. ASSUME NEW i \in 1 .. m + 1 PROVE g[i] = J(g, i)
    <3>1. CASE i = 1
      <4>1. J(f, i) = seqs[i] /\ J(g, i) = seqs[i]
        BY <3>1
      <4> HIDE DEF J
      <4>2. QED
        BY <2>2, <2>3, <4>1
    <3>2. CASE i # 1
      <4>1. i - 1 \in 1 .. m /\ i - 1 \in 1 .. m + 1 /\ i - 1 <= m
        BY <3>2
      <4>2. g[i - 1] = f[i - 1]
        BY <2>3, <4>1
      <4>3. J(g, i) = J(f, i)
        BY <4>2
      <4> HIDE DEF J
      <4>4. QED
        BY <2>2, <2>3, <4>3
    <3>3. QED
      BY <3>1, <3>2
  <2>6. g = [i \in 1 .. m + 1 |-> J(g, i)]
    <3> HIDE DEF J
    <3>1. [i \in 1 .. m + 1 |-> g[i]] = [i \in 1 .. m + 1 |-> J(g, i)]
      BY <2>5
    <3>2. QED
      BY <2>4, <3>1
  <2>7. Joined(g, seqs, m + 1)
    BY <2>6, Zenon DEF Joined
  <2>8. QED
    BY <2>7
<1> HIDE DEF N
<1>3. Nat \subseteq N
  BY <1>1, <1>2, NatSetInduction
<1>4. QED
  BY <1>3 DEF N

LEMMA FlattenSteps ==
  ASSUME NEW seqs, IsSeq(seqs), \A i \in 1 .. Len(seqs) : IsSeq(seqs[i]),
         NEW m \in Nat, m = Len(seqs), m # 0
  PROVE  \E f : /\ FlattenSeq(seqs) = f[m] /\ f[1] = seqs[1]
                /\ \A k \in 1 .. m : IsSeq(f[k])
                /\ \A k \in 1 .. m - 1 : f[k + 1] = f[k] \o seqs[k + 1]
<1>1. PICK f : f = CHOOSE g : Joined(g, seqs, m)
  OBVIOUS
<1>2. Joined(f, seqs, m)
  BY <1>1, JoinedExists, Zenon
<1>3. FlattenSeq(seqs) = f[m]
  BY <1>1, FlattenRuns
<1>4. \A i \in 1 .. m : f[i] = IF i = 1 THEN seqs[i] ELSE f[i - 1] \o seqs[i]
  BY <1>2 DEF Joined
<1>5. f[1] = seqs[1]
  BY <1>4
<1>6. ASSUME NEW k \in 1 .. m - 1 PROVE f[k + 1] = f[k] \o seqs[k + 1]
  <2>1. k + 1 \in 1 .. m /\ k + 1 # 1 /\ (k + 1) - 1 = k
    OBVIOUS
  <2>2. QED
    BY <1>4, <2>1
<1> DEFINE N == {k \in Nat : k + 1 <= m => IsSeq(f[k + 1])}
<1>7. 0 \in N
  BY <1>5
<1>8. ASSUME NEW k \in Nat, k \in N PROVE k + 1 \in N
  <2>1. ASSUME (k + 1) + 1 <= m PROVE IsSeq(f[(k + 1) + 1])
    <3>1. PICK j \in Nat : j = k + 1
      BY SMT
    <3>2. j \in 1 .. m - 1 /\ j + 1 \in 1 .. Len(seqs) /\ j <= m
      BY <2>1, <3>1
    <3>3. IsSeq(f[j]) /\ IsSeq(seqs[j + 1])
      BY <1>8, <3>1, <3>2
    <3>4. f[j + 1] = f[j] \o seqs[j + 1]
      BY <1>6, <3>2
    <3>5. QED
      BY <3>1, <3>3, <3>4, ConcatAny
  <2>2. QED
    BY <2>1
<1> HIDE DEF N
<1>9. Nat \subseteq N
  BY <1>7, <1>8, NatSetInduction
<1>10. ASSUME NEW k \in 1 .. m PROVE IsSeq(f[k])
  <2>1. k - 1 \in Nat /\ (k - 1) + 1 = k
    OBVIOUS
  <2>2. k - 1 \in N
    BY <1>9, <2>1
  <2>3. QED
    BY <2>1, <2>2 DEF N
<1>11. QED
  BY <1>3, <1>5, <1>6, <1>10

LEMMA FlattenEmpty ==
  ASSUME NEW seqs, IsSeq(seqs), Len(seqs) = 0
  PROVE  FlattenSeq(seqs) = <<>>
<1>1. seqs = <<>>
  BY EmptyLen
<1>2. QED
  BY <1>1 DEF FlattenSeq

LEMMA FlattenAny ==
  ASSUME NEW seqs, IsSeq(seqs), \A i \in 1 .. Len(seqs) : IsSeq(seqs[i])
  PROVE  IsSeq(FlattenSeq(seqs))
<1>1. PICK m \in Nat : m = Len(seqs)
  BY IsSeqDomain
<1>2. CASE m = 0
  BY <1>1, <1>2, FlattenEmpty, NetNone
<1>3. CASE m # 0
  <2>1. PICK f : FlattenSeq(seqs) = f[m] /\ \A k \in 1 .. m : IsSeq(f[k])
    BY <1>1, <1>3, FlattenSteps
  <2>2. QED
    BY <1>3, <2>1
<1>4. QED
  BY <1>2, <1>3

\* Joined lines: what they hold of brackets is the sum of what each holds.
LEMMA FlattenNet ==
  ASSUME NEW seqs, IsSeq(seqs), \A i \in 1 .. Len(seqs) : IsSeq(seqs[i]), NEW open, NEW d,
         \A i \in 0 .. Len(seqs) : d[i] \in Int,
         \A i \in 1 .. Len(seqs) : d[i] = d[i - 1] + Net(seqs[i], open)
  PROVE  Net(FlattenSeq(seqs), open) = d[Len(seqs)] - d[0]
<1>1. PICK m \in Nat : m = Len(seqs)
  BY IsSeqDomain
<1>2. CASE m = 0
  <2>1. d[0] \in Int
    BY <1>1, <1>2
  <2>2. FlattenSeq(seqs) = <<>>
    BY <1>1, <1>2, FlattenEmpty
  <2>3. QED
    BY <1>1, <1>2, <2>1, <2>2, NetNone
<1>3. CASE m # 0
  <2>1. PICK f : /\ FlattenSeq(seqs) = f[m] /\ f[1] = seqs[1]
                 /\ \A k \in 1 .. m : IsSeq(f[k])
                 /\ \A k \in 1 .. m - 1 : f[k + 1] = f[k] \o seqs[k + 1]
    BY <1>1, <1>3, FlattenSteps
  <2> DEFINE N == {k \in Nat : k + 1 <= m => Net(f[k + 1], open) = d[k + 1] - d[0]}
  <2>2. 0 \in N
    <3>1. 1 \in 1 .. m /\ 0 \in 0 .. m /\ 1 \in 0 .. m /\ 0 + 1 = 1 /\ 1 - 1 = 0
      BY <1>3
    <3>2. IsSeq(seqs[1]) /\ d[1] = d[0] + Net(seqs[1], open)
      BY <1>1, <3>1
    <3>3. d[0] \in Int /\ d[1] \in Int /\ Net(seqs[1], open) \in Int
      BY <1>1, <3>1, <3>2, NetAny
    <3>4. Net(f[1], open) = d[1] - d[0]
      BY <2>1, <3>2, <3>3
    <3>5. QED
      BY <3>1, <3>4
  <2>3. ASSUME NEW k \in Nat, k \in N PROVE k + 1 \in N
    <3>1. ASSUME (k + 1) + 1 <= m PROVE Net(f[(k + 1) + 1], open) = d[(k + 1) + 1] - d[0]
      <4>1. PICK j \in Nat : j = k + 1
        BY SMT
      <4>2. /\ j \in 1 .. m /\ j \in 1 .. m - 1 /\ j + 1 \in 1 .. m /\ (j + 1) - 1 = j
            /\ j \in 0 .. m /\ j + 1 \in 0 .. m /\ 0 \in 0 .. m
        BY <3>1, <4>1
      <4>3. f[j + 1] = f[j] \o seqs[j + 1] /\ IsSeq(f[j])
        BY <2>1, <4>2
      <4>4. Net(f[j], open) = d[j] - d[0]
        BY <2>3, <4>1, <4>2
      <4>5. IsSeq(seqs[j + 1]) /\ d[j + 1] = d[j] + Net(seqs[j + 1], open)
        BY <1>1, <4>2
      <4>6. Net(f[j + 1], open) = Net(f[j], open) + Net(seqs[j + 1], open)
        BY <4>3, <4>5, NetConcat
      <4>7. d[j] \in Int /\ d[0] \in Int /\ d[j + 1] \in Int /\ Net(seqs[j + 1], open) \in Int
        BY <1>1, <4>2, <4>5, NetAny
      <4>8. Net(f[j + 1], open) = d[j + 1] - d[0]
        BY <4>4, <4>5, <4>6, <4>7
      <4>9. QED
        BY <4>1, <4>8
    <3>2. QED
      BY <3>1
  <2> HIDE DEF N
  <2>4. Nat \subseteq N
    BY <2>2, <2>3, NatSetInduction
  <2>5. PICK k \in Nat : k + 1 = m
    <3>1. m - 1 \in Nat /\ (m - 1) + 1 = m
      BY <1>3
    <3>2. QED
      BY <3>1
  <2>6. Net(f[k + 1], open) = d[k + 1] - d[0]
    BY <2>4, <2>5 DEF N
  <2>7. QED
    BY <1>1, <2>1, <2>5, <2>6
<1>4. QED
  BY <1>2, <1>3

-----------------------------------------------------------------------------
(* The search over several lines.                                          *)

\* What a bracket at position i of line a leaves open at the end of each line.
OpenSums(f, lines, a, i, last) ==
  f = [k \in a .. last |->
         IF k = a THEN Net(SubSeq(lines[a], i, Len(lines[a])), lines[a][i])
         ELSE f[k - 1] + Net(lines[k], lines[a][i])]
ClosingLine(f, lines, a) == FirstOf({k \in a + 1 .. Last_(lines) : f[k] <= 0}, -1)

OpenSum(lines, a, i) == CHOOSE f : OpenSums(f, lines, a, i, Last_(lines))
LEMMA CloseUnfold ==
  ASSUME NEW lines, NEW a, NEW i
  PROVE  LET open == lines[a][i]
             f == OpenSum(lines, a, i)
             first == FindEndOfExpressionInLine(lines[a], i, 0, open)
             end == ClosingLine(f, lines, a)
         IN CloseExpression(lines, a, i) =
              CASE open \notin DOMAIN CLOSER -> [line |-> Last_(lines), pos |-> 0]
                [] open \in DOMAIN CLOSER /\ first > 0 -> [line |-> a, pos |-> first]
                [] open \in DOMAIN CLOSER /\ first = 0 /\ end >= 0 ->
                     [line |-> end, pos |->
                        FindEndOfExpressionInLine(lines[end], 1, f[end - 1], open)]
                [] OTHER -> [line |-> Last_(lines), pos |-> 0]
  BY Zenon DEF CloseExpression, OpenSums, OpenSum, ClosingLine

LEMMA OpenSumsExist ==
  ASSUME NEW lines, NEW a \in Nat, NEW i, NEW last \in Nat, a <= last
  PROVE  \E f : OpenSums(f, lines, a, i, last)
<1> DEFINE N == {m \in Nat : \E f : OpenSums(f, lines, a, i, a + m)}
           x == Net(SubSeq(lines[a], i, Len(lines[a])), lines[a][i])
           y(k) == Net(lines[k], lines[a][i])
           J(h, k) == IF k = a THEN x ELSE h[k - 1] + y(k)
<1>1. 0 \in N
  <2> DEFINE f == [k \in a .. a + 0 |-> x]
  <2> HIDE DEF x, y
  <2>1. \A k \in a .. a + 0 : k = a
    OBVIOUS
  <2>2. \A k \in a .. a + 0 : J(f, k) = x
    BY <2>1
  <2>3. f = [k \in a .. a + 0 |-> J(f, k)]
    <3> HIDE DEF J
    <3>1. [k \in a .. a + 0 |-> x] = [k \in a .. a + 0 |-> J(f, k)]
      BY <2>2
    <3>2. QED
      BY <3>1
  <2>4. OpenSums(f, lines, a, i, a + 0)
    BY <2>3, Zenon DEF OpenSums, x, y
  <2>5. QED
    BY <2>4
<1>2. ASSUME NEW m \in Nat, m \in N PROVE m + 1 \in N
  <2>1. PICK f : OpenSums(f, lines, a, i, a + m)
    BY <1>2
  <2>2. PICK b \in Nat : b = a + m
    BY SMT
  <2>3. a + (m + 1) = b + 1 /\ a <= b
    BY <2>2
  <2> DEFINE g == [k \in a .. b + 1 |-> IF k <= b THEN f[k] ELSE J(f, k)]
  <2>4. \A k \in a .. b : f[k] = J(f, k)
    BY <2>1, <2>2 DEF OpenSums
  <2> HIDE DEF x, y
  <2>5. \A k \in a .. b + 1 : g[k] = IF k <= b THEN f[k] ELSE J(f, k)
    OBVIOUS
  <2>6. g = [k \in a .. b + 1 |-> g[k]]
    OBVIOUS
  <2> HIDE DEF g
  <2>7. ASSUME NEW k \in a .. b + 1 PROVE g[k] = J(g, k)
    <3>1. CASE k = a
      <4>1. J(f, k) = x /\ J(g, k) = x
        BY <3>1
      <4> HIDE DEF J
      <4>2. QED
        BY <2>4, <2>5, <4>1
    <3>2. CASE k # a
      <4>1. k - 1 \in a .. b /\ k - 1 \in a .. b + 1 /\ k - 1 <= b
        BY <2>3, <3>2
      <4>2. g[k - 1] = f[k - 1]
        BY <2>5, <4>1
      <4>3. J(g, k) = J(f, k)
        BY <4>2
      <4> HIDE DEF J
      <4>4. QED
        BY <2>4, <2>5, <4>3
    <3>3. QED
      BY <3>1, <3>2
  <2>8. g = [k \in a .. b + 1 |-> J(g, k)]
    <3> HIDE DEF J
    <3>1. [k \in a .. b + 1 |-> g[k]] = [k \in a .. b + 1 |-> J(g, k)]
      BY <2>7
    <3>2. QED
      BY <2>6, <3>1
  <2>9. OpenSums(g, lines, a, i, a + (m + 1))
    <3>1. OpenSums(g, lines, a, i, b + 1)
      BY <2>8, Zenon DEF OpenSums, x, y
    <3>2. QED
      BY <2>3, <3>1
  <2>10. QED
    BY <2>9
<1> HIDE DEF N
<1>3. Nat \subseteq N
  BY <1>1, <1>2, NatSetInduction
<1>4. last - a \in Nat /\ a + (last - a) = last
  OBVIOUS
<1>5. \E f : OpenSums(f, lines, a, i, a + (last - a))
  BY <1>3, <1>4 DEF N
<1>6. QED
  BY <1>4, <1>5

\* The sums are numbers, each line adds what it holds.
LEMMA OpenSumsAre ==
  ASSUME NEW lines, NEW last, Document(lines, last), NEW a \in 0 .. last, NEW i \in Nat,
         NEW f, OpenSums(f, lines, a, i, last)
  PROVE  /\ \A k \in a .. last : f[k] \in Int
         /\ f[a] = Net(SubSeq(lines[a], i, Len(lines[a])), lines[a][i])
         /\ \A k \in a + 1 .. last : f[k] = f[k - 1] + Net(lines[k], lines[a][i])
<1>1. last \in Nat /\ \A k \in 0 .. last : IsSeq(lines[k]) /\ Len(lines[k]) \in Nat
  BY IsSeqDomain DEF Document
<1> DEFINE x == Net(SubSeq(lines[a], i, Len(lines[a])), lines[a][i])
           y(k) == Net(lines[k], lines[a][i])
<1>2. \A k \in a .. last : f[k] = IF k = a THEN x ELSE f[k - 1] + y(k)
  BY Zenon DEF OpenSums
<1>3. x \in Int
  <2>1. IsSeq(SubSeq(lines[a], i, Len(lines[a])))
    BY <1>1, SubSeqAny
  <2>2. QED
    BY <2>1, NetAny
<1>4. \A k \in 0 .. last : y(k) \in Int
  BY <1>1, NetAny
<1> HIDE DEF x, y
<1>5. f[a] = x /\ \A k \in a + 1 .. last : f[k] = f[k - 1] + y(k)
  BY <1>1, <1>2
<1> DEFINE N == {k \in Nat : a + k <= last => f[a + k] \in Int}
<1>6. 0 \in N
  BY <1>3, <1>5
<1>7. ASSUME NEW k \in Nat, k \in N PROVE k + 1 \in N
  <2>1. ASSUME a + (k + 1) <= last PROVE f[a + (k + 1)] \in Int
    <3>1. PICK b \in Nat : b = a + k
      BY SMT
    <3>2. b + 1 \in a + 1 .. last /\ b <= last /\ b + 1 \in 0 .. last /\ (b + 1) - 1 = b /\ a + (k + 1) = b + 1
      BY <1>1, <2>1, <3>1
    <3>3. f[b] \in Int /\ y(b + 1) \in Int
      BY <1>4, <1>7, <3>1, <3>2
    <3>4. f[b + 1] = f[b] + y(b + 1)
      BY <1>5, <3>2
    <3>5. QED
      BY <3>2, <3>3, <3>4
  <2>2. QED
    BY <2>1
<1> HIDE DEF N
<1>8. Nat \subseteq N
  BY <1>6, <1>7, NatSetInduction
<1>9. ASSUME NEW k \in a .. last PROVE f[k] \in Int
  <2>1. k - a \in Nat /\ a + (k - a) = k /\ k <= last
    BY <1>1
  <2>2. k - a \in N
    BY <1>8, <2>1
  <2>3. QED
    BY <2>1, <2>2 DEF N
<1>10. QED
  BY <1>5, <1>9 DEF x, y

LEMMA SubSeqWhole == ASSUME NEW s, IsSeq(s) PROVE SubSeq(s, 1, Len(s)) = s
<1>1. PICK m \in Nat : m = Len(s)
  BY IsSeqDomain
<1>2. /\ IsSeq(SubSeq(s, 1, m)) /\ Len(SubSeq(s, 1, m)) = IF 1 <= m THEN m - 1 + 1 ELSE 0
      /\ \A x \in 1 .. m - 1 + 1 : SubSeq(s, 1, m)[x] = s[1 + x - 1]
  BY SubSeqAny
<1> DEFINE u == SubSeq(s, 1, m)
<1> HIDE DEF u
<1>3. IsSeq(u) /\ Len(u) = m /\ \A x \in 1 .. m : u[x] = s[x]
  <2>1. (IF 1 <= m THEN m - 1 + 1 ELSE 0) = m /\ m - 1 + 1 = m
    OBVIOUS
  <2>2. \A x \in 1 .. m : 1 + x - 1 = x
    OBVIOUS
  <2>3. QED
    BY <1>2, <2>1, <2>2 DEF u
<1>4. u = s
  BY <1>1, <1>3, SameSeq
<1>5. QED
  BY <1>1, <1>4 DEF u

\* The text from position i of line a to position p of line k.
Between(lines, a, i, k, p) ==
  IF a = k THEN SubSeq(lines[a], i, p)
  ELSE SubSeq(lines[a], i, Len(lines[a]))
       \o FlattenSeq([j \in 1 .. k - a - 1 |-> lines[a + j]])
       \o SubSeq(lines[k], 1, p)

LEMMA BetweenNet ==
  ASSUME NEW lines, NEW last, Document(lines, last), NEW a \in 0 .. last, NEW i \in Nat,
         NEW f, OpenSums(f, lines, a, i, last), NEW k \in a + 1 .. last, NEW p \in Nat
  PROVE  Net(Between(lines, a, i, k, p), lines[a][i])
           = f[k - 1] + Net(SubSeq(lines[k], 1, p), lines[a][i])
<1> DEFINE open == lines[a][i]
           seqs == [j \in 1 .. k - a - 1 |-> lines[a + j]]
           d == [j \in 0 .. k - a - 1 |-> f[a + j]]
           head == SubSeq(lines[a], i, Len(lines[a]))
           tail == SubSeq(lines[k], 1, p)
<1>1. last \in Nat /\ \A x \in 0 .. last : IsSeq(lines[x]) /\ Len(lines[x]) \in Nat
  BY IsSeqDomain DEF Document
<1>2. /\ \A x \in a .. last : f[x] \in Int
      /\ f[a] = Net(head, open)
      /\ \A x \in a + 1 .. last : f[x] = f[x - 1] + Net(lines[x], open)
  BY OpenSumsAre
<1>3. PICK m \in Nat : m = k - a - 1
  BY <1>1
<1>4. a + m = k - 1 /\ a + m < last
  BY <1>1, <1>3
<1>5. IsSeq(seqs) /\ Len(seqs) = m /\ \A j \in 1 .. m : seqs[j] = lines[a + j]
  <2>1. seqs = [j \in 1 .. m |-> lines[a + j]]
    BY <1>3
  <2>2. [j \in 1 .. m |-> lines[a + j]] \in [1 .. m -> {lines[a + j] : j \in 1 .. m}]
    OBVIOUS
  <2>3. IsSeq([j \in 1 .. m |-> lines[a + j]]) /\ Len([j \in 1 .. m |-> lines[a + j]]) = m
    BY <2>2, MadeSeq
  <2>4. QED
    BY <2>1, <2>3
<1>6. \A j \in 0 .. m : d[j] = f[a + j]
  BY <1>3
<1> HIDE DEF d, seqs, open
<1>7. \A j \in 1 .. m : IsSeq(seqs[j])
  <2> SUFFICES ASSUME NEW j \in 1 .. m PROVE IsSeq(seqs[j])
    OBVIOUS
  <2>1. a + j \in 0 .. last
    BY <1>1, <1>4
  <2>2. QED
    BY <1>1, <1>5, <2>1
<1>8. \A j \in 0 .. m : d[j] \in Int
  <2> SUFFICES ASSUME NEW j \in 0 .. m PROVE d[j] \in Int
    OBVIOUS
  <2>1. a + j \in a .. last
    BY <1>1, <1>4
  <2>2. QED
    BY <1>2, <1>6, <2>1
<1>9. \A j \in 1 .. m : d[j] = d[j - 1] + Net(seqs[j], open)
  <2> SUFFICES ASSUME NEW j \in 1 .. m PROVE d[j] = d[j - 1] + Net(seqs[j], open)
    OBVIOUS
  <2>1. a + j \in a + 1 .. last /\ (a + j) - 1 = a + (j - 1) /\ j \in 0 .. m /\ j - 1 \in 0 .. m
    BY <1>1, <1>4
  <2>2. f[a + j] = f[a + (j - 1)] + Net(lines[a + j], open)
    BY <1>2, <2>1
  <2>3. QED
    BY <1>5, <1>6, <2>1, <2>2
<1> DEFINE middle == FlattenSeq(seqs)
<1>10. IsSeq(middle) /\ Net(middle, open) = d[m] - d[0]
  <2>1. IsSeq(seqs) /\ Len(seqs) = m /\ \A j \in 1 .. Len(seqs) : IsSeq(seqs[j])
    BY <1>5, <1>7
  <2>2. /\ \A j \in 0 .. Len(seqs) : d[j] \in Int
        /\ \A j \in 1 .. Len(seqs) : d[j] = d[j - 1] + Net(seqs[j], open)
    BY <1>5, <1>8, <1>9
  <2>3. IsSeq(FlattenSeq(seqs))
    BY <2>1, FlattenAny
  <2>4. Net(FlattenSeq(seqs), open) = d[Len(seqs)] - d[0]
    BY <2>1, <2>2, FlattenNet
  <2>5. QED
    BY <2>1, <2>3, <2>4
<1>11. IsSeq(head) /\ IsSeq(tail)
  <2>1. Len(lines[a]) \in Int /\ i \in Int /\ p \in Int /\ 1 \in Int
    BY <1>1
  <2>2. IsSeq(SubSeq(lines[a], i, Len(lines[a]))) /\ IsSeq(SubSeq(lines[k], 1, p))
    BY <2>1, SubSeqAny
  <2>3. QED
    BY <2>2
<1>12. Between(lines, a, i, k, p) = head \o middle \o tail
  <2>1. a # k
    BY <1>1
  <2>2. QED
    BY <2>1, Zenon DEF Between, seqs
<1>13. d[m] = f[k - 1] /\ d[0] = f[a] /\ f[k - 1] \in Int /\ f[a] \in Int
  <2>1. m \in 0 .. m /\ 0 \in 0 .. m /\ a + 0 = a /\ k - 1 \in a .. last /\ a \in a .. last
    BY <1>1, <1>4
  <2>2. QED
    BY <1>2, <1>4, <1>6, <2>1
<1> HIDE DEF head, middle, tail
<1>14. IsSeq(head \o middle) /\ Net(head \o middle, open) = Net(head, open) + Net(middle, open)
  BY <1>10, <1>11, NetConcat
<1>15. Net(head \o middle \o tail, open) = Net(head \o middle, open) + Net(tail, open)
  BY <1>11, <1>14, NetConcat
<1>16. Net(tail, open) \in Int
  BY <1>11, NetAny
<1>17. Net(head \o middle \o tail, open) = f[k - 1] + Net(tail, open)
  BY <1>2, <1>10, <1>13, <1>14, <1>15, <1>16
<1>18. QED
  BY <1>12, <1>17 DEF open, tail

LEMMA WholeNet ==
  ASSUME NEW lines, NEW last, Document(lines, last), NEW a \in 0 .. last, NEW i \in Nat,
         NEW f, OpenSums(f, lines, a, i, last), NEW k \in a .. last
  PROVE  Net(Between(lines, a, i, k, Len(lines[k])), lines[a][i]) = f[k]
<1>1. last \in Nat /\ \A x \in 0 .. last : IsSeq(lines[x]) /\ Len(lines[x]) \in Nat
  BY IsSeqDomain DEF Document
<1>2. /\ f[a] = Net(SubSeq(lines[a], i, Len(lines[a])), lines[a][i])
      /\ \A x \in a + 1 .. last : f[x] = f[x - 1] + Net(lines[x], lines[a][i])
  BY OpenSumsAre
<1>3. CASE k = a
  BY <1>2, <1>3 DEF Between
<1>4. CASE k # a
  <2>1. k \in a + 1 .. last /\ k \in 0 .. last
    BY <1>1, <1>4
  <2>2. IsSeq(lines[k]) /\ Len(lines[k]) \in Nat
    BY <1>1, <2>1
  <2>3. Net(Between(lines, a, i, k, Len(lines[k])), lines[a][i])
          = f[k - 1] + Net(SubSeq(lines[k], 1, Len(lines[k])), lines[a][i])
    BY <2>1, <2>2, BetweenNet
  <2>4. SubSeq(lines[k], 1, Len(lines[k])) = lines[k]
    BY <2>2, SubSeqWhole
  <2>5. QED
    BY <1>2, <2>1, <2>3, <2>4
<1>5. QED
  BY <1>3, <1>4

\* Where a bracket closes: no bracket is found to close it earlier, or none at all.
Closes(lines, a, i, last, k, e) ==
  LET net(x, p) == Net(Between(lines, a, i, x, p), lines[a][i]) IN
  /\ k \in a .. last /\ e \in Nat
  /\ e > 0 => /\ net(k, e) = 0
              /\ \A p \in (IF k = a THEN i ELSE 1) .. e - 1 : net(k, p) > 0
  /\ e = 0 => \A x \in a .. last : net(x, Len(lines[x])) > 0

LEMMA CloseIs ==
  ASSUME NEW lines, NEW last, Document(lines, last), NEW a \in 0 .. last,
         NEW i \in DOMAIN lines[a], lines[a][i] \in Round
  PROVE  \E k, e : CloseExpression(lines, a, i) = [line |-> k, pos |-> e]
                   /\ Closes(lines, a, i, last, k, e)
<1> DEFINE open == lines[a][i]
           net(x, p) == Net(Between(lines, a, i, x, p), open)
<1>1. last \in Nat /\ Last_(lines) = last
  BY DocumentLast
<1>2. \A x \in 0 .. last : IsSeq(lines[x]) /\ Len(lines[x]) \in Nat
  BY IsSeqDomain DEF Document
<1>3. i \in Nat /\ i >= 1 /\ i <= Len(lines[a]) /\ IsSeq(lines[a]) /\ Len(lines[a]) \in Nat
  <2>1. IsSeq(lines[a])
    BY <1>2
  <2>2. QED
    BY <2>1, IsSeqDomain
<1>4. PICK f : f = OpenSum(lines, a, i)
  OBVIOUS
<1>5. OpenSums(f, lines, a, i, last)
  <2>1. a \in Nat /\ a <= last
    BY <1>1
  <2>2. \E g : OpenSums(g, lines, a, i, last)
    BY <1>1, <2>1, OpenSumsExist
  <2>3. f = CHOOSE g : OpenSums(g, lines, a, i, last)
    BY <1>1, <1>4 DEF OpenSum
  <2>4. QED
    BY <2>2, <2>3, Zenon
<1>6. PICK first \in Nat :
        /\ first = FindEndOfExpressionInLine(lines[a], i, 0, open)
        /\ first > 0 => /\ first \in i + 1 .. Len(lines[a])
                        /\ 0 + Net(SubSeq(lines[a], i, first), open) = 0
                        /\ \A p \in i .. first - 1 : 0 + Net(SubSeq(lines[a], i, p), open) > 0
        /\ first = 0 => \A p \in i .. Len(lines[a]) : 0 + Net(SubSeq(lines[a], i, p), open) > 0
  <2>1. Net(SubSeq(lines[a], i, i), open) = 1
    <3>1. i - 1 \in Nat /\ i <= (i - 1) + 1 /\ (i - 1) + 1 = i
      BY <1>3
    <3>2. Net(SubSeq(lines[a], i, (i - 1) + 1), open) = Net(SubSeq(lines[a], i, i - 1), open) + 1
      BY <1>3, <3>1, NetStep
    <3>3. Net(SubSeq(lines[a], i, i - 1), open) = 0
      <4>1. IsSeq(SubSeq(lines[a], i, i - 1))
            /\ Len(SubSeq(lines[a], i, i - 1)) = IF i <= i - 1 THEN i - 1 - i + 1 ELSE 0
        BY <1>3, SubSeqAny
      <4>2. SubSeq(lines[a], i, i - 1) = <<>>
        BY <1>3, <4>1, EmptyLen
      <4>3. QED
        BY <4>2, NetNone
    <3>4. QED
      BY <3>1, <3>2, <3>3
  <2>2. 0 + Net(SubSeq(lines[a], i, i), open) > 0
    BY <2>1
  <2> HIDE DEF open
  <2>3. open \in Round
    BY DEF open
  <2>4. QED
    BY <1>3, <2>2, <2>3, FindEndIs
<1>7. PICK end : end = ClosingLine(f, lines, a)
  OBVIOUS
<1>8. \A x \in a .. last : net(x, Len(lines[x])) = f[x]
  BY <1>3, <1>5, WholeNet
<1>9. /\ \A x \in a .. last : f[x] \in Int
      /\ f[a] = Net(SubSeq(lines[a], i, Len(lines[a])), open)
      /\ \A x \in a + 1 .. last : f[x] = f[x - 1] + Net(lines[x], open)
  BY <1>3, <1>5, OpenSumsAre
<1>10. CloseExpression(lines, a, i) =
         CASE first > 0 -> [line |-> a, pos |-> first]
           [] first = 0 /\ end >= 0 ->
                [line |-> end, pos |-> FindEndOfExpressionInLine(lines[end], 1, f[end - 1], open)]
           [] OTHER -> [line |-> last, pos |-> 0]
  <2>1. open \in DOMAIN CLOSER
    BY PairIs DEF Round
  <2> HIDE DEF open
  <2>2. CloseExpression(lines, a, i) =
              CASE open \notin DOMAIN CLOSER -> [line |-> Last_(lines), pos |-> 0]
                [] open \in DOMAIN CLOSER /\ first > 0 -> [line |-> a, pos |-> first]
                [] open \in DOMAIN CLOSER /\ first = 0 /\ end >= 0 ->
                     [line |-> end, pos |->
                        FindEndOfExpressionInLine(lines[end], 1, f[end - 1], open)]
                [] OTHER -> [line |-> Last_(lines), pos |-> 0]
    <3> DEFINE F == OpenSum(lines, a, i)
               A == FindEndOfExpressionInLine(lines[a], i, 0, open)
               E == ClosingLine(F, lines, a)
    <3>1. CloseExpression(lines, a, i) =
              CASE open \notin DOMAIN CLOSER -> [line |-> Last_(lines), pos |-> 0]
                [] open \in DOMAIN CLOSER /\ A > 0 -> [line |-> a, pos |-> A]
                [] open \in DOMAIN CLOSER /\ A = 0 /\ E >= 0 ->
                     [line |-> E, pos |->
                        FindEndOfExpressionInLine(lines[E], 1, F[E - 1], open)]
                [] OTHER -> [line |-> Last_(lines), pos |-> 0]
      BY CloseUnfold, Zenon DEF open
    <3>2. F = f /\ A = first /\ E = end
      BY <1>4, <1>6, <1>7
    <3> HIDE DEF F, A, E
    <3>3. QED
      BY <3>1, <3>2
  <2>3. QED
    BY <1>1, <1>6, <2>1, <2>2
<1>11. CASE first > 0
  <2>1. CloseExpression(lines, a, i) = [line |-> a, pos |-> first]
    BY <1>10, <1>11
  <2>2. \A p : net(a, p) = Net(SubSeq(lines[a], i, p), open)
    BY DEF Between
  <2>3. a \in a .. last
    BY <1>1
  <2>4. net(a, first) = 0 /\ \A p \in i .. first - 1 : net(a, p) > 0
    <3>1. IsSeq(SubSeq(lines[a], i, first)) /\ \A p \in i .. first - 1 : IsSeq(SubSeq(lines[a], i, p))
      BY <1>3, SubSeqAny
    <3>2. /\ Net(SubSeq(lines[a], i, first), open) \in Int
          /\ \A p \in i .. first - 1 : Net(SubSeq(lines[a], i, p), open) \in Int
      BY <3>1, NetAny
    <3> HIDE DEF net, open
    <3>3. QED
      BY <1>6, <1>11, <2>2, <3>2
  <2>5. Closes(lines, a, i, last, a, first)
    BY <1>11, <2>3, <2>4 DEF Closes
  <2>6. QED
    BY <2>1, <2>5
<1>12. CASE first = 0
  <2>1. f[a] > 0
    <3>1. Len(lines[a]) \in i .. Len(lines[a])
      BY <1>3
    <3>2. 0 + f[a] > 0
      BY <1>6, <1>9, <1>12, <3>1
    <3>3. a \in a .. last
      BY <1>1
    <3>4. QED
      BY <1>9, <3>2, <3>3
  <2> DEFINE K == {k \in a + 1 .. last : f[k] <= 0}
  <2>2. end = IF K = {} THEN -1 ELSE Min(K)
    BY <1>1, <1>7 DEF ClosingLine, FirstOf
  <2>3. CASE K = {}
    <3>1. CloseExpression(lines, a, i) = [line |-> last, pos |-> 0]
      <4>1. ~(first > 0) /\ ~(end >= 0)
        BY <1>12, <2>2, <2>3
      <4>2. QED
        BY <1>10, <4>1
    <3>2. \A x \in a .. last : net(x, Len(lines[x])) > 0
      <4> SUFFICES ASSUME NEW x \in a .. last PROVE f[x] > 0
        BY <1>8
      <4>1. CASE x = a
        BY <2>1, <4>1
      <4>2. CASE x # a
        <5>1. x \in a + 1 .. last /\ f[x] \in Int
          BY <1>1, <1>9, <4>2
        <5>2. ~(f[x] <= 0)
          BY <2>3, <5>1
        <5>3. QED
          BY <5>1, <5>2
      <4>3. QED
        BY <4>1, <4>2
    <3>3. last \in a .. last
      BY <1>1
    <3>4. Closes(lines, a, i, last, last, 0)
      BY <3>2, <3>3 DEF Closes
    <3>5. QED
      BY <3>1, <3>4
  <2>4. CASE K # {}
    <3>1. K \subseteq Nat
      BY <1>1
    <3>2. Min(K) \in K /\ \A x \in K : Min(K) <= x
      BY <2>4, <3>1, LeastOf
    <3>3. PICK k \in K : k = Min(K)
      BY <3>2
    <3>4. /\ k = end /\ k \in a + 1 .. last /\ k \in a .. last /\ k \in 0 .. last
          /\ k - 1 \in a .. last /\ k >= 0 /\ f[k] <= 0
      <4>1. k \in a + 1 .. last /\ f[k] <= 0
        OBVIOUS
      <4> HIDE DEF K
      <4>2. k = end
        BY <2>2, <2>4, <3>3
      <4>3. QED
        BY <1>1, <4>1, <4>2
    <3>5. f[k - 1] > 0 /\ f[k - 1] \in Nat
      <4>1. CASE k - 1 = a
        BY <1>9, <2>1, <3>4, <4>1
      <4>2. CASE k - 1 # a
        <5>1. k - 1 \in a + 1 .. last /\ f[k - 1] \in Int
          BY <1>1, <1>9, <3>4, <4>2
        <5>2. k - 1 \notin K
          <6> HIDE DEF K
          <6>1. k \in Int /\ ~(k <= k - 1)
            BY <3>4
          <6>2. QED
            BY <3>2, <3>3, <6>1
        <5>3. QED
          BY <5>1, <5>2
      <4>3. QED
        BY <4>1, <4>2
    <3> HIDE DEF K
    <3>6. IsSeq(lines[k]) /\ Len(lines[k]) \in Nat
      BY <1>2, <3>4
    <3>7. f[k - 1] + Net(SubSeq(lines[k], 1, 0), open) > 0
      <4>1. IsSeq(SubSeq(lines[k], 1, 0)) /\ Len(SubSeq(lines[k], 1, 0)) = 0
        BY SubSeqAny
      <4>2. SubSeq(lines[k], 1, 0) = <<>>
        BY <4>1, EmptyLen
      <4>3. Net(<<>>, open) = 0
        BY NetNone
      <4>4. Net(SubSeq(lines[k], 1, 0), open) = 0
        BY <4>2, <4>3
      <4> HIDE DEF open
      <4>5. QED
        BY <3>5, <4>4
    <3>8. PICK e \in Nat :
            /\ e = FindEndOfExpressionInLine(lines[k], 1, f[k - 1], open)
            /\ e > 0 => /\ e \in 0 + 1 .. Len(lines[k])
                        /\ f[k - 1] + Net(SubSeq(lines[k], 1, e), open) = 0
                        /\ \A p \in 1 .. e - 1 : f[k - 1] + Net(SubSeq(lines[k], 1, p), open) > 0
            /\ e = 0 => \A p \in 0 .. Len(lines[k]) :
                          f[k - 1] + Net(SubSeq(lines[k], 1, p), open) > 0
      <4> HIDE DEF open
      <4>1. open \in Round
        BY DEF open
      <4>2. PICK d \in Nat : d = f[k - 1]
        BY <3>5
      <4>3. d + Net(SubSeq(lines[k], 1, 0), open) > 0 /\ 0 >= 1 - 1 /\ 0 <= Len(lines[k])
        BY <3>6, <3>7, <4>2
      <4>4. QED
        BY <3>6, <4>1, <4>2, <4>3, FindEndIs
    <3>9. CloseExpression(lines, a, i) = [line |-> k, pos |-> e]
      BY <1>10, <1>12, <3>4, <3>8
    <3>10. \A p \in Nat : net(k, p) = f[k - 1] + Net(SubSeq(lines[k], 1, p), open)
      BY <1>3, <1>5, <3>4, BetweenNet
    <3>11. e # 0
      <4>1. SUFFICES ASSUME e = 0 PROVE FALSE
        OBVIOUS
      <4>2. Len(lines[k]) \in 0 .. Len(lines[k])
        BY <3>6
      <4>3. f[k - 1] + Net(SubSeq(lines[k], 1, Len(lines[k])), open) > 0
        BY <3>8, <4>1, <4>2
      <4>4. net(k, Len(lines[k])) = f[k] /\ net(k, Len(lines[k])) > 0
        BY <1>8, <3>4, <3>6, <3>10, <4>3
      <4>5. QED
        BY <1>9, <3>4, <4>4
    <3>12. e > 0
      BY <3>11
    <3>13. k # a
      BY <1>1, <3>4
    <3>14. net(k, e) = 0 /\ \A p \in 1 .. e - 1 : net(k, p) > 0
      <4>1. \A p \in 1 .. e - 1 : p \in Nat
        OBVIOUS
      <4>2. QED
        BY <3>8, <3>10, <3>12, <4>1
    <3>15. Closes(lines, a, i, last, k, e)
      BY <3>4, <3>11, <3>13, <3>14 DEF Closes
    <3>16. QED
      BY <3>9, <3>15
  <2>5. QED
    BY <2>3, <2>4
<1>13. QED
  BY <1>6, <1>11, <1>12

-----------------------------------------------------------------------------
(* BracketsMatch.                                                          *)

LEMMA RoundIs == DOMAIN CLOSER = Round
  BY PairIs DEF Round

LEMMA ClosesFollow ==
  ASSUME NEW last, Document(Lines, last), n \in 0 .. last + 1
  PROVE  CloseExpressionCloses
<1> SUFFICES ASSUME Working, n <= LastLine, NEW i \in DOMAIN Lines[n], Lines[n][i] \in DOMAIN CLOSER
             PROVE  LET open == Lines[n][i]
                        start == [line |-> n, pos |-> i]
                        end == CloseExpression(Lines, n, i)
                        net(b) == Net(TextBetween(start, b), open)
                        whole(k) == net([line |-> k, pos |-> Len(Lines[k])])
                    IN IF end.pos > 0
                       THEN /\ net(end) = 0
                            /\ \A p \in (IF end.line = n THEN i ELSE 1) .. end.pos - 1 :
                                 net([end EXCEPT !.pos = p]) > 0
                       ELSE \A k \in n .. LastLine : whole(k) > 0
  BY Zenon DEF CloseExpressionCloses
<1> DEFINE open == Lines[n][i]
           start == [line |-> n, pos |-> i]
           end == CloseExpression(Lines, n, i)
           net(b) == Net(TextBetween(start, b), open)
           whole(k) == net([line |-> k, pos |-> Len(Lines[k])])
<1>1. LastLine = last /\ last \in Nat
  BY DocumentLast DEF LastLine
<1>2. n \in 0 .. last
  BY <1>1
<1>3. PICK k, e : end = [line |-> k, pos |-> e] /\ Closes(Lines, n, i, last, k, e)
  BY <1>2, RoundIs, CloseIs
<1>4. end.line = k /\ end.pos = e /\ \A p : [end EXCEPT !.pos = p] = [line |-> k, pos |-> p]
  BY <1>3
<1>5. ASSUME NEW x, NEW p
      PROVE  net([line |-> x, pos |-> p]) = Net(Between(Lines, n, i, x, p), open)
  BY Zenon DEF TextBetween, Between
<1>6. /\ k \in n .. last /\ e \in Nat
      /\ e > 0 => /\ Net(Between(Lines, n, i, k, e), open) = 0
                  /\ \A p \in (IF k = n THEN i ELSE 1) .. e - 1 :
                       Net(Between(Lines, n, i, k, p), open) > 0
      /\ e = 0 => \A x \in n .. last : Net(Between(Lines, n, i, x, Len(Lines[x])), open) > 0
  BY <1>3, Zenon DEF Closes
<1> HIDE DEF end, net
<1>7. CASE e > 0
  <2>1. net(end) = 0
    BY <1>3, <1>5, <1>6, <1>7
  <2>2. \A p \in (IF end.line = n THEN i ELSE 1) .. end.pos - 1 : net([end EXCEPT !.pos = p]) > 0
    <3> SUFFICES ASSUME NEW p \in (IF end.line = n THEN i ELSE 1) .. end.pos - 1
                 PROVE  net([end EXCEPT !.pos = p]) > 0
      OBVIOUS
    <3>1. [end EXCEPT !.pos = p] = [line |-> k, pos |-> p]
      BY <1>4
    <3>2. p \in (IF k = n THEN i ELSE 1) .. e - 1
      BY <1>4
    <3>3. net([line |-> k, pos |-> p]) > 0
      BY <1>5, <1>6, <1>7, <3>2
    <3>4. QED
      BY <3>1, <3>3
  <2>3. end.pos > 0
    BY <1>4, <1>7
  <2>4. QED
    BY <2>1, <2>2, <2>3, Zenon DEF end, net
<1>8. CASE e = 0
  <2>1. \A x \in n .. LastLine : whole(x) > 0
    BY <1>1, <1>5, <1>6, <1>8
  <2>2. ~(end.pos > 0)
    BY <1>4, <1>8
  <2>3. QED
    BY <2>1, <2>2, Zenon DEF end, net
<1>9. QED
  BY <1>6, <1>7, <1>8

LEMMA TemplatesFollow ==
  ASSUME NEW last, Document(Lines, last), n \in 0 .. last + 1
  PROVE  TemplatesAccepted
<1> DEFINE text == TextFrom(n)
<1> SUFFICES ASSUME Working, n <= LastLine, NEW i \in DOMAIN Lines[n], NEW j \in i + 1 .. Len(text),
                    Template(text, i, j)
             PROVE  /\ FindNextMatchingAngleBracket(After(text, i))
                    /\ FindPreviousMatchingAngleBracket(Before(text, j))
  BY Zenon DEF TemplatesAccepted, Template
<1>1. LastLine = last /\ last \in Nat
  BY DocumentLast DEF LastLine
<1>2. \A k \in 0 .. last : IsSeq(Lines[k])
  BY DEF Document
<1>3. n \in 0 .. last /\ i \in Nat /\ i >= 1
  <2>1. n \in 0 .. last
    BY <1>1
  <2>2. DOMAIN Lines[n] = 1 .. Len(Lines[n]) /\ Len(Lines[n]) \in Nat
    BY <1>2, <2>1, IsSeqDomain
  <2>3. QED
    BY <2>1, <2>2
<1>4. IsSeq(text)
  <2>1. PICK m \in Nat : m = last - n + 1
    BY <1>1, <1>3
  <2> DEFINE S == {Lines[n + x - 1] : x \in 1 .. m}
             seqs == [x \in 1 .. m |-> Lines[n + x - 1]]
  <2>2. seqs \in [1 .. m -> S]
    OBVIOUS
  <2>3. IsSeq(seqs) /\ Len(seqs) = m
    BY <2>2, MadeSeq
  <2>4. \A x \in 1 .. m : n + x - 1 \in 0 .. last
    BY <1>1, <1>3, <2>1
  <2>5. \A x \in 1 .. m : IsSeq(seqs[x])
    BY <1>2, <2>4
  <2>6. text = FlattenSeq(seqs)
    BY <1>1, <2>1 DEF TextFrom
  <2> HIDE DEF seqs
  <2>7. IsSeq(FlattenSeq(seqs))
    BY <2>3, <2>5, FlattenAny
  <2>8. QED
    BY <2>6, <2>7
<1> HIDE DEF text
<1>5. QED
  BY <1>3, <1>4, TemplateFound

LEMMA InsideFollows ==
  ASSUME NEW last, Document(Lines, last), n \in 0 .. last + 1
  PROVE  TextInsideIsNested
<1> SUFFICES ASSUME Working, n <= LastLine, NEW i \in DOMAIN Lines[n], Lines[n][i] \in Round
             PROVE  TextIsNested(Lines[n], i)
  BY RoundIs, Zenon DEF TextInsideIsNested, TextIsNested, Nested
<1>1. LastLine = last /\ last \in Nat
  BY DocumentLast DEF LastLine
<1>2. n \in 0 .. last
  BY <1>1
<1>3. IsSeq(Lines[n])
  BY <1>2 DEF Document
<1>4. QED
  BY <1>3, TextNested

LEMMA BracketsFollow == LintInv => BracketsMatch
<1> SUFFICES ASSUME LintInv PROVE BracketsMatch
  OBVIOUS
<1>1. CASE Working
  <2>1. PICK last : LinesTo(last)
    BY <1>1 DEF LintInv, LinesKept
  <2>2. Document(Lines, last) /\ n \in 0 .. last + 1
    BY <2>1 DEF LinesTo, Lines
  <2>3. QED
    BY <2>2, ClosesFollow, TemplatesFollow, InsideFollows DEF BracketsMatch
<1>2. CASE ~Working
  BY <1>2 DEF BracketsMatch, CloseExpressionCloses, TemplatesAccepted, TextInsideIsNested
<1>3. QED
  BY <1>1, <1>2

\* For all texts and brackets: what CloseExpression takes for the end is the first place where
\* as many of that kind are closed as opened, on the line where it stops, and it finds one if
\* a line leaves none open; both searches accept a template whose brackets are nested; and
\* _GetTextInside returns the nested text that its bracket encloses, or none if there is none.
THEOREM BracketsAreMatched == Spec => []BracketsMatch
  BY LintInvariant, BracketsFollow, PTL

-----------------------------------------------------------------------------
(* Levels: lv[k] conditions are open above line k, where I are the lines     *)
(* that begin one, X those that begin another branch of one, and E those     *)
(* that end one.                                                             *)

Levels(lv, I, X, E) ==
  /\ lv \in [Nat -> Int] /\ lv[0] = 0
  /\ \A k \in Nat : lv[k + 1] = IF k \in I THEN lv[k] + 1
                                ELSE IF k \in E THEN lv[k] - 1 ELSE lv[k]
  /\ I \cap E = {} /\ I \cap X = {} /\ X \cap E = {}
Even(lv, X, E, m) == \A k \in 0 .. m - 1 : k \in X \/ k \in E => lv[k] > 0

\* Where a branch of level d begins, and the last one above line k.
BranchStarts(lv, I, X, d) == {j \in Nat : (j \in I /\ lv[j] = d - 1) \/ (j \in X /\ lv[j] = d)}
IsStart(s, lv, I, X, d, k) ==
  /\ s \in BranchStarts(lv, I, X, d) /\ s < k
  /\ \A j \in BranchStarts(lv, I, X, d) : j < k => j <= s
IsBranch(b, lv, I, X, k) ==
  /\ b = -1 \/ b \in 0 .. k - 1
  /\ lv[k] = 0 => b = -1
  /\ lv[k] > 0 => IsStart(b, lv, I, X, lv[k], k)

\* A level that is reached is reached by a line that begins a condition.
LEMMA Climb ==
  ASSUME NEW lv, NEW I, NEW X, NEW E, Levels(lv, I, X, E), NEW l \in Int,
         NEW x \in Nat, NEW y \in Nat, x <= y, lv[x] < l, lv[y] >= l
  PROVE  \E i \in x .. y - 1 : i \in I /\ lv[i] = l - 1
<1>0. /\ \A k \in Nat : lv[k] \in Int
      /\ \A k \in Nat : lv[k + 1] = IF k \in I THEN lv[k] + 1
                                    ELSE IF k \in E THEN lv[k] - 1 ELSE lv[k]
  BY DEF Levels
<1> DEFINE P(j) == lv[x + j] >= l => \E i \in x .. (x + j) - 1 : i \in I /\ lv[i] = l - 1
           N == {j \in Nat : P(j)}
<1>1. 0 \in N
  <2>1. x + 0 = x
    OBVIOUS
  <2>2. lv[x] \in Int /\ ~(lv[x] >= l)
    BY <1>0
  <2>3. QED
    BY <2>1, <2>2
<1>2. ASSUME NEW j \in Nat, j \in N PROVE j + 1 \in N
  <2> SUFFICES ASSUME lv[x + (j + 1)] >= l
               PROVE  \E i \in x .. (x + (j + 1)) - 1 : i \in I /\ lv[i] = l - 1
    OBVIOUS
  <2>1. PICK k \in Nat : k = x + j /\ k + 1 = x + (j + 1) /\ (x + (j + 1)) - 1 = k
    OBVIOUS
  <2>2. lv[k] \in Int /\ lv[k + 1] \in Int /\ lv[k + 1] >= l
    BY <1>0, <2>1
  <2>3. CASE lv[k] >= l
    <3>1. PICK i \in x .. k - 1 : i \in I /\ lv[i] = l - 1
      BY <1>2, <2>1, <2>3
    <3>2. i \in x .. k
      BY <2>1
    <3>3. QED
      BY <2>1, <3>1, <3>2
  <2>4. CASE ~(lv[k] >= l)
    <3>1. k \in I /\ lv[k + 1] = lv[k] + 1
      BY <1>0, <2>2, <2>4
    <3>2. lv[k] = l - 1 /\ k \in x .. k
      BY <2>1, <2>2, <2>4, <3>1
    <3>3. QED
      BY <2>1, <3>1, <3>2
  <2>5. QED
    BY <2>3, <2>4
<1>3. Nat \subseteq N
  <2> HIDE DEF N
  <2>1. QED
    BY <1>1, <1>2, NatSetInduction
<1>4. y - x \in Nat /\ x + (y - x) = y
  OBVIOUS
<1>5. QED
  BY <1>3, <1>4

\* A level that is left is left by a line that ends a condition.
LEMMA Fall ==
  ASSUME NEW lv, NEW I, NEW X, NEW E, Levels(lv, I, X, E), NEW l \in Int,
         NEW x \in Nat, NEW y \in Nat, x <= y, lv[x] >= l, lv[y] < l
  PROVE  \E i \in x .. y - 1 : i \in E /\ lv[i] = l
<1>0. /\ \A k \in Nat : lv[k] \in Int
      /\ \A k \in Nat : lv[k + 1] = IF k \in I THEN lv[k] + 1
                                    ELSE IF k \in E THEN lv[k] - 1 ELSE lv[k]
  BY DEF Levels
<1> DEFINE P(j) == lv[x + j] < l => \E i \in x .. (x + j) - 1 : i \in E /\ lv[i] = l
           N == {j \in Nat : P(j)}
<1>1. 0 \in N
  <2>1. x + 0 = x
    OBVIOUS
  <2>2. lv[x] \in Int /\ ~(lv[x] < l)
    BY <1>0
  <2>3. QED
    BY <2>1, <2>2
<1>2. ASSUME NEW j \in Nat, j \in N PROVE j + 1 \in N
  <2> SUFFICES ASSUME lv[x + (j + 1)] < l
               PROVE  \E i \in x .. (x + (j + 1)) - 1 : i \in E /\ lv[i] = l
    OBVIOUS
  <2>1. PICK k \in Nat : k = x + j /\ k + 1 = x + (j + 1) /\ (x + (j + 1)) - 1 = k
    OBVIOUS
  <2>2. lv[k] \in Int /\ lv[k + 1] \in Int /\ lv[k + 1] < l
    BY <1>0, <2>1
  <2>3. CASE lv[k] < l
    <3>1. PICK i \in x .. k - 1 : i \in E /\ lv[i] = l
      BY <1>2, <2>1, <2>3
    <3>2. i \in x .. k
      BY <2>1
    <3>3. QED
      BY <2>1, <3>1, <3>2
  <2>4. CASE ~(lv[k] < l)
    <3>1. k \in E /\ lv[k + 1] = lv[k] - 1
      BY <1>0, <2>2, <2>4
    <3>2. lv[k] = l /\ k \in x .. k
      BY <2>1, <2>2, <2>4, <3>1
    <3>3. QED
      BY <2>1, <3>1, <3>2
  <2>5. QED
    BY <2>3, <2>4
<1>3. Nat \subseteq N
  <2> HIDE DEF N
  <2>1. QED
    BY <1>1, <1>2, NatSetInduction
<1>4. y - x \in Nat /\ x + (y - x) = y
  OBVIOUS
<1>5. QED
  BY <1>3, <1>4

\* The level is never negative, if no condition ends that has not begun.
LEMMA LevelIsNat ==
  ASSUME NEW lv, NEW I, NEW X, NEW E, Levels(lv, I, X, E), NEW m \in Nat, Even(lv, X, E, m)
  PROVE  \A k \in 0 .. m : lv[k] \in Nat
<1>1. SUFFICES ASSUME NEW k \in 0 .. m, lv[k] < 0 PROVE FALSE
  BY DEF Levels
<1>2. k \in Nat /\ 0 <= k /\ lv[0] >= 0 /\ 0 \in Int /\ 0 \in Nat
  BY DEF Levels
<1>3. \E i \in 0 .. k - 1 : i \in E /\ lv[i] = 0
  BY <1>1, <1>2, Fall
<1>4. QED
  BY <1>1, <1>3 DEF Even

-----------------------------------------------------------------------------
(* The branch of a line.                                                     *)

\* The conditions around line k, and where their branches begin.
AroundIn(lv, I, E, k) ==
  {a \in 0 .. k - 1 : a \in I /\ ~\E e \in a + 1 .. k : e \in E /\ lv[e] = lv[a] + 1}
BeginsAround(lv, I, X, E, k) ==
  {j \in 0 .. k : \E a \in AroundIn(lv, I, E, k) :
                    j = a \/ (a < j /\ j \in X /\ lv[j] = lv[a] + 1)}

\* The conditions around a line are those that its level counts.
LEMMA AroundIsBelow ==
  ASSUME NEW lv, NEW I, NEW X, NEW E, Levels(lv, I, X, E), NEW k \in Nat,
         NEW a \in AroundIn(lv, I, E, k)
  PROVE  lv[a] + 1 <= lv[k] /\ lv[a + 1] = lv[a] + 1
<1>1. /\ a \in Nat /\ a + 1 \in Nat /\ a + 1 <= k /\ a \in I
      /\ ~\E e \in a + 1 .. k : e \in E /\ lv[e] = lv[a] + 1
  BY DEF AroundIn
<1>2. lv[a] \in Int /\ lv[k] \in Int /\ lv[a + 1] = lv[a] + 1
  BY <1>1 DEF Levels
<1>3. PICK l \in Int : l = lv[a] + 1
  BY <1>2
<1>4. ASSUME lv[k] < l PROVE FALSE
  <2>1. lv[a + 1] >= l
    BY <1>2, <1>3
  <2>2. \E i \in a + 1 .. k - 1 : i \in E /\ lv[i] = l
    BY <1>1, <1>4, <2>1, Fall
  <2>3. QED
    BY <1>1, <1>3, <2>2
<1>5. QED
  BY <1>2, <1>3, <1>4

\* The last begin of a branch around a line is the last one of its level.
LEMMA BranchIsLast ==
  ASSUME NEW lv, NEW I, NEW X, NEW E, Levels(lv, I, X, E), NEW k \in Nat,
         Even(lv, X, E, k), k \notin I, k \notin X, k \notin E,
         NEW b, IsBranch(b, lv, I, X, k)
  PROVE  /\ b \in {-1} \cup BeginsAround(lv, I, X, E, k)
         /\ \A j \in {-1} \cup BeginsAround(lv, I, X, E, k) : j <= b
<1> DEFINE B == BeginsAround(lv, I, X, E, k)
           L == lv[k]
<1>1. \A j \in 0 .. k : lv[j] \in Nat
  BY LevelIsNat
<1>2. ASSUME NEW j \in B
      PROVE  \E d \in 1 .. L : j \in BranchStarts(lv, I, X, d) /\ j < k /\ lv[j + 1] = d
  <2>1. j \in 0 .. k
    BY DEF BeginsAround
  <2>2. PICK a \in AroundIn(lv, I, E, k) : j = a \/ (a < j /\ j \in X /\ lv[j] = lv[a] + 1)
    BY DEF BeginsAround
  <2>3. a \in I /\ a \in 0 .. k - 1
    BY DEF AroundIn
  <2>4. lv[a] + 1 <= L /\ lv[a + 1] = lv[a] + 1
    BY AroundIsBelow
  <2>5. lv[a] \in Nat /\ L \in Nat
    BY <1>1, <2>3
  <2>6. PICK d \in 1 .. L : d = lv[a] + 1
    BY <2>4, <2>5
  <2>7. CASE j = a
    <3>1. lv[a] = d - 1
      BY <2>5, <2>6
    <3>2. j \in Nat /\ j < k /\ j \in I
      BY <2>3, <2>7
    <3>3. j \in BranchStarts(lv, I, X, d)
      BY <2>7, <3>1, <3>2 DEF BranchStarts
    <3>4. lv[j + 1] = d
      BY <2>4, <2>6, <2>7
    <3>5. QED
      BY <3>2, <3>3, <3>4
  <2>8. CASE a < j /\ j \in X /\ lv[j] = lv[a] + 1
    <3>1. j # k /\ j \in Nat /\ j < k
      BY <2>1, <2>8
    <3>2. lv[j + 1] = lv[j]
      BY <2>8, <3>1 DEF Levels
    <3>3. QED
      BY <2>6, <2>8, <3>1, <3>2 DEF BranchStarts
  <2>9. QED
    BY <2>2, <2>7, <2>8
<1>3. CASE L = 0
  <2>1. b = -1
    BY <1>3 DEF IsBranch
  <2>2. B = {}
    BY <1>2, <1>3
  <2>3. QED
    BY <2>1, <2>2
<1>4. CASE L > 0
  <2>1. IsStart(b, lv, I, X, L, k) /\ L \in Nat
    BY <1>1, <1>4 DEF IsBranch
  <2>2. b \in BranchStarts(lv, I, X, L) /\ b \in Nat /\ b < k /\ \A j \in BranchStarts(lv, I, X, L) : j < k => j <= b
    BY <2>1 DEF IsStart, BranchStarts
  <2>3. ASSUME NEW j \in B PROVE j <= b
    <3>1. PICK d \in 1 .. L : j \in BranchStarts(lv, I, X, d) /\ j < k /\ lv[j + 1] = d
      BY <1>2
    <3>2. j \in Nat
      BY <3>1 DEF BranchStarts
    <3>3. CASE d = L
      BY <2>2, <3>1, <3>3
    <3>4. CASE d # L
      <4>1. d < L /\ L \in Int /\ j + 1 \in Nat /\ j + 1 <= k /\ lv[j + 1] < L /\ lv[k] >= L
        BY <2>1, <3>1, <3>2, <3>4
      <4> HIDE DEF L, B
      <4>7. \A x \in Nat : x <= k /\ lv[x] < L => \E i \in x .. k - 1 : i \in I /\ lv[i] = L - 1
        BY <4>1, Climb
      <4>2. PICK i \in j + 1 .. k - 1 : i \in I /\ lv[i] = L - 1
        BY <4>1, <4>7
      <4>3. i \in Nat /\ i < k /\ j < i
        BY <3>2, <4>1
      <4>4. i \in BranchStarts(lv, I, X, L)
        BY <4>2, <4>3 DEF BranchStarts
      <4>5. i <= b
        BY <2>2, <4>3, <4>4
      <4>6. QED
        BY <2>2, <3>2, <4>3, <4>5
    <3>5. QED
      BY <3>3, <3>4
  <2>4. PICK a \in 0 .. k - 1 : /\ a \in I /\ lv[a] = L - 1
                                /\ \A i \in a + 1 .. k - 1 : ~(i \in I /\ lv[i] = L - 1)
    <3> DEFINE A == {i \in 0 .. k - 1 : i \in I /\ lv[i] = L - 1}
    <3>1. lv[0] = 0 /\ 0 \in Nat /\ 0 <= k /\ lv[0] < L /\ lv[k] >= L /\ L \in Int
      BY <1>4, <2>1 DEF Levels
    <3>2. A # {}
      <4> HIDE DEF L
      <4>1. \E i \in 0 .. k - 1 : i \in I /\ lv[i] = L - 1
        BY <3>1, Climb
      <4>2. QED
        BY <4>1
    <3>3. A \subseteq 0 .. k - 1
      OBVIOUS
    <3>4. \E a \in A : \A i \in A : i <= a
      <4> DEFINE D == {k - i : i \in A}
      <4> HIDE DEF A
      <4>0. \A i \in A : i \in 0 .. k - 1 /\ k - i \in Nat
        BY <3>3
      <4>1. D \subseteq Nat /\ D # {}
        BY <3>2, <4>0
      <4>2. PICK e \in D : \A j \in D : e <= j
        BY <4>1, LeastNatural
      <4>3. PICK a \in A : e = k - a
        BY <4>2
      <4>4. \A i \in A : k - a <= k - i
        BY <4>2, <4>3
      <4>5. \A i \in A : i <= a
        BY <3>3, <4>4
      <4>6. QED
        BY <4>5
    <3>5. PICK a \in A : \A i \in A : i <= a
      BY <3>4
    <3>6. a \in 0 .. k - 1 /\ a \in I /\ lv[a] = L - 1
      OBVIOUS
    <3>7. \A i \in a + 1 .. k - 1 : i \in 0 .. k - 1 /\ ~(i <= a)
      BY <3>6
    <3>8. QED
      BY <3>5, <3>6, <3>7
  <2>5. /\ a \in Nat /\ a + 1 \in Nat /\ a + 1 <= k /\ lv[a + 1] = L
    BY <2>1, <2>4 DEF Levels
  <2>6. \A j \in a + 1 .. k : lv[j] >= L
    <3> SUFFICES ASSUME NEW j \in a + 1 .. k, ~(lv[j] >= L) PROVE FALSE
      OBVIOUS
    <3>1. j \in Nat /\ j <= k /\ lv[j] \in Nat
      BY <1>1, <2>5
    <3>2. lv[j] < L /\ L \in Int /\ lv[k] >= L
      BY <2>1, <3>1
    <3> HIDE DEF L
    <3>3. \E i \in j .. k - 1 : i \in I /\ lv[i] = L - 1
      BY <3>1, <3>2, Climb
    <3>4. QED
      BY <2>4, <2>5, <3>1, <3>3
  <2>7. a \in AroundIn(lv, I, E, k)
    <3>1. ASSUME NEW e \in a + 1 .. k, e \in E, lv[e] = lv[a] + 1 PROVE FALSE
      <4>1. e \in Nat /\ e # k /\ e + 1 \in a + 1 .. k /\ lv[e] = L
        BY <2>1, <2>4, <2>5, <3>1
      <4>2. e \notin I
        BY <3>1 DEF Levels
      <4>3. lv[e + 1] = L - 1
        BY <3>1, <4>1, <4>2 DEF Levels
      <4>4. lv[e + 1] >= L
        BY <2>6, <4>1
      <4>5. QED
        BY <2>1, <4>3, <4>4
    <3>2. QED
      BY <2>4, <3>1 DEF AroundIn
  <2>8. b \in B
    <3>1. a \in BranchStarts(lv, I, X, L) /\ a < k
      BY <2>4, <2>5 DEF BranchStarts
    <3>2. a <= b
      BY <2>2, <3>1
    <3>3. CASE b = a
      BY <2>2, <2>7, <3>3 DEF BeginsAround
    <3>4. CASE b # a
      <4>1. b \in a + 1 .. k - 1
        BY <2>2, <2>5, <3>2, <3>4
      <4>2. b \in X /\ lv[b] = L
        BY <2>2, <2>4, <4>1 DEF BranchStarts
      <4>3. lv[b] = lv[a] + 1 /\ a < b /\ b \in 0 .. k
        BY <2>1, <2>2, <2>4, <2>5, <4>1, <4>2
      <4>4. QED
        BY <2>7, <4>2, <4>3 DEF BeginsAround
    <3>5. QED
      BY <3>3, <3>4
  <2>9. QED
    BY <2>2, <2>3, <2>8
<1>5. QED
  BY <1>1, <1>3, <1>4

-----------------------------------------------------------------------------
(* Scopes and branches.                                                      *)

\* Whether br says of each scope where its branch begins.
BranchesAre(br, scopes, lv, I, X, E, m) ==
  /\ DOMAIN br = DOMAIN scopes
  /\ \A s \in DOMAIN scopes : br[s] = -1 \/ br[s] \in 0 .. m - 1
  /\ \A s, t \in DOMAIN scopes : br[s] = br[t] => s = t
  /\ \A s \in DOMAIN scopes : \A h \in DOMAIN scopes[s].line :
       LET k == scopes[s].line[h]
       IN k \in 0 .. m - 1 /\ k \notin I \cup X \cup E /\ IsBranch(br[s], lv, I, X, k)

\* The stack above line m: below, if r is 1, the scope of the lines outside of conditions,
\* and one scope for each condition that is open.
StackIs(br, scopes, stack, r, lv, I, X, m) ==
  /\ r \in {0, 1} /\ Len(stack) = r + lv[m]
  /\ r = 1 => br[stack[1]] = -1
  /\ r = 0 => \A s \in DOMAIN scopes : br[s] # -1
  /\ \A d \in 1 .. lv[m] : IsStart(br[stack[r + d]], lv, I, X, d, m)
ScopesHeld(state, lv, I, X, E, m) ==
  \E br, r : /\ BranchesAre(br, state.scopes, lv, I, X, E, m)
             /\ StackIs(br, state.scopes, state.stack, r, lv, I, X, m)

LEMMA StartStays ==
  ASSUME NEW lv, NEW I, NEW X, NEW d, NEW m \in Nat, m \notin BranchStarts(lv, I, X, d),
         NEW s, IsStart(s, lv, I, X, d, m)
  PROVE  IsStart(s, lv, I, X, d, m + 1)
<1>1. s \in BranchStarts(lv, I, X, d) /\ s < m /\ \A j \in BranchStarts(lv, I, X, d) : j < m => j <= s
  BY DEF IsStart
<1>2. s \in Nat /\ \A j \in BranchStarts(lv, I, X, d) : j \in Nat
  BY <1>1 DEF BranchStarts
<1>3. s < m + 1 /\ \A j \in BranchStarts(lv, I, X, d) : j < m + 1 => j < m
  BY <1>1, <1>2
<1>4. QED
  BY <1>1, <1>3 DEF IsStart

LEMMA StartNew ==
  ASSUME NEW lv, NEW I, NEW X, NEW d, NEW m \in Nat, m \in BranchStarts(lv, I, X, d)
  PROVE  IsStart(m, lv, I, X, d, m + 1)
<1>1. \A j \in BranchStarts(lv, I, X, d) : j \in Nat
  BY DEF BranchStarts
<1>2. m < m + 1 /\ \A j \in BranchStarts(lv, I, X, d) : j < m + 1 => j <= m
  BY <1>1
<1>3. QED
  BY <1>2 DEF IsStart

LEMMA PushedIs ==
  ASSUME NEW state, IncludeStateOK(state)
  PROVE  LET p == PushScope(state)
         IN /\ Len(state.scopes) \in Nat /\ DOMAIN state.scopes = 1 .. Len(state.scopes)
            /\ Len(state.stack) \in Nat /\ DOMAIN state.stack = 1 .. Len(state.stack)
            /\ DOMAIN p.scopes = 1 .. Len(state.scopes) + 1
            /\ DOMAIN p.scopes[Len(state.scopes) + 1].line = {}
            /\ \A s \in 1 .. Len(state.scopes) : p.scopes[s] = state.scopes[s]
            /\ Len(p.stack) = Len(state.stack) + 1
            /\ p.stack[Len(state.stack) + 1] = Len(state.scopes) + 1
            /\ \A i \in 1 .. Len(state.stack) : p.stack[i] = state.stack[i]
<1> DEFINE a == state.scopes
           b == state.stack
           e == _ScopedIncludeState
           a1 == Append(a, e)
           b1 == Append(b, Len(a) + 1)
           p == PushScope(state)
<1>1. IsSeq(a) /\ IsSeq(b)
  BY DEF IncludeStateOK
<1>2. p.scopes = a1 /\ p.stack = b1
  BY DEF PushScope, IncludeStateOK
<1>0. DOMAIN e.line = {}
  BY DEF _ScopedIncludeState
<1> HIDE DEF a, b, p, e
<1>3. /\ Len(a) \in Nat /\ DOMAIN a = 1 .. Len(a) /\ DOMAIN a1 = 1 .. Len(a) + 1
      /\ a1[Len(a) + 1] = e /\ \A i \in 1 .. Len(a) : a1[i] = a[i]
  BY <1>1, AppendAny
<1>4. /\ Len(b) \in Nat /\ DOMAIN b = 1 .. Len(b) /\ Len(b1) = Len(b) + 1
      /\ b1[Len(b) + 1] = Len(a) + 1 /\ \A i \in 1 .. Len(b) : b1[i] = b[i]
  BY <1>1, AppendAny
<1> HIDE DEF a1, b1
<1>5. /\ Len(a) \in Nat /\ DOMAIN a = 1 .. Len(a)
      /\ Len(b) \in Nat /\ DOMAIN b = 1 .. Len(b)
      /\ DOMAIN p.scopes = 1 .. Len(a) + 1
      /\ DOMAIN p.scopes[Len(a) + 1].line = {}
      /\ \A s \in 1 .. Len(a) : p.scopes[s] = a[s]
      /\ Len(p.stack) = Len(b) + 1
      /\ p.stack[Len(b) + 1] = Len(a) + 1
      /\ \A i \in 1 .. Len(b) : p.stack[i] = b[i]
  BY <1>0, <1>2, <1>3, <1>4
<1>6. QED
  BY <1>5, Zenon DEF a, b, p

LEMMA PoppedIs ==
  ASSUME NEW state, IncludeStateOK(state), Len(state.stack) > 0
  PROVE  LET p == PopScope(state)
         IN /\ p.scopes = state.scopes /\ p.raised = state.raised
            /\ Len(p.stack) = Len(state.stack) - 1
            /\ \A i \in 1 .. Len(state.stack) - 1 : p.stack[i] = state.stack[i]
<1> DEFINE b == state.stack
           b1 == Front_(b)
           p == PopScope(state)
<1>1. IsSeq(b) /\ Len(b) > 0
  BY DEF IncludeStateOK
<1>2. b # <<>>
  BY <1>1, EmptyAny
<1>3. p.scopes = state.scopes /\ p.stack = b1 /\ p.raised = state.raised
  BY <1>2 DEF PopScope, IncludeStateOK
<1> HIDE DEF b, p
<1>4. PICK m \in Nat : m = Len(b) - 1
  BY <1>1, IsSeqDomain
<1>5. b1 = SubSeq(b, 1, m)
  BY <1>4 DEF Front_
<1> HIDE DEF b1
<1>6. /\ Len(b1) = (IF 1 <= m THEN m - 1 + 1 ELSE 0)
      /\ \A i \in 1 .. m - 1 + 1 : b1[i] = b[1 + i - 1]
  BY <1>5, SubSeqAny
<1>7. Len(b1) = m
  BY <1>4, <1>6
<1>8. ASSUME NEW i \in 1 .. m PROVE b1[i] = b[i]
  <2>1. i \in 1 .. m - 1 + 1 /\ 1 + i - 1 = i
    OBVIOUS
  <2>2. QED
    BY <1>6, <2>1
<1>9. QED
  <2>1. /\ p.scopes = state.scopes /\ p.raised = state.raised
        /\ Len(p.stack) = Len(b) - 1 /\ \A i \in 1 .. Len(b) - 1 : p.stack[i] = b[i]
    BY <1>3, <1>4, <1>7, <1>8
  <2>2. QED
    BY <2>1, Zenon DEF b, p

\* Another line leaves the branches of former headers as they are.
LEMMA BranchesStay ==
  ASSUME NEW br, NEW scopes, NEW lv, NEW I, NEW X, NEW E, NEW m \in Nat,
         BranchesAre(br, scopes, lv, I, X, E, m)
  PROVE  BranchesAre(br, scopes, lv, I, X, E, m + 1)
<1>1. \A k \in 0 .. m - 1 : k \in 0 .. (m + 1) - 1
  OBVIOUS
<1>2. QED
  BY <1>1 DEF BranchesAre

\* A new scope is that of a branch no other is of.
LEMMA BranchesGrow ==
  ASSUME NEW state, IncludeStateOK(state), NEW br, NEW lv, NEW I, NEW X, NEW E, NEW m \in Nat,
         BranchesAre(br, state.scopes, lv, I, X, E, m),
         NEW v, v = -1 \/ v \in 0 .. m - 1, \A s \in DOMAIN state.scopes : br[s] # v,
         NEW b2, DOMAIN b2 = DOMAIN PushScope(state).scopes, b2[Len(state.scopes) + 1] = v,
         \A s \in DOMAIN state.scopes : b2[s] = br[s]
  PROVE  BranchesAre(b2, PushScope(state).scopes, lv, I, X, E, m)
<1> DEFINE a == state.scopes
           id == Len(a) + 1
           c == PushScope(state).scopes
<1>1. /\ Len(a) \in Nat /\ DOMAIN a = 1 .. Len(a) /\ DOMAIN c = 1 .. id
      /\ DOMAIN c[id].line = {} /\ \A s \in 1 .. Len(a) : c[s] = a[s]
  BY PushedIs
<1>2. /\ BranchesAre(br, a, lv, I, X, E, m) /\ \A s \in DOMAIN a : br[s] # v
      /\ DOMAIN b2 = DOMAIN c /\ b2[id] = v /\ \A s \in DOMAIN a : b2[s] = br[s]
  OBVIOUS
<1> HIDE DEF a, c
<1>3. \A s \in DOMAIN c : s = id \/ (s \in DOMAIN a /\ s # id /\ c[s] = a[s] /\ b2[s] = br[s])
  BY <1>1, <1>2
<1>4. id \in DOMAIN c /\ b2[id] = v
  BY <1>1, <1>2
<1> HIDE DEF id
<1>5. DOMAIN b2 = DOMAIN c
  BY <1>2
<1>6. \A s \in DOMAIN c : b2[s] = -1 \/ b2[s] \in 0 .. m - 1
  BY <1>2, <1>3, <1>4 DEF BranchesAre
<1>7. \A s, t \in DOMAIN c : b2[s] = b2[t] => s = t
  BY <1>2, <1>3, <1>4 DEF BranchesAre
<1>8. ASSUME NEW s \in DOMAIN c, NEW h \in DOMAIN c[s].line
      PROVE  c[s].line[h] \in 0 .. m - 1 /\ c[s].line[h] \notin I \cup X \cup E /\ IsBranch(b2[s], lv, I, X, c[s].line[h])
  <2>1. s \in DOMAIN a /\ c[s] = a[s] /\ b2[s] = br[s]
    BY <1>1, <1>3
  <2>2. QED
    BY <1>2, <2>1 DEF BranchesAre
<1>9. BranchesAre(b2, c, lv, I, X, E, m)
  BY <1>5, <1>6, <1>7, <1>8 DEF BranchesAre
<1>10. QED
  BY <1>9 DEF c

\* The scope of a branch that begins at line m, on a stack without that of the branch before.
LEMMA HeldPush ==
  ASSUME NEW lv, NEW I, NEW X, NEW E, Levels(lv, I, X, E), NEW m \in Nat,
         NEW state, IncludeStateOK(state), NEW br, NEW r \in {0, 1}, NEW d \in Nat,
         BranchesAre(br, state.scopes, lv, I, X, E, m),
         r = 1 => br[state.stack[1]] = -1,
         r = 0 => \A s \in DOMAIN state.scopes : br[s] # -1,
         Len(state.stack) = r + d, lv[m + 1] = d + 1,
         \A e \in 1 .. d : IsStart(br[state.stack[r + e]], lv, I, X, e, m),
         \A e \in Nat : m \in BranchStarts(lv, I, X, e) <=> e = d + 1
  PROVE  ScopesHeld(PushScope(state), lv, I, X, E, m + 1)
<1> DEFINE a == state.scopes
           b == state.stack
           p == PushScope(state)
           id == Len(a) + 1
           b2 == [s \in DOMAIN p.scopes |-> IF s = id THEN m ELSE br[s]]
           c == p.scopes
           t == p.stack
<1>1. /\ Len(a) \in Nat /\ DOMAIN a = 1 .. Len(a) /\ Len(b) \in Nat /\ DOMAIN b = 1 .. Len(b)
      /\ DOMAIN c = 1 .. id /\ Len(t) = Len(b) + 1 /\ t[Len(b) + 1] = id
      /\ \A i \in 1 .. Len(b) : t[i] = b[i]
  BY PushedIs
<1>2. BranchesAre(b2, c, lv, I, X, E, m + 1)
  <2>1. m + 1 \in Nat /\ BranchesAre(br, a, lv, I, X, E, m + 1)
    BY BranchesStay
  <2>2. m \in 0 .. (m + 1) - 1
    OBVIOUS
  <2>3. \A s \in DOMAIN a : br[s] # m
    <3>1. \A s \in DOMAIN a : br[s] = -1 \/ br[s] \in 0 .. m - 1
      BY DEF BranchesAre
    <3>2. QED
      BY <3>1
  <2> DEFINE l == m + 1
  <2>4. l \in Nat /\ BranchesAre(br, a, lv, I, X, E, l) /\ m \in 0 .. l - 1
    BY <2>1, <2>2
  <2>5. /\ DOMAIN b2 = DOMAIN PushScope(state).scopes /\ b2[Len(state.scopes) + 1] = m
        /\ \A s \in DOMAIN state.scopes : b2[s] = br[s] /\ br[s] # m
    <3>1. id \in DOMAIN c /\ \A s \in DOMAIN a : s \in DOMAIN c /\ s # id
      BY <1>1
    <3>4. DOMAIN b2 = DOMAIN c /\ b2[id] = m
      BY <3>1
    <3>5. \A s \in DOMAIN a : b2[s] = br[s]
      <4>1. \A s \in DOMAIN a : s \in DOMAIN p.scopes /\ s # id
        BY <3>1
      <4> HIDE DEF a, p, id
      <4>2. QED
        BY <4>1
    <3>2. DOMAIN b2 = DOMAIN c /\ b2[id] = m /\ \A s \in DOMAIN a : b2[s] = br[s] /\ br[s] # m
      BY <2>3, <3>4, <3>5
    <3>3. QED
      BY <3>2, Zenon DEF a, c, id, p
  <2>7. BranchesAre(br, state.scopes, lv, I, X, E, l)
    BY <2>4
  <2> HIDE DEF l, b2, c, p
  <2>8. BranchesAre(b2, PushScope(state).scopes, lv, I, X, E, l)
    BY <2>4, <2>5, <2>7, BranchesGrow
  <2>6. QED
    BY <2>8, Zenon DEF l, c, p
<1>3. \A i \in DOMAIN b : b[i] \in DOMAIN a
  BY DEF IncludeStateOK
<1>4. \A s \in DOMAIN c : b2[s] = IF s = id THEN m ELSE br[s]
  OBVIOUS
<1> HIDE DEF c, t, b2, p
<1> DEFINE z == r + d
<1>5. z \in Nat /\ Len(b) = z /\ DOMAIN b = 1 .. z
  BY <1>1
<1>6. \A i \in 1 .. z : t[i] = b[i] /\ b2[t[i]] = br[b[i]]
  <2> SUFFICES ASSUME NEW i \in 1 .. z PROVE t[i] = b[i] /\ b2[t[i]] = br[b[i]]
    OBVIOUS
  <2>1. t[i] = b[i] /\ b[i] \in DOMAIN a
    BY <1>1, <1>3, <1>5
  <2>2. b[i] \in DOMAIN c /\ b[i] # id
    BY <1>1, <2>1
  <2>3. QED
    BY <1>4, <2>1, <2>2
<1>7. t[z + 1] = id /\ b2[id] = m
  BY <1>1, <1>4, <1>5
<1>8. Len(t) = r + lv[m + 1]
  BY <1>1, <1>5
<1>9. r = 1 => b2[t[1]] = -1
  <2> SUFFICES ASSUME r = 1 PROVE b2[t[1]] = -1
    OBVIOUS
  <2>1. 1 \in 1 .. z
    OBVIOUS
  <2>2. QED
    BY <1>6, <2>1
<1>10. r = 0 => \A s \in DOMAIN c : b2[s] # -1
  <2> SUFFICES ASSUME r = 0, NEW s \in DOMAIN c PROVE b2[s] # -1
    OBVIOUS
  <2>1. s = id \/ s \in DOMAIN a
    BY <1>1
  <2>2. m # -1
    OBVIOUS
  <2>3. QED
    BY <1>4, <2>1, <2>2
<1>11. \A e \in 1 .. lv[m + 1] : IsStart(b2[t[r + e]], lv, I, X, e, m + 1)
  <2> SUFFICES ASSUME NEW e \in 1 .. d + 1 PROVE IsStart(b2[t[r + e]], lv, I, X, e, m + 1)
    OBVIOUS
  <2>0. e \in Nat
    OBVIOUS
  <2>1. CASE e = d + 1
    <3>1. r + e = z + 1
      BY <2>1
    <3>2. m \in BranchStarts(lv, I, X, e)
      BY <2>0, <2>1
    <3>3. IsStart(m, lv, I, X, e, m + 1)
      BY <3>2, StartNew
    <3>4. QED
      BY <1>7, <3>1, <3>3
  <2>2. CASE e # d + 1
    <3>1. e \in 1 .. d /\ r + e \in 1 .. z
      BY <2>2
    <3>2. m \notin BranchStarts(lv, I, X, e)
      BY <2>0, <2>2
    <3>3. IsStart(br[b[r + e]], lv, I, X, e, m)
      BY <3>1
    <3>4. b2[t[r + e]] = br[b[r + e]]
      BY <1>6, <3>1
    <3>5. QED
      BY <3>2, <3>3, <3>4, StartStays
  <2>3. QED
    BY <2>1, <2>2
<1> HIDE DEF z
<1>12. StackIs(b2, c, t, r, lv, I, X, m + 1)
  BY <1>8, <1>9, <1>10, <1>11 DEF StackIs
<1>13. QED
  BY <1>2, <1>12 DEF ScopesHeld, c, t, p

LEMMA HeldIf ==
  ASSUME NEW lv, NEW I, NEW X, NEW E, Levels(lv, I, X, E), NEW m \in Nat, lv[m] \in Nat, m \in I,
         NEW state, IncludeStateOK(state), ScopesHeld(state, lv, I, X, E, m)
  PROVE  ScopesHeld(PushScope(state), lv, I, X, E, m + 1)
<1>1. PICK br, r : /\ BranchesAre(br, state.scopes, lv, I, X, E, m)
                   /\ StackIs(br, state.scopes, state.stack, r, lv, I, X, m)
  BY DEF ScopesHeld
<1>2. PICK d \in Nat : d = lv[m]
  OBVIOUS
<1>3. lv[m + 1] = d + 1 /\ m \notin X
  BY <1>2 DEF Levels
<1>4. \A e \in Nat : m \in BranchStarts(lv, I, X, e) <=> e = d + 1
  BY <1>2, <1>3 DEF BranchStarts
<1>5. /\ r \in {0, 1}
      /\ r = 1 => br[state.stack[1]] = -1
      /\ r = 0 => \A s \in DOMAIN state.scopes : br[s] # -1
      /\ Len(state.stack) = r + d
      /\ \A e \in 1 .. d : IsStart(br[state.stack[r + e]], lv, I, X, e, m)
  BY <1>1, <1>2 DEF StackIs
<1>6. QED
  BY <1>1, <1>2, <1>3, <1>4, <1>5, HeldPush

LEMMA HeldElse ==
  ASSUME NEW lv, NEW I, NEW X, NEW E, Levels(lv, I, X, E), NEW m \in Nat, lv[m] \in Nat \ {0},
         m \in X, NEW state, IncludeStateOK(state), ScopesHeld(state, lv, I, X, E, m)
  PROVE  PopScope(state).raised = state.raised /\ ScopesHeld(PushScope(PopScope(state)), lv, I, X, E, m + 1)
<1>1. PICK br, r : /\ BranchesAre(br, state.scopes, lv, I, X, E, m)
                   /\ StackIs(br, state.scopes, state.stack, r, lv, I, X, m)
  BY DEF ScopesHeld
<1>2. PICK d \in Nat : d = lv[m] - 1
  OBVIOUS
<1>3. lv[m + 1] = d + 1 /\ m \notin I /\ lv[m] = d + 1
  BY <1>2 DEF Levels
<1>4. \A e \in Nat : m \in BranchStarts(lv, I, X, e) <=> e = d + 1
  BY <1>3 DEF BranchStarts
<1>5. /\ r \in {0, 1}
      /\ r = 1 => br[state.stack[1]] = -1
      /\ r = 0 => \A s \in DOMAIN state.scopes : br[s] # -1
      /\ Len(state.stack) = r + (d + 1)
      /\ \A e \in 1 .. d + 1 : IsStart(br[state.stack[r + e]], lv, I, X, e, m)
  BY <1>1, <1>3 DEF StackIs
<1>6. Len(state.stack) > 0 /\ Len(state.stack) - 1 = r + d
  BY <1>2, <1>5
<1> DEFINE p == PopScope(state)
<1>7. /\ p.scopes = state.scopes /\ p.raised = state.raised /\ Len(p.stack) = r + d
      /\ \A i \in 1 .. r + d : p.stack[i] = state.stack[i]
  BY <1>6, PoppedIs
<1>8. IncludeStateOK(p)
  BY PopScopeOK
<1> HIDE DEF p
<1>9. r = 1 => br[p.stack[1]] = -1
  <2> SUFFICES ASSUME r = 1 PROVE br[p.stack[1]] = -1
    OBVIOUS
  <2>1. 1 \in 1 .. r + d
    BY <1>2
  <2>3. QED
    BY <1>5, <1>7, <2>1
<1>10. \A e \in 1 .. d : IsStart(br[p.stack[r + e]], lv, I, X, e, m)
  <2> SUFFICES ASSUME NEW e \in 1 .. d PROVE IsStart(br[p.stack[r + e]], lv, I, X, e, m)
    OBVIOUS
  <2>0. d \in Nat /\ r \in {0, 1}
    BY <1>2, <1>5
  <2>1. r + e \in 1 .. r + d /\ e \in 1 .. d + 1 /\ e \in Nat
    BY <2>0
  <2>2. QED
    BY <1>5, <1>7, <2>1
<1>11. ScopesHeld(PushScope(p), lv, I, X, E, m + 1)
  <2>1. /\ BranchesAre(br, p.scopes, lv, I, X, E, m) /\ d \in Nat /\ r \in {0, 1}
        /\ r = 0 => \A s \in DOMAIN p.scopes : br[s] # -1
        /\ Len(p.stack) = r + d
    BY <1>1, <1>2, <1>5, <1>7
  <2>2. QED
    BY <1>3, <1>4, <1>8, <1>9, <1>10, <2>1, HeldPush
<1>12. QED
  BY <1>7, <1>11 DEF p

LEMMA HeldEndif ==
  ASSUME NEW lv, NEW I, NEW X, NEW E, Levels(lv, I, X, E), NEW m \in Nat, lv[m] \in Nat \ {0},
         m \in E, NEW state, IncludeStateOK(state), ScopesHeld(state, lv, I, X, E, m)
  PROVE  ScopesHeld(PopScope(state), lv, I, X, E, m + 1)
<1>1. PICK br, r : /\ BranchesAre(br, state.scopes, lv, I, X, E, m)
                   /\ StackIs(br, state.scopes, state.stack, r, lv, I, X, m)
  BY DEF ScopesHeld
<1>2. PICK d \in Nat : d = lv[m] - 1
  OBVIOUS
<1>3. lv[m + 1] = d /\ m \notin I /\ m \notin X /\ lv[m] = d + 1
  BY <1>2 DEF Levels
<1>4. \A e \in Nat : m \notin BranchStarts(lv, I, X, e)
  BY <1>3 DEF BranchStarts
<1>5. /\ r \in {0, 1}
      /\ r = 1 => br[state.stack[1]] = -1
      /\ r = 0 => \A s \in DOMAIN state.scopes : br[s] # -1
      /\ Len(state.stack) = r + (d + 1)
      /\ \A e \in 1 .. d + 1 : IsStart(br[state.stack[r + e]], lv, I, X, e, m)
  BY <1>1, <1>3 DEF StackIs
<1>6. Len(state.stack) > 0 /\ Len(state.stack) - 1 = r + d
  BY <1>2, <1>5
<1> DEFINE p == PopScope(state)
<1>7. /\ p.scopes = state.scopes /\ Len(p.stack) = r + d
      /\ \A i \in 1 .. r + d : p.stack[i] = state.stack[i]
  BY <1>6, PoppedIs
<1> HIDE DEF p
<1>9. r = 1 => br[p.stack[1]] = -1
  <2> SUFFICES ASSUME r = 1 PROVE br[p.stack[1]] = -1
    OBVIOUS
  <2>1. 1 \in 1 .. r + d
    BY <1>2
  <2>3. QED
    BY <1>5, <1>7, <2>1
<1>10. \A e \in 1 .. d : IsStart(br[p.stack[r + e]], lv, I, X, e, m + 1)
  <2> SUFFICES ASSUME NEW e \in 1 .. d PROVE IsStart(br[p.stack[r + e]], lv, I, X, e, m + 1)
    OBVIOUS
  <2>0. d \in Nat /\ r \in {0, 1}
    BY <1>2, <1>5
  <2>1. r + e \in 1 .. r + d /\ e \in 1 .. d + 1 /\ e \in Nat
    BY <2>0
  <2>2. IsStart(br[p.stack[r + e]], lv, I, X, e, m)
    BY <1>5, <1>7, <2>1
  <2>3. QED
    BY <1>4, <2>1, <2>2, StartStays
<1>11. StackIs(br, p.scopes, p.stack, r, lv, I, X, m + 1)
  BY <1>3, <1>5, <1>7, <1>9, <1>10 DEF StackIs
<1>12. BranchesAre(br, p.scopes, lv, I, X, E, m + 1)
  BY <1>1, <1>7, BranchesStay
<1>13. QED
  BY <1>11, <1>12 DEF ScopesHeld, p

LEMMA HeldOther ==
  ASSUME NEW lv, NEW I, NEW X, NEW E, Levels(lv, I, X, E), NEW m \in Nat,
         m \notin I, m \notin X, m \notin E, NEW state, ScopesHeld(state, lv, I, X, E, m)
  PROVE  ScopesHeld(state, lv, I, X, E, m + 1)
<1>1. PICK br, r : /\ BranchesAre(br, state.scopes, lv, I, X, E, m)
                   /\ StackIs(br, state.scopes, state.stack, r, lv, I, X, m)
  BY DEF ScopesHeld
<1>2. lv[m + 1] = lv[m]
  BY DEF Levels
<1>3. \A e : m \notin BranchStarts(lv, I, X, e)
  BY DEF BranchStarts
<1>4. \A e \in 1 .. lv[m] : IsStart(br[state.stack[r + e]], lv, I, X, e, m + 1)
  BY <1>1, <1>3, StartStays DEF StackIs
<1>5. StackIs(br, state.scopes, state.stack, r, lv, I, X, m + 1)
  BY <1>1, <1>2, <1>4 DEF StackIs
<1>6. QED
  BY <1>1, <1>5, BranchesStay DEF ScopesHeld

\* The scope of the lines outside of conditions is made when one needs it.
LEMMA HeldOpened ==
  ASSUME NEW lv, NEW I, NEW X, NEW E, Levels(lv, I, X, E), NEW m \in Nat, lv[m] \in Nat,
         NEW state, IncludeStateOK(state), ScopesHeld(state, lv, I, X, E, m)
  PROVE  ScopesHeld(IF state.stack = <<>> THEN PushScope(state) ELSE state, lv, I, X, E, m)
<1>1. CASE state.stack = <<>>
  <2>1. PICK br, r : /\ BranchesAre(br, state.scopes, lv, I, X, E, m)
                     /\ StackIs(br, state.scopes, state.stack, r, lv, I, X, m)
    BY DEF ScopesHeld
  <2>2. Len(state.stack) = 0
    BY <1>1, EmptyAny
  <2>3. r = 0 /\ lv[m] = 0
    BY <2>1, <2>2 DEF StackIs
  <2> DEFINE p == PushScope(state)
             id == Len(state.scopes) + 1
             c == p.scopes
             t == p.stack
             b2 == [s \in DOMAIN c |-> IF s = id THEN -1 ELSE br[s]]
  <2>4. \A s \in DOMAIN state.scopes : br[s] # -1
    BY <2>1, <2>3 DEF StackIs
  <2>6. DOMAIN c = 1 .. id /\ id \in DOMAIN c /\ Len(t) = 1 /\ t[1] = id
    <3>1. /\ Len(state.scopes) \in Nat /\ DOMAIN c = 1 .. Len(state.scopes) + 1
          /\ Len(t) = Len(state.stack) + 1 /\ t[Len(state.stack) + 1] = Len(state.scopes) + 1
      BY PushedIs
    <3> HIDE DEF c, t
    <3>2. Len(t) = 1 /\ t[1] = id
      BY <2>2, <3>1
    <3>3. DOMAIN c = 1 .. id /\ id \in DOMAIN c
      BY <3>1
    <3>4. QED
      BY <3>2, <3>3
  <2>7. b2[id] = -1
    BY <2>6
  <2>11. /\ DOMAIN b2 = DOMAIN PushScope(state).scopes /\ b2[Len(state.scopes) + 1] = -1
         /\ \A s \in DOMAIN state.scopes : b2[s] = br[s]
    <3>0. DOMAIN state.scopes = 1 .. Len(state.scopes) /\ Len(state.scopes) \in Nat
      BY PushedIs
    <3>1. \A s \in DOMAIN state.scopes : s \in DOMAIN c /\ s # id
      BY <2>6, <3>0
    <3> HIDE DEF c
    <3>2. DOMAIN b2 = DOMAIN c /\ b2[id] = -1 /\ \A s \in DOMAIN state.scopes : b2[s] = br[s]
      BY <2>7, <3>1
    <3>3. QED
      BY <3>2, Zenon DEF c, id, p
  <2> HIDE DEF b2, c, t, id, p
  <2>12. BranchesAre(b2, PushScope(state).scopes, lv, I, X, E, m)
    BY <2>1, <2>4, <2>11, BranchesGrow
  <2>5. BranchesAre(b2, c, lv, I, X, E, m)
    BY <2>12, Zenon DEF c, p
  <2>8. StackIs(b2, c, t, 1, lv, I, X, m)
    BY <2>3, <2>6, <2>7 DEF StackIs
  <2>9. ScopesHeld(p, lv, I, X, E, m)
    <3>1. /\ BranchesAre(b2, p.scopes, lv, I, X, E, m)
          /\ StackIs(b2, p.scopes, p.stack, 1, lv, I, X, m)
      BY <2>5, <2>8, Zenon DEF c, t
    <3>2. QED
      BY <3>1, Zenon DEF ScopesHeld
  <2>10. QED
    BY <1>1, <2>9 DEF p
<1>2. CASE state.stack # <<>>
  BY <1>2
<1>3. QED
  BY <1>1, <1>2

\* The headers of a scope with one of line k.
Added(line, header, k) ==
  [h \in DOMAIN line \cup {header} |-> IF h = header THEN k ELSE line[h]]

\* A header of line m is put into the scope on top, which is that of its branch.
LEMMA HeldHeader ==
  ASSUME NEW lv, NEW I, NEW X, NEW E, Levels(lv, I, X, E), NEW m \in Nat, lv[m] \in Nat,
         m \notin I, m \notin X, m \notin E,
         NEW state, IncludeStateOK(state), state.stack # <<>>, ScopesHeld(state, lv, I, X, E, m),
         NEW header, NEW seen,
         seen.line = Added(state.scopes[Last(state.stack)].line, header, m)
  PROVE  ScopesHeld([state EXCEPT !.scopes[Last(state.stack)] = seen], lv, I, X, E, m + 1)
<1>0. ScopesHeld(state, lv, I, X, E, m + 1)
  BY HeldOther
<1>1. PICK br, r : /\ BranchesAre(br, state.scopes, lv, I, X, E, m)
                   /\ StackIs(br, state.scopes, state.stack, r, lv, I, X, m)
  BY DEF ScopesHeld
<1> DEFINE a == state.scopes
           b == state.stack
           top == Last(b)
           set == [state EXCEPT !.scopes[top] = seen]
           c == set.scopes
<1>2. IsSeq(b) /\ b # <<>> /\ \A i \in DOMAIN b : b[i] \in DOMAIN a
  BY DEF IncludeStateOK
<1>3. c = [a EXCEPT ![top] = seen] /\ set.stack = b
  BY DEF IncludeStateOK
<1>31. seen.line = [h \in DOMAIN a[top].line \cup {header} |-> IF h = header THEN m ELSE a[top].line[h]]
  BY DEF Added
<1>32. /\ BranchesAre(br, a, lv, I, X, E, m) /\ StackIs(br, a, b, r, lv, I, X, m)
  BY <1>1
<1> HIDE DEF a, b, set, c
<1>4. top = b[Len(b)] /\ Len(b) \in DOMAIN b /\ top \in DOMAIN a /\ Len(b) \in Nat \ {0}
  <2>1. top = b[Len(b)] /\ Len(b) \in DOMAIN b
    BY <1>2, LastOf
  <2>2. Len(b) \in Nat /\ DOMAIN b = 1 .. Len(b)
    BY <1>2, IsSeqDomain
  <2>3. QED
    BY <1>2, <2>1, <2>2
<1> HIDE DEF top
<1>5. /\ DOMAIN c = DOMAIN a /\ c[top] = seen /\ \A s \in DOMAIN a : s # top => c[s] = a[s]
  BY <1>3, <1>4
<1>6. IsBranch(br[top], lv, I, X, m)
  <2>1. /\ r \in {0, 1} /\ Len(b) = r + lv[m]
        /\ r = 1 => br[b[1]] = -1
        /\ \A d \in 1 .. lv[m] : IsStart(br[b[r + d]], lv, I, X, d, m)
    BY <1>32 DEF StackIs
  <2>2. br[top] = -1 \/ br[top] \in 0 .. m - 1
    BY <1>4, <1>32 DEF BranchesAre
  <2> DEFINE l == lv[m]
  <2>6. l \in Nat /\ Len(b) = r + l /\ r \in {0, 1} /\ top = b[Len(b)] /\ Len(b) # 0
    BY <1>4, <2>1
  <2>7. \A d \in 1 .. l : IsStart(br[b[r + d]], lv, I, X, d, m)
    BY <2>1
  <2> HIDE DEF l
  <2>8. l = 0 => r = 1 /\ top = b[1]
    BY <2>6
  <2>9. l > 0 => l \in 1 .. l /\ top = b[r + l]
    BY <2>6
  <2>3. lv[m] = 0 => br[top] = -1
    BY <2>1, <2>8 DEF l
  <2>10. l > 0 => IsStart(br[top], lv, I, X, l, m)
    BY <2>7, <2>9
  <2>4. lv[m] > 0 => IsStart(br[top], lv, I, X, lv[m], m)
    BY <2>10 DEF l
  <2>5. QED
    BY <2>2, <2>3, <2>4 DEF IsBranch
<1>7. BranchesAre(br, c, lv, I, X, E, m + 1)
  <2>1. BranchesAre(br, a, lv, I, X, E, m + 1)
    BY <1>32, BranchesStay
  <2>2. ASSUME NEW s \in DOMAIN c, NEW h \in DOMAIN c[s].line
        PROVE  LET k == c[s].line[h]
               IN k \in 0 .. (m + 1) - 1 /\ k \notin I \cup X \cup E /\ IsBranch(br[s], lv, I, X, k)
    <3>1. CASE s # top \/ h # header
      <4>1. s \in DOMAIN a /\ h \in DOMAIN a[s].line /\ c[s].line[h] = a[s].line[h]
        <5>1. CASE s # top
          BY <1>5, <5>1
        <5>2. CASE s = top
          BY <1>4, <1>5, <1>31, <3>1, <5>2
        <5>3. QED
          BY <5>1, <5>2
      <4>2. QED
        BY <2>1, <4>1 DEF BranchesAre
    <3>2. CASE s = top /\ h = header
      <4>1. c[s].line[h] = m
        BY <1>5, <1>31, <3>2
      <4>2. m \in 0 .. (m + 1) - 1
        OBVIOUS
      <4>3. QED
        BY <1>6, <3>2, <4>1, <4>2
    <3>3. QED
      BY <3>1, <3>2
  <2>3. QED
    BY <1>5, <2>1, <2>2 DEF BranchesAre
<1>8. StackIs(br, c, b, r, lv, I, X, m + 1)
  <2>1. lv[m + 1] = lv[m]
    BY DEF Levels
  <2>2. \A e : m \notin BranchStarts(lv, I, X, e)
    BY DEF BranchStarts
  <2>3. \A e \in 1 .. lv[m] : IsStart(br[b[r + e]], lv, I, X, e, m + 1)
    BY <1>32, <2>2, StartStays DEF StackIs
  <2>4. QED
    BY <1>5, <1>32, <2>1, <2>3 DEF StackIs
<1>9. ScopesHeld(set, lv, I, X, E, m + 1)
  BY <1>3, <1>7, <1>8 DEF ScopesHeld, c
<1>10. QED
  BY <1>9 DEF set, top, b

-----------------------------------------------------------------------------
(* Text without assembly has no block of assembly.                           *)

Plain(line) == IsSeq(line) /\ ~Contains(line, "asm")

LEMMA PlainAfter ==
  ASSUME NEW line, Plain(line), NEW i \in Nat
  PROVE  Plain(After(line, i))
<1> DEFINE s == After(line, i)
<1>1. IsSeq(line) /\ \A j \in 1 .. Len(line) : line[j] # "asm"
  BY DEF Plain, Contains
<1>2. Len(line) \in Nat
  BY <1>1, IsSeqDomain
<1>3. PICK a \in Nat : a = i + 1
  OBVIOUS
<1>4. PICK b \in Nat : b = Len(line)
  BY <1>2
<1>5. s = SubSeq(line, a, b)
  BY <1>3, <1>4 DEF After
<1> HIDE DEF s
<1>6. /\ IsSeq(s) /\ Len(s) = (IF a <= b THEN b - a + 1 ELSE 0)
      /\ \A j \in 1 .. b - a + 1 : s[j] = line[a + j - 1]
  BY <1>5, SubSeqAny
<1>7. ASSUME NEW j \in 1 .. Len(s) PROVE s[j] # "asm"
  <2>1. j \in 1 .. b - a + 1 /\ a + j - 1 \in 1 .. Len(line)
    BY <1>3, <1>4, <1>6
  <2>2. QED
    BY <1>1, <1>6, <2>1
<1>8. Plain(s)
  BY <1>6, <1>7 DEF Plain, Contains
<1>9. QED
  BY <1>8 DEF s

LEMMA PlainStrip ==
  ASSUME NEW line, Plain(line)
  PROVE  Plain(Strip(line))
<1>1. IsSeq(line) /\ \A j \in 1 .. Len(line) : line[j] # "asm"
  BY DEF Plain, Contains
<1>2. CASE Strip(line) = line
  BY <1>2
<1>3. CASE Strip(line) # line
  <2>1. Strip(line) = Tail(line) /\ line # <<>>
    BY <1>3 DEF Strip, Indented
  <2>2. line \in Seq(Range(line)) /\ DOMAIN line = 1 .. Len(line) /\ Len(line) \in Nat
    BY <1>1, IsSeqDomain DEF IsSeq
  <2>3. /\ Tail(line) \in Seq(Range(line)) /\ Len(Tail(line)) = Len(line) - 1
        /\ \A j \in 1 .. Len(line) - 1 : Tail(line)[j] = line[j + 1]
    BY <2>1, <2>2, HeadTailProperties
  <2> DEFINE s == Tail(line)
  <2>4. IsSeq(s)
    BY <2>3, SeqOfAny
  <2> HIDE DEF s
  <2>5. Len(s) = Len(line) - 1 /\ \A j \in 1 .. Len(line) - 1 : s[j] = line[j + 1]
    BY <2>3 DEF s
  <2>6. \A j \in 1 .. Len(s) : s[j] # "asm"
    BY <1>1, <2>2, <2>5
  <2>7. Plain(s)
    BY <2>4, <2>6 DEF Plain, Contains
  <2>8. QED
    BY <2>1, <2>7 DEF s
<1>4. QED
  BY <1>2, <1>3

LEMMA PlainIsNoAsm ==
  ASSUME NEW line, Plain(line)
  PROVE  ~MatchAsm(line)
<1> DEFINE s == Strip(line)
<1>1. MatchAsm(line) => Len(s) >= 2 /\ s[1] = "asm"
  BY Zenon DEF MatchAsm
<1>2. Plain(s)
  BY PlainStrip
<1> HIDE DEF s
<1>3. Len(s) \in Nat /\ \A j \in 1 .. Len(s) : s[j] # "asm"
  BY <1>2, IsSeqDomain DEF Plain, Contains
<1>4. Len(s) >= 2 => 1 \in 1 .. Len(s)
  BY <1>3
<1>5. QED
  BY <1>1, <1>3, <1>4

\* A block that is not one of assembly, and stacks of such blocks.
CalmBlock(b) == "inline_asm" \in DOMAIN b /\ b.inline_asm = "no"
Calm(stack) == IsSeq(stack) /\ \A i \in DOMAIN stack : CalmBlock(stack[i])
CalmNest(nest) ==
  /\ NestingOK(nest) /\ Calm(nest.stack)
  /\ \A i \in DOMAIN nest.pp_stack :
       Calm(nest.pp_stack[i].stack_before_if) /\ Calm(nest.pp_stack[i].stack_before_else)

LEMMA CalmEmpty == Calm(<<>>)
  BY EmptyAny DEF Calm

LEMMA CalmTop ==
  ASSUME NEW s, Calm(s), s # <<>>
  PROVE  CalmBlock(Last(s))
  BY LastOf DEF Calm

LEMMA CalmAppend ==
  ASSUME NEW s, Calm(s), NEW b, CalmBlock(b)
  PROVE  Calm(Append(s, b))
<1> DEFINE t == Append(s, b)
<1>1. IsSeq(s) /\ \A i \in DOMAIN s : CalmBlock(s[i])
  BY DEF Calm
<1>2. /\ IsSeq(t) /\ Len(s) \in Nat /\ DOMAIN s = 1 .. Len(s) /\ DOMAIN t = 1 .. Len(s) + 1
      /\ t[Len(s) + 1] = b /\ \A i \in 1 .. Len(s) : t[i] = s[i]
  BY <1>1, AppendAny
<1> HIDE DEF t
<1>3. ASSUME NEW i \in DOMAIN t PROVE CalmBlock(t[i])
  <2>1. i \in 1 .. Len(s) \/ i = Len(s) + 1
    BY <1>2
  <2>2. QED
    BY <1>1, <1>2, <2>1
<1>4. Calm(t)
  BY <1>2, <1>3 DEF Calm
<1>5. QED
  BY <1>4 DEF t

LEMMA CalmWithTop ==
  ASSUME NEW s, Calm(s), s # <<>>, NEW b, CalmBlock(b)
  PROVE  Calm(WithTop(s, b))
<1>1. IsSeq(s) /\ \A i \in DOMAIN s : CalmBlock(s[i])
  BY DEF Calm
<1>2. /\ IsSeq(WithTop(s, b)) /\ DOMAIN WithTop(s, b) = DOMAIN s
      /\ \A i \in DOMAIN s : WithTop(s, b)[i] = IF i = Len(s) THEN b ELSE s[i]
  BY <1>1, WithTopSeq
<1>3. QED
  BY <1>1, <1>2 DEF Calm

LEMMA CalmFront ==
  ASSUME NEW s, Calm(s)
  PROVE  Calm(Front(s))
  BY FrontSeq DEF Calm

LEMMA CalmConcat ==
  ASSUME NEW s, Calm(s), NEW t, Calm(t)
  PROVE  Calm(s \o t)
<1> DEFINE S == {b \in Range(s) \cup Range(t) : CalmBlock(b)}
<1>1. /\ IsSeq(s) /\ \A i \in DOMAIN s : CalmBlock(s[i])
      /\ IsSeq(t) /\ \A i \in DOMAIN t : CalmBlock(t[i])
  BY DEF Calm
<1>2. s \in Seq(S) /\ t \in Seq(S)
  <2>1. DOMAIN s = 1 .. Len(s) /\ Len(s) \in Nat /\ DOMAIN t = 1 .. Len(t) /\ Len(t) \in Nat
    BY <1>1, IsSeqDomain
  <2>2. s \in Seq(Range(s)) /\ t \in Seq(Range(t))
    BY <1>1 DEF IsSeq
  <2>3. \A i \in 1 .. Len(s) : s[i] \in S
    BY <1>1, <2>1 DEF Range
  <2>4. \A i \in 1 .. Len(t) : t[i] \in S
    BY <1>1, <2>1 DEF Range
  <2> HIDE DEF S
  <2>5. s \in [1 .. Len(s) -> S] /\ t \in [1 .. Len(t) -> S]
    BY <2>2, <2>3, <2>4, LenProperties
  <2>6. QED
    BY <2>1, <2>5
<1>3. \A b \in S : CalmBlock(b)
  OBVIOUS
<1> HIDE DEF S
<1>4. s \o t \in Seq(S)
  BY <1>2, ConcatProperties
<1>5. /\ IsSeq(s \o t) /\ DOMAIN (s \o t) = 1 .. Len(s \o t)
      /\ \A i \in 1 .. Len(s \o t) : (s \o t)[i] \in S
  BY <1>4, SeqOfAny
<1>6. QED
  BY <1>3, <1>5 DEF Calm

-----------------------------------------------------------------------------
(* The steps of an update.                                                   *)

LEMMA CalmPreprocessor ==
  ASSUME NEW nest, CalmNest(nest), NEW line
  PROVE  CalmNest(UpdatePreprocessor(nest, line))
<1> DEFINE pp == nest.pp_stack
           s == nest.stack
           q == [stack_before_if |-> s, stack_before_else |-> <<>>, seen_else |-> FALSE]
           pushed == Append(pp, q)
           last == [Last(pp) EXCEPT !.seen_else = TRUE, !.stack_before_else = s]
           marked == IF Last(pp).seen_else THEN pp ELSE WithTop(pp, last)
           first == IF Last(pp).seen_else THEN Last(pp).stack_before_else ELSE s
           x == UpdatePreprocessor(nest, line)
           a == [nest EXCEPT !.pp_stack = pushed]
           b == [stack |-> Last(pp).stack_before_if, pp_stack |-> marked]
           c == [stack |-> first, pp_stack |-> Front(pp)]
           CalmPP(p) == Calm(p.stack_before_if) /\ Calm(p.stack_before_else)
           CalmParts(y) == Calm(y.stack) /\ \A i \in DOMAIN y.pp_stack : CalmPP(y.pp_stack[i])
<1>0. /\ NestingOK(nest) /\ DOMAIN nest = {"stack", "pp_stack"} /\ IsSeq(pp)
      /\ \A i \in DOMAIN pp : CalmPP(pp[i]) /\ Branches(pp[i])
      /\ Calm(s)
  BY DEF CalmNest, NestingOK
<1> DEFINE A == IsDirective(line, IfDirective)
           B == IsDirective(line, ElseDirective) /\ pp # <<>>
           C == IsDirective(line, EndifDirective) /\ pp # <<>>
<1>11. x = CASE A -> a [] B -> b [] C -> c [] OTHER -> nest
  BY Zenon DEF UpdatePreprocessor
<1>1. x = a \/ (pp # <<>> /\ x = b) \/ (pp # <<>> /\ x = c) \/ x = nest
  <2>1. (B => pp # <<>>) /\ (C => pp # <<>>)
    OBVIOUS
  <2> HIDE DEF A, B, C, a, b, c, x, pp
  <2>2. QED
    BY <1>11, <2>1
<1>2. CalmParts(a)
  <2>1. CalmPP(q)
    BY <1>0, CalmEmpty
  <2> HIDE DEF q, s, pp, CalmPP
  <2>2. /\ IsSeq(pushed) /\ Len(pp) \in Nat /\ DOMAIN pp = 1 .. Len(pp) /\ DOMAIN pushed = 1 .. Len(pp) + 1
        /\ pushed[Len(pp) + 1] = q /\ \A i \in 1 .. Len(pp) : pushed[i] = pp[i]
    BY <1>0, AppendAny
  <2> HIDE DEF pushed
  <2>3. \A i \in DOMAIN pushed : CalmPP(pushed[i])
    <3> SUFFICES ASSUME NEW i \in DOMAIN pushed PROVE CalmPP(pushed[i])
      OBVIOUS
    <3>1. i = Len(pp) + 1 \/ i \in 1 .. Len(pp)
      BY <2>2
    <3>2. QED
      BY <1>0, <2>1, <2>2, <3>1
  <2>4. a.stack = s /\ a.pp_stack = pushed
    BY <1>0 DEF s
  <2> HIDE DEF a
  <2>5. QED
    BY <1>0, <2>3, <2>4
<1>3. ASSUME pp # <<>> PROVE CalmParts(b) /\ CalmParts(c)
  <2> HIDE DEF pp, s
  <2>1. Last(pp) = pp[Len(pp)] /\ Len(pp) \in DOMAIN pp
    BY <1>0, <1>3, LastOf
  <2>2. Branches(Last(pp)) /\ CalmPP(Last(pp))
    BY <1>0, <2>1
  <2>3. CalmPP(last)
    BY <1>0, <2>2 DEF Branches
  <2>4. Calm(Last(pp).stack_before_if) /\ Calm(first)
    BY <1>0, <2>2
  <2> HIDE DEF last, CalmPP
  <2>5. \A i \in DOMAIN marked : CalmPP(marked[i])
    <3>1. CASE Last(pp).seen_else
      BY <1>0, <3>1
    <3>2. CASE ~Last(pp).seen_else
      <4>1. marked = WithTop(pp, last)
        BY <3>2
      <4> HIDE DEF marked
      <4>2. /\ IsSeq(marked) /\ DOMAIN marked = DOMAIN pp
            /\ \A i \in DOMAIN pp : marked[i] = IF i = Len(pp) THEN last ELSE pp[i]
        BY <1>0, <1>3, <4>1, WithTopSeq
      <4>3. QED
        BY <1>0, <2>3, <4>2
    <3>3. QED
      BY <3>1, <3>2
  <2>6. \A i \in DOMAIN Front(pp) : CalmPP(Front(pp)[i])
    BY <1>0, FrontSeq
  <2> HIDE DEF marked, first
  <2>7. QED
    BY <2>4, <2>5, <2>6
<1>4. CalmParts(nest)
  BY <1>0
<1>5. NestingOK(x)
  BY <1>0, UpdatePreprocessorOK
<1> HIDE DEF a, b, c, x, pp, CalmParts
<1>6. CalmParts(x)
  BY <1>1, <1>2, <1>3, <1>4
<1>7. QED
  BY <1>5, <1>6 DEF CalmNest, CalmParts, x

LEMMA CalmParentheses ==
  ASSUME NEW stack, Calm(stack), NEW line, Plain(line)
  PROVE  Calm(CountParentheses(stack, line))
<1> DEFINE top == Last(stack)
           change == Net(line, "(")
           open == top.open_parentheses + change
           asm == CASE top.inline_asm \in {"no", "end"} ->
                         IF change # 0 /\ open = 1 /\ MatchAsm(line)
                         THEN "inside" ELSE "no"
                    [] top.inline_asm = "inside" /\ open = 0 -> "end"
                    [] OTHER -> top.inline_asm
           next == [top EXCEPT !.open_parentheses = open, !.inline_asm = asm]
           x == CountParentheses(stack, line)
<1>1. x = IF stack = <<>> THEN stack ELSE WithTop(stack, next)
  BY Zenon DEF CountParentheses
<1>2. ~MatchAsm(line)
  BY PlainIsNoAsm
<1> HIDE DEF x
<1>3. CASE stack # <<>>
  <2>1. CalmBlock(top)
    BY <1>3, CalmTop
  <2> HIDE DEF top, open, change
  <2>2. asm = "no"
    BY <1>2, <2>1 DEF CalmBlock
  <2> HIDE DEF asm
  <2>3. CalmBlock(next)
    BY <2>1, <2>2 DEF CalmBlock
  <2> HIDE DEF next
  <2>4. Calm(WithTop(stack, next))
    BY <1>3, <2>3, CalmWithTop
  <2>5. QED
    BY <1>1, <1>3, <2>4 DEF x
<1>4. QED
  BY <1>1, <1>3 DEF x

LEMMA CalmOnward ==
  ASSUME NEW len \in Nat, NEW go, NEW next, NEW block, GoesOn(len, go, next),
         \A i \in go : CalmBlock(block[i]),
         NEW f, Onward(f, len, go, next, block)
  PROVE  \A i \in 1 .. len : OnwardFine(f[i]) /\ Calm(f[i].blocks) /\ f[i].at \in 1 .. len
<1>0. go \subseteq 1 .. len /\ \A i \in go : next[i] \in i + 1 .. len
  BY DEF GoesOn
<1>1. \A i \in 1 .. len : f[i] = IF i \notin go THEN [blocks |-> <<>>, at |-> i]
                                 ELSE [f[next[i]] EXCEPT !.blocks = <<block[i]>> \o @]
  BY DEF Onward
<1>11. \A i \in 1 .. len : OnwardFine(f[i])
  BY OnwardIsFine, Zenon
<1> DEFINE Q(i) == Calm(f[i].blocks) /\ f[i].at \in 1 .. len
           N == {m \in Nat : \A i \in 1 .. len : i > len - m => Q(i)}
<1>2. 0 \in N
  OBVIOUS
<1>3. ASSUME NEW m \in Nat, m \in N PROVE m + 1 \in N
  <2>1. \A i \in 1 .. len : i > len - m => Q(i)
    BY <1>3
  <2>2. ASSUME NEW i \in 1 .. len, i >= len - m PROVE Q(i)
    <3>1. CASE i \notin go
      <4>1. f[i] = [blocks |-> <<>>, at |-> i]
        BY <1>1, <3>1
      <4>2. QED
        BY <4>1, CalmEmpty
    <3>2. CASE i \in go
      <4> DEFINE x == f[next[i]]
                 b == <<block[i]>>
                 s == b \o x.blocks
      <4>1. next[i] \in i + 1 .. len
        BY <1>0, <3>2
      <4>2. next[i] \in 1 .. len /\ next[i] > len - m
        BY <2>2, <4>1
      <4>3. Q(next[i])
        <5> HIDE DEF Q
        <5>1. QED
          BY <2>1, <4>2
      <4>31. Calm(x.blocks) /\ x.at \in 1 .. len /\ OnwardFine(x)
        BY <1>11, <4>2, <4>3
      <4>4. f[i] = [x EXCEPT !.blocks = <<block[i]>> \o @]
        BY <1>1, <3>2
      <4> HIDE DEF x
      <4>5. Calm(b)
        <5>1. CalmBlock(block[i])
          BY <3>2
        <5>2. IsSeq(b) /\ DOMAIN b = 1 .. 1 /\ b[1] = block[i]
          BY SingleAny
        <5> HIDE DEF b
        <5>3. QED
          BY <5>1, <5>2 DEF Calm
      <4>6. f[i].blocks = s /\ f[i].at = x.at
        BY <4>31, <4>4 DEF OnwardFine
      <4> HIDE DEF b
      <4>7. Calm(s)
        BY <4>31, <4>5, CalmConcat
      <4> HIDE DEF s
      <4>8. QED
        BY <4>31, <4>6, <4>7
    <3>3. QED
      BY <3>1, <3>2
  <2>3. \A i \in 1 .. len : i > len - (m + 1) => i >= len - m
    OBVIOUS
  <2> HIDE DEF Q
  <2>4. QED
    BY <2>2, <2>3
<1>4. Nat \subseteq N
  <2> HIDE DEF N
  <2>1. QED
    BY <1>2, <1>3, NatSetInduction
<1>41. len \in N
  BY <1>4
<1>42. \A i \in 1 .. len : Q(i)
  <2> HIDE DEF Q
  <2>1. \A i \in 1 .. len : i > len - len
    OBVIOUS
  <2>2. QED
    BY <1>41, <2>1
<1>5. QED
  BY <1>11, <1>42

LEMMA CalmNamespaces ==
  ASSUME NEW stack, Calm(stack), NEW line, Plain(line), NEW k
  PROVE  Calm(Namespaces(stack, line, k).stack) /\ Plain(Namespaces(stack, line, k).rest)
<1> DEFINE text == Strip(line)
           len == Len(text) + 1
           go == {i \in 1 .. Len(text) : Starts(After(text, i - 1), {"namespace"})}
           next == [i \in 1 .. len |-> NextAt(text, i)]
           block == [i \in 1 .. len |-> NamespaceAt(text, i, k)]
           f == CHOOSE f : NamespaceReads(f, text, k)
<1>1. Plain(text) /\ IsSeq(text)
  BY PlainStrip DEF Plain
<1>2. Len(text) \in Nat /\ len \in Nat /\ 1 \in 1 .. len
  <2> HIDE DEF text
  <2>1. Len(text) \in Nat
    BY <1>1, IsSeqDomain
  <2>2. QED
    BY <2>1
<1> HIDE DEF text
<1>3. GoesOn(len, go, next)
  <2>1. go \subseteq 1 .. Len(text)
    OBVIOUS
  <2> HIDE DEF go
  <2>2. \A i \in go : next[i] = NextAt(text, i)
    BY <1>2, <2>1
  <2> HIDE DEF next
  <2>3. \A i \in go : next[i] \in i + 1 .. Len(text) + 1
    BY <1>1, <2>1, <2>2, NextIsOn
  <2>4. QED
    BY <1>2, <2>1, <2>3 DEF GoesOn
<1>31. \A i \in go : CalmBlock(block[i])
  <2>1. go \subseteq 1 .. Len(text)
    OBVIOUS
  <2> HIDE DEF go
  <2>2. ASSUME NEW i PROVE CalmBlock(NamespaceAt(text, i, k))
    <3> DEFINE nm == NameAt(text, i)
               seen == BraceAt(text, i) > 0
    <3>1. NamespaceAt(text, i, k) = [_NamespaceInfo(nm, k) EXCEPT !.seen_open_brace = seen]
      BY Zenon DEF NamespaceAt
    <3> HIDE DEF nm, seen
    <3>2. QED
      BY <3>1 DEF CalmBlock, _NamespaceInfo, _BlockInfo
  <2>3. \A i \in go : block[i] = NamespaceAt(text, i, k)
    BY <1>2, <2>1
  <2>4. QED
    BY <2>2, <2>3
<1>4. \A g : NamespaceReads(g, text, k) <=> Onward(g, len, go, next, block)
  <2> SUFFICES ASSUME NEW g
               PROVE  NamespaceReads(g, text, k) <=> Onward(g, len, go, next, block)
    OBVIOUS
  <2> DEFINE a == [i \in 1 .. Len(text) + 1 |->
                    IF i > Len(text) \/ ~Starts(After(text, i - 1), {"namespace"})
                    THEN [blocks |-> <<>>, at |-> i]
                    ELSE [g[NextAt(text, i)] EXCEPT !.blocks = <<NamespaceAt(text, i, k)>> \o @]]
             b == [i \in 1 .. len |->
                    IF i \notin go THEN [blocks |-> <<>>, at |-> i]
                    ELSE [g[next[i]] EXCEPT !.blocks = <<block[i]>> \o @]]
             Rec(x, y) == [g[x] EXCEPT !.blocks = <<y>> \o @]
             a1 == [i \in 1 .. Len(text) + 1 |->
                    IF i > Len(text) \/ ~Starts(After(text, i - 1), {"namespace"})
                    THEN [blocks |-> <<>>, at |-> i] ELSE Rec(NextAt(text, i), NamespaceAt(text, i, k))]
             b1 == [i \in 1 .. len |->
                    IF i \notin go THEN [blocks |-> <<>>, at |-> i] ELSE Rec(next[i], block[i])]
  <2>1. NamespaceReads(g, text, k) <=> g = a
    BY Zenon DEF NamespaceReads
  <2>2. Onward(g, len, go, next, block) <=> g = b
    BY Zenon DEF Onward
  <2>3. a = a1 /\ b = b1
    OBVIOUS
  <2>4. \A i \in 1 .. len : next[i] = NextAt(text, i) /\ block[i] = NamespaceAt(text, i, k)
    OBVIOUS
  <2>5. \A i \in 1 .. len : i \notin go <=> (i > Len(text) \/ ~Starts(After(text, i - 1), {"namespace"}))
    BY <1>2
  <2> HIDE DEF a, b, Rec, next, block, go
  <2>6. a1 = b1
    BY <2>4, <2>5
  <2>7. QED
    BY <2>1, <2>2, <2>3, <2>6
<1> HIDE DEF go, next, block, len
<1>5. NamespaceReads(f, text, k)
  <2>1. \E g : Onward(g, len, go, next, block)
    BY <1>2, <1>3, OnwardExists, Zenon
  <2>2. \E g : NamespaceReads(g, text, k)
    BY <1>4, <2>1
  <2>3. QED
    BY <2>2, Zenon
<1>6. Onward(f, len, go, next, block)
  BY <1>4, <1>5, Zenon
<1>7. Namespaces(stack, line, k) = [stack |-> stack \o f[1].blocks, rest |-> After(text, f[1].at - 1)]
  BY NamespacesUnfold, Zenon DEF text
<1> HIDE DEF f
<1>8. Calm(f[1].blocks) /\ f[1].at \in 1 .. len
  <2>1. \A i \in 1 .. len : OnwardFine(f[i]) /\ Calm(f[i].blocks) /\ f[i].at \in 1 .. len
    BY <1>2, <1>3, <1>31, <1>6, CalmOnward, Zenon
  <2>2. QED
    BY <1>2, <2>1
<1>9. Calm(stack \o f[1].blocks)
  BY <1>8, CalmConcat
<1>10. f[1].at - 1 \in Nat
  BY <1>2, <1>8
<1>11. Plain(After(text, f[1].at - 1))
  BY <1>1, <1>10, PlainAfter, Zenon
<1> DEFINE s == stack \o f[1].blocks
           r == After(text, f[1].at - 1)
<1> HIDE DEF s, r
<1>12. Namespaces(stack, line, k) = [stack |-> s, rest |-> r]
  BY <1>7 DEF s, r
<1>13. QED
  BY <1>9, <1>11, <1>12 DEF s, r

LEMMA CalmClassDeclaration ==
  ASSUME NEW stack, Calm(stack), NEW text, Plain(text), NEW lines, NEW k
  PROVE  LET x == ClassDeclaration(stack, text, lines, k)
         IN Calm(x.stack) /\ Plain(x.rest)
<1> DEFINE key == ClassKeyword(text)
           I == {i \in key + 1 .. Len(text) :
                 /\ IsWord(text, i)
                 /\ \A j \in key + 1 .. i - 1 : text[j] \in Macro
                 /\ ~(text[i] \in Macro /\ IsWord(text, i + 1))}
           name == FirstOf(I, 0)
           rest == After(text, name)
           block == _ClassInfo(text[name], text[key], lines, k)
           x == ClassDeclaration(stack, text, lines, k)
           a == [stack |-> Append(stack, block), rest |-> rest]
           b == [stack |-> stack, rest |-> text]
<1>1. x \in {a, b}
  BY Zenon DEF ClassDeclaration
<1>2. name \in Nat
  <2>1. key \in Nat /\ Len(text) \in Nat
    BY ClassKeywordInt, IsSeqDomain DEF Plain
  <2>2. I \subseteq key + 1 .. Len(text)
    OBVIOUS
  <2> HIDE DEF I, key
  <2>3. key + 1 .. Len(text) \subseteq Nat
    BY <2>1
  <2>4. I # {} => Min(I) \in I
    BY <2>2, <2>3, LeastOf
  <2>5. I # {} => Min(I) \in Nat
    BY <2>2, <2>3, <2>4, Zenon
  <2>6. name = IF I = {} THEN 0 ELSE Min(I)
    BY DEF FirstOf
  <2> HIDE DEF name
  <2>7. QED
    BY <2>5, <2>6
<1>3. CalmBlock(block)
  <2> DEFINE nm == text[name]
             kind == text[key]
             access == IF kind = "struct" THEN "public" ELSE "private"
             end == ClassEnd(lines, k)
  <2>1. block = [_BlockInfo("class", FALSE) EXCEPT
                   !.name = nm, !.starting_linenum = k, !.last_line = end, !.access = access]
    BY Zenon DEF _ClassInfo
  <2> HIDE DEF nm, kind, access, end, block
  <2>2. QED
    BY <2>1 DEF CalmBlock, _BlockInfo
<1> HIDE DEF name
<1>4. Plain(rest)
  BY <1>2, PlainAfter, Zenon
<1> HIDE DEF rest, block
<1>5. Calm(Append(stack, block))
  BY <1>3, CalmAppend
<1>6. Calm(a.stack) /\ Plain(a.rest) /\ Calm(b.stack) /\ Plain(b.rest)
  BY <1>4, <1>5
<1> HIDE DEF a, b, x
<1>7. Calm(x.stack) /\ Plain(x.rest)
  BY <1>1, <1>6
<1>8. QED
  BY <1>7 DEF x

LEMMA CalmClassHead ==
  ASSUME NEW stack, Calm(stack), NEW line, NEW rest
  PROVE  Calm(ClassHead(stack, line, rest))
<1> DEFINE top == Last(stack)
           Next_(d, e) == [top EXCEPT !.is_derived = d, !.access = e]
<1>1. ~TopIsClass(stack) => ClassHead(stack, line, rest) = stack
  BY Zenon DEF ClassHead
<1>2. TopIsClass(stack) => \E d, e : ClassHead(stack, line, rest) = WithTop(stack, Next_(d, e))
  <2> DEFINE derived == ~top.seen_open_brace /\ Contains(line, ":")
             access == Len(rest) >= 2 /\ rest[2] = ":"
                       /\ rest[1] \in {"public", "private", "protected"}
             d1 == top.is_derived \/ derived
             e1 == IF access THEN rest[1] ELSE top.access
             n1 == [top EXCEPT !.is_derived = @ \/ derived,
                               !.access = IF access THEN rest[1] ELSE @]
  <2>1. TopIsClass(stack) => ClassHead(stack, line, rest) = WithTop(stack, n1)
    BY Zenon DEF ClassHead
  <2> HIDE DEF derived, access, top
  <2>2. n1 = Next_(d1, e1)
    OBVIOUS
  <2> HIDE DEF n1, Next_, d1, e1
  <2>3. QED
    BY <2>1, <2>2
<1>3. TopIsClass(stack) => stack # <<>>
  BY DEF TopIsClass
<1>4. ASSUME stack # <<>>, NEW d, NEW e PROVE Calm(WithTop(stack, Next_(d, e)))
  <2>1. CalmBlock(top)
    BY <1>4, CalmTop
  <2> HIDE DEF top
  <2>2. CalmBlock(Next_(d, e))
    BY <2>1 DEF CalmBlock
  <2> HIDE DEF Next_
  <2>3. QED
    BY <1>4, <2>2, CalmWithTop
<1> HIDE DEF Next_
<1>5. QED
  BY <1>1, <1>2, <1>3, <1>4

CalmBrace(acc) == DOMAIN acc = {"stack", "errors"} /\ Calm(acc.stack)

LEMMA BraceIsCalm ==
  ASSUME NEW acc, CalmBrace(acc), NEW text, Plain(text), NEW i \in Nat \ {0}, NEW raw, NEW k
  PROVE  CalmBrace(Brace(acc, text, i, raw, k))
<1> DEFINE at == SelectLastInSubSeq(text, 1, i - 1, LAMBDA t : t \in {"{", ";", ")", "}"})
           since == After(text, at)
           open == SeenOpenBrace(acc.stack)
           top == Last(acc.stack)
           asm == IF MatchAsm(since) THEN "block" ELSE "no"
           block == [_BlockInfo("block", TRUE) EXCEPT !.inline_asm = asm]
           seen == WithTop(acc.stack, [top EXCEPT !.seen_open_brace = TRUE])
           pushed == Append(acc.stack, block)
           a == [acc EXCEPT !.stack = seen]
           b == [acc EXCEPT !.stack = pushed]
           c == [acc EXCEPT !.stack = Front(@)]
           e == acc.errors \o CheckEnd(top, raw, k)
           d == [stack |-> Front(acc.stack), errors |-> e]
           x == Brace(acc, text, i, raw, k)
<1>0. DOMAIN acc = {"stack", "errors"} /\ Calm(acc.stack)
  BY DEF CalmBrace
<1>1. (~open /\ x = a) \/ x = b \/ x = c \/ x = d \/ x = acc
  BY Zenon DEF Brace
<1>2. ~open => acc.stack # <<>>
  BY DEF SeenOpenBrace
<1>3. at \in Nat
  <2> DEFINE T(t) == t \in {"{", ";", ")", "}"}
             I == {j \in 1 .. i - 1 : T(text[j])}
  <2>1. at = IF I # {} THEN Max(I) ELSE 0
    BY Zenon DEF SelectLastInSubSeq
  <2> HIDE DEF T, at
  <2>2. I \subseteq 1 .. i - 1 /\ i - 1 \in Nat
    OBVIOUS
  <2> HIDE DEF I
  <2>4. PICK len \in Nat : len = i - 1
    BY <2>2
  <2>5. (IF I # {} THEN Max(I) ELSE 0) \in 0 .. len
    BY <2>2, <2>4, LastIn
  <2>3. QED
    BY <2>1, <2>4, <2>5
<1> HIDE DEF at
<1>4. asm = "no"
  <2>1. ~MatchAsm(since)
    BY <1>3, PlainAfter, PlainIsNoAsm
  <2>2. QED
    BY <2>1
<1> HIDE DEF asm, open, e
<1>5. CalmBlock(block)
  BY <1>4 DEF CalmBlock, _BlockInfo
<1> HIDE DEF block
<1>6. ~open => Calm(seen)
  <2> SUFFICES ASSUME ~open PROVE Calm(seen)
    OBVIOUS
  <2>1. CalmBlock(top)
    BY <1>0, <1>2, CalmTop
  <2> HIDE DEF top
  <2>2. CalmBlock([top EXCEPT !.seen_open_brace = TRUE])
    BY <2>1 DEF CalmBlock
  <2>3. QED
    BY <1>0, <1>2, <2>2, CalmWithTop
<1>7. Calm(pushed) /\ Calm(Front(acc.stack))
  BY <1>0, <1>5, CalmAppend, CalmFront
<1> HIDE DEF seen, pushed
<1>8. (~open => CalmBrace(a)) /\ CalmBrace(b) /\ CalmBrace(c) /\ CalmBrace(d) /\ CalmBrace(acc)
  BY <1>0, <1>6, <1>7 DEF CalmBrace
<1> HIDE DEF a, b, c, d, x
<1>9. CalmBrace(x)
  BY <1>1, <1>8
<1>10. QED
  BY <1>9 DEF x

LEMMA BracesCalm ==
  ASSUME NEW stack, Calm(stack), NEW text, Plain(text), NEW raw, NEW k
  PROVE  Calm(Braces(stack, text, raw, k).stack)
<1>1. PICK len \in Nat : len = Len(text) /\ DOMAIN text = 1 .. len
  BY IsSeqDomain DEF Plain
<1>2. DOMAIN IndicesOf(text) = 1 .. len /\ \A i \in 1 .. len : IndicesOf(text)[i] = i
  BY <1>1 DEF IndicesOf
<1>0. BraceReach(stack, text, raw, k, len)
  BY <1>1, <1>2, BraceSteps
<1>3. PICK r : /\ r[0] = NoErrors(stack)
               /\ \A i \in 1 .. len : r[i] = Brace(r[i - 1], text, IndicesOf(text)[i], raw, k)
               /\ Braces(stack, text, raw, k) = r[len]
  BY <1>0 DEF BraceReach
<1> DEFINE P(i) == i \in 0 .. len => CalmBrace(r[i])
           N == {i \in Nat : P(i)}
<1>4. 0 \in N
  BY <1>3 DEF NoErrors, CalmBrace
<1>5. ASSUME NEW i \in Nat, i \in N PROVE i + 1 \in N
  <2>1. CASE i + 1 \in 0 .. len
    <3>1. CalmBrace(r[i]) /\ i + 1 \in Nat \ {0}
      BY <1>5, <2>1
    <3>2. r[i + 1] = Brace(r[i], text, i + 1, raw, k)
      BY <1>2, <1>3, <2>1
    <3>3. CalmBrace(Brace(r[i], text, i + 1, raw, k))
      BY <3>1, BraceIsCalm, Zenon
    <3>4. QED
      BY <3>2, <3>3
  <2>2. QED
    BY <2>1
<1>6. Nat \subseteq N
  <2> HIDE DEF N
  <2>1. QED
    BY <1>4, <1>5, NatSetInduction
<1>7. CalmBrace(r[len])
  BY <1>6
<1>8. QED
  BY <1>3, <1>7 DEF CalmBrace

LEMMA UpdateCalm ==
  ASSUME NEW nest, CalmNest(nest), NEW raw, NEW lines, NEW k, Plain(lines[k])
  PROVE  CalmNest(Update(nest, raw, lines, k).nest)
<1> DEFINE line == lines[k]
           pre == UpdatePreprocessor(nest, line)
           counted == CountParentheses(pre.stack, line)
           spaces == Namespaces(counted, line, k)
           class == ClassDeclaration(spaces.stack, spaces.rest, lines, k)
           head == ClassHead(class.stack, line, class.rest)
           end == Braces(head, class.rest, raw[k], k)
           x == [stack |-> end.stack, pp_stack |-> pre.pp_stack]
<1>1. Update(nest, raw, lines, k) = [nest |-> x, errors |-> end.errors]
  BY Zenon DEF Update
<1>2. CalmNest(pre)
  BY CalmPreprocessor
<1>21. NestingOK(Update(nest, raw, lines, k).nest)
  BY UpdateFine DEF CalmNest, Plain
<1> HIDE DEF pre
<1>3. Calm(counted)
  BY <1>2, CalmParentheses DEF CalmNest
<1> HIDE DEF counted
<1>4. Calm(spaces.stack) /\ Plain(spaces.rest)
  BY <1>3, CalmNamespaces
<1> HIDE DEF spaces
<1>5. Calm(class.stack) /\ Plain(class.rest)
  BY <1>4, CalmClassDeclaration
<1> HIDE DEF class
<1>6. Calm(head)
  BY <1>5, CalmClassHead
<1> HIDE DEF head
<1>7. Calm(end.stack)
  BY <1>5, <1>6, BracesCalm
<1> HIDE DEF end
<1>8. NestingOK(x)
  BY <1>1, <1>21
<1>9. CalmNest(x)
  BY <1>2, <1>7, <1>8 DEF CalmNest
<1> HIDE DEF x
<1>10. QED
  BY <1>1, <1>9

LEMMA CalmIsNotAsm ==
  ASSUME NEW nest, CalmNest(nest)
  PROVE  ~InAsm(nest.stack)
  BY CalmTop DEF CalmNest, InAsm, CalmBlock

LEMMA CalmFirst == CalmNest(_NestingState)
<1>1. NestingOK(_NestingState)
  BY FirstBlocksOK
<1>2. QED
  BY <1>1, EmptyAny, CalmEmpty DEF CalmNest, _NestingState

-----------------------------------------------------------------------------
(* Conditions, include lines and their scopes.                               *)

WithLine(scope, header, m) ==
  [scope EXCEPT !.line = [h \in DOMAIN @ \cup {header} |-> IF h = header THEN m ELSE @[h]]]

LEMMA SeenLine ==
  ASSUME NEW scope, DOMAIN scope = ScopeFields, NEW type, NEW header, NEW m,
         NEW order, order = CheckNextIncludeOrder(scope, type),
         NEW alpha, alpha = CheckIncludeAlphabeticalOrder(order.scope, header, m),
         NEW seen, seen = WithLine(alpha.scope, header, m)
  PROVE  seen.line = Added(scope.line, header, m)
<1>1. \E s, h : order.scope = [scope EXCEPT !.section = s, !.last_header = h]
  BY Zenon DEF CheckNextIncludeOrder
<1>2. DOMAIN order.scope = ScopeFields /\ order.scope.line = scope.line
  BY <1>1 DEF ScopeFields
<1>3. \E h : alpha.scope = [order.scope EXCEPT !.last_header = h, !.last_line = m]
  BY Zenon DEF CheckIncludeAlphabeticalOrder
<1>4. DOMAIN alpha.scope = ScopeFields /\ alpha.scope.line = scope.line
  BY <1>2, <1>3 DEF ScopeFields
<1>5. seen.line = [h \in DOMAIN scope.line \cup {header} |-> IF h = header THEN m ELSE scope.line[h]]
  BY <1>4 DEF ScopeFields, WithLine
<1>6. QED
  BY <1>5 DEF Added

LEMMA IncludeIsNoCondition ==
  ASSUME NEW line, IsSeq(line), IsInclude(line)
  PROVE  /\ ~IsDirective(line, IfDirective) /\ ~IsDirective(line, ElseDirective)
         /\ ~IsDirective(line, EndifDirective)
<1> DEFINE s == Strip(line)
<1>1. Len(s) >= 3 /\ s[1] = "#include"
  BY Zenon DEF IsInclude, IsIncludeLine
<1>2. s \in Seq(Range(s))
  BY StripLine DEF IsSeq
<1> HIDE DEF s
<1>3. Head(s) = s[1]
  BY <1>1, <1>2
<1>4. \A D : IsDirective(line, D) => "#include" \in D
  BY <1>1, <1>3, Zenon DEF IsDirective, Starts, s
<1>5. QED
  BY <1>4 DEF IfDirective, ElseDirective, EndifDirective

LEMMA IncludeLineScopes ==
  ASSUME NEW path, NEW lines, NEW m \in Nat, IsSeq(lines[m]),
         NEW state, IncludeStateOK(state), NEW a, ScopesOK(state.scopes, path, lines, m, a),
         NEW lv, NEW I, NEW X, NEW E, Levels(lv, I, X, E), lv[m] \in Nat,
         m \in X \/ m \in E => lv[m] # 0, ScopesHeld(state, lv, I, X, E, m),
         IsDirective(lines[m], IfDirective) <=> m \in I,
         IsDirective(lines[m], ElseDirective) <=> m \in X,
         IsDirective(lines[m], EndifDirective) <=> m \in E,
         ~CheckIncludeLine(path, lines, m, state).state.raised
  PROVE  ScopesHeld(CheckIncludeLine(path, lines, m, state).state, lv, I, X, E, m + 1)
<1> DEFINE line == lines[m]
           opened == IF state.stack = <<>> THEN PushScope(state) ELSE state
           top == Last(opened.stack)
           scope == opened.scopes[top]
           header == Included(line)
           old == When(/\ ~IsSystem(line) /\ header.dir = <<>> /\ header.ext = "h",
                       m, "build/include", 4)
           again == header \in DOMAIN scope.line
           order == CheckNextIncludeOrder(scope,
                      _ClassifyInclude(path, header, IsSystem(line)))
           alpha == CheckIncludeAlphabeticalOrder(order.scope, header, m)
           seen == [alpha.scope EXCEPT !.line =
                      [h \in DOMAIN @ \cup {header} |-> IF h = header THEN m ELSE @[h]]]
           streams == When(/\ header.dir = <<>> /\ header.ext = ""
                           /\ Len(header.parts) = 1 /\ header.parts[1] \in StreamHeaders
                           /\ ~_IsTestFilename(path), m, "readability/streams", 3)
           late == When(~order.ok, m, "build/include_order", 4)
           twice == When(TRUE, m, "build/include", 4)
           dirs == IncludeLinePaths(line, m)
           popped == PopScope(state)
           r == CheckIncludeLine(path, lines, m, state)
           set == [opened EXCEPT !.scopes[top] = seen]
           al == alpha.errors
           first == old \o dirs \o late \o al \o streams
           second == old \o dirs \o twice \o streams
           isEnd == IsDirective(line, EndifDirective)
           isElse == IsDirective(line, ElseDirective)
           isIf == IsDirective(line, IfDirective)
           isInc == IsInclude(line)
           r1 == [state |-> popped, errors |-> <<>>]
           r2 == [state |-> IF popped.raised THEN popped ELSE PushScope(popped),
                  errors |-> <<>>]
           r3 == [state |-> PushScope(state), errors |-> <<>>]
           r4 == [state |-> set, errors |-> first]
           r5 == [state |-> opened, errors |-> second]
           r6 == [state |-> opened, errors |-> <<>>]
           Good(x) == ScopesHeld(x, lv, I, X, E, m + 1)
<1>1. r = CASE isEnd -> r1 [] isElse -> r2 [] isIf -> r3
            [] isInc /\ ~again -> r4 [] isInc /\ again -> r5
            [] OTHER -> r6
  BY Zenon DEF CheckIncludeLine
<1>2. (isEnd <=> m \in E) /\ (isElse <=> m \in X) /\ (isIf <=> m \in I) /\ (isInc => ~isEnd /\ ~isElse /\ ~isIf)
  BY IncludeIsNoCondition
<1>3. \/ m \in E /\ r = r1
      \/ m \in X /\ r = r2
      \/ m \in I /\ r = r3
      \/ m \notin E /\ m \notin X /\ m \notin I /\ r \in {r4, r5, r6}
  <2> HIDE DEF r, r1, r2, r3, r4, r5, r6, isEnd, isElse, isIf, isInc, again
  <2>1. QED
    BY <1>1, <1>2
<1>4. IncludeStateOK(opened) /\ opened.stack # <<>> /\ ScopesOK(opened.scopes, path, lines, m, a)
      /\ ScopesHeld(opened, lv, I, X, E, m)
  <2>0. ScopesHeld(opened, lv, I, X, E, m)
    BY HeldOpened
  <2>1. CASE state.stack = <<>>
    <3>1. opened = PushScope(state)
      BY <2>1
    <3>2. /\ IncludeStateOK(PushScope(state)) /\ PushScope(state).stack # <<>>
          /\ ScopesOK(PushScope(state).scopes, path, lines, m, a)
      BY PushScopeOK, PushOrder
    <3> HIDE DEF opened
    <3>3. QED
      BY <2>0, <3>1, <3>2
  <2>2. CASE state.stack # <<>>
    <3>1. opened = state
      BY <2>2
    <3>2. QED
      BY <2>0, <2>2, <3>1, Zenon
  <2>3. QED
    BY <2>1, <2>2
<1>5. ASSUME m \in E PROVE Good(popped)
  <2>1. lv[m] \in Nat \ {0}
    BY <1>5
  <2> HIDE DEF popped
  <2>2. ScopesHeld(PopScope(state), lv, I, X, E, m + 1)
    BY <1>5, <2>1, HeldEndif
  <2>3. QED
    BY <2>2 DEF popped
<1>6. ASSUME m \in X PROVE Good(PushScope(popped))
  <2>1. lv[m] \in Nat \ {0}
    BY <1>6
  <2> HIDE DEF popped
  <2>2. ScopesHeld(PushScope(PopScope(state)), lv, I, X, E, m + 1)
    BY <1>6, <2>1, HeldElse
  <2>3. QED
    BY <2>2 DEF popped
<1>7. ASSUME m \in I PROVE Good(PushScope(state))
  BY <1>7, HeldIf
<1> HIDE DEF opened
<1>8. ASSUME m \notin E, m \notin X, m \notin I PROVE Good(opened) /\ Good(set)
  <2>1. Good(opened)
    BY <1>4, <1>8, HeldOther
  <2>2. top \in DOMAIN opened.scopes
    <3>1. IsSeq(opened.stack) /\ \A i \in DOMAIN opened.stack : opened.stack[i] \in DOMAIN opened.scopes
      BY <1>4 DEF IncludeStateOK
    <3>2. QED
      BY <1>4, <3>1, LastOf
  <2>3. DOMAIN scope = ScopeFields
    BY <1>4, <2>2 DEF ScopesOK, ScopeOK, ScopeIs
  <2>4. seen.line = Added(scope.line, header, m)
    <3> DEFINE type == _ClassifyInclude(path, header, IsSystem(line))
    <3>1. /\ order = CheckNextIncludeOrder(scope, type)
          /\ alpha = CheckIncludeAlphabeticalOrder(order.scope, header, m)
          /\ seen = WithLine(alpha.scope, header, m)
      BY Zenon DEF WithLine
    <3> HIDE DEF scope, header, type, order, alpha, seen
    <3>2. QED
      BY <2>3, <3>1, SeenLine
  <2> HIDE DEF seen, header
  <2>7. ScopesHeld(opened, lv, I, X, E, m) /\ IncludeStateOK(opened) /\ opened.stack # <<>>
    BY <1>4
  <2>8. seen.line = Added(opened.scopes[Last(opened.stack)].line, header, m)
    BY <2>4
  <2> HIDE DEF top, scope
  <2>9. ScopesHeld([opened EXCEPT !.scopes[Last(opened.stack)] = seen], lv, I, X, E, m + 1)
    BY <1>8, <2>7, <2>8, HeldHeader
  <2>5. Good([opened EXCEPT !.scopes[Last(opened.stack)] = seen])
    BY <2>9
  <2>6. QED
    BY <2>1, <2>5 DEF top
<1> HIDE DEF r, set, popped, first, second, Good
<1>9. ~r.state.raised
  BY DEF r
<1>10. Good(r.state)
  <2>1. CASE m \in E /\ r = r1
    BY <1>5, <2>1
  <2>2. CASE m \in X /\ r = r2
    <3>1. r.state = IF popped.raised THEN popped ELSE PushScope(popped)
      BY <2>2
    <3>2. ~popped.raised
      BY <1>9, <3>1
    <3>3. QED
      BY <1>6, <2>2, <3>1, <3>2
  <2>3. CASE m \in I /\ r = r3
    BY <1>7, <2>3
  <2>4. CASE m \notin E /\ m \notin X /\ m \notin I /\ r \in {r4, r5, r6}
    BY <1>8, <2>4
  <2>5. QED
    BY <1>3, <2>1, <2>2, <2>3, <2>4
<1>11. QED
  BY <1>10 DEF r, Good

LEMMA LanguageScopes ==
  ASSUME NEW path, NEW file_, NEW m \in Nat, IsSeq(file_.lines[m]), IsSeq(file_.elided[m]),
         NEW state, IncludeStateOK(state), NEW a, ScopesOK(state.scopes, path, file_.lines, m, a),
         NEW lv, NEW I, NEW X, NEW E, Levels(lv, I, X, E), lv[m] \in Nat,
         m \in X \/ m \in E => lv[m] # 0, ScopesHeld(state, lv, I, X, E, m),
         IsDirective(file_.elided[m], IfDirective) <=> m \in I,
         IsDirective(file_.elided[m], ElseDirective) <=> m \in X,
         IsDirective(file_.elided[m], EndifDirective) <=> m \in E,
         \A d \in {IfDirective, ElseDirective, EndifDirective} :
           IsDirective(file_.lines[m], d) <=> IsDirective(file_.elided[m], d),
         ~CheckLanguage(path, file_, m, state).state.raised
  PROVE  ScopesHeld(CheckLanguage(path, file_, m, state).state, lv, I, X, E, m + 1)
<1> DEFINE line == file_.elided[m]
           lines == file_.lines
           r == CheckLanguage(path, file_, m, state)
           r1 == [state |-> state, errors |-> <<>>]
           r2 == CheckIncludeLine(path, lines, m, state)
           r3 == [state |-> state, errors |-> LanguageRules(path, file_, m)]
           cond == IsInclude(line) \/ IsCondition(line)
<1>1. r = CASE line = <<>> -> r1
            [] line # <<>> /\ cond -> r2
            [] OTHER -> r3
  BY Zenon DEF CheckLanguage
<1>2. (IsDirective(line, IfDirective) <=> m \in I) /\ (IsDirective(line, ElseDirective) <=> m \in X)
      /\ (IsDirective(line, EndifDirective) <=> m \in E)
  OBVIOUS
<1>3. /\ IsDirective(lines[m], IfDirective) <=> m \in I
      /\ IsDirective(lines[m], ElseDirective) <=> m \in X
      /\ IsDirective(lines[m], EndifDirective) <=> m \in E
  OBVIOUS
<1>4. line = <<>> \/ ~cond => m \notin I /\ m \notin X /\ m \notin E
  <2>1. line = <<>> => \A d : ~IsDirective(line, d)
    <3> SUFFICES ASSUME line = <<>>, NEW d PROVE ~IsDirective(line, d)
      OBVIOUS
    <3>1. Strip(line) = line
      BY DEF Strip, Indented
    <3>2. QED
      BY <3>1 DEF IsDirective, Starts
  <2>2. ~IsCondition(line) => /\ ~IsDirective(line, IfDirective) /\ ~IsDirective(line, ElseDirective)
                              /\ ~IsDirective(line, EndifDirective)
    BY DEF IsCondition, IsDirective, Starts, ConditionDirective
  <2>3. QED
    BY <1>2, <2>1, <2>2
<1>5. ASSUME m \notin I, m \notin X, m \notin E PROVE ScopesHeld(state, lv, I, X, E, m + 1)
  BY <1>5, HeldOther
<1>6. ASSUME ~r2.state.raised PROVE ScopesHeld(r2.state, lv, I, X, E, m + 1)
  <2>1. IsSeq(lines[m]) /\ ScopesOK(state.scopes, path, lines, m, a)
    OBVIOUS
  <2> HIDE DEF lines
  <2>2. QED
    BY <1>3, <1>6, <2>1, IncludeLineScopes
<1> HIDE DEF r, lines
<1>7. \/ (line = <<>> \/ ~cond) /\ r.state = state
      \/ r = r2
  <2>1. \/ line = <<>> /\ r = r1
        \/ ~cond /\ r = r3
        \/ r = r2
    <3> HIDE DEF r1, r2, r3, line, cond
    <3>1. QED
      BY <1>1
  <2>2. r1.state = state /\ r3.state = state
    OBVIOUS
  <2> HIDE DEF r1, r2, r3, line, cond
  <2>3. QED
    BY <2>1, <2>2
<1>8. ~r.state.raised
  BY DEF r
<1> HIDE DEF r2, line, cond
<1>9. ScopesHeld(r.state, lv, I, X, E, m + 1)
  BY <1>4, <1>5, <1>6, <1>7, <1>8
<1>10. QED
  BY <1>9 DEF r

-----------------------------------------------------------------------------
(* The levels of a text.                                                     *)

LinesWith(t, D) == {k \in Nat : IsDirective(t[k], D)}
IfsOf(t) == LinesWith(t, IfDirective)
ElsesOf(t) == LinesWith(t, ElseDirective)
EndsOf(t) == LinesWith(t, EndifDirective)
LinesAbove(S, k) == {j \in 0 .. k - 1 : j \in S}
LevelsOf(t) == [k \in Nat |-> Cardinality(LinesAbove(IfsOf(t), k)) - Cardinality(LinesAbove(EndsOf(t), k))]

LEMMA LinesAboveGrows ==
  ASSUME NEW S, NEW k \in Nat
  PROVE  /\ Cardinality(LinesAbove(S, k)) \in Nat
         /\ Cardinality(LinesAbove(S, k + 1)) = Cardinality(LinesAbove(S, k)) + (IF k \in S THEN 1 ELSE 0)
<1>1. IsFiniteSet(LinesAbove(S, k))
  <2>1. IsFiniteSet(0 .. k - 1) /\ LinesAbove(S, k) \in SUBSET (0 .. k - 1)
    BY FS_Interval DEF LinesAbove
  <2>2. QED
    BY <2>1, FS_Subset
<1>2. Cardinality(LinesAbove(S, k)) \in Nat
  BY <1>1, FS_CardinalityType
<1>3. k \notin LinesAbove(S, k) /\ LinesAbove(S, k + 1) = IF k \in S THEN LinesAbove(S, k) \cup {k} ELSE LinesAbove(S, k)
  BY DEF LinesAbove
<1>4. Cardinality(LinesAbove(S, k) \cup {k}) = Cardinality(LinesAbove(S, k)) + 1
  BY <1>1, <1>3, FS_AddElement
<1>5. QED
  BY <1>2, <1>3, <1>4

LEMMA OneDirective ==
  ASSUME NEW t
  PROVE  /\ IfsOf(t) \cap EndsOf(t) = {} /\ IfsOf(t) \cap ElsesOf(t) = {}
         /\ ElsesOf(t) \cap EndsOf(t) = {}
  BY DEF IfsOf, ElsesOf, EndsOf, LinesWith, IsDirective, Starts, IfDirective, ElseDirective,
         EndifDirective

LEMMA LevelsAre ==
  ASSUME NEW t
  PROVE  Levels(LevelsOf(t), IfsOf(t), ElsesOf(t), EndsOf(t))
<1> DEFINE I == IfsOf(t)
           E == EndsOf(t)
           lv == LevelsOf(t)
           a(k) == Cardinality(LinesAbove(I, k))
           b(k) == Cardinality(LinesAbove(E, k))
<1>1. \A k \in Nat : lv[k] = a(k) - b(k)
  BY DEF LevelsOf
<1>2. \A k \in Nat : /\ a(k) \in Nat /\ b(k) \in Nat
                     /\ a(k + 1) = a(k) + (IF k \in I THEN 1 ELSE 0)
                     /\ b(k + 1) = b(k) + (IF k \in E THEN 1 ELSE 0)
  BY LinesAboveGrows
<1>3. a(0) = 0 /\ b(0) = 0
  <2>1. LinesAbove(I, 0) = {} /\ LinesAbove(E, 0) = {}
    BY DEF LinesAbove
  <2>2. QED
    BY <2>1, FS_EmptySet
<1>4. lv = [k \in Nat |-> a(k) - b(k)]
  BY DEF LevelsOf
<1>5. I \cap E = {} /\ I \cap ElsesOf(t) = {} /\ ElsesOf(t) \cap E = {}
  BY OneDirective
<1> HIDE DEF I, E, a, b, lv
<1>6. lv \in [Nat -> Int]
  BY <1>2, <1>4
<1>7. lv[0] = 0
  BY <1>1, <1>3
<1>8. \A k \in Nat : lv[k + 1] = IF k \in I THEN lv[k] + 1 ELSE IF k \in E THEN lv[k] - 1 ELSE lv[k]
  <2>1. SUFFICES ASSUME NEW k \in Nat
                 PROVE  lv[k + 1] = IF k \in I THEN lv[k] + 1 ELSE IF k \in E THEN lv[k] - 1 ELSE lv[k]
    OBVIOUS
  <2>2. k + 1 \in Nat /\ lv[k] = a(k) - b(k) /\ lv[k + 1] = a(k + 1) - b(k + 1)
    BY <1>1
  <2>3. ~(k \in I /\ k \in E)
    BY <1>5
  <2>4. QED
    BY <1>2, <2>2, <2>3
<1>9. Levels(lv, I, ElsesOf(t), E)
  BY <1>5, <1>6, <1>7, <1>8 DEF Levels
<1>10. QED
  BY <1>9 DEF lv, I, E

LEMMA LevelIs ==
  ASSUME NEW k \in Nat
  PROVE  /\ IsIf(k) <=> k \in IfsOf(Lines)
         /\ IsElse(k) <=> k \in ElsesOf(Lines)
         /\ IsEndif(k) <=> k \in EndsOf(Lines)
         /\ Level(k) = LevelsOf(Lines)[k]
<1>1. \A j \in Nat : /\ IsIf(j) <=> j \in IfsOf(Lines)
                     /\ IsElse(j) <=> j \in ElsesOf(Lines)
                     /\ IsEndif(j) <=> j \in EndsOf(Lines)
  BY DEF IsIf, IsElse, IsEndif, IfsOf, ElsesOf, EndsOf, LinesWith
<1>2. \A j \in 0 .. k - 1 : j \in Nat
  OBVIOUS
<1>3. /\ {j \in 0 .. k - 1 : IsIf(j)} = LinesAbove(IfsOf(Lines), k)
      /\ {j \in 0 .. k - 1 : IsEndif(j)} = LinesAbove(EndsOf(Lines), k)
  BY <1>1, <1>2 DEF LinesAbove
<1>4. Level(k) = Cardinality(LinesAbove(IfsOf(Lines), k)) - Cardinality(LinesAbove(EndsOf(Lines), k))
  BY <1>3, Zenon DEF Level
<1>5. LevelsOf(Lines)[k] = Cardinality(LinesAbove(IfsOf(Lines), k)) - Cardinality(LinesAbove(EndsOf(Lines), k))
  BY DEF LevelsOf
<1>6. QED
  BY <1>1, <1>4, <1>5

LEMMA BalancedIs ==
  ASSUME NEW m \in Nat, Balanced(m - 1)
  PROVE  Even(LevelsOf(Lines), ElsesOf(Lines), EndsOf(Lines), m)
<1>1. SUFFICES ASSUME NEW k \in 0 .. m - 1, k \in ElsesOf(Lines) \/ k \in EndsOf(Lines)
               PROVE  LevelsOf(Lines)[k] > 0
  BY DEF Even
<1>2. k \in Nat /\ k \in 0 .. m - 1
  OBVIOUS
<1>3. (IsElse(k) \/ IsEndif(k)) /\ Level(k) = LevelsOf(Lines)[k]
  BY <1>1, <1>2, LevelIs
<1>4. Level(k) > 0
  BY <1>2, <1>3 DEF Balanced
<1>5. QED
  BY <1>3, <1>4

-----------------------------------------------------------------------------
(* The branch of a line is the one its scope is of.                          *)

LEMMA EndIsBehind ==
  ASSUME NEW last \in Nat, LastLine = last, NEW k \in 0 .. last, NEW a \in 0 .. k
  PROVE  /\ EndOf(a) \in Nat
         /\ k < EndOf(a) <=>
              ~\E e \in a + 1 .. k : e \in EndsOf(Lines)
                                      /\ LevelsOf(Lines)[e] = LevelsOf(Lines)[a] + 1
<1> DEFINE lv == LevelsOf(Lines)
           S == {e \in a + 1 .. LastLine : IsEndif(e) /\ Level(e) = Level(a) + 1}
<1>1. a \in Nat /\ k \in Nat /\ k <= last
  OBVIOUS
<1>2. \A e \in a + 1 .. last : e \in Nat
  BY <1>1
<1>3. S = {e \in a + 1 .. last : e \in EndsOf(Lines) /\ lv[e] = lv[a] + 1}
  <2>1. \A e \in Nat : IsEndif(e) <=> e \in EndsOf(Lines)
    BY LevelIs
  <2>2. \A e \in Nat : Level(e) = lv[e]
    BY LevelIs
  <2> HIDE DEF lv
  <2>3. \A e \in a + 1 .. last : (IsEndif(e) /\ Level(e) = Level(a) + 1)
                                   <=> (e \in EndsOf(Lines) /\ lv[e] = lv[a] + 1)
    BY <1>1, <1>2, <2>1, <2>2
  <2>4. QED
    BY <2>3
<1>4. EndOf(a) = FirstOf(S, LastLine + 1)
  BY Zenon DEF EndOf
<1> HIDE DEF S, lv
<1>5. CASE S = {}
  <2>1. EndOf(a) = last + 1
    BY <1>4, <1>5 DEF FirstOf
  <2>2. \A e \in a + 1 .. k : e \in a + 1 .. last
    BY <1>1
  <2>3. QED
    BY <1>1, <1>3, <1>5, <2>1, <2>2 DEF lv
<1>6. CASE S # {}
  <2>1. EndOf(a) = Min(S)
    BY <1>4, <1>6 DEF FirstOf
  <2>2. S \subseteq Nat
    BY <1>2, <1>3
  <2>3. Min(S) \in S /\ \A x \in S : Min(S) <= x
    BY <1>6, <2>2, LeastOf
  <2>4. PICK y : y = EndOf(a)
    OBVIOUS
  <2>5. y \in S /\ y \in Nat /\ \A x \in S : y <= x
    BY <2>1, <2>2, <2>3, <2>4
  <2>6. k < y <=> ~\E e \in a + 1 .. k : e \in EndsOf(Lines) /\ lv[e] = lv[a] + 1
    BY <1>1, <1>3, <2>5
  <2>7. QED
    BY <2>4, <2>5, <2>6 DEF lv
<1>7. QED
  BY <1>5, <1>6

LEMMA BranchIs ==
  ASSUME NEW last \in Nat, LastLine = last, NEW k \in 0 .. last, NEW lv, lv = LevelsOf(Lines),
         NEW I, I = IfsOf(Lines), NEW X, X = ElsesOf(Lines), NEW E, E = EndsOf(Lines),
         Even(lv, X, E, k), k \notin I, k \notin X, k \notin E, NEW b, IsBranch(b, lv, I, X, k)
  PROVE  Branch(k) = b
<1>0. k \in Nat
  OBVIOUS
<1> DEFINE A == AroundIn(lv, I, E, k)
           B == {-1} \cup BeginsAround(lv, I, X, E, k)
           C == {-1} \cup UNION {{a} \cup Elses(a, k) : a \in Around(k)}
<1>1. /\ \A j \in Nat : IsIf(j) <=> j \in I
      /\ \A j \in Nat : IsElse(j) <=> j \in X
      /\ \A j \in Nat : IsEndif(j) <=> j \in E
      /\ \A j \in Nat : Level(j) = lv[j]
  BY LevelIs
<1>2. \A a \in 0 .. k - 1 : EndOf(a) \in Nat
        /\ (k < EndOf(a) <=> ~\E e \in a + 1 .. k : e \in E /\ lv[e] = lv[a] + 1)
  <2>1. \A a \in 0 .. k - 1 : a \in 0 .. k
    BY <1>0
  <2>2. QED
    BY <2>1, EndIsBehind
<1>3. \A a \in 0 .. k - 1 : a \in Nat
  BY <1>0
<1>4. Around(k) = A
  <2>1. ~IsIf(k) /\ \A a \in 0 .. k : a = k \/ a \in 0 .. k - 1
    BY <1>0, <1>1
  <2>2. Around(k) = {a \in 0 .. k - 1 : IsIf(a) /\ k < EndOf(a)}
    BY <1>0, <2>1 DEF Around
  <2>3. \A a \in 0 .. k - 1 : IsIf(a) /\ k < EndOf(a) <=>
                              a \in I /\ ~\E e \in a + 1 .. k : e \in E /\ lv[e] = lv[a] + 1
    BY <1>1, <1>2, <1>3
  <2>4. A = {a \in 0 .. k - 1 : a \in I
                  /\ ~\E e \in a + 1 .. k : e \in E /\ lv[e] = lv[a] + 1}
    BY DEF AroundIn
  <2> HIDE DEF A
  <2>5. QED
    BY <2>2, <2>3, <2>4
<1>5. ASSUME NEW a \in A PROVE Elses(a, k) = {j \in a + 1 .. k : j \in X /\ lv[j] = lv[a] + 1}
  <2>1. a \in 0 .. k - 1 /\ a \in Nat /\ k < EndOf(a)
    BY <1>3, <1>4, <1>5 DEF Around, AroundIn
  <2>2. PICK y : y = EndOf(a)
    OBVIOUS
  <2>3. y \in Nat /\ k < y
    BY <1>2, <2>1, <2>2
  <2>4. Min({y - 1, k}) = k
    <3> DEFINE S == {y - 1, k}
    <3>1. S \subseteq Nat /\ S # {}
      BY <1>0, <2>3
    <3> HIDE DEF S
    <3>2. Min(S) \in S /\ \A x \in S : Min(S) <= x
      BY <3>1, LeastOf
    <3>3. QED
      BY <1>0, <2>3, <3>2 DEF S
  <2>5. Elses(a, k) = {j \in a + 1 .. k : IsElse(j) /\ Level(j) = Level(a) + 1}
    BY <2>2, <2>4, Zenon DEF Elses
  <2>6. \A j \in a + 1 .. k : j \in Nat
    BY <1>0, <2>1
  <2>7. \A j \in a + 1 .. k : (IsElse(j) /\ Level(j) = Level(a) + 1)
                                <=> (j \in X /\ lv[j] = lv[a] + 1)
    BY <1>1, <2>1, <2>6
  <2>8. QED
    BY <2>5, <2>7
<1>6. A \subseteq 0 .. k - 1
  BY DEF AroundIn
<1>7. C = B
  <2>1. C = {-1} \cup UNION {{a} \cup Elses(a, k) : a \in A}
    BY <1>4
  <2>2. \A j : j \in C <=> (j = -1 \/ \E a \in A : j = a \/ j \in Elses(a, k))
    <3> HIDE DEF A
    <3>1. QED
      BY <2>1
  <2>3. \A j : j \in B <=> (j = -1 \/ (j \in 0 .. k /\ \E a \in A : \/ j = a
                                        \/ (a < j /\ j \in X /\ lv[j] = lv[a] + 1)))
    BY DEF BeginsAround
  <2> HIDE DEF A, B, C
  <2>4. \A j, a : a \in A => ((j = a \/ j \in Elses(a, k)) <=>
                     (j \in 0 .. k /\ (j = a \/ (a < j /\ j \in X /\ lv[j] = lv[a] + 1))))
    <3>1. SUFFICES ASSUME NEW j, NEW a \in A
                   PROVE (j = a \/ j \in Elses(a, k)) <=>
                     (j \in 0 .. k /\ (j = a \/ (a < j /\ j \in X /\ lv[j] = lv[a] + 1)))
      OBVIOUS
    <3>2. a \in 0 .. k - 1
      BY <1>6
    <3>3. j \in Elses(a, k) <=> (j \in a + 1 .. k /\ j \in X /\ lv[j] = lv[a] + 1)
      BY <1>5
    <3>4. j \in a + 1 .. k <=> (j \in 0 .. k /\ a < j)
      BY <1>0, <3>2
    <3>5. a \in 0 .. k
      BY <1>0, <3>2
    <3>6. QED
      BY <3>3, <3>4, <3>5
  <2>5. \A j : j \in C <=> j \in B
    BY <2>2, <2>3, <2>4
  <2>6. QED
    BY <2>5
<1>8. b \in B /\ \A j \in B : j <= b
  BY <1>0, LevelsAre, BranchIsLast
<1>9. B \subseteq Int
  BY <1>0 DEF BeginsAround
<1>10. Branch(k) = Max(C)
  BY Zenon DEF Branch
<1>11. Branch(k) = Max(B)
  BY <1>7, <1>10
<1> HIDE DEF B, C
<1>12. Max(B) \in B /\ \A j \in B : Max(B) >= j
  <2>1. b \in B /\ \A j \in B : b >= j
    BY <1>8, <1>9
  <2>2. Max(B) = CHOOSE x \in B : \A y \in B : x >= y
    BY DEF Max
  <2>3. QED
    BY <2>1, <2>2
<1>13. Max(B) <= b /\ b <= Max(B)
  BY <1>8, <1>9, <1>12
<1>14. Max(B) \in Int /\ b \in Int
  BY <1>8, <1>9, <1>12
<1>15. Max(B) = b
  BY <1>13, <1>14
<1>16. QED
  BY <1>11, <1>15

-----------------------------------------------------------------------------
(* Scopes and blocks, from line to line.                                     *)

Evenly(t, m) == Even(LevelsOf(t), ElsesOf(t), EndsOf(t), m)
PlainText(t) == \A k \in DOMAIN t : ~Contains(t[k], "asm")
SameText(c) ==
  \A k \in DOMAIN c.elided :
    \A d \in {IfDirective, ElseDirective, EndifDirective} :
      IsDirective(c.lines[k], d) <=> IsDirective(c.elided[k], d)
HeldOf(state, t, m) == ScopesHeld(state, LevelsOf(t), IfsOf(t), ElsesOf(t), EndsOf(t), m)

\* In such a text no block is one of assembly, and the scopes are those of the
\* branches above line n.
ScopesKept ==
  Working /\ Evenly(clean.elided, n) /\ PlainText(clean.elided) /\ SameText(clean) =>
    CalmNest(nesting_state) /\ HeldOf(include_state, clean.elided, n)

LEMMA HeldFirst ==
  ASSUME NEW t
  PROVE  HeldOf(_IncludeState, t, 0)
<1> DEFINE lv == LevelsOf(t)
           I == IfsOf(t)
           X == ElsesOf(t)
           E == EndsOf(t)
           e == <<>>
<1>1. DOMAIN e = {} /\ Len(e) = 0
  BY EmptyAny
<1>2. lv[0] = 0
  BY LevelsAre DEF Levels
<1>3. _IncludeState.scopes = e /\ _IncludeState.stack = e
  BY DEF _IncludeState
<1> HIDE DEF e, lv, I, X, E
<1>4. BranchesAre(e, e, lv, I, X, E, 0)
  BY <1>1 DEF BranchesAre
<1>5. StackIs(e, e, e, 0, lv, I, X, 0)
  BY <1>1, <1>2 DEF StackIs
<1>6. ScopesHeld(_IncludeState, lv, I, X, E, 0)
  BY <1>3, <1>4, <1>5 DEF ScopesHeld
<1>7. QED
  BY <1>6 DEF HeldOf, lv, I, X, E

LEMMA EvenBefore ==
  ASSUME NEW t, NEW m \in Nat, Evenly(t, m + 1)
  PROVE  /\ Evenly(t, m) /\ LevelsOf(t)[m] \in Nat
         /\ m \in ElsesOf(t) \/ m \in EndsOf(t) => LevelsOf(t)[m] # 0
<1> DEFINE lv == LevelsOf(t)
           I == IfsOf(t)
           X == ElsesOf(t)
           E == EndsOf(t)
<1>1. Levels(lv, I, X, E)
  BY LevelsAre
<1>2. \A k \in 0 .. (m + 1) - 1 : k \in X \/ k \in E => lv[k] > 0
  BY DEF Evenly, Even
<1> HIDE DEF lv, I, X, E
<1>3. m \in 0 .. (m + 1) - 1 /\ \A k \in 0 .. m - 1 : k \in 0 .. (m + 1) - 1
  OBVIOUS
<1>4. Even(lv, X, E, m)
  BY <1>2, <1>3 DEF Even
<1>5. \A k \in 0 .. m : lv[k] \in Nat
  BY <1>1, <1>4, LevelIsNat
<1>6. m \in X \/ m \in E => lv[m] > 0
  BY <1>2, <1>3
<1>7. lv[m] \in Nat
  BY <1>5
<1>8. m \in X \/ m \in E => lv[m] # 0
  BY <1>6, <1>7
<1>9. QED
  BY <1>4, <1>7, <1>8 DEF Evenly, lv, I, X, E

LEMMA LineHeld ==
  ASSUME NEW path, NEW c, NEW m \in Nat, m \in DOMAIN c.elided, IsSeq(c.lines[m]),
         IsSeq(c.elided[m]), NEW state, IncludeStateOK(state),
         NEW a, ScopesOK(state.scopes, path, c.lines, m, a),
         Evenly(c.elided, m + 1), SameText(c), HeldOf(state, c.elided, m),
         ~CheckLanguage(path, c, m, state).state.raised
  PROVE  HeldOf(CheckLanguage(path, c, m, state).state, c.elided, m + 1)
<1> DEFINE t == c.elided
           lv == LevelsOf(t)
           I == IfsOf(t)
           X == ElsesOf(t)
           E == EndsOf(t)
<1>1. Levels(lv, I, X, E)
  BY LevelsAre
<1>2. lv[m] \in Nat /\ (m \in X \/ m \in E => lv[m] # 0)
  BY EvenBefore
<1>3. /\ IsDirective(c.elided[m], IfDirective) <=> m \in I
      /\ IsDirective(c.elided[m], ElseDirective) <=> m \in X
      /\ IsDirective(c.elided[m], EndifDirective) <=> m \in E
  BY DEF IfsOf, ElsesOf, EndsOf, LinesWith
<1>4. \A d \in {IfDirective, ElseDirective, EndifDirective} :
        IsDirective(c.lines[m], d) <=> IsDirective(c.elided[m], d)
  BY DEF SameText
<1>5. ScopesHeld(state, lv, I, X, E, m)
  BY DEF HeldOf
<1> HIDE DEF lv, I, X, E
<1>6. ScopesHeld(CheckLanguage(path, c, m, state).state, lv, I, X, E, m + 1)
  BY <1>1, <1>2, <1>3, <1>4, <1>5, LanguageScopes
<1>7. QED
  BY <1>6 DEF HeldOf, lv, I, X, E

LEMMA StartFileScopes == StartFile => ScopesKept'
<1> SUFFICES ASSUME StartFile PROVE ScopesKept'
  OBVIOUS
<1>1. include_state' = _IncludeState /\ nesting_state' = _NestingState /\ n' = 0
  BY Zenon DEF StartFile
<1>2. CalmNest(nesting_state)'
  BY <1>1, CalmFirst
<1>3. HeldOf(include_state', clean'.elided, n')
  BY <1>1, HeldFirst
<1>4. QED
  BY <1>2, <1>3 DEF ScopesKept

LEMMA ProcessLineScopes == LintInv /\ OrderKept /\ ScopesKept /\ ProcessLine => ScopesKept'
<1> SUFFICES ASSUME LintInv, OrderKept, ScopesKept, ProcessLine, Working',
                    Evenly(clean.elided, n)', PlainText(clean.elided)', SameText(clean)'
             PROVE  (CalmNest(nesting_state) /\ HeldOf(include_state, clean.elided, n))'
  BY DEF ScopesKept
<1> DEFINE raw == clean.raw
           elided == clean.elided
           update == Update(nesting_state, raw, elided, n)
           path == Content.path
           language == CheckLanguage(path, clean, n, include_state)
<1>1. /\ status = "line" /\ n \in DOMAIN raw /\ UNCHANGED clean /\ nesting_state' = update.nest
  BY Zenon DEF ProcessLine
<1>2. \/ InAsm(update.nest.stack) /\ n' = n + 1
      \/ n' = n + 1 /\ include_state' = language.state /\ ~language.state.raised
  <2>1. \/ status' \in {"hung", "raised"}
        \/ InAsm(update.nest.stack) /\ n' = n + 1
        \/ n' = n + 1 /\ include_state' = language.state /\ ~language.state.raised
    BY ZenonT(60) DEF ProcessLine
  <2> HIDE DEF update, language
  <2>2. QED
    BY <2>1 DEF Working
<1>3. n' = n + 1 /\ clean' = clean
  BY <1>1, <1>2
<1>4. Evenly(elided, n + 1) /\ PlainText(elided) /\ SameText(clean)
  BY <1>3
<1>5. PICK last : LinesTo(last)
  BY <1>1 DEF LintInv, LinesKept, Working
<1>6. /\ Document(raw, last) /\ Document(clean.lines, last) /\ Document(elided, last)
  BY <1>5, Zenon DEF LinesTo
<1>7. /\ n \in Nat /\ n \in DOMAIN elided /\ IsSeq(elided[n]) /\ IsSeq(clean.lines[n])
  BY <1>1, <1>6 DEF Document
<1>8. Evenly(elided, n)
  BY <1>4, <1>7, EvenBefore
<1>9. CalmNest(nesting_state) /\ HeldOf(include_state, elided, n)
  BY <1>1, <1>4, <1>8 DEF ScopesKept, Working
<1>10. CalmNest(update.nest)
  <2>1. Plain(elided[n])
    BY <1>4, <1>7 DEF Plain, PlainText
  <2> HIDE DEF raw, elided
  <2>2. QED
    BY <1>9, <2>1, UpdateCalm
<1>11. ~InAsm(update.nest.stack)
  <2> HIDE DEF update
  <2>1. QED
    BY <1>10, CalmIsNotAsm
<1>12. include_state' = language.state /\ ~language.state.raised
  BY <1>2, <1>11
<1>13. IncludeStateOK(include_state) /\ ScopesOK(include_state.scopes, path, clean.lines, n, reported)
  BY <1>1 DEF OrderKept, Working, LintInv, BlocksKept
<1>14. HeldOf(language.state, elided, n + 1)
  <2> HIDE DEF path
  <2>1. QED
    BY <1>4, <1>7, <1>9, <1>12, <1>13, LineHeld
<1> HIDE DEF language, update
<1>15. QED
  BY <1>1, <1>3, <1>10, <1>12, <1>14

LEMMA ScopesAreKept == LintInv /\ OrderKept /\ ScopesKept /\ [Next]_vars => ScopesKept'
<1> SUFFICES ASSUME LintInv, OrderKept, ScopesKept, [Next]_vars, Working' PROVE ScopesKept'
  BY DEF ScopesKept
<1>1. CASE StartFile
  BY <1>1, StartFileScopes
<1>2. CASE ProcessLine
  BY <1>2, ProcessLineScopes
<1>3. CASE UNCHANGED vars
  <2>1. /\ Working /\ clean' = clean /\ n' = n /\ include_state' = include_state
        /\ nesting_state' = nesting_state
    BY <1>3 DEF Working, vars, global, local
  <2>2. QED
    BY <2>1 DEF ScopesKept
<1>4. ~ParseArguments /\ ~SkipFile /\ ~FinishFile /\ ~Exit
  BY DEF ParseArguments, SkipFile, FinishFile, Exit, HasFile, Working
<1>5. QED
  BY <1>1, <1>2, <1>3, <1>4 DEF Next, Stay

LEMMA ScopesFollow == LintInv /\ ScopesKept => ScopesAreBranches
<1> SUFFICES ASSUME LintInv, ScopesKept, Working, Balanced(n - 1), NoAsm, SameConditions
             PROVE  LET scopes == include_state.scopes
                        headers == {p \in (DOMAIN scopes) \X (0 .. LastLine) :
                                      \E h \in DOMAIN scopes[p[1]].line :
                                        scopes[p[1]].line[h] = p[2]}
                    IN \A p, q \in headers : p[1] = q[1] <=> Branch(p[2]) = Branch(q[2])
  BY Zenon DEF ScopesAreBranches
<1> DEFINE scopes == include_state.scopes
           lv == LevelsOf(Lines)
           I == IfsOf(Lines)
           X == ElsesOf(Lines)
           E == EndsOf(Lines)
<1>1. PICK last : LinesTo(last)
  BY DEF LintInv, LinesKept
<1>2. Document(clean.elided, last) /\ n \in 0 .. last + 1
  BY <1>1, Zenon DEF LinesTo
<1>3. last \in Nat /\ LastLine = last /\ n \in Nat
  <2>1. last \in Nat /\ n \in Nat
    BY <1>2 DEF Document
  <2>2. Last_(clean.elided) = last
    BY <1>2, DocumentLast
  <2>3. QED
    BY <2>1, <2>2, Zenon DEF LastLine, Lines
<1>4. Evenly(Lines, n)
  BY <1>3, BalancedIs DEF Evenly
<1>5. HeldOf(include_state, Lines, n)
  BY <1>4 DEF ScopesKept, NoAsm, PlainText, SameConditions, SameText, Lines
<1>6. PICK br : BranchesAre(br, scopes, lv, I, X, E, n)
  BY <1>5 DEF HeldOf, ScopesHeld
<1>7. \A s, t \in DOMAIN scopes : br[s] = br[t] => s = t
  BY <1>6 DEF BranchesAre
<1>8. Even(lv, X, E, n)
  BY <1>4 DEF Evenly
<1>9. ASSUME NEW s \in DOMAIN scopes, NEW h \in DOMAIN scopes[s].line
      PROVE  Branch(scopes[s].line[h]) = br[s]
  <2> DEFINE k == scopes[s].line[h]
  <2>1. k \in 0 .. n - 1 /\ k \notin I \cup X \cup E /\ IsBranch(br[s], lv, I, X, k)
    BY <1>6 DEF BranchesAre
  <2> HIDE DEF k, lv, I, X, E
  <2>2. k \in 0 .. last /\ k \in Nat
    BY <1>2, <1>3, <2>1
  <2>3. Even(lv, X, E, k)
    <3>1. \A j \in 0 .. k - 1 : j \in 0 .. n - 1
      BY <1>3, <2>1, <2>2
    <3>2. QED
      BY <1>8, <3>1 DEF Even
  <2>4. Branch(k) = br[s]
    BY <1>3, <2>1, <2>2, <2>3, BranchIs DEF lv, I, X, E
  <2>5. QED
    BY <2>4 DEF k
<1> HIDE DEF scopes, lv, I, X, E
<1> DEFINE headers == {p \in (DOMAIN scopes) \X (0 .. LastLine) :
                         \E h \in DOMAIN scopes[p[1]].line : scopes[p[1]].line[h] = p[2]}
<1>10. \A p \in headers : p[1] \in DOMAIN scopes /\ Branch(p[2]) = br[p[1]]
  <2>1. SUFFICES ASSUME NEW p \in headers PROVE p[1] \in DOMAIN scopes /\ Branch(p[2]) = br[p[1]]
    OBVIOUS
  <2>2. p[1] \in DOMAIN scopes
    BY <2>1
  <2>3. PICK h \in DOMAIN scopes[p[1]].line : scopes[p[1]].line[h] = p[2]
    BY <2>1
  <2>4. Branch(scopes[p[1]].line[h]) = br[p[1]]
    BY <1>9, <2>2
  <2>5. QED
    BY <2>2, <2>3, <2>4
<1> HIDE DEF headers
<1>11. \A p, q \in headers : p[1] = q[1] <=> Branch(p[2]) = Branch(q[2])
  BY <1>7, <1>10
<1>12. QED
  BY <1>11, Zenon DEF headers, scopes

\* The headers that CheckIncludeLine compares are those of one branch.
THEOREM ScopesAreOfBranches == Spec => []ScopesAreBranches
<1>1. Init => OrderKept /\ ScopesKept
  BY DEF Init, OrderKept, ScopesKept, Working
<1>2. QED
  BY <1>1, OrderIsKept, ScopesAreKept, ScopesFollow, LintInvariant, PTL DEF Spec

-----------------------------------------------------------------------------
(* The blocks of some lines, one line after the other.                       *)

Rank(S, x) == Cardinality({y \in S : y <= x})

LEMMA RankIsOne ==
  ASSUME NEW S, IsFiniteSet(S), S \subseteq Int, NEW x \in S, NEW y \in S, Rank(S, x) = Rank(S, y)
  PROVE  x = y
<1>1. \A u, v \in S : u < v => Rank(S, u) # Rank(S, v)
  <2> SUFFICES ASSUME NEW u \in S, NEW v \in S, u < v, Rank(S, u) = Rank(S, v) PROVE FALSE
    OBVIOUS
  <2> DEFINE U == {z \in S : z <= u}
             V == {z \in S : z <= v}
  <2>0. u \in Int /\ v \in Int /\ \A z \in S : z \in Int
    OBVIOUS
  <2>1. U \in SUBSET V /\ v \in V /\ v \notin U
    <3>1. \A z \in S : z <= u => z <= v
      BY <2>0
    <3>2. v <= v /\ ~(v <= u)
      BY <2>0
    <3>3. QED
      BY <3>1, <3>2
  <2>2. IsFiniteSet(V)
    BY FS_Subset
  <2>3. Cardinality(V) = Cardinality(U)
    BY DEF Rank
  <2> HIDE DEF U, V
  <2>4. V = U
    BY <2>1, <2>2, <2>3, FS_Subset
  <2>5. QED
    BY <2>1, <2>4
<1>2. x \in Int /\ y \in Int /\ (x < y \/ y < x \/ x = y)
  OBVIOUS
<1>3. QED
  BY <1>1, <1>2

OrderNext(K, T, N, m) ==
  /\ IsFiniteSet(K) /\ N \in Nat /\ Cardinality(T) = N + 1 /\ InOrder(T)[N + 1] = m
  /\ \A i \in 1 .. N : InOrder(T)[i] = InOrder(K)[i]

LEMMA InOrderNext ==
  ASSUME NEW m \in Nat, NEW K, K \subseteq 0 .. m - 1
  PROVE  OrderNext(K, K \cup {m}, Cardinality(K), m)
<1>0. PICK T : T = K \cup {m}
  OBVIOUS
<1>a. PICK N : N = Cardinality(K)
  OBVIOUS
<1> USE <1>0, <1>a
<1>1. IsFiniteSet(K) /\ N \in Nat
  <2>1. IsFiniteSet(0 .. m - 1) /\ K \in SUBSET (0 .. m - 1)
    BY FS_Interval
  <2>2. IsFiniteSet(K)
    BY <2>1, FS_Subset
  <2>3. QED
    BY <2>2, FS_CardinalityType
<1>2. m \notin K /\ K \subseteq Int /\ T \subseteq Int /\ \A x \in K : x < m
  OBVIOUS
<1>3. IsFiniteSet(T) /\ Cardinality(T) = N + 1
  BY <1>1, <1>2, FS_AddElement
<1>5. ASSUME NEW x \in K PROVE Rank(T, x) = Rank(K, x)
  <2>1. x \in Int /\ ~(m <= x)
    BY <1>2
  <2>2. {y \in T : y <= x} = {y \in K : y <= x}
    BY <2>1
  <2>3. QED
    BY <2>2, Zenon DEF Rank
<1>6. {y \in T : y <= m} = T
  <2>1. \A y \in T : y <= m
    BY <1>2
  <2>2. QED
    BY <2>1
<1>7. Rank(T, m) = N + 1
  BY <1>3, <1>6 DEF Rank
<1>8. \A i \in 1 .. N : InOrder(K)[i] \in K /\ Rank(K, InOrder(K)[i]) = i
  BY <1>1, <1>2, InOrderRank DEF Rank
<1>9. \A i \in 1 .. N + 1 : InOrder(T)[i] \in T /\ Rank(T, InOrder(T)[i]) = i
  BY <1>2, <1>3, InOrderRank DEF Rank
<1>10. \A x, y \in T : Rank(T, x) = Rank(T, y) => x = y
  BY <1>2, <1>3, RankIsOne
<1>11. m \in T /\ K \subseteq T
  OBVIOUS
<1>12. N + 1 \in 1 .. N + 1 /\ \A i \in 1 .. N : i \in 1 .. N + 1
  BY <1>1
<1>13. InOrder(T)[N + 1] = m
  BY <1>7, <1>9, <1>10, <1>11, <1>12
<1>14. ASSUME NEW i \in 1 .. N PROVE InOrder(T)[i] = InOrder(K)[i]
  <2>1. InOrder(K)[i] \in T /\ Rank(T, InOrder(K)[i]) = i
    BY <1>5, <1>8, <1>11
  <2>2. InOrder(T)[i] \in T /\ Rank(T, InOrder(T)[i]) = i
    BY <1>9, <1>12
  <2>3. QED
    BY <1>10, <2>1, <2>2
<1>15. QED
  BY <1>1, <1>3, <1>13, <1>14 DEF OrderNext

BlocksFolds(g, raw, lines, order) ==
  g = [S \in SUBSET DOMAIN order |->
         IF S = {} THEN <<>> ELSE BlocksAfter(g[S \ {Max(S)}], raw, lines, order[Max(S)])]

LEMMA BlocksUnfold ==
  ASSUME NEW raw, NEW lines, NEW K
  PROVE  BlocksOf(raw, lines, K) = (CHOOSE g : BlocksFolds(g, raw, lines, InOrder(K)))[DOMAIN InOrder(K)]
  BY Zenon DEF BlocksOf, FoldLeft, MapThenFoldSet, BlocksFolds

LEMMA BlocksSteps ==
  ASSUME NEW raw, NEW lines, NEW K, IsFiniteSet(K)
  PROVE  Stepwise("blocks", [raw |-> raw, lines |-> lines], <<>>, InOrder(K), Cardinality(K),
                  BlocksOf(raw, lines, K))
<1> DEFINE p == [raw |-> raw, lines |-> lines]
           base == <<>>
           s == InOrder(K)
           len == Cardinality(K)
           c == CHOOSE g : BlocksFolds(g, raw, lines, s)
<1>1. len \in Nat
  BY FS_CardinalityType
<1>2. DOMAIN s = 1 .. len
  BY DEF InOrder
<1>3. \A acc, e : Fold("blocks", p, acc, e) = BlocksAfter(acc, raw, lines, e)
  BY DEF Fold
<1>4. BlocksOf(raw, lines, K) = c[DOMAIN s]
  BY BlocksUnfold
<1> HIDE DEF s, p, base, len
<1>5. ASSUME NEW g PROVE BlocksFolds(g, raw, lines, s) <=> Folds(g, "blocks", p, base, s, len)
  <2> DEFINE x == [S \in SUBSET DOMAIN s |->
                     IF S = {} THEN base ELSE BlocksAfter(g[S \ {Max(S)}], raw, lines, s[Max(S)])]
             y == [S \in SUBSET (1 .. len) |->
                     IF S = {} THEN base ELSE Fold("blocks", p, g[S \ {Max(S)}], s[Max(S)])]
  <2>1. BlocksFolds(g, raw, lines, s) <=> g = x
    BY DEF BlocksFolds, base
  <2>2. Folds(g, "blocks", p, base, s, len) <=> g = y
    BY DEF Folds
  <2>3. \A S \in SUBSET (1 .. len) : x[S] = y[S]
    BY <1>2, <1>3
  <2>4. x = y
    BY <1>2, <2>3
  <2> HIDE DEF x, y
  <2>5. QED
    BY <2>1, <2>2, <2>4
<1>6. \E g : BlocksFolds(g, raw, lines, s)
  BY <1>1, <1>5, FoldExists
<1>7. BlocksFolds(c, raw, lines, s)
  <2> DEFINE P(g) == BlocksFolds(g, raw, lines, s)
  <2>1. \E g : P(g)
    BY <1>6
  <2> HIDE DEF P
  <2>2. P(CHOOSE g : P(g))
    BY <2>1, Zenon
  <2>3. QED
    BY <2>2 DEF P
<1> HIDE DEF c
<1>8. Folds(c, "blocks", p, base, s, len)
  BY <1>5, <1>7
<1>9. Stepwise("blocks", p, base, s, len, c[1 .. len])
  BY <1>1, <1>8, FoldSteps
<1>10. Stepwise("blocks", p, base, s, len, BlocksOf(raw, lines, K))
  BY <1>2, <1>4, <1>9
<1>11. QED
  BY <1>10 DEF p, base, s, len

LEMMA BlocksOfNone ==
  ASSUME NEW raw, NEW lines
  PROVE  BlocksOf(raw, lines, {}) = <<>>
<1>1. IsFiniteSet({}) /\ Cardinality({}) = 0
  BY FS_EmptySet
<1>2. Stepwise("blocks", [raw |-> raw, lines |-> lines], <<>>, InOrder({}), 0,
               BlocksOf(raw, lines, {}))
  BY <1>1, BlocksSteps
<1>3. QED
  BY <1>2, Zenon DEF Stepwise

\* One line more.
LEMMA BlocksOfNext ==
  ASSUME NEW raw, NEW lines, NEW m \in Nat, NEW K, K \subseteq 0 .. m - 1
  PROVE  BlocksOf(raw, lines, K \cup {m}) = BlocksAfter(BlocksOf(raw, lines, K), raw, lines, m)
<1>0. PICK T : T = K \cup {m}
  OBVIOUS
<1>a. PICK N : N = Cardinality(K)
  OBVIOUS
<1> DEFINE p == [raw |-> raw, lines |-> lines]
           s == InOrder(K)
           t == InOrder(T)
           x == BlocksOf(raw, lines, K)
           y == BlocksOf(raw, lines, T)
           base == <<>>
<1>1. /\ IsFiniteSet(K) /\ N \in Nat /\ Cardinality(T) = N + 1 /\ t[N + 1] = m
      /\ \A i \in 1 .. N : t[i] = s[i]
  <2>2. /\ IsFiniteSet(K) /\ N \in Nat /\ Cardinality(T) = N + 1 /\ InOrder(T)[N + 1] = m
        /\ \A i \in 1 .. N : InOrder(T)[i] = InOrder(K)[i]
    <3>1. OrderNext(K, T, N, m)
      BY <1>0, <1>a, InOrderNext
    <3>2. QED
      BY <3>1 DEF OrderNext
  <2>3. QED
    BY <2>2 DEF s, t
<1>2. IsFiniteSet(T)
  BY <1>0, <1>1, FS_AddElement
<1>3. Stepwise("blocks", p, base, s, N, x) /\ Stepwise("blocks", p, base, t, N + 1, y)
  BY <1>a, <1>1, <1>2, BlocksSteps
<1>4. \A acc, e : Fold("blocks", p, acc, e) = BlocksAfter(acc, raw, lines, e)
  BY DEF Fold
<1> HIDE DEF p, s, t, x, y, base
<1>5. PICK q : /\ q[0] = base /\ q[N] = x
               /\ \A i \in 1 .. N : q[i] = Fold("blocks", p, q[i - 1], s[i])
  BY <1>3, Zenon DEF Stepwise
<1>6. PICK r : /\ r[0] = base /\ r[N + 1] = y
               /\ \A i \in 1 .. N + 1 : r[i] = Fold("blocks", p, r[i - 1], t[i])
  BY <1>3, Zenon DEF Stepwise
<1> DEFINE J == {j \in Nat : j <= N => r[j] = q[j]}
<1>7. 0 \in J
  BY <1>5, <1>6
<1>8. ASSUME NEW j \in Nat, j \in J PROVE j + 1 \in J
  <2> SUFFICES ASSUME j + 1 <= N PROVE r[j + 1] = q[j + 1]
    OBVIOUS
  <2>1. j + 1 \in 1 .. N /\ j + 1 \in 1 .. N + 1 /\ (j + 1) - 1 = j /\ j <= N
    BY <1>1
  <2>2. r[j] = q[j] /\ t[j + 1] = s[j + 1]
    BY <1>1, <1>8, <2>1
  <2>3. r[j + 1] = Fold("blocks", p, r[j], t[j + 1]) /\ q[j + 1] = Fold("blocks", p, q[j], s[j + 1])
    BY <1>5, <1>6, <2>1
  <2>4. QED
    BY <2>2, <2>3
<1>9. Nat \subseteq J
  <2> HIDE DEF J
  <2>1. QED
    BY <1>7, <1>8, NatSetInduction
<1>10. r[N] = x
  BY <1>1, <1>5, <1>9
<1>11. N + 1 \in 1 .. N + 1 /\ (N + 1) - 1 = N
  BY <1>1
<1>12. y = Fold("blocks", p, x, m)
  BY <1>1, <1>6, <1>10, <1>11
<1>13. y = BlocksAfter(x, raw, lines, m)
  BY <1>4, <1>12
<1>14. QED
  BY <1>0, <1>13 DEF x, y

\* Conditions change which blocks are open before a line does.
LEMMA UpdateIs ==
  ASSUME NEW nest, NEW raw, NEW lines, NEW k,
         NEW before, before = UpdatePreprocessor(nest, lines[k])
  PROVE  Update(nest, raw, lines, k).nest =
           [stack |-> BlocksAfter(before.stack, raw, lines, k), pp_stack |-> before.pp_stack]
<1> DEFINE line == lines[k]
           Rest(s) == LET spaces == Namespaces(CountParentheses(s, line), line, k)
                          class == ClassDeclaration(spaces.stack, spaces.rest, lines, k)
                      IN Braces(ClassHead(class.stack, line, class.rest), class.rest, raw[k], k)
<1>1. \A x : Update(x, raw, lines, k) =
               LET pre == UpdatePreprocessor(x, line)
               IN [nest |-> [stack |-> Rest(pre.stack).stack, pp_stack |-> pre.pp_stack],
                   errors |-> Rest(pre.stack).errors]
  BY Zenon DEF Update
<1> HIDE DEF Rest
<1>2. \A x : Update(x, raw, lines, k).nest =
               [stack |-> Rest(UpdatePreprocessor(x, line).stack).stack,
                pp_stack |-> UpdatePreprocessor(x, line).pp_stack]
  BY <1>1
<1>3. \A s : UpdatePreprocessor([stack |-> s, pp_stack |-> <<>>], line).stack = s
  <2> SUFFICES ASSUME NEW s PROVE UpdatePreprocessor([stack |-> s, pp_stack |-> <<>>], line).stack = s
    OBVIOUS
  <2> DEFINE e == <<>>
             x == [stack |-> s, pp_stack |-> e]
             q == [stack_before_if |-> s, stack_before_else |-> <<>>, seen_else |-> FALSE]
  <2>1. \/ UpdatePreprocessor(x, line) = [x EXCEPT !.pp_stack = Append(e, q)]
        \/ UpdatePreprocessor(x, line) = x
    BY Zenon DEF UpdatePreprocessor
  <2> HIDE DEF e, q
  <2>2. QED
    BY <2>1 DEF e
<1>4. \A s : BlocksAfter(s, raw, lines, k) = Rest(s).stack
  <2> SUFFICES ASSUME NEW s PROVE BlocksAfter(s, raw, lines, k) = Rest(s).stack
    OBVIOUS
  <2> DEFINE x == [stack |-> s, pp_stack |-> <<>>]
  <2>1. UpdatePreprocessor(x, line).stack = s
    BY <1>3
  <2>2. BlocksAfter(s, raw, lines, k) = Update(x, raw, lines, k).nest.stack
    BY DEF BlocksAfter
  <2> HIDE DEF x
  <2>0. Update(x, raw, lines, k).nest = [stack |-> Rest(UpdatePreprocessor(x, line).stack).stack,
                                         pp_stack |-> UpdatePreprocessor(x, line).pp_stack]
    BY <1>2, Zenon
  <2>3. Update(x, raw, lines, k).nest.stack = Rest(UpdatePreprocessor(x, line).stack).stack
    BY <2>0
  <2>4. QED
    BY <2>1, <2>2, <2>3
<1>5. QED
  BY <1>2, <1>4

-----------------------------------------------------------------------------
(* The lines that are kept, by levels: line m is in the condition that       *)
(* begins at line a until the level falls back to that of a.                 *)

Stands(lv, a, m) == \A i \in a + 1 .. m + 1 : lv[i] > lv[a]
ElsesIn(lv, X, a, m) == {j \in a + 1 .. m : j \in X /\ lv[j] = lv[a] + 1 /\ Stands(lv, a, j)}
FitsIn(lv, X, a, k, m) ==
  IF Stands(lv, a, m) THEN \A j \in ElsesIn(lv, X, a, m) : j <= k
  ELSE \A j \in ElsesIn(lv, X, a, m) : k < j
FitsAll(lv, I, X, k, m) ==
  \A a \in 0 .. k : a \in I /\ Stands(lv, a, k) => FitsIn(lv, X, a, k, m)
KeptIn(lv, I, X, m) == {k \in 0 .. m : FitsAll(lv, I, X, k, m)}

LEMMA StandsLess ==
  ASSUME NEW lv, NEW a \in Nat, NEW m \in Int, NEW k \in Int, k <= m, Stands(lv, a, m)
  PROVE  Stands(lv, a, k)
<1>1. \A i \in a + 1 .. k + 1 : i \in a + 1 .. m + 1
  OBVIOUS
<1>2. QED
  BY <1>1 DEF Stands

\* A condition is open until a line ends it.
LEMMA StandsIs ==
  ASSUME NEW lv, NEW I, NEW X, NEW E, Levels(lv, I, X, E), NEW k \in Nat, NEW a \in I, a \in 0 .. k
  PROVE  Stands(lv, a, k) <=> ~\E e \in a + 1 .. k : e \in E /\ lv[e] = lv[a] + 1
<1>0. a \in Nat /\ a <= k
  OBVIOUS
<1>1. /\ \A j \in Nat : lv[j] \in Int
      /\ \A j \in Nat : lv[j + 1] = IF j \in I THEN lv[j] + 1
                                    ELSE IF j \in E THEN lv[j] - 1 ELSE lv[j]
      /\ \A j : ~(j \in I /\ j \in E)
  BY DEF Levels
<1>2. ASSUME Stands(lv, a, k), NEW e \in a + 1 .. k, e \in E, lv[e] = lv[a] + 1 PROVE FALSE
  <2>1. e \in Nat /\ e + 1 \in a + 1 .. k + 1
    BY <1>0
  <2>2. lv[e + 1] > lv[a]
    BY <1>2, <2>1 DEF Stands
  <2>3. lv[e + 1] = lv[e] - 1
    BY <1>1, <1>2, <2>1
  <2>4. QED
    BY <1>0, <1>1, <1>2, <2>2, <2>3
<1>3. ASSUME ~Stands(lv, a, k) PROVE \E e \in a + 1 .. k : e \in E /\ lv[e] = lv[a] + 1
  <2>1. PICK y \in a + 1 .. k + 1 : ~(lv[y] > lv[a])
    BY <1>3 DEF Stands
  <2>2. PICK l \in Int : l = lv[a] + 1
    BY <1>0, <1>1
  <2>3. PICK x \in Nat : x = a + 1
    BY <1>0
  <2>4. y \in Nat /\ x <= y /\ lv[y] < l /\ lv[a] \in Int /\ lv[y] \in Int
    BY <1>0, <1>1, <2>1, <2>2, <2>3
  <2>5. lv[a + 1] = lv[a] + 1
    BY <1>0, <1>1
  <2>6. lv[x] >= l
    BY <2>2, <2>3, <2>4, <2>5
  <2>7. PICK e \in x .. y - 1 : e \in E /\ lv[e] = l
    BY <2>4, <2>6, Fall
  <2>8. e \in a + 1 .. k
    BY <1>0, <2>1, <2>3
  <2>9. QED
    BY <2>2, <2>7, <2>8
<1>4. QED
  BY <1>2, <1>3

\* Nothing that is decided of line k by a condition changes from line p on.
LEMMA FitsSame ==
  ASSUME NEW lv, NEW X, NEW a \in Nat, NEW k \in Nat, NEW p \in Nat, NEW m \in Nat,
         a < p, p <= m, Stands(lv, a, p - 1) => Stands(lv, a, m),
         \A j \in p .. m : ~(j \in X /\ lv[j] = lv[a] + 1 /\ Stands(lv, a, j))
  PROVE  FitsIn(lv, X, a, k, m) <=> FitsIn(lv, X, a, k, p - 1)
<1>1. Stands(lv, a, p - 1) <=> Stands(lv, a, m)
  BY StandsLess
<1>2. \A j : j \in a + 1 .. m <=> j \in a + 1 .. p - 1 \/ j \in p .. m
  OBVIOUS
<1>3. ElsesIn(lv, X, a, m) = ElsesIn(lv, X, a, p - 1)
  BY <1>2 DEF ElsesIn
<1>4. QED
  BY <1>1, <1>3 DEF FitsIn

\* A line is in the branch of each condition that is open at it.
LEMMA FitsHere ==
  ASSUME NEW lv, NEW I, NEW X, NEW m \in Nat
  PROVE  FitsAll(lv, I, X, m, m)
<1>1. SUFFICES ASSUME NEW a \in 0 .. m, a \in I, Stands(lv, a, m) PROVE FitsIn(lv, X, a, m, m)
  BY DEF FitsAll
<1>2. \A j \in ElsesIn(lv, X, a, m) : j <= m
  BY DEF ElsesIn
<1>3. QED
  BY <1>1, <1>2 DEF FitsIn

LEMMA KeptBy ==
  ASSUME NEW lv, NEW I, NEW X, NEW m \in Nat, NEW p \in Nat, p <= m,
         \A k \in 0 .. p - 1 : \A a \in 0 .. k : a \in I /\ Stands(lv, a, k) =>
           (FitsIn(lv, X, a, k, m) <=> FitsIn(lv, X, a, k, p - 1)),
         \A k \in p .. m - 1 : ~FitsAll(lv, I, X, k, m)
  PROVE  KeptIn(lv, I, X, m) = KeptIn(lv, I, X, p - 1) \cup {m}
<1>1. \A k \in 0 .. p - 1 : FitsAll(lv, I, X, k, m) <=> FitsAll(lv, I, X, k, p - 1)
  BY DEF FitsAll
<1>2. FitsAll(lv, I, X, m, m)
  BY FitsHere
<1>3. \A k : k \in 0 .. m <=> k \in 0 .. p - 1 \/ k \in p .. m - 1 \/ k = m
  OBVIOUS
<1>4. \A k : k \in KeptIn(lv, I, X, m) <=> k \in KeptIn(lv, I, X, p - 1) \cup {m}
  BY <1>1, <1>2, <1>3 DEF KeptIn
<1>5. QED
  BY <1>4

\* A line that begins no other branch and ends no condition: all stays.
LEMMA KeptOther ==
  ASSUME NEW lv, NEW I, NEW X, NEW E, Levels(lv, I, X, E), NEW m \in Nat, m \notin X, m \notin E
  PROVE  KeptIn(lv, I, X, m) = KeptIn(lv, I, X, m - 1) \cup {m}
<1>1. /\ \A j \in Nat : lv[j] \in Int
      /\ lv[m + 1] >= lv[m]
  BY DEF Levels
<1>2. ASSUME NEW k \in 0 .. m - 1, NEW a \in 0 .. k
      PROVE  FitsIn(lv, X, a, k, m) <=> FitsIn(lv, X, a, k, m - 1)
  <2>1. a \in Nat /\ k \in Nat /\ a < m /\ m <= m
    OBVIOUS
  <2>2. ASSUME Stands(lv, a, m - 1), NEW i \in a + 1 .. m + 1 PROVE lv[i] > lv[a]
    <3>1. i \in a + 1 .. (m - 1) + 1 \/ i = m + 1
      BY <2>1
    <3>2. m \in a + 1 .. (m - 1) + 1
      BY <2>1
    <3>3. lv[m] > lv[a]
      BY <2>2, <3>2 DEF Stands
    <3>4. lv[m + 1] > lv[a]
      BY <1>1, <2>1, <3>3
    <3>5. QED
      BY <2>2, <3>1, <3>4 DEF Stands
  <2>3. Stands(lv, a, m - 1) => Stands(lv, a, m)
    BY <2>2 DEF Stands
  <2>4. \A j \in m .. m : ~(j \in X /\ lv[j] = lv[a] + 1 /\ Stands(lv, a, j))
    OBVIOUS
  <2>5. QED
    BY <2>1, <2>3, <2>4, FitsSame
<1>3. \A k \in m .. m - 1 : ~FitsAll(lv, I, X, k, m)
  OBVIOUS
<1>4. QED
  BY <1>2, <1>3, KeptBy

\* Where the condition of level d that is open above line m begins.
IsIn(lv, I, d, a, m) ==
  /\ a \in 0 .. m - 1 /\ a \in I /\ lv[a] = d - 1
  /\ \A i \in a + 1 .. m : lv[i] >= d

\* Another branch: what is kept is what stood above the condition.
LEMMA KeptElse ==
  ASSUME NEW lv, NEW I, NEW X, NEW E, Levels(lv, I, X, E), NEW m \in Nat, m \in X,
         NEW d \in Nat, lv[m] = d, NEW a0 \in Nat, IsIn(lv, I, d, a0, m)
  PROVE  KeptIn(lv, I, X, m) = KeptIn(lv, I, X, a0 - 1) \cup {m}
<1>1. /\ \A j \in Nat : lv[j] \in Int
      /\ lv[m + 1] = d
      /\ a0 \notin X
  BY DEF Levels, IsIn
<1>2. /\ a0 < m /\ a0 \in I /\ lv[a0] = d - 1
      /\ \A i \in a0 + 1 .. m : lv[i] >= d
  BY DEF IsIn
<1>3. \A i \in a0 + 1 .. m + 1 : lv[i] >= d
  BY <1>1, <1>2
<1>4. ASSUME NEW k \in 0 .. a0 - 1, NEW a \in 0 .. k
      PROVE  FitsIn(lv, X, a, k, m) <=> FitsIn(lv, X, a, k, a0 - 1)
  <2>1. a \in Nat /\ k \in Nat /\ a < a0 /\ a0 <= m /\ lv[a] \in Int
    BY <1>1, <1>2
  <2>2. ASSUME Stands(lv, a, a0 - 1) PROVE lv[a] < d - 1
    <3>1. a0 \in a + 1 .. (a0 - 1) + 1
      BY <2>1
    <3>2. QED
      BY <1>2, <2>1, <2>2, <3>1 DEF Stands
  <2>3. ASSUME Stands(lv, a, a0 - 1), NEW i \in a + 1 .. m + 1 PROVE lv[i] > lv[a]
    <3>1. i \in a + 1 .. (a0 - 1) + 1 \/ i \in a0 + 1 .. m + 1
      BY <2>1
    <3>2. i \in a0 + 1 .. m + 1 => lv[i] \in Int /\ lv[i] >= d
      BY <1>1, <1>3
    <3>3. lv[a] < d - 1
      BY <2>2, <2>3
    <3>4. QED
      BY <2>1, <2>3, <3>1, <3>2, <3>3 DEF Stands
  <2>4. Stands(lv, a, a0 - 1) => Stands(lv, a, m)
    BY <2>3 DEF Stands
  <2>5. ASSUME NEW j \in a0 .. m, j \in X, lv[j] = lv[a] + 1, Stands(lv, a, j) PROVE FALSE
    <3>1. j \in a0 + 1 .. m /\ a0 - 1 \in Int /\ j \in Int /\ a0 - 1 <= j
      BY <1>1, <2>5
    <3>2. Stands(lv, a, a0 - 1)
      BY <2>1, <2>5, <3>1, StandsLess
    <3>3. lv[a] < d - 1 /\ lv[j] >= d
      BY <1>2, <2>2, <3>1, <3>2
    <3>4. QED
      BY <2>1, <2>5, <3>3
  <2>6. QED
    BY <2>1, <2>4, <2>5, FitsSame
<1>5. Stands(lv, a0, m)
  BY <1>1, <1>2, <1>3 DEF Stands
<1>6. ASSUME NEW k \in a0 .. m - 1 PROVE ~FitsAll(lv, I, X, k, m)
  <2>1. k \in Int /\ k <= m /\ a0 \in 0 .. k /\ ~(m <= k)
    OBVIOUS
  <2>2. Stands(lv, a0, k)
    BY <1>5, <2>1, StandsLess
  <2>3. m \in ElsesIn(lv, X, a0, m)
    BY <1>1, <1>2, <1>5 DEF ElsesIn
  <2>4. ~FitsIn(lv, X, a0, k, m)
    BY <1>5, <2>1, <2>3 DEF FitsIn
  <2>5. QED
    BY <1>2, <2>1, <2>2, <2>4 DEF FitsAll
<1>7. QED
  BY <1>2, <1>4, <1>6, KeptBy

\* The end of a condition: what is kept is what stood above its second branch,
\* or all if there is none.
LEMMA KeptEndif ==
  ASSUME NEW lv, NEW I, NEW X, NEW E, Levels(lv, I, X, E), NEW m \in Nat, m \in E,
         NEW d \in Nat, lv[m] = d, NEW a0 \in Nat, IsIn(lv, I, d, a0, m),
         NEW p \in Nat, a0 < p, p <= m, lv[p] = d, p < m => p \in X,
         \A j \in a0 + 1 .. p - 1 : ~(j \in X /\ lv[j] = d)
  PROVE  KeptIn(lv, I, X, m) = KeptIn(lv, I, X, p - 1) \cup {m}
<1>1. /\ \A j \in Nat : lv[j] \in Int
      /\ lv[m + 1] = d - 1
      /\ m \notin X /\ m \notin I
  BY DEF Levels
<1>2. /\ a0 < m /\ a0 \in I /\ lv[a0] = d - 1
      /\ \A i \in a0 + 1 .. m : lv[i] >= d
  BY DEF IsIn
<1>3. ASSUME NEW i \in Int, i < m PROVE Stands(lv, a0, i)
  <2>1. \A j \in a0 + 1 .. i + 1 : j \in a0 + 1 .. m /\ lv[j] \in Int
    BY <1>1, <1>3
  <2>2. QED
    BY <1>2, <2>1 DEF Stands
<1>4. ~Stands(lv, a0, m)
  <2>1. m + 1 \in a0 + 1 .. m + 1 /\ ~(lv[m + 1] > lv[a0])
    BY <1>1, <1>2
  <2>2. QED
    BY <2>1 DEF Stands
<1>5. ASSUME NEW k \in 0 .. p - 1 PROVE FitsIn(lv, X, a0, k, m) /\ FitsIn(lv, X, a0, k, p - 1)
  <2>1. \A j \in ElsesIn(lv, X, a0, m) : k < j
    <3>1. \A j \in ElsesIn(lv, X, a0, m) : j \in a0 + 1 .. m /\ j \in X /\ lv[j] = d
      BY <1>2 DEF ElsesIn
    <3>2. \A j \in a0 + 1 .. m : j \in a0 + 1 .. p - 1 \/ k < j
      OBVIOUS
    <3>3. QED
      BY <3>1, <3>2
  <2>2. ElsesIn(lv, X, a0, p - 1) = {}
    BY <1>2 DEF ElsesIn
  <2>3. Stands(lv, a0, p - 1)
    BY <1>3
  <2>4. QED
    BY <1>4, <2>1, <2>2, <2>3 DEF FitsIn
<1>6. ASSUME NEW k \in 0 .. p - 1, NEW a \in 0 .. k, a # a0
      PROVE  FitsIn(lv, X, a, k, m) <=> FitsIn(lv, X, a, k, p - 1)
  <2>1. a \in Nat /\ k \in Nat /\ a < p /\ lv[a] \in Int
    BY <1>1
  <2>2. ASSUME Stands(lv, a, p - 1) PROVE lv[a] < d - 1
    <3>1. p \in a + 1 .. (p - 1) + 1
      BY <2>1
    <3>2. lv[a] < d
      BY <2>1, <2>2, <3>1 DEF Stands
    <3>3. CASE a < a0
      <4>1. a0 \in a + 1 .. (p - 1) + 1
        BY <2>1, <3>3
      <4>2. QED
        BY <1>2, <2>1, <2>2, <4>1 DEF Stands
    <3>4. CASE a > a0
      <4>1. a \in a0 + 1 .. m
        BY <2>1, <3>4
      <4>2. QED
        BY <1>2, <2>1, <3>2, <4>1
    <3>5. QED
      BY <1>6, <2>1, <3>3, <3>4
  <2>3. ASSUME Stands(lv, a, p - 1), NEW i \in a + 1 .. m + 1 PROVE lv[i] > lv[a]
    <3>1. i \in a + 1 .. (p - 1) + 1 \/ i \in a0 + 1 .. m \/ i = m + 1
      BY <2>1
    <3>2. i \in a0 + 1 .. m => lv[i] \in Int /\ lv[i] >= d
      BY <1>1, <1>2
    <3>3. lv[a] < d - 1
      BY <2>2, <2>3
    <3>4. QED
      BY <1>1, <2>1, <2>3, <3>1, <3>2, <3>3 DEF Stands
  <2>4. Stands(lv, a, p - 1) => Stands(lv, a, m)
    BY <2>3 DEF Stands
  <2>5. ASSUME NEW j \in p .. m, j \in X, lv[j] = lv[a] + 1, Stands(lv, a, j) PROVE FALSE
    <3>1. j \in a0 + 1 .. m /\ p - 1 \in Int /\ j \in Int /\ p - 1 <= j
      OBVIOUS
    <3>2. Stands(lv, a, p - 1)
      BY <2>1, <2>5, <3>1, StandsLess
    <3>3. lv[a] < d - 1 /\ lv[j] >= d
      BY <1>2, <2>2, <3>1, <3>2
    <3>4. QED
      BY <2>1, <2>5, <3>3
  <2>6. QED
    BY <2>1, <2>4, <2>5, FitsSame
<1>7. ASSUME NEW k \in p .. m - 1 PROVE ~FitsAll(lv, I, X, k, m)
  <2>1. k \in Int /\ k < m /\ a0 \in 0 .. k /\ p < m /\ ~(k < p)
    OBVIOUS
  <2>2. Stands(lv, a0, k) /\ Stands(lv, a0, p)
    BY <1>3, <2>1
  <2>3. p \in ElsesIn(lv, X, a0, m)
    BY <1>2, <2>1, <2>2 DEF ElsesIn
  <2>4. ~FitsIn(lv, X, a0, k, m)
    BY <1>4, <2>1, <2>3 DEF FitsIn
  <2>5. QED
    BY <1>2, <2>1, <2>2, <2>4 DEF FitsAll
<1>8. ASSUME NEW k \in 0 .. p - 1, NEW a \in 0 .. k
      PROVE  FitsIn(lv, X, a, k, m) <=> FitsIn(lv, X, a, k, p - 1)
  BY <1>5, <1>6
<1>9. QED
  BY <1>7, <1>8, KeptBy

-----------------------------------------------------------------------------
(* The lines that are kept are those of KeptLines.                           *)

LEMMA KeptIs ==
  ASSUME NEW last \in Nat, LastLine = last, NEW m \in Int, m <= last, NEW lv, lv = LevelsOf(Lines),
         NEW I, I = IfsOf(Lines), NEW X, X = ElsesOf(Lines)
  PROVE  KeptLines(m) = KeptIn(lv, I, X, m)
<1> DEFINE E == EndsOf(Lines)
<1>1. /\ \A j \in Nat : IsIf(j) <=> j \in I
      /\ \A j \in Nat : IsElse(j) <=> j \in X
      /\ \A j \in Nat : Level(j) = lv[j]
  BY LevelIs
<1>2. Levels(lv, I, X, E)
  BY LevelsAre
<1>3. ASSUME NEW a \in I, NEW k \in 0 .. last, a \in 0 .. k
      PROVE  EndOf(a) \in Nat /\ (k < EndOf(a) <=> Stands(lv, a, k))
  <2>1. /\ EndOf(a) \in Nat
        /\ k < EndOf(a) <=> ~\E e \in a + 1 .. k : e \in E /\ lv[e] = lv[a] + 1
    BY <1>3, EndIsBehind
  <2>2. k \in Nat
    OBVIOUS
  <2> HIDE DEF E
  <2>3. Stands(lv, a, k) <=> ~\E e \in a + 1 .. k : e \in E /\ lv[e] = lv[a] + 1
    BY <1>2, <1>3, <2>2, StandsIs
  <2>4. QED
    BY <2>1, <2>3
<1> HIDE DEF E
<1>4. ASSUME NEW a \in I, NEW k \in 0 .. m, a \in 0 .. k
      PROVE  Elses(a, m) = ElsesIn(lv, X, a, m)
  <2>1. a \in Nat /\ m \in Nat /\ a <= m /\ m \in 0 .. last /\ a \in 0 .. m
    BY <1>4
  <2>2. PICK y : y = EndOf(a)
    OBVIOUS
  <2>3. y \in Nat
    BY <1>3, <2>1, <2>2
  <2>4. a < y
    <3>1. Stands(lv, a, a)
      <4>1. lv[a + 1] = lv[a] + 1 /\ lv[a] \in Int
        BY <1>2, <2>1 DEF Levels
      <4>2. \A i \in a + 1 .. a + 1 : i = a + 1
        BY <2>1
      <4>3. QED
        BY <4>1, <4>2 DEF Stands
    <3>2. a \in 0 .. last /\ a \in 0 .. a
      BY <2>1
    <3>3. QED
      BY <1>3, <2>2, <3>1, <3>2
  <2>5. PICK z \in Nat : z = Min({y - 1, m}) /\ z <= y - 1 /\ z <= m /\ (z = y - 1 \/ z = m)
    <3> DEFINE S == {y - 1, m}
    <3>1. S \subseteq Nat /\ S # {}
      BY <2>1, <2>3, <2>4
    <3> HIDE DEF S
    <3>2. Min(S) \in S /\ \A x \in S : Min(S) <= x
      BY <3>1, LeastOf
    <3>3. QED
      BY <2>1, <2>3, <3>1, <3>2 DEF S
  <2>6. Elses(a, m) = {j \in a + 1 .. z : IsElse(j) /\ Level(j) = Level(a) + 1}
    BY <2>2, <2>5, Zenon DEF Elses
  <2>7. \A j : j \in a + 1 .. z <=> j \in a + 1 .. m /\ j < y
    BY <2>1, <2>3, <2>5
  <2>8. \A j \in a + 1 .. m : /\ j \in Nat
                              /\ j < y <=> Stands(lv, a, j)
                              /\ (IsElse(j) /\ Level(j) = Level(a) + 1)
                                   <=> (j \in X /\ lv[j] = lv[a] + 1)
    <3> SUFFICES ASSUME NEW j \in a + 1 .. m
                 PROVE  /\ j \in Nat
                        /\ j < y <=> Stands(lv, a, j)
                        /\ (IsElse(j) /\ Level(j) = Level(a) + 1)
                             <=> (j \in X /\ lv[j] = lv[a] + 1)
      OBVIOUS
    <3>1. j \in Nat /\ j \in 0 .. last /\ a \in 0 .. j
      BY <2>1
    <3>2. j < y <=> Stands(lv, a, j)
      BY <1>3, <2>2, <3>1
    <3>3. QED
      BY <1>1, <2>1, <3>1, <3>2
  <2>9. \A j : j \in Elses(a, m) <=> j \in ElsesIn(lv, X, a, m)
    BY <2>6, <2>7, <2>8 DEF ElsesIn
  <2>10. QED
    BY <2>9
<1>5. ASSUME NEW k \in 0 .. m, NEW a \in I, a \in 0 .. k
      PROVE  (IF EndOf(a) <= m THEN \A j \in Elses(a, m) : k < j ELSE \A j \in Elses(a, m) : j <= k)
               <=> FitsIn(lv, X, a, k, m)
  <2>1. m \in 0 .. last /\ a \in 0 .. m /\ m \in Int
    BY <1>5
  <2>2. EndOf(a) \in Nat /\ (m < EndOf(a) <=> Stands(lv, a, m))
    BY <1>3, <2>1
  <2>3. EndOf(a) <= m <=> ~Stands(lv, a, m)
    BY <2>1, <2>2
  <2>4. Elses(a, m) = ElsesIn(lv, X, a, m)
    BY <1>4, <1>5
  <2>5. QED
    BY <2>3, <2>4 DEF FitsIn
<1>6. ASSUME NEW k \in 0 .. m, NEW a PROVE a \in Around(k) <=> a \in 0 .. k /\ a \in I /\ Stands(lv, a, k)
  <2>1. k \in 0 .. last /\ \A b \in 0 .. k : b \in Nat
    OBVIOUS
  <2>2. a \in Around(k) <=> a \in 0 .. k /\ IsIf(a) /\ k < EndOf(a)
    BY DEF Around
  <2>3. QED
    BY <1>1, <1>3, <2>1, <2>2
<1>7. \A k \in 0 .. m :
        (\A a \in Around(k) : IF EndOf(a) <= m THEN \A j \in Elses(a, m) : k < j
                              ELSE \A j \in Elses(a, m) : j <= k)
        <=> FitsAll(lv, I, X, k, m)
  <2> SUFFICES ASSUME NEW k \in 0 .. m
               PROVE  (\A a \in Around(k) : IF EndOf(a) <= m THEN \A j \in Elses(a, m) : k < j
                                            ELSE \A j \in Elses(a, m) : j <= k)
                        <=> FitsAll(lv, I, X, k, m)
    OBVIOUS
  <2> DEFINE Q(a) == IF EndOf(a) <= m THEN \A j \in Elses(a, m) : k < j
                     ELSE \A j \in Elses(a, m) : j <= k
  <2>1. \A a \in I : a \in 0 .. k => (Q(a) <=> FitsIn(lv, X, a, k, m))
    BY <1>5
  <2>2. \A a : a \in Around(k) <=> a \in 0 .. k /\ a \in I /\ Stands(lv, a, k)
    BY <1>6
  <2> HIDE DEF Q
  <2>3. (\A a \in Around(k) : Q(a)) <=> FitsAll(lv, I, X, k, m)
    BY <2>1, <2>2 DEF FitsAll
  <2>4. QED
    BY <2>3 DEF Q
<1>8. KeptLines(m) = {k \in 0 .. m : \A a \in Around(k) :
                        IF EndOf(a) <= m THEN \A j \in Elses(a, m) : k < j
                        ELSE \A j \in Elses(a, m) : j <= k}
  BY DEF KeptLines
<1>9. QED
  BY <1>7, <1>8 DEF KeptIn

-----------------------------------------------------------------------------
(* The blocks that are open, and those that are kept for the conditions that *)
(* are open: b[k] is what the lines kept above line k leave open.            *)

BlocksBefore(raw, lines, lv, I, X) ==
  [k \in Nat |-> BlocksOf(raw, lines, KeptIn(lv, I, X, k - 1))]

OpenIn(info, b, lv, I, X, d, m) ==
  \E a \in Nat : \E p \in Nat :
    /\ IsIn(lv, I, d, a, m) /\ info.stack_before_if = b[a]
    /\ a < p /\ p <= m /\ \A j \in a + 1 .. p - 1 : ~(j \in X /\ lv[j] = d)
    /\ IF info.seen_else THEN p \in X /\ p < m /\ lv[p] = d /\ info.stack_before_else = b[p]
       ELSE p = m

ConditionsHeld(pp, b, lv, I, X, m) ==
  Len(pp) = lv[m] /\ \A d \in 1 .. lv[m] : OpenIn(pp[d], b, lv, I, X, d, m)
BlocksHeld(nest, b, lv, I, X, m) ==
  nest.stack = b[m] /\ ConditionsHeld(nest.pp_stack, b, lv, I, X, m)

\* What the preprocessor makes of the stack at line m is what stood above some
\* line q, and the lines kept are then those above q, and m.
PreHeld(pre, b, lv, I, X, m) ==
  /\ \E q \in Nat : /\ q <= m /\ pre.stack = b[q]
                    /\ KeptIn(lv, I, X, m) = KeptIn(lv, I, X, q - 1) \cup {m}
  /\ ConditionsHeld(pre.pp_stack, b, lv, I, X, m + 1)

LEMMA BeforeNext ==
  ASSUME NEW raw, NEW lines, NEW lv, NEW I, NEW X, NEW m \in Nat, NEW q \in Nat, q <= m,
         NEW b, b = BlocksBefore(raw, lines, lv, I, X),
         KeptIn(lv, I, X, m) = KeptIn(lv, I, X, q - 1) \cup {m}
  PROVE  b[m + 1] = BlocksAfter(b[q], raw, lines, m)
<1>1. KeptIn(lv, I, X, q - 1) \subseteq 0 .. m - 1
  BY DEF KeptIn
<1>2. BlocksOf(raw, lines, KeptIn(lv, I, X, q - 1) \cup {m})
        = BlocksAfter(BlocksOf(raw, lines, KeptIn(lv, I, X, q - 1)), raw, lines, m)
  BY <1>1, BlocksOfNext
<1>3. m + 1 \in Nat /\ (m + 1) - 1 = m
  OBVIOUS
<1>4. b[q] = BlocksOf(raw, lines, KeptIn(lv, I, X, q - 1))
  BY DEF BlocksBefore
<1>5. b[m + 1] = BlocksOf(raw, lines, KeptIn(lv, I, X, (m + 1) - 1))
  BY <1>3 DEF BlocksBefore
<1>6. b[m + 1] = BlocksOf(raw, lines, KeptIn(lv, I, X, m))
  BY <1>3, <1>5
<1>7. QED
  BY <1>2, <1>4, <1>6

LEMMA OpenStays ==
  ASSUME NEW info, NEW b, NEW lv, NEW I, NEW X, NEW d \in Nat, NEW m \in Nat,
         OpenIn(info, b, lv, I, X, d, m), lv[m + 1] >= d, ~(m \in X /\ lv[m] = d)
  PROVE  OpenIn(info, b, lv, I, X, d, m + 1)
<1>1. PICK a \in Nat, p \in Nat :
         /\ IsIn(lv, I, d, a, m) /\ info.stack_before_if = b[a]
         /\ a < p /\ p <= m /\ \A j \in a + 1 .. p - 1 : ~(j \in X /\ lv[j] = d)
         /\ IF info.seen_else THEN p \in X /\ p < m /\ lv[p] = d /\ info.stack_before_else = b[p]
            ELSE p = m
  BY DEF OpenIn
<1>2. IsIn(lv, I, d, a, m + 1)
  BY <1>1 DEF IsIn
<1>3. CASE info.seen_else
  <2>1. p <= m + 1 /\ p < m + 1
    BY <1>1
  <2>2. QED
    BY <1>1, <1>2, <1>3, <2>1 DEF OpenIn
<1>4. CASE ~info.seen_else
  <2>1. p = m
    BY <1>1, <1>4
  <2>2. m + 1 \in Nat /\ a < m + 1 /\ m + 1 <= m + 1
    BY <1>1
  <2>3. \A j \in a + 1 .. (m + 1) - 1 : ~(j \in X /\ lv[j] = d)
    BY <1>1, <2>1
  <2>4. QED
    BY <1>1, <1>2, <1>4, <2>2, <2>3 DEF OpenIn
<1>5. QED
  BY <1>3, <1>4

LEMMA PreIf ==
  ASSUME NEW lv, NEW I, NEW X, NEW E, Levels(lv, I, X, E), NEW m \in Nat, lv[m] \in Nat, m \in I,
         NEW nest, NestingOK(nest), NEW b, BlocksHeld(nest, b, lv, I, X, m),
         NEW q, q.stack_before_if = nest.stack, ~q.seen_else,
         NEW pre, pre.stack = nest.stack, pre.pp_stack = Append(nest.pp_stack, q)
  PROVE  PreHeld(pre, b, lv, I, X, m)
<1> DEFINE pp == nest.pp_stack
           pushed == Append(pp, q)
<1>1. /\ m \notin X /\ m \notin E /\ lv[m + 1] = lv[m] + 1
  BY DEF Levels
<1>2. IsSeq(pp)
  BY DEF NestingOK
<1> HIDE DEF pp
<1>3. /\ Len(pushed) = Len(pp) + 1 /\ pushed[Len(pp) + 1] = q
      /\ \A i \in 1 .. Len(pp) : pushed[i] = pp[i]
  BY <1>2, AppendAny
<1> HIDE DEF pushed
<1>4. /\ nest.stack = b[m] /\ Len(pp) = lv[m]
      /\ \A d \in 1 .. lv[m] : OpenIn(pp[d], b, lv, I, X, d, m)
  BY DEF BlocksHeld, ConditionsHeld, pp
<1>5. ASSUME NEW d \in 1 .. lv[m] + 1 PROVE OpenIn(pushed[d], b, lv, I, X, d, m + 1)
  <2>1. CASE d \in 1 .. lv[m]
    <3>1. d \in Nat /\ lv[m + 1] >= d /\ pushed[d] = pp[d] /\ OpenIn(pp[d], b, lv, I, X, d, m)
      BY <1>1, <1>3, <1>4, <2>1
    <3>2. OpenIn(pp[d], b, lv, I, X, d, m + 1)
      BY <1>1, <3>1, OpenStays
    <3>3. QED
      BY <3>1, <3>2
  <2>2. CASE d = lv[m] + 1
    <3>1. pushed[d] = q
      BY <1>3, <1>4, <2>2
    <3>2. m \in 0 .. (m + 1) - 1 /\ lv[m] = d - 1 /\ \A i \in m + 1 .. m + 1 : lv[i] >= d
      BY <1>1, <2>2
    <3>3. IsIn(lv, I, d, m, m + 1)
      BY <3>2 DEF IsIn
    <3>4. m + 1 \in Nat /\ m < m + 1 /\ m + 1 <= m + 1
          /\ \A j \in m + 1 .. (m + 1) - 1 : ~(j \in X /\ lv[j] = d)
      OBVIOUS
    <3>5. OpenIn(q, b, lv, I, X, d, m + 1)
      BY <1>4, <3>3, <3>4 DEF OpenIn
    <3>6. QED
      BY <3>1, <3>5
  <2>3. QED
    BY <2>1, <2>2
<1>6. ConditionsHeld(pre.pp_stack, b, lv, I, X, m + 1)
  BY <1>1, <1>3, <1>4, <1>5 DEF ConditionsHeld, pushed, pp
<1>7. KeptIn(lv, I, X, m) = KeptIn(lv, I, X, m - 1) \cup {m}
  BY <1>1, KeptOther
<1>8. QED
  BY <1>4, <1>6, <1>7 DEF PreHeld

LEMMA PreOther ==
  ASSUME NEW lv, NEW I, NEW X, NEW E, Levels(lv, I, X, E), NEW m \in Nat, lv[m] \in Nat,
         m \notin I, m \notin X, m \notin E,
         NEW nest, NEW b, BlocksHeld(nest, b, lv, I, X, m)
  PROVE  PreHeld(nest, b, lv, I, X, m)
<1>1. lv[m + 1] = lv[m]
  BY DEF Levels
<1>2. KeptIn(lv, I, X, m) = KeptIn(lv, I, X, m - 1) \cup {m}
  BY KeptOther
<1>3. ASSUME NEW d \in 1 .. lv[m + 1] PROVE OpenIn(nest.pp_stack[d], b, lv, I, X, d, m + 1)
  <2>1. d \in Nat /\ lv[m + 1] >= d /\ OpenIn(nest.pp_stack[d], b, lv, I, X, d, m)
    BY <1>1 DEF BlocksHeld, ConditionsHeld
  <2>2. QED
    BY <2>1, OpenStays
<1>4. ConditionsHeld(nest.pp_stack, b, lv, I, X, m + 1)
  BY <1>1, <1>3 DEF BlocksHeld, ConditionsHeld
<1>5. QED
  BY <1>2, <1>4 DEF PreHeld, BlocksHeld

\* The condition that is open last.
LEMMA TopHeld ==
  ASSUME NEW lv, NEW I, NEW X, NEW m \in Nat, NEW d \in Nat, lv[m] = d, d # 0,
         NEW pp, IsSeq(pp), NEW b, ConditionsHeld(pp, b, lv, I, X, m)
  PROVE  pp # <<>> /\ Len(pp) = d /\ Last(pp) = pp[d] /\ OpenIn(Last(pp), b, lv, I, X, d, m)
<1>1. Len(pp) = d /\ d \in 1 .. lv[m]
  BY DEF ConditionsHeld
<1>2. pp # <<>>
  BY <1>1, EmptyAny
<1>3. Last(pp) = pp[d]
  BY <1>1, <1>2, LastOf
<1>4. OpenIn(pp[d], b, lv, I, X, d, m)
  BY <1>1 DEF ConditionsHeld
<1>5. QED
  BY <1>1, <1>2, <1>3, <1>4

LEMMA PreElse ==
  ASSUME NEW lv, NEW I, NEW X, NEW E, Levels(lv, I, X, E), NEW m \in Nat,
         NEW d \in Nat, lv[m] = d, d # 0, m \in X,
         NEW pp, IsSeq(pp), NEW s, NEW b, s = b[m], ConditionsHeld(pp, b, lv, I, X, m),
         NEW top, top = Last(pp), NEW last, last.stack_before_if = top.stack_before_if,
         last.stack_before_else = s, last.seen_else = TRUE,
         NEW pre, pre.stack = top.stack_before_if,
         pre.pp_stack = IF top.seen_else THEN pp ELSE WithTop(pp, last)
  PROVE  PreHeld(pre, b, lv, I, X, m)
<1> DEFINE marked == pre.pp_stack
<1>1. lv[m + 1] = d /\ m \notin I
  BY DEF Levels
<1>2. pp # <<>> /\ Len(pp) = d /\ top = pp[d] /\ OpenIn(top, b, lv, I, X, d, m)
  <2> HIDE DEF marked
  <2>1. pp # <<>> /\ Len(pp) = d /\ OpenIn(top, b, lv, I, X, d, m)
    BY TopHeld
  <2>2. Last(pp) = pp[Len(pp)]
    BY <2>1, LastOf
  <2>3. QED
    BY <2>1, <2>2
<1>3. PICK a \in Nat, p \in Nat :
         /\ IsIn(lv, I, d, a, m) /\ top.stack_before_if = b[a]
         /\ a < p /\ p <= m /\ \A j \in a + 1 .. p - 1 : ~(j \in X /\ lv[j] = d)
         /\ IF top.seen_else THEN p \in X /\ p < m /\ lv[p] = d /\ top.stack_before_else = b[p]
            ELSE p = m
  BY <1>2 DEF OpenIn
<1>4. /\ Len(marked) = d /\ \A i \in 1 .. d - 1 : marked[i] = pp[i]
      /\ marked[d] = IF top.seen_else THEN top ELSE last
  <2>1. CASE top.seen_else
    <3>1. marked = pp
      BY <2>1
    <3>2. QED
      BY <1>2, <2>1, <3>1
  <2>2. CASE ~top.seen_else
    <3>1. marked = WithTop(pp, last)
      BY <2>2
    <3> HIDE DEF marked
    <3>2. /\ IsSeq(marked) /\ DOMAIN marked = DOMAIN pp
          /\ \A i \in DOMAIN pp : marked[i] = IF i = Len(pp) THEN last ELSE pp[i]
      BY <1>2, <3>1, WithTopSeq
    <3>3. DOMAIN pp = 1 .. d /\ DOMAIN marked = 1 .. Len(marked) /\ Len(marked) \in Nat
      BY <1>2, <3>2, IsSeqDomain
    <3>4. Len(marked) = d
      BY <3>2, <3>3
    <3>5. QED
      BY <1>2, <2>2, <3>2, <3>3, <3>4
  <2>3. QED
    BY <2>1, <2>2
<1> HIDE DEF marked
<1>5. IsIn(lv, I, d, a, m + 1)
  BY <1>1, <1>3 DEF IsIn
<1>6. OpenIn(marked[d], b, lv, I, X, d, m + 1)
  <2>1. CASE top.seen_else
    <3>1. p <= m + 1 /\ p < m + 1 /\ marked[d] = top
      BY <1>3, <1>4, <2>1
    <3>2. QED
      BY <1>3, <1>5, <2>1, <3>1 DEF OpenIn
  <2>2. CASE ~top.seen_else
    <3>1. p = m /\ marked[d] = last
      BY <1>3, <1>4, <2>2
    <3>2. m <= m + 1 /\ m < m + 1 /\ last.stack_before_else = b[m] /\ last.stack_before_if = b[a]
      BY <1>3
    <3>3. QED
      BY <1>3, <1>5, <3>1, <3>2 DEF OpenIn
  <2>3. QED
    BY <2>1, <2>2
<1>7. ASSUME NEW e \in 1 .. d - 1 PROVE OpenIn(marked[e], b, lv, I, X, e, m + 1)
  <2>1. e \in Nat /\ e \in 1 .. lv[m] /\ lv[m + 1] >= e /\ lv[m] # e /\ marked[e] = pp[e]
    BY <1>1, <1>4
  <2>2. OpenIn(pp[e], b, lv, I, X, e, m)
    BY <2>1 DEF ConditionsHeld
  <2>3. OpenIn(pp[e], b, lv, I, X, e, m + 1)
    BY <2>1, <2>2, OpenStays
  <2>4. QED
    BY <2>1, <2>3
<1>8. \A e \in 1 .. d : e = d \/ e \in 1 .. d - 1
  OBVIOUS
<1>9. ConditionsHeld(pre.pp_stack, b, lv, I, X, m + 1)
  BY <1>1, <1>4, <1>6, <1>7, <1>8 DEF ConditionsHeld, marked
<1>10. KeptIn(lv, I, X, m) = KeptIn(lv, I, X, a - 1) \cup {m}
  BY <1>3, KeptElse
<1>11. a <= m
  BY <1>3
<1>12. QED
  BY <1>3, <1>9, <1>10, <1>11 DEF PreHeld

LEMMA PreEndif ==
  ASSUME NEW lv, NEW I, NEW X, NEW E, Levels(lv, I, X, E), NEW m \in Nat,
         NEW d \in Nat, lv[m] = d, d # 0, m \in E,
         NEW pp, IsSeq(pp), NEW s, NEW b, s = b[m], ConditionsHeld(pp, b, lv, I, X, m),
         NEW top, top = Last(pp), NEW pre, pre.pp_stack = Front(pp),
         pre.stack = IF top.seen_else THEN top.stack_before_else ELSE s
  PROVE  PreHeld(pre, b, lv, I, X, m)
<1> DEFINE f == Front(pp)
<1>1. lv[m + 1] = d - 1 /\ m \notin I /\ m \notin X
  BY DEF Levels
<1>2. pp # <<>> /\ Len(pp) = d /\ OpenIn(top, b, lv, I, X, d, m)
  BY TopHeld
<1>3. PICK a \in Nat, p \in Nat :
         /\ IsIn(lv, I, d, a, m) /\ top.stack_before_if = b[a]
         /\ a < p /\ p <= m /\ \A j \in a + 1 .. p - 1 : ~(j \in X /\ lv[j] = d)
         /\ IF top.seen_else THEN p \in X /\ p < m /\ lv[p] = d /\ top.stack_before_else = b[p]
            ELSE p = m
  BY <1>2 DEF OpenIn
<1>4. Len(f) = d - 1 /\ \A i \in 1 .. d - 1 : f[i] = pp[i]
  BY <1>2, FrontAny
<1> HIDE DEF f
<1>5. pre.stack = b[p] /\ lv[p] = d /\ (p < m => p \in X)
  BY <1>3
<1>6. KeptIn(lv, I, X, m) = KeptIn(lv, I, X, p - 1) \cup {m}
  BY <1>3, <1>5, KeptEndif
<1>7. ASSUME NEW e \in 1 .. d - 1 PROVE OpenIn(f[e], b, lv, I, X, e, m + 1)
  <2>1. e \in Nat /\ e \in 1 .. lv[m] /\ lv[m + 1] >= e /\ f[e] = pp[e]
    BY <1>1, <1>4
  <2>2. OpenIn(pp[e], b, lv, I, X, e, m)
    BY <2>1 DEF ConditionsHeld
  <2>3. OpenIn(pp[e], b, lv, I, X, e, m + 1)
    BY <1>1, <2>1, <2>2, OpenStays
  <2>4. QED
    BY <2>1, <2>3
<1>8. ConditionsHeld(pre.pp_stack, b, lv, I, X, m + 1)
  BY <1>1, <1>4, <1>7 DEF ConditionsHeld, f
<1>9. QED
  BY <1>3, <1>5, <1>6, <1>8 DEF PreHeld

PreCases(x, nest, s, pp, a, b, c) ==
  /\ a => \E q : /\ x.stack = s /\ x.pp_stack = Append(pp, q)
                 /\ q.stack_before_if = s /\ ~q.seen_else
  /\ b /\ pp # <<>> =>
       \E last : /\ x.stack = Last(pp).stack_before_if
                 /\ x.pp_stack = IF Last(pp).seen_else THEN pp ELSE WithTop(pp, last)
                 /\ last.stack_before_if = Last(pp).stack_before_if
                 /\ last.stack_before_else = s /\ last.seen_else = TRUE
  /\ c /\ pp # <<>> =>
       /\ x.stack = IF Last(pp).seen_else THEN Last(pp).stack_before_else ELSE s
       /\ x.pp_stack = Front(pp)
  /\ ~a /\ ~b /\ ~c => x = nest

LEMMA PreIs ==
  ASSUME NEW nest, NestingOK(nest), NEW line, NEW s, s = nest.stack, NEW pp, pp = nest.pp_stack,
         NEW x, x = UpdatePreprocessor(nest, line),
         NEW a, a = IsDirective(line, IfDirective), NEW b, b = IsDirective(line, ElseDirective),
         NEW c, c = IsDirective(line, EndifDirective),
         ~(a /\ b), ~(a /\ c), ~(b /\ c)
  PROVE  PreCases(x, nest, s, pp, a, b, c)
<1> DEFINE q == [stack_before_if |-> s, stack_before_else |-> <<>>, seen_else |-> FALSE]
           pushed == Append(pp, q)
           last == [Last(pp) EXCEPT !.seen_else = TRUE, !.stack_before_else = s]
           marked == IF Last(pp).seen_else THEN pp ELSE WithTop(pp, last)
           first == IF Last(pp).seen_else THEN Last(pp).stack_before_else ELSE s
           u == [nest EXCEPT !.pp_stack = pushed]
           v == [stack |-> Last(pp).stack_before_if, pp_stack |-> marked]
           w == [stack |-> first, pp_stack |-> Front(pp)]
           B == b /\ pp # <<>>
           C == c /\ pp # <<>>
<1>1. x = CASE a -> u [] B -> v [] C -> w [] OTHER -> nest
  BY Zenon DEF UpdatePreprocessor
<1>2. DOMAIN nest = {"stack", "pp_stack"} /\ IsSeq(pp) /\ \A i \in DOMAIN pp : Branches(pp[i])
  BY DEF NestingOK
<1>3. /\ a => x = u
      /\ b /\ pp # <<>> => x = v
      /\ c /\ pp # <<>> => x = w
      /\ ~a /\ ~b /\ ~c => x = nest
  <2>1. (B <=> b /\ pp # <<>>) /\ (C <=> c /\ pp # <<>>)
    OBVIOUS
  <2> DEFINE e == pp # <<>>
  <2> HIDE DEF u, v, w, B, C
  <2>2. /\ a => x = u
        /\ B => x = v
        /\ C => x = w
        /\ ~a /\ ~B /\ ~C => x = nest
    BY <1>1, <2>1
  <2>3. QED
    BY <2>1, <2>2
<1>4. /\ u.stack = s /\ u.pp_stack = Append(pp, q) /\ q.stack_before_if = s /\ ~q.seen_else
  <2> HIDE DEF pushed, q
  <2>1. u.stack = s /\ u.pp_stack = pushed
    BY <1>2
  <2>2. q.stack_before_if = s /\ ~q.seen_else
    BY DEF q
  <2>3. QED
    BY <2>1, <2>2 DEF pushed
<1>5. ASSUME b, pp # <<>>
      PROVE  /\ v.stack = Last(pp).stack_before_if
             /\ v.pp_stack = IF Last(pp).seen_else THEN pp ELSE WithTop(pp, last)
             /\ last.stack_before_if = Last(pp).stack_before_if
             /\ last.stack_before_else = s /\ last.seen_else = TRUE
  <2>1. Branches(Last(pp))
    BY <1>2, <1>5, LastOf
  <2>2. /\ last.stack_before_if = Last(pp).stack_before_if
        /\ last.stack_before_else = s /\ last.seen_else = TRUE
    BY <2>1 DEF Branches
  <2> HIDE DEF last
  <2>3. QED
    BY <2>2
<1>6. w.stack = first /\ w.pp_stack = Front(pp)
  OBVIOUS
<1> HIDE DEF u, v, w, q, last
<1>7. QED
  BY <1>3, <1>4, <1>5, <1>6 DEF PreCases

LEMMA PreIsHeld ==
  ASSUME NEW lv, NEW I, NEW X, NEW E, Levels(lv, I, X, E), NEW m \in Nat, lv[m] \in Nat,
         m \in X \/ m \in E => lv[m] # 0, NEW line,
         IsDirective(line, IfDirective) <=> m \in I,
         IsDirective(line, ElseDirective) <=> m \in X,
         IsDirective(line, EndifDirective) <=> m \in E,
         NEW nest, NestingOK(nest), NEW b, BlocksHeld(nest, b, lv, I, X, m)
  PROVE  PreHeld(UpdatePreprocessor(nest, line), b, lv, I, X, m)
<1>1. PICK pre, s, pp, u, v, w :
        /\ pre = UpdatePreprocessor(nest, line) /\ s = nest.stack /\ pp = nest.pp_stack
        /\ u = IsDirective(line, IfDirective) /\ v = IsDirective(line, ElseDirective)
        /\ w = IsDirective(line, EndifDirective)
  OBVIOUS
<1>2. (u <=> m \in I) /\ (v <=> m \in X) /\ (w <=> m \in E)
  BY <1>1
<1>3. ~(u /\ v) /\ ~(u /\ w) /\ ~(v /\ w)
  BY <1>2 DEF Levels
<1>4. IsSeq(pp) /\ s = b[m] /\ ConditionsHeld(pp, b, lv, I, X, m)
  BY <1>1 DEF NestingOK, BlocksHeld
<1>5. /\ u => \E q : /\ pre.stack = s /\ pre.pp_stack = Append(pp, q)
                     /\ q.stack_before_if = s /\ ~q.seen_else
      /\ v /\ pp # <<>> =>
           \E last : /\ pre.stack = Last(pp).stack_before_if
                     /\ pre.pp_stack = IF Last(pp).seen_else THEN pp ELSE WithTop(pp, last)
                     /\ last.stack_before_if = Last(pp).stack_before_if
                     /\ last.stack_before_else = s /\ last.seen_else = TRUE
      /\ w /\ pp # <<>> =>
           /\ pre.stack = IF Last(pp).seen_else THEN Last(pp).stack_before_else ELSE s
           /\ pre.pp_stack = Front(pp)
      /\ ~u /\ ~v /\ ~w => pre = nest
  <2>1. PreCases(pre, nest, s, pp, u, v, w)
    BY <1>1, <1>3, PreIs
  <2>2. QED
    BY <2>1 DEF PreCases
<1>6. CASE m \in I
  <2>1. PICK q : /\ pre.stack = s /\ pre.pp_stack = Append(pp, q)
                 /\ q.stack_before_if = s /\ ~q.seen_else
    BY <1>2, <1>5, <1>6
  <2>2. PreHeld(pre, b, lv, I, X, m)
    BY <1>1, <1>6, <2>1, PreIf
  <2>3. QED
    BY <1>1, <2>2
<1>7. CASE m \in X \/ m \in E
  <2>1. PICK d \in Nat : lv[m] = d /\ d # 0
    BY <1>7
  <2>2. pp # <<>>
    BY <1>4, <2>1, EmptyAny DEF ConditionsHeld
  <2>3. CASE m \in X
    <3>1. PICK last : /\ pre.stack = Last(pp).stack_before_if
                      /\ pre.pp_stack = IF Last(pp).seen_else THEN pp ELSE WithTop(pp, last)
                      /\ last.stack_before_if = Last(pp).stack_before_if
                      /\ last.stack_before_else = s /\ last.seen_else = TRUE
      BY <1>2, <1>5, <2>2, <2>3
    <3>2. PreHeld(pre, b, lv, I, X, m)
      BY <1>4, <2>1, <2>3, <3>1, PreElse
    <3>3. QED
      BY <1>1, <3>2
  <2>4. CASE m \in E
    <3>1. /\ pre.stack = IF Last(pp).seen_else THEN Last(pp).stack_before_else ELSE s
          /\ pre.pp_stack = Front(pp)
      BY <1>2, <1>5, <2>2, <2>4
    <3>2. PreHeld(pre, b, lv, I, X, m)
      BY <1>4, <2>1, <2>4, <3>1, PreEndif
    <3>3. QED
      BY <1>1, <3>2
  <2>5. QED
    BY <1>7, <2>3, <2>4
<1>8. CASE m \notin I /\ m \notin X /\ m \notin E
  <2>1. pre = nest
    BY <1>2, <1>5, <1>8
  <2>2. PreHeld(nest, b, lv, I, X, m)
    BY <1>8, PreOther
  <2>3. QED
    BY <1>1, <2>1, <2>2
<1>9. QED
  BY <1>6, <1>7, <1>8

LEMMA UpdateHeld ==
  ASSUME NEW lv, NEW I, NEW X, NEW E, Levels(lv, I, X, E), NEW m \in Nat, lv[m] \in Nat,
         m \in X \/ m \in E => lv[m] # 0, NEW raw, NEW lines,
         IsDirective(lines[m], IfDirective) <=> m \in I,
         IsDirective(lines[m], ElseDirective) <=> m \in X,
         IsDirective(lines[m], EndifDirective) <=> m \in E,
         NEW nest, NestingOK(nest), NEW b, b = BlocksBefore(raw, lines, lv, I, X),
         BlocksHeld(nest, b, lv, I, X, m)
  PROVE  BlocksHeld(Update(nest, raw, lines, m).nest, b, lv, I, X, m + 1)
<1>1. PICK pre : pre = UpdatePreprocessor(nest, lines[m])
  OBVIOUS
<1>2. PreHeld(pre, b, lv, I, X, m)
  BY <1>1, PreIsHeld
<1>3. PICK q \in Nat : /\ q <= m /\ pre.stack = b[q]
                       /\ KeptIn(lv, I, X, m) = KeptIn(lv, I, X, q - 1) \cup {m}
  BY <1>2 DEF PreHeld
<1>4. b[m + 1] = BlocksAfter(pre.stack, raw, lines, m)
  BY <1>3, BeforeNext
<1>5. ConditionsHeld(pre.pp_stack, b, lv, I, X, m + 1)
  BY <1>2 DEF PreHeld
<1>6. Update(nest, raw, lines, m).nest =
        [stack |-> BlocksAfter(pre.stack, raw, lines, m), pp_stack |-> pre.pp_stack]
  BY <1>1, UpdateIs
<1>7. QED
  BY <1>4, <1>5, <1>6 DEF BlocksHeld

-----------------------------------------------------------------------------
(* From line to line.                                                        *)

HeldBlocks(nest, raw, t, m) ==
  BlocksHeld(nest, BlocksBefore(raw, t, LevelsOf(t), IfsOf(t), ElsesOf(t)),
             LevelsOf(t), IfsOf(t), ElsesOf(t), m)

\* The blocks open above line n are those of the lines kept above it.
NestingHeld ==
  Working /\ Evenly(clean.elided, n) => HeldBlocks(nesting_state, clean.raw, clean.elided, n)

LEMMA HeldBlocksFirst ==
  ASSUME NEW raw, NEW t
  PROVE  HeldBlocks(_NestingState, raw, t, 0)
<1> DEFINE lv == LevelsOf(t)
           I == IfsOf(t)
           X == ElsesOf(t)
           b == BlocksBefore(raw, t, lv, I, X)
           e == <<>>
<1>1. lv[0] = 0
  BY LevelsAre DEF Levels
<1>2. Len(e) = 0
  BY EmptyAny
<1>3. b[0] = e
  <2> HIDE DEF lv, I, X, e
  <2>1. KeptIn(lv, I, X, 0 - 1) = {}
    BY DEF KeptIn
  <2>2. b[0] = BlocksOf(raw, t, KeptIn(lv, I, X, 0 - 1))
    BY DEF BlocksBefore
  <2>3. b[0] = BlocksOf(raw, t, {})
    BY <2>1, <2>2
  <2>4. QED
    BY <2>3, BlocksOfNone DEF e
<1>4. _NestingState.stack = e /\ _NestingState.pp_stack = e
  BY DEF _NestingState
<1> HIDE DEF lv, I, X, b, e
<1>5. ConditionsHeld(e, b, lv, I, X, 0)
  BY <1>1, <1>2 DEF ConditionsHeld
<1>6. BlocksHeld(_NestingState, b, lv, I, X, 0)
  BY <1>3, <1>4, <1>5 DEF BlocksHeld
<1>7. QED
  BY <1>6 DEF HeldBlocks, lv, I, X, b

LEMMA HeldBlocksNext ==
  ASSUME NEW raw, NEW t, NEW m \in Nat, NEW nest, NestingOK(nest), Evenly(t, m + 1),
         HeldBlocks(nest, raw, t, m)
  PROVE  HeldBlocks(Update(nest, raw, t, m).nest, raw, t, m + 1)
<1> DEFINE lv == LevelsOf(t)
           I == IfsOf(t)
           X == ElsesOf(t)
           E == EndsOf(t)
           b == BlocksBefore(raw, t, lv, I, X)
<1>1. Levels(lv, I, X, E)
  BY LevelsAre
<1>2. lv[m] \in Nat /\ (m \in X \/ m \in E => lv[m] # 0)
  BY EvenBefore
<1>3. /\ IsDirective(t[m], IfDirective) <=> m \in I
      /\ IsDirective(t[m], ElseDirective) <=> m \in X
      /\ IsDirective(t[m], EndifDirective) <=> m \in E
  BY DEF IfsOf, ElsesOf, EndsOf, LinesWith
<1>4. BlocksHeld(nest, b, lv, I, X, m)
  BY DEF HeldBlocks
<1>5. b = BlocksBefore(raw, t, lv, I, X)
  OBVIOUS
<1> HIDE DEF lv, I, X, E, b
<1>6. BlocksHeld(Update(nest, raw, t, m).nest, b, lv, I, X, m + 1)
  BY <1>1, <1>2, <1>3, <1>4, <1>5, UpdateHeld
<1>7. QED
  BY <1>6 DEF HeldBlocks, lv, I, X, b

LEMMA ProcessLineHeld == LintInv /\ NestingHeld /\ ProcessLine => NestingHeld'
<1> SUFFICES ASSUME LintInv, NestingHeld, ProcessLine, Working', Evenly(clean.elided, n)'
             PROVE  HeldBlocks(nesting_state, clean.raw, clean.elided, n)'
  BY DEF NestingHeld
<1> DEFINE raw == clean.raw
           t == clean.elided
           update == Update(nesting_state, raw, t, n)
<1>1. /\ status = "line" /\ n \in DOMAIN raw /\ UNCHANGED clean /\ nesting_state' = update.nest
  BY Zenon DEF ProcessLine
<1>2. n' = n + 1
  <2>1. status' \in {"hung", "raised"} \/ n' = n + 1
    BY ZenonT(60) DEF ProcessLine
  <2>2. QED
    BY <2>1 DEF Working
<1>3. PICK last : LinesTo(last)
  BY <1>1 DEF LintInv, LinesKept, Working
<1>4. Document(raw, last)
  BY <1>3, Zenon DEF LinesTo
<1>5. n \in Nat
  BY <1>1, <1>4 DEF Document
<1>6. NestingOK(nesting_state)
  BY <1>1 DEF LintInv, BlocksKept, Working
<1>7. Evenly(t, n + 1)
  BY <1>1, <1>2
<1>8. Evenly(t, n)
  BY <1>5, <1>7, EvenBefore
<1>9. HeldBlocks(nesting_state, raw, t, n)
  BY <1>1, <1>8 DEF NestingHeld, Working
<1> HIDE DEF raw, t
<1>10. HeldBlocks(update.nest, raw, t, n + 1)
  BY <1>5, <1>6, <1>7, <1>9, HeldBlocksNext
<1> HIDE DEF update
<1>11. QED
  BY <1>1, <1>2, <1>10 DEF raw, t

LEMMA NestingIsHeld == LintInv /\ NestingHeld /\ [Next]_vars => NestingHeld'
<1> SUFFICES ASSUME LintInv, NestingHeld, [Next]_vars, Working' PROVE NestingHeld'
  BY DEF NestingHeld
<1>1. CASE StartFile
  <2>1. nesting_state' = _NestingState /\ n' = 0
    BY <1>1, Zenon DEF StartFile
  <2>2. HeldBlocks(nesting_state', clean'.raw, clean'.elided, n')
    BY <2>1, HeldBlocksFirst
  <2>3. QED
    BY <2>2 DEF NestingHeld
<1>2. CASE ProcessLine
  BY <1>2, ProcessLineHeld
<1>3. CASE UNCHANGED vars
  <2>1. Working /\ clean' = clean /\ n' = n /\ nesting_state' = nesting_state
    BY <1>3 DEF Working, vars, global, local
  <2>2. QED
    BY <2>1 DEF NestingHeld
<1>4. ~ParseArguments /\ ~SkipFile /\ ~FinishFile /\ ~Exit
  BY DEF ParseArguments, SkipFile, FinishFile, Exit, HasFile, Working
<1>5. QED
  BY <1>1, <1>2, <1>3, <1>4 DEF Next, Stay

LEMMA NestingFollows == LintInv /\ NestingHeld => NestingIsOfKeptText
<1> SUFFICES ASSUME LintInv, NestingHeld, Working, Balanced(n - 1)
             PROVE  nesting_state.stack = BlocksOf(clean.raw, Lines, KeptLines(n - 1))
  BY DEF NestingIsOfKeptText
<1> DEFINE lv == LevelsOf(Lines)
           I == IfsOf(Lines)
           X == ElsesOf(Lines)
<1>1. PICK last : LinesTo(last)
  BY DEF LintInv, LinesKept
<1>2. Document(clean.elided, last) /\ n \in 0 .. last + 1
  BY <1>1, Zenon DEF LinesTo
<1>3. last \in Nat /\ LastLine = last /\ n \in Nat /\ n - 1 \in Int /\ n - 1 <= last
  <2>1. last \in Nat /\ n \in Nat
    BY <1>2 DEF Document
  <2>2. Last_(clean.elided) = last
    BY <1>2, DocumentLast
  <2>3. LastLine = last
    BY <2>2, Zenon DEF LastLine, Lines
  <2>4. QED
    BY <1>2, <2>1, <2>3
<1>4. Evenly(Lines, n)
  BY <1>3, BalancedIs DEF Evenly
<1>5. HeldBlocks(nesting_state, clean.raw, Lines, n)
  BY <1>4 DEF NestingHeld, Lines
<1>6. nesting_state.stack = BlocksBefore(clean.raw, Lines, lv, I, X)[n]
  BY <1>5 DEF HeldBlocks, BlocksHeld
<1>7. KeptLines(n - 1) = KeptIn(lv, I, X, n - 1)
  BY <1>3, KeptIs
<1> HIDE DEF lv, I, X
<1>8. QED
  BY <1>3, <1>6, <1>7 DEF BlocksBefore

\* UpdatePreprocessor: the blocks that are open are those of the text without
\* its other branches.
THEOREM NestingFollowsKeptText == Spec => []NestingIsOfKeptText
<1>1. Init => NestingHeld
  BY DEF Init, NestingHeld, Working
<1>2. QED
  BY <1>1, NestingIsHeld, NestingFollows, LintInvariant, PTL DEF Spec
==============================================================================

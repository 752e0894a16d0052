----------------------------- MODULE GflagsText -----------------------------
(***************************************************************************)
(* The functions of thirdparty/gflags/gflags.py that need no registry:     *)
(* arguments of a command line, abbreviations of flag names, getopt, and   *)
(* the parsers of flag values.                                             *)
(*                                                                         *)
(* An argument is a record: its dashes, its name, whether something is     *)
(* written against the name (=val, or val right behind a single letter),   *)
(* and what.  A value is None, one text, or a list of texts; numbers and   *)
(* booleans are the texts that str() makes of them.                        *)
(***************************************************************************)
EXTENDS Integers, SequencesExt

CONSTANTS
  NameOrder,   \* the names of flags, in the order of sort()
  Number       \* what int() makes of a text, for the texts it accepts

\* The first k letters of a text.
Beginning(text, k) == SubSeq(text, 1, k)

\* Names are texts, sequences of letters.
ASSUME NamesAreTexts ==
  /\ NameOrder \in Seq(ToSet(NameOrder))
  /\ \A s \in ToSet(NameOrder) :
       /\ Len(s) \in Nat /\ Beginning(s, Len(s)) = s
       /\ \A k \in 0 .. Len(s) :
            /\ Len(Beginning(s, k)) = k
            /\ \A j \in 0 .. k : Beginning(Beginning(s, k), j) = Beginning(s, j)
       /\ \A t \in ToSet(NameOrder) : Beginning(s, 0) = Beginning(t, 0)

\* sort() puts names that begin alike next to each other.
ASSUME NamesAreSorted ==
  \A i, j \in DOMAIN NameOrder : \A m \in i .. j :
    LET s == NameOrder[i]
        t == NameOrder[m]
    IN \A k \in 0 .. Len(s) :
         k <= Len(NameOrder[j]) /\ Beginning(NameOrder[j], k) = Beginning(s, k)
           => k <= Len(t) /\ Beginning(t, k) = Beginning(s, k)

Long(name) == [dash |-> 2, name |-> name, eq |-> FALSE, val |-> ""]
LongIs(name, val) == [dash |-> 2, name |-> name, eq |-> TRUE, val |-> val]
Short(letters) == [dash |-> 1, name |-> letters, eq |-> FALSE, val |-> ""]
ShortIs(name, val) == [dash |-> 1, name |-> name, eq |-> TRUE, val |-> val]
Word(text) == [dash |-> 0, name |-> text, eq |-> FALSE, val |-> ""]
EndOfFlags == Long("")                         \* the argument --

Behind(a) ==
  IF ~a.eq THEN "" ELSE IF a.dash = 1 /\ Len(a.name) = 1 THEN a.val ELSE "=" \o a.val
Text(a) == <<"", "-", "--">>[a.dash + 1] \o a.name \o Behind(a)
Letters(text) == [i \in 1 .. Len(text) |-> SubSeq(text, i, i)]
Prefix(text, n) == SubSeq(text, 1, Min({n, Len(text)}))

None == [kind |-> "none", items |-> <<>>]
One(text) == [kind |-> "one", items |-> <<text>>]
List(texts) == [kind |-> "list", items |-> texts]
Illegal == [kind |-> "illegal", items |-> <<>>]

-----------------------------------------------------------------------------
(* Abbreviations.                                                          *)

Shared(s, t) ==
  Max({k \in 0 .. Min({Len(s), Len(t)}) : SubSeq(s, 1, k) = SubSeq(t, 1, k)})

\* The names, and no<name> for booleans; one that is both comes twice.
SortedFlags(names, booleans) ==
  FoldLeft(LAMBDA acc, n :
             acc \o (IF n \in names THEN <<n>> ELSE <<>>)
                 \o (IF \E b \in booleans : n = "no" \o b THEN <<n>> ELSE <<>>),
           <<>>, NameOrder)

\* Mutant: a name is compared with the one behind it only.
ShortestUniquePrefixes_Next(names, booleans) ==
  LET sorted == SortedFlags(names, booleans)
      shared(i) == IF i \in 1 .. Len(sorted) - 1 THEN Shared(sorted[i], sorted[i + 1]) ELSE 0
      last(n) == Max({i \in DOMAIN sorted : sorted[i] = n})
  IN [n \in ToSet(sorted) |-> Prefix(n, shared(last(n)) + 1)]

\* A name is compared with the one behind it, and with prev_idx, the letters it
\* shares with the one before; one that comes twice keeps what is found last.
ShortestUniquePrefixes(names, booleans) ==
  LET sorted == SortedFlags(names, booleans)
      shared(i) == IF i \in 1 .. Len(sorted) - 1 THEN Shared(sorted[i], sorted[i + 1]) ELSE 0
      last(n) == Max({i \in DOMAIN sorted : sorted[i] = n})
      Match(n, i) == IF shared(i) < Len(n) THEN Prefix(n, Max({shared(i - 1), shared(i)}) + 1)
                     ELSE n
  IN [n \in ToSet(sorted) |-> Match(n, last(n))]

\* What __call__ may put for an argument: where a name and no<name> of another
\* boolean are the same, it depends on the order of a dict.
ExpansionsOf(a, shortest, booleans) ==
  LET Matches(name) == IsPrefix(shortest[name], a.name) /\ IsPrefix(a.name, name)
      true == {b \in booleans : Matches(b)}
      false == {b \in booleans \ true : Matches("no" \o b)}
  IN IF a.dash # 2 \/ a.eq \/ true \cup false = {} THEN {a}
     ELSE {LongIs(b, "true") : b \in true} \cup {LongIs(b, "false") : b \in false}
Expansions(argv, names, booleans) ==
  LET shortest == ShortestUniquePrefixes(names, booleans)
      of == [i \in DOMAIN argv |-> ExpansionsOf(argv[i], shortest, booleans)]
  IN {f \in [DOMAIN argv -> UNION Range(of)] : \A i \in DOMAIN argv : f[i] \in of[i]}

-----------------------------------------------------------------------------
(* getopt, which is external, with the options __call__ gives it: every    *)
(* long name takes an argument, and so do single letters unless boolean.   *)

Option(name, short, val) == [name |-> name, short |-> short, val |-> val]

LongOption(scan, a, names) ==
  LET possible == {n \in names \cup {"undefok"} : IsPrefix(a.name, n)}
      name == IF a.name \in possible THEN a.name ELSE CHOOSE n \in possible : TRUE
  IN IF a.name \notin possible /\ Cardinality(possible) # 1
     THEN [scan EXCEPT !.error = TRUE, !.opt = a.name]
     ELSE IF a.eq THEN [scan EXCEPT !.opts = Append(@, Option(name, FALSE, a.val))]
     ELSE [scan EXCEPT !.mode = "value", !.pending = Option(name, FALSE, "")]

\* One letter of an argument such as -abc.
ShortOption(acc, text, i, names, booleans) ==
  LET c == SubSeq(text, i, i)
      rest == SubSeq(text, i + 1, Len(text))
  IN CASE acc.error \/ acc.mode = "attached" -> acc
       [] ~acc.error /\ acc.mode # "attached" /\ c \notin names ->
            [acc EXCEPT !.error = TRUE, !.opt = c]
       [] ~acc.error /\ acc.mode # "attached" /\ c \in booleans ->
            [acc EXCEPT !.opts = Append(@, Option(c, TRUE, ""))]
       [] OTHER -> IF rest = ""
            THEN [acc EXCEPT !.mode = "value", !.pending = Option(c, TRUE, "")]
            ELSE [acc EXCEPT !.mode = "attached", !.opts = Append(@, Option(c, TRUE, rest))]
Letterwise(scan, text, names, booleans) ==
  FoldLeftDomain(LAMBDA acc, i : ShortOption(acc, text, i, names, booleans), scan, Letters(text))
ShortOptions(scan, a, names, booleans) ==
  LET last == Letterwise(scan, a.name \o Behind(a), names, booleans)
  IN [scan EXCEPT !.mode = IF last.mode = "attached" THEN "options" ELSE last.mode,
                  !.opts = last.opts, !.pending = last.pending,
                  !.error = last.error, !.opt = last.opt]

\* gnu_getopt looks for options behind other arguments, getopt stops there.
ScanArgument(scan, a, gnu, names, booleans) ==
  LET Other ==
        IF a = EndOfFlags THEN [scan EXCEPT !.mode = "rest"]
        ELSE IF a.dash = 2 THEN LongOption(scan, a, names)
        ELSE IF a.dash = 1 /\ a.name # "" THEN ShortOptions(scan, a, names, booleans)
        ELSE [scan EXCEPT !.mode = IF gnu THEN "options" ELSE "rest",
                          !.unparsed = Append(@, a)]
  IN IF scan.error THEN scan
     ELSE CASE scan.mode = "value" ->
                 [scan EXCEPT !.mode = "options",
                              !.opts = Append(@, [scan.pending EXCEPT !.val = Text(a)])]
            [] scan.mode = "rest" -> [scan EXCEPT !.unparsed = Append(@, a)]
            [] OTHER -> Other
NothingScanned ==
  [mode |-> "options", pending |-> Option("", FALSE, ""), opts |-> <<>>, unparsed |-> <<>>,
   error |-> FALSE, opt |-> ""]
ScanArguments(args, gnu, names, booleans) ==
  FoldLeft(LAMBDA scan, a : ScanArgument(scan, a, gnu, names, booleans), NothingScanned, args)
GetOpt(args, gnu, names, booleans) ==
  LET Ends(last) == IF ~last.error /\ last.mode = "value"
                    THEN [last EXCEPT !.error = TRUE, !.opt = last.pending.name] ELSE last
  IN Ends(ScanArguments(args, gnu, names, booleans))

\* The argument that getopt did not recognise, or another that looks like it.
IsOffender(a, opt) == a.name = opt /\ (a.dash = 2 \/ (a.dash = 1 /\ ~a.eq))

-----------------------------------------------------------------------------
(* Parsers.                                                                *)

Split(text) ==
  LET Letter(acc, c) == IF c = "," THEN Append(acc, "")
                        ELSE [acc EXCEPT ![Len(acc)] = @ \o c]
  IN FoldLeft(Letter, <<"">>, Letters(text))
Join(texts, separator) ==
  IF texts = <<>> THEN ""
  ELSE FoldLeft(LAMBDA acc, t : acc \o separator \o t, Head(texts), Tail(texts))

Boolean(decl) == decl.type \in {"bool", "help"}

IsOutsideBounds(decl, number) ==
  \/ decl.lower # <<>> /\ number < decl.lower[1]
  \/ decl.upper # <<>> /\ number > decl.upper[1]

UpperCase == [t |-> "T", r |-> "R", u |-> "U", e |-> "E", f |-> "F", a |-> "A", l |-> "L", s |-> "S"]
\* text.lower() = word
LowersTo(text, word) ==
  LET given == Letters(text)
      lower == Letters(word)
  IN /\ Len(given) = Len(lower)
     /\ \A i \in DOMAIN lower :
          \/ given[i] = lower[i]
          \/ lower[i] \in DOMAIN UpperCase /\ given[i] = UpperCase[lower[i]]

BooleanParser(text) ==
  CASE \E word \in {"true", "t", "1"} : LowersTo(text, word) -> One("True")
    [] \E word \in {"false", "f", "0"} : LowersTo(text, word) -> One("False")
    [] OTHER -> Illegal
IntegerParser(decl, text) ==
  IF text \notin DOMAIN Number \/ IsOutsideBounds(decl, Number[text]) THEN Illegal
  ELSE One(ToString(Number[text]))
EnumParser(decl, text) ==
  IF decl.enum # {} /\ text \notin decl.enum THEN Illegal ELSE One(text)
ListParser(value) ==
  IF value.kind = "list" THEN value
  ELSE IF value = One("") THEN List(<<>>) ELSE List(Split(value.items[1]))

ParsedBy(decl, value) ==
  CASE decl.type = "bool" -> BooleanParser(value.items[1])
    [] decl.type = "int" -> IntegerParser(decl, value.items[1])
    [] decl.type = "enum" -> EnumParser(decl, value.items[1])
    [] decl.type = "list" -> ListParser(value)
    [] OTHER -> value
=============================================================================

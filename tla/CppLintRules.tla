---------------------------- MODULE CppLintRules ----------------------------
(***************************************************************************)
(* The rules of common/tools/cpplint.py about one line and the lines       *)
(* around it.  Each operator returns the errors in the order of the code.  *)
(* "clean" is the CleansedLines of a file: its members raw (the text of    *)
(* the file but for its comments of several lines), lines (no comments)    *)
(* and elided (no comments and no strings).                                *)
(*                                                                         *)
(* Rules that look for one pattern in one line are tables: a token stands  *)
(* for a piece of text that the pattern matches, layout included.          *)
(***************************************************************************)
EXTENDS CppLintIncludes

CONSTANTS
  RawPatterns, Patterns, LanguagePatterns,   \* token -> <<category, confidence>>
  SmallClass,                 \* the most lines of a small class: 24
  NormalTrigger, TestTrigger  \* lines of a function: 250 and 400

ASSUME RulesAssumption ==
  /\ SmallClass \in Nat
  /\ NormalTrigger \in Nat \ {0} /\ TestTrigger \in Nat \ {0}

\* One error for each token of the table that the line has.
Matched(table, line, n) ==
  LET found == {i \in DOMAIN line : line[i] \in DOMAIN table
                  /\ Find(line, line[i]) = i}
      sorted == InOrder(found)
  IN [k \in DOMAIN sorted |->
        Error_(n, table[line[sorted[k]]][1], table[line[sorted[k]]][2])]

\* Whether the tokens of pattern, sets of what each may be, stand at i.
At(line, i, pattern) ==
  /\ i + Len(pattern) - 1 <= Len(line)
  /\ \A k \in DOMAIN pattern : line[i + k - 1] \in pattern[k]
Has(line, pattern) == \E i \in DOMAIN line : At(line, i, pattern)
Begins(line, pattern) == At(Strip(line), 1, pattern)

Access == {"public", "protected", "private"}
CHECK == {"CHECK", "DCHECK", "EXPECT_TRUE", "ASSERT_TRUE", "EXPECT_FALSE",
          "ASSERT_FALSE", "EXPECT_TRUE_M", "ASSERT_TRUE_M", "EXPECT_FALSE_M",
          "ASSERT_FALSE_M"}
DISALLOW == {"DISALLOW_COPY_AND_ASSIGN", "DISALLOW_EVIL_CONSTRUCTORS",
             "DISALLOW_IMPLICIT_CONSTRUCTORS"}
AllCaps == Macro \cup CHECK \cup DISALLOW

-----------------------------------------------------------------------------
(* _FunctionState and the length of functions.                             *)

_FunctionState == [in_a_function |-> FALSE, lines_in_function |-> 0, test |-> FALSE]

Begin(state, name) ==
  [in_a_function |-> TRUE, lines_in_function |-> 0,
   test |-> IsPrefix("TEST", name) \/ IsPrefix("Test", name)]

FunctionCount(state) ==
  [state EXCEPT !.lines_in_function = IF state.in_a_function THEN @ + 1 ELSE @]

Trigger(state) == IF state.test THEN TestTrigger ELSE NormalTrigger
\* A negative level asks for a fraction of the trigger.
IsLong(state, verbose) ==
  IF verbose >= 0 THEN state.lines_in_function > Trigger(state) * 2 ^ verbose
  ELSE state.lines_in_function * 2 ^ (-verbose) > Trigger(state)

\* The level of the error is the logarithm of how many times too long the
\* function is, 5 at most.
FunctionCheck(state, verbose, n) ==
  LET ratio == state.lines_in_function \div Trigger(state)
      level == Max({k \in 0 .. 5 : k = 0 \/ 2 ^ k <= ratio})
  IN When(IsLong(state, verbose), n, "readability/fn_size", level)
\* The logarithm of 0, for a function below its trigger, raises ValueError.
FunctionCheckRaises(state, verbose) ==
  IsLong(state, verbose) /\ state.lines_in_function < Trigger(state)

\* A line that is not indented and has words and a parenthesis starts a
\* function, if a brace is found before a semicolon.
CheckForFunctionLengths(lines, n, state, verbose) ==
  LET line == lines[n]
      paren == Find(line, "(")
      starts == /\ paren > 1 /\ line[1] # IND
                /\ \A i \in 1 .. paren - 1 :
                     IsWord(line, i) /\ line[i] \notin {".", "->", "-", "+", "!"}
                /\ line[paren - 1] \in {"TEST", "TEST_F"}
                   \/ line[paren - 1] \notin AllCaps
      body == FirstOf({k \in n .. Last_(lines) :
                         AnyOf(lines[k], {";", "}", "{"})}, -1)
  IN CASE starts /\ body = -1 ->
            [state |-> state, errors |-> <<Error_(n, "readability/fn_size", 5)>>,
             raised |-> FALSE]
       [] starts /\ body >= 0 ->
            [state |-> IF AnyOf(lines[body], {";", "}"}) THEN state
                       ELSE Begin(state, line[paren - 1]),
             errors |-> <<>>, raised |-> FALSE]
       [] ~starts /\ line = <<"}">> ->
            [state |-> [state EXCEPT !.in_a_function = FALSE],
             errors |-> FunctionCheck(state, verbose, n),
             raised |-> FunctionCheckRaises(state, verbose)]
       [] OTHER ->
            [state |-> IF IsBlankLine(line) THEN state ELSE FunctionCount(state),
             errors |-> <<>>, raised |-> FALSE]

CheckForMultilineCommentsAndStrings(line, n) ==
  When(Count(line, "/*") > Count(line, "*/"), n, "readability/multiline_comment", 5)
  \o When(IsCppString(line), n, "readability/multiline_string", 5)

-----------------------------------------------------------------------------
(* CheckStyle and the rules it calls.                                      *)

\* Words that stand for the length of their line: more than 100, 120 columns.
LONG == [ll100 |-> 2, ll120 |-> 4]

CheckLineLength(path, raw, n) ==
  LET guard == GetHeaderGuardCPPVariable(path)
      is_guard == /\ path.ext \in HeaderExtensions
                  /\ \/ Len(raw) >= 2 /\ raw[1] \in {"#ifndef", "#define"}
                        /\ IsPrefix(guard, raw[2])
                     \/ Len(raw) >= 3 /\ raw[1] = "#endif" /\ raw[2] = "//"
                        /\ IsPrefix(guard, raw[3])
  IN IF \/ Starts(raw, {"#include", "#if", "#ifdef", "#ifndef", "#elif"})
        \/ is_guard \/ Begins(raw, <<{"//"}, {"http://"}>>)
     THEN <<>>
     ELSE Matched([t \in DOMAIN LONG |-> <<"whitespace/line_length", LONG[t]>>],
                  raw, n)

\* -1 and no text when all lines before n are blank.
GetPreviousNonBlankLine(elided, n) ==
  LET before == {k \in 0 .. n - 1 : ~IsBlankLine(elided[k])}
  IN IF before = {} THEN [line |-> <<>>, num |-> -1]
     ELSE [line |-> elided[Max(before)], num |-> Max(before)]

CheckCommands(elided, n) ==
  LET prev == GetPreviousNonBlankLine(elided, n).line
      line == elided[n]
  IN When(/\ Count(line, ";") > 1 /\ ~Contains(line, "for")
          /\ ~Contains(prev, "for") \/ Contains(prev, ";")
          /\ ~(AnyOf(line, {"case", "default"}) /\ Has(line, <<{"break"}, {";"}>>)),
          n, "whitespace/newline", 4)

\* _{...}; is joined to the lines before it while the whole still has this
\* form.  At the start of the file there is nothing to join any more and the
\* loop goes on for ever.
Initializer(line) ==
  Indented(line) /\ Begins(line, <<{"{"}>>) /\ Has(line, <<{"}"}, {";"}>>)
JoinBraces(elided, n) ==
  LET joined[k \in 0 .. n] ==    \* what has been joined down to line k
        LET line == IF k = n THEN elided[n] ELSE elided[k] \o joined[
                      Min({j \in k + 1 .. n : j = n \/ ~IsBlankLine(elided[j])})]
        IN line
      goes(k) == Initializer(joined[k])
                 /\ ~Contains(GetPreviousNonBlankLine(elided, k).line, ";")
      last == Max({k \in 0 .. n : (k = n \/ ~IsBlankLine(elided[k])) /\ ~goes(k)} \cup {-1})
  IN [line |-> IF last = -1 THEN <<>> ELSE joined[last], hangs |-> last = -1]

CheckElse(elided, n) ==
  LET line == elided[n]
      bare == \E i \in DOMAIN line : At(line, i, <<{"}"}, {"else"}>>)
                                     /\ ~Contains(After(line, i), "{")
      braced == \E i \in DOMAIN line : At(line, i, <<{"else"}, {"{"}>>)
                                       /\ ~Contains(Before(line, i), "}")
      bareIf == {i \in DOMAIN line : At(line, i, <<{"}"}, {"else"}, {"if"}>>)
                                     /\ ~Contains(After(line, i), "{")}
      paren == FirstOf({i \in DOMAIN line : line[i] = "("
                          /\ \E j \in 1 .. i - 1 : At(line, j, <<{"else"}, {"if"}>>)}, 0)
      end == CloseExpression(elided, n, paren)
  IN When(/\ bare \/ braced
          /\ bareIf # {} =>
               paren > 0 /\ ~Contains(After(elided[end.line], end.pos), "{"),
          n, "readability/braces", 5)

CheckBraces(elided, n) ==
  LET line == elided[n]
      prev == GetPreviousNonBlankLine(elided, n).line
      else == {i \in DOMAIN line : line[i] = "else"}
      joined == JoinBraces(elided, n).line
  IN When(Strip(line) = <<"{">> /\ ~EndsIn(prev, {";", ":", "{", "}"}),
          n, "whitespace/braces_pos", 4)
     \o When(Begins(line, <<{"else"}>>) /\ Strip(prev) = <<"}">>,
          n, "whitespace/braces_pos", 4)
     \o CheckElse(elided, n)
     \o When(/\ \E i \in else : i < Len(line) /\ line[i + 1] # "{"
             /\ ~Has(line, <<{"else"}, {"if"}>>), n, "whitespace/newline", 4)
     \o When(/\ Begins(line, <<{"do"}>>) /\ Len(Strip(line)) > 1
             /\ Strip(line)[2] # "{", n, "whitespace/newline", 4)
     \o When(/\ Contains(joined, "{") /\ Has(joined, <<{"}"}, {";"}>>)
             /\ Net(joined, "{") = 0
             /\ ~AnyOf(joined, {"struct", "class", "enum"})
             /\ ~Has(joined, <<{"="}, {"{"}>>), n, "readability/braces", 4)

\* The error is that of the line with the semicolon.
CheckEmptyLoopBody(elided, n) ==
  LET line == elided[n]
      end == CloseExpression(elided, n, Find(line, "("))
      behind == After(elided[end.line], end.pos)
  IN IF ~Begins(line, <<{"for", "while"}, {"("}>>) THEN <<>>
     ELSE When(end.pos > 0 /\ Starts(behind, {";"}),
               end.line, "whitespace/empty_loop_body", 5)

CheckAccess(line, n, stack) ==
  When(Begins(line, <<DISALLOW>>) /\ TopIsClass(stack)
       /\ Last(stack).access # "private", n, "readability/constructors", 3)

\* A blank line before the end of a block, unless the block is a namespace: the
\* lines above are searched for the brace that opens it.  The rule about the
\* start of a block says nothing: it takes find(...) for true where the text is
\* not found, and so every line for an exception.
CheckBlankLines(raw, elided, n) ==
  LET prev == elided[n - 1]
      next == raw[n + 1]
      depth[k \in 0 .. n] ==
        (IF k = n THEN 1 ELSE depth[k + 1]) - Net(raw[k], "{")
      space(line) == Begins(line, <<{"namespace"}>>) /\ Contains(line, "{")
      opens == {k \in 0 .. n : depth[k] = 0
                  /\ (space(raw[k]) \/ Begins(raw[k], <<{"{"}>>))}
      namespace == opens # {} /\ LET k == Max(opens) IN
                     \/ space(raw[k])
                     \/ k > 0 /\ Contains(raw[k - 1], "namespace")
  IN When(/\ n < Last_(raw) /\ Begins(next, <<{"}"}>>)
             /\ ~Contains(next, "namespace") /\ ~Has(Front_(next), <<{"}"}, {"else"}>>)
             /\ ~namespace, n, "whitespace/blank_line", 3)
     \o When(Begins(prev, <<Access, {":"}>>), n, "whitespace/blank_line", 3)

\* A < or > without space around it must have its match.
CheckAngleBrackets(elided, n) ==
  LET line == SelectSeq(elided[n], LAMBDA t : t # "->")
      whole(k) == [i \in DOMAIN elided[k] |->
                     IF elided[k][i] = "->" THEN ">" ELSE elided[k][i]]
      left == FirstOf({i \in 2 .. Len(line) - 1 :
                line[i] = "<" /\ line[i - 1] # "<" /\ line[i + 1] \notin {"=", "<"}}, 0)
      rights == {i \in 2 .. Len(line) - 1 :
                line[i] = ">" /\ line[i - 1] # ">" /\ line[i + 1] \notin {"=", ">"}}
      right == IF rights = {} THEN 0 ELSE Max(rights)
      next == After(line, left)
              \o FlattenSeq([k \in 1 .. Last_(elided) - n |-> whole(n + k)])
      before == FlattenSeq([k \in 1 .. n |-> whole(k - 1)])
                \o Before(line, right)
  IN IF Contains(line, "<<") \/ Begins(line, <<{"#include"}>>) THEN <<>>
     ELSE When(left > 0 /\ ~FindNextMatchingAngleBracket(next),
               n, "whitespace/operators", 3)
          \o When(right > 0 /\ ~FindPreviousMatchingAngleBracket(before),
               n, "whitespace/operators", 3)

CheckComment(raw, n) ==
  LET pos == Find(raw, "//") IN
  When(/\ pos > 0 /\ ~IsCppString(Before(raw, pos))
       /\ At(raw, pos, <<{"//"}, {"TODO"}>>)
       /\ ~At(raw, pos + 2, <<{"("}>>), n, "readability/todo", 2)

CheckSpacing(clean, n, stack) ==
  (IF IsBlankLine(clean.raw[n]) /\ ~InNamespaceBody(stack)
   THEN CheckBlankLines(clean.raw, clean.elided, n) ELSE <<>>)
  \o CheckComment(clean.raw[n], n)
  \o CheckAngleBrackets(clean.elided, n)
  \o Matched(Patterns, clean.elided[n], n)

Comparison == {"==", "!=", ">=", ">", "<=", "<"}
Constant == {"0", "1", "-1", "'c'"}

\* A comparison with a constant on one side.
ReplaceableCheck(line) ==
  LET s == Strip(line) IN
  /\ Begins(line, <<CHECK, {"("}>>)
  /\ \/ At(s, 3, <<Constant, Comparison>>)
     \/ \E i \in 3 .. Len(s) : At(s, i, <<Comparison, Constant, {")"}>>)
  /\ ~AnyOf(line, {"NULL", "&&", "||"})
CheckCheck(line, n) == When(ReplaceableCheck(line), n, "readability/check", 2)

AltTokens == {"and", "bitor", "or", "xor", "compl", "bitand", "and_eq", "or_eq",
              "xor_eq", "not", "not_eq"}
CheckAltTokens(line, n) ==
  IF Starts(Strip(line), Directive) \/ AnyOf(line, {"/*", "*/"}) THEN <<>>
  ELSE [i \in 1 .. Cardinality({j \in 2 .. Len(line) : line[j] \in AltTokens}) |->
          Error_(n, "readability/alt_tokens", 2)]

\* public:, protected: or private: of a class that is not small needs a blank
\* line above, but behind the head of the class.
CheckSectionSpacing(lines, n, class) ==
  LET first == class.starting_linenum
      prev == lines[n - 1]
      head == FirstOf({i \in first .. n - 1 : EndsIn(lines[i], {"{"})}, first)
  IN IF class.last_line - first <= SmallClass \/ n <= first THEN <<>>
     ELSE When(/\ Begins(lines[n], <<Access, {":"}>>) /\ ~IsBlankLine(prev)
               /\ ~AnyOf(prev, {"class", "struct"}) /\ ~EndsIn(prev, {"\\"})
               /\ head < n - 1, n, "whitespace/blank_line", 3)

StyleBeforeBraces(path, clean, n) ==
  LET raw == clean.raw[n] IN
     Matched(RawPatterns, raw, n)
  \o When(/\ Indented(raw) /\ Len(raw) = 3 /\ IsWord(raw, 2) /\ raw[3] = ":"
          /\ raw[2] \notin Access \cup {"default"}, n, "whitespace/labels", 4)
  \o CheckLineLength(path, raw, n)
  \o CheckCommands(clean.elided, n)

CheckStyle(path, clean, n, stack) ==
  LET raw == clean.raw[n]
      line == clean.elided[n]
      class == InnermostClass(stack)
  IN StyleBeforeBraces(path, clean, n)
     \o CheckBraces(clean.elided, n)
     \o CheckEmptyLoopBody(clean.elided, n)
     \o CheckAccess(line, n, stack)
     \o CheckSpacing(clean, n, stack)
     \o (IF AnyOf(raw, CHECK) THEN CheckCheck(line, n) ELSE <<>>)
     \o CheckAltTokens(line, n)
     \o (IF class = <<>> THEN <<>>
         ELSE CheckSectionSpacing(clean.lines, n, class[1]))

-----------------------------------------------------------------------------
(* CheckLanguage and what else ProcessLine calls.                          *)

BasicTypes == {"int", "float", "double", "bool", "char", "int32", "uint32",
               "int64", "uint64"}
PointerTypes == {"char*", "T*"}

MOCK == {"MOCK_METHOD0", "MOCK_METHOD1", "MOCK_CONST_METHOD0"}

\* int(x), but where a method is mocked, perhaps from the line before on.
CheckDeprecatedCast(elided, n) ==
  LET line == elided[n]
      i == FirstOf({j \in 1 .. Len(line) - 2 : line[j] \in BasicTypes
                      /\ line[j + 1] = "(" /\ line[j + 2] # ")"}, 0)
      prev == IF n = 0 THEN <<>> ELSE Strip(elided[n - 1])
  IN When(/\ i > 0 /\ ~(i > 1 /\ line[i - 1] = "new")
          /\ ~Begins(line, <<MOCK, {"("}>>)
          /\ ~(Begins(line, <<{"MockCallback"}, {"<"}>>) /\ Contains(line, ">"))
          /\ ~(Begins(prev, <<MOCK, {"("}>>) /\ EndsIn(prev, {","})),
          n, "readability/casting", 4)

\* (int)x, but for sizeof(int) and for a parameter without a name.
CheckCStyleCast(line, raw, n, types, quoted) ==
  LET i == FirstOf({j \in DOMAIN line : At(line, j, <<{"("}, types, {")"}>>)
                      /\ (quoted => At(line, j + 3, <<{QUOTE}>>))}, 0)
      before == IF i > 1 THEN line[i - 1] ELSE ""
      rest == After(line, i + 2)
      named == IF Starts(rest, {"const"}) THEN Tail(rest) ELSE rest
      bare == Starts(rest, {")", "="})
      exempt == \E j \in 1 .. Len(line) - 2 :
        /\ line[j] = "(" /\ IsWord(line, j + 1) /\ line[j + 2] = ")"
        /\ j + 2 = Len(line) \/ line[j + 3] = "{"
  IN CASE i = 0 \/ (i > 2 /\ before \in {"operator++", "operator--"}) -> <<>>
       [] i > 0 /\ before = "sizeof" -> <<Error_(n, "runtime/sizeof", 1)>>
       [] /\ i > 0 /\ before # "sizeof"
          /\ bare \/ Starts(named, {";", "{", ">", "throw()"}) ->
            When(\/ bare \/ Starts(named, {";"})
                 \/ ~AnyOf(raw, {"MockCallback", "typeid", "/*"}),
                 n, "readability/function", 3)
       [] OTHER -> When(~exempt, n, "readability/casting", 4)

CheckSizeOf(line, n) ==
  When(Has(line, <<{"sizeof"}, BasicTypes>>), n, "runtime/sizeof", 1)

CheckForbiddenFunctions(line, n) ==
  When(Contains(line, "sprintf"), n, "runtime/printf", 5)
  \o When(AnyOf(line, {"strcpy", "strcat"}), n, "runtime/printf", 4)
  \o When(Contains(line, "sscanf"), n, "runtime/printf", 1)

\* printf(x), where x may hold a %.
CheckPrintf(line, n) ==
  LET i == FirstOf({j \in 1 .. Len(line) - 1 :
                      line[j] \in {"printf", "Printf", "StringPrintf"}
                      /\ line[j + 1] = "("}, 0)
      inside == IF i = 0 THEN <<>> ELSE _GetTextInside(line, i + 1)
  IN When(\E text \in ToSet(inside) :
            /\ text \notin {<<>>, <<"__VA_ARGS__">>}
            /\ \A j \in DOMAIN text : IsWord(text, j) \/ text[j] \in {"(", ")"},
          n, "runtime/printf", 4)

\* The rules about a line that is neither an include nor a condition.
LanguageRules(path, clean, n) ==
  LET line == clean.elided[n]
      raw == clean.raw[n]
      header == path.ext \in HeaderExtensions
      quoted == CheckCStyleCast(line, raw, n, {"char*"}, TRUE)
  IN CheckDeprecatedCast(clean.elided, n)
     \o CheckCStyleCast(line, raw, n, BasicTypes, FALSE)
     \o (IF quoted # <<>> THEN quoted
         ELSE CheckCStyleCast(line, raw, n, PointerTypes, FALSE))
     \o CheckSizeOf(line, n)
     \o Matched(LanguagePatterns, line, n)
     \o When(Contains(line, "dynamic_cast") /\ ~_IsTestFilename(path),
             n, "runtime/rtti", 3)
     \o When(IF Has(line, <<{"short"}, {"port"}>>)
             THEN ~Has(line, <<{"unsigned"}, {"short"}, {"port"}>>)
             ELSE \/ Contains(line, "short")
                  \/ \E i \in DOMAIN line : line[i] = "long"
                                            /\ ~At(line, i + 1, <<{"double"}>>),
             n, "runtime/int", 4)
     \o CheckForbiddenFunctions(line, n)
     \o When(Has(line, <<{"}"}, {"if"}, {"("}>>), n, "readability/braces", 4)
     \o CheckPrintf(line, n)
     \o When(header /\ Begins(line, <<{"using"}, {"namespace"}>>),
             n, "build/namespaces", 5)
     \o When(/\ Begins(line, <<DISALLOW, {"("}>>) /\ EndsIn(line, {";"})
             /\ n < Last_(clean.elided)
             /\ LET next == Strip(clean.elided[n + 1]) IN
                ~(Starts(next, {"}"}) /\ Contains(next, ";")),
             n, "readability/constructors", 3)
     \o When(/\ header /\ Has(line, <<{"namespace"}, {"{"}>>)
             /\ ~EndsIn(line, {"\\"}), n, "build/namespaces", 4)

\* An empty line, as that of a comment, is not looked at.
CheckLanguage(path, clean, n, state) ==
  LET line == clean.elided[n] IN
  CASE line = <<>> -> [state |-> state, errors |-> <<>>]
    [] line # <<>> /\ (IsInclude(line) \/ IsCondition(line)) ->
         CheckIncludeLine(path, clean.lines, n, state)
    [] OTHER -> [state |-> state, errors |-> LanguageRules(path, clean, n)]

\* A constructor of one argument, in the innermost class.
CheckExplicit(line, n, stack) ==
  LET class == InnermostClass(stack)
      name == class[1].name
      paren == Find(line, "(")
      close == Find(line, ")")
      args == SubSeq(line, paren + 1, close - 1)
      own == IF Starts(args, {"const"}) THEN Tail(args) ELSE args
      copies == \/ At(own, 1, <<{name}, {"&"}>>)
                \/ At(own, 1, <<{name}, {"<"}>>) /\ Has(own, <<{">"}, {"&"}>>)
      declares == \/ line = <<IND, name, "(">> \o After(line, 3)
                  \/ line = <<IND, "inline", name, "(">> \o After(line, 4)
  IN IF class = <<>> THEN <<>>
     ELSE When(/\ class[1].seen_open_brace /\ declares
               /\ close > paren + 1 /\ ~Contains(args, ",")
               /\ args # <<"void">> /\ ~copies, n, "runtime/explicit", 5)

StorageClass == {"auto", "register", "static", "extern", "typedef"}
CheckForNonStandardConstructs(line, n, stack) ==
  When(Has(line, <<BasicTypes \cup {"const", "volatile", "void", "short", "long",
                    "signed", "unsigned"}, StorageClass>>),
       n, "build/storage_class", 5)
  \o When(/\ Begins(line, <<{"#endif"}>>) /\ Len(Strip(line)) > 1
          /\ Strip(line)[2] \notin {"//", "/*"}, n, "build/endif_comment", 5)
  \o When(/\ Begins(line, <<{"class"}>>) /\ Contains(line, "::")
          /\ Find(line, ";") > Find(line, "::")
          /\ ~AnyOf(line, {"{", "<", "("}), n, "build/forward_decl", 5)
  \o When(/\ Begins(line, <<{"const"}, {"string"}, {"&"}>>)
          /\ Len(Strip(line)) >= 5 /\ Strip(line)[5] = ";",
          n, "runtime/member_string_references", 2)
  \o CheckExplicit(line, n, stack)

ThreadUnsafe == {"asctime", "ctime", "getgrgid", "getgrnam", "getlogin",
  "getpwnam", "getpwuid", "gmtime", "localtime", "rand", "readdir", "strtok",
  "ttyname"}

\* The first use of each function counts, unless it is a member.
CheckPosixThreading(line, n) ==
  LET first(f) == FirstOf({i \in DOMAIN line : At(line, i, <<{f}, {"("}>>)}, 0)
      used == {f \in ThreadUnsafe : first(f) > 0
                 /\ (first(f) > 1 => line[first(f) - 1] \notin {".", ">", "->"})}
  IN [i \in 1 .. Cardinality(used) |-> Error_(n, "runtime/threadsafe_fn", 2)]

CheckInvalidIncrement(line, n) ==
  LET s == Strip(line) IN
  When(Len(s) >= 4 /\ s[1] = "*" /\ IsWord(s, 2) /\ s[3] \in {"++", "--"}
       /\ s[4] = ";", n, "runtime/invalid_increment", 5)

CheckMakePairUsesDeduction(raw, n) ==
  When(Has(raw, <<{"make_pair"}, {"<"}>>), n, "build/explicit_make_pair", 4)
=============================================================================

------------------------------ MODULE CppLint ------------------------------
(***************************************************************************)
(* The program common/tools/cpplint.py: the command line is parsed, and    *)
(* each file is read, its lines cleaned and then looked at one by one by   *)
(* the rules of CppLintRules.  An error goes through the filters, the      *)
(* verbosity and the NOLINT comments before it is counted and printed.     *)
(***************************************************************************)
EXTENDS CppLintRules

CONSTANT Commands   \* command lines: the options, and the files by content

VARIABLES
  command,          \* sys.argv
  status,           \* where the program is
  file,             \* number of the file it works on, or has worked on
  cpplint,          \* _cpplint_state, which lives as long as the program
  nolint,           \* _error_suppressions: category -> lines, ANY for all
  stderr,           \* the errors printed
  reported,         \* the errors of this file, printed or not
  clean,            \* clean_lines of this file
  n,                \* the line to be looked at next
  include_state, function_state, nesting_state

global == <<command, file, cpplint>>
local == <<clean, include_state, function_state, nesting_state>>
vars == <<global, local, status, nolint, stderr, reported, n>>

ANY == "*"
ERROR_CATEGORIES == {
  "build/class", "build/deprecated", "build/endif_comment",
  "build/explicit_make_pair", "build/forward_decl", "build/header_guard",
  "build/include", "build/include_alpha", "build/include_order",
  "build/include_what_you_use", "build/namespaces", "build/printf_format",
  "build/storage_class", "legal/copyright", "readability/alt_tokens",
  "readability/braces", "readability/casting", "readability/check",
  "readability/class_name", "readability/constructors", "readability/fn_name",
  "readability/fn_size", "readability/function",
  "readability/multiline_comment", "readability/multiline_string",
  "readability/namespace", "readability/nolint", "readability/streams",
  "readability/todo", "readability/utf8", "runtime/arrays", "runtime/casting",
  "runtime/explicit", "runtime/int", "runtime/init",
  "runtime/invalid_increment", "runtime/member_string_references",
  "runtime/memset", "runtime/operator", "runtime/printf",
  "runtime/printf_format", "runtime/references", "runtime/rtti",
  "runtime/sizeof", "runtime/string", "runtime/threadsafe_fn",
  "whitespace/blank_line", "whitespace/braces", "whitespace/braces_pos",
  "whitespace/comma", "whitespace/comments", "whitespace/empty_loop_body",
  "whitespace/end_of_line", "whitespace/ending_newline",
  "whitespace/forcolon", "whitespace/indent", "whitespace/labels",
  "whitespace/line_length", "whitespace/newline", "whitespace/operators",
  "whitespace/parens", "whitespace/semicolon", "whitespace/tab",
  "whitespace/todo"}

Filter(sign, prefix) == [sign |-> sign, prefix |-> prefix]
_DEFAULT_FILTERS == <<
  Filter("-", "whitespace/braces_pos"), Filter("-", "readability/utf8"),
  Filter("-", "readability/multiline_string"),
  Filter("-", "readability/streams")>>

\* The length of a function and the order of includes have rules of their own.
ASSUME PatternsAssumption ==
  \A table \in {RawPatterns, Patterns, LanguagePatterns} :
    \A t \in DOMAIN table :
      /\ table[t][1] \in
           ERROR_CATEGORIES \ {"readability/fn_size", "build/include_order"}
      /\ table[t][2] \in 0 .. 5

\* int(val) of an option; the filters of one, separated by commas.
ASSUME CommandsAssumption ==
  \A c \in Commands :
    /\ IsSeq(c.opts) /\ IsSeq(c.files)
    /\ \A i \in DOMAIN c.opts :
         /\ c.opts[i].opt = "verbose" => c.opts[i].val \in Int
         /\ c.opts[i].opt = "filter" => IsSeq(c.opts[i].val)
    /\ \A i \in DOMAIN c.files :
         IsText(c.files[i].utf8) /\ IsText(c.files[i].gbk)

_CppLintState ==
  [verbose_level |-> 1, error_count |-> 0, filters |-> _DEFAULT_FILTERS,
   counting |-> "total", errors_by_category |-> [c \in {} |-> 0],
   quiet |-> FALSE, output_format |-> "emacs"]

Content == command.files[file]

-----------------------------------------------------------------------------
(* Reporting an error.  "log" holds what a report may change.              *)

Log == [file |-> file, cpplint |-> cpplint, nolint |-> nolint, stderr |-> stderr,
        reported |-> reported]

\* Mutant: the first filter that fits decides.
IsFiltered_FirstWins(filters, category) ==
  LET i == SelectInSeq(filters, LAMBDA f : IsPrefix(f.prefix, category))
  IN i > 0 /\ filters[i].sign = "-"

\* The last filter that fits decides.
IsFiltered(filters, category) ==
  LET i == SelectLastInSeq(filters, LAMBDA f : IsPrefix(f.prefix, category))
  IN i > 0 /\ filters[i].sign = "-"

IsErrorSuppressedByNolint(suppressions, category, line) ==
  \E c \in {category, ANY} \cap DOMAIN suppressions : line \in suppressions[c]

_ShouldPrintError(log, e) ==
  /\ ~IsErrorSuppressedByNolint(log.nolint, e.cat, e.line)
  /\ e.conf >= log.cpplint.verbose_level
  /\ ~IsFiltered(log.cpplint.filters, e.cat)

TopLevel == [c \in ERROR_CATEGORIES |->
  CHOOSE t \in {"build", "legal", "readability", "runtime", "whitespace"} :
    IsPrefix(t, c)]
Bump(counts, c) ==
  [d \in DOMAIN counts \cup {c} |->
     (IF d \in DOMAIN counts THEN counts[d] ELSE 0) + (IF d = c THEN 1 ELSE 0)]

\* Mutant: the total is that of the categories that are counted.
IncrementErrorCount_OnlyCategories(state, category) ==
  CASE state.counting = "detailed" ->
         [state EXCEPT !.error_count = @ + 1,
            !.errors_by_category = Bump(@, category)]
    [] state.counting = "toplevel" ->
         [state EXCEPT !.errors_by_category = Bump(@, TopLevel[category]),
            !.error_count = Cardinality(DOMAIN Bump(state.errors_by_category,
                                                    TopLevel[category]))]
    [] OTHER -> [state EXCEPT !.error_count = @ + 1]

IncrementErrorCount(state, category) ==
  [state EXCEPT
     !.error_count = @ + 1,
     !.errors_by_category =
        CASE state.counting = "detailed" -> Bump(@, category)
          [] state.counting = "toplevel" -> Bump(@, TopLevel[category])
          [] OTHER -> @]

Error(log, e) ==
  LET known == [log EXCEPT !.reported = Append(@, e)]
  IN IF ~_ShouldPrintError(log, e) THEN known
     ELSE [known EXCEPT !.cpplint = IncrementErrorCount(@, e.cat),
                        !.stderr = Append(@, [file |-> log.file, line |-> e.line,
                                              cat |-> e.cat, conf |-> e.conf])]

\* The category in parentheses that may follow the word; ANY without one.
CategoryAfter(raw, word) ==
  LET i == Find(raw, word) IN
  IF At(raw, i + 1, <<{"("}>>) /\ Contains(After(raw, i + 1), ")")
  THEN raw[i + 2] ELSE ANY

Suppress(suppressions, category, line) ==
  [c \in DOMAIN suppressions \cup {category} |->
     (IF c \in DOMAIN suppressions THEN suppressions[c] ELSE {})
     \cup (IF c = category THEN {line} ELSE {})]

\* Mutant: a NOLINT that stands alone is one of its own line.
ParseNolintSuppressions_OwnLine(log, raw, line) ==
  LET category == CategoryAfter(raw, "NOLINT")
  IN IF Contains(raw, "NOLINT") /\ category \in ERROR_CATEGORIES \cup {ANY}
     THEN [log EXCEPT !.nolint = Suppress(@, category, line)]
     ELSE log

\* Mutant: a category that does not exist is taken for one.
ParseNolintSuppressions_AnyCategory(log, raw, line) ==
  LET category == CategoryAfter(raw, "NOLINT")
  IN IF Contains(raw, "NOLINT")
     THEN [log EXCEPT !.nolint = Suppress(@, category, line)] ELSE log

\* // NOLINT with nothing in front of it is meant for the next line.
ParseNolintSuppressions(log, raw, line) ==
  LET at == IF Begins(raw, <<{"//"}, {"NOLINT"}>>) THEN line + 1 ELSE line
      category == CategoryAfter(raw, "NOLINT")
  IN CASE ~Contains(raw, "NOLINT") -> log
       [] /\ Contains(raw, "NOLINT")
          /\ category \in ERROR_CATEGORIES \cup {ANY} ->
            [log EXCEPT !.nolint = Suppress(@, category, at)]
       [] OTHER -> Error(log, Error_(at, "readability/nolint", 5))

Errors(log, errors) == FoldLeft(Error, log, errors)

\* // GLOBAL_NOLINT(category) adds a filter, to those of the whole run.  The
\* search ends at one without a category, which suppresses nothing, and at one
\* that is unknown.
GlobalNolint(acc, lines, k) ==
  LET category == CategoryAfter(lines[k], "GLOBAL_NOLINT") IN
  CASE acc.ended \/ ~Has(lines[k], <<{"//"}, {"GLOBAL_NOLINT"}>>) -> acc
    [] OTHER ->
         CASE category = ANY -> [acc EXCEPT !.ended = TRUE]
           [] category \in ERROR_CATEGORIES ->
                [acc EXCEPT !.log.cpplint.filters =
                   Append(@, Filter("-", category))]
           [] OTHER -> [ended |-> TRUE, log |->
                Error(acc.log, Error_(k, "readability/nolint", 5))]
ParseGlobalNolintSuppressions(log, lines) ==
  FoldLeft(LAMBDA acc, k : GlobalNolint(acc, lines, k),
           [ended |-> FALSE, log |-> log],
           [i \in 1 .. Last_(lines) + 1 |-> i - 1]).log

\* The errors about the header guard, the NOLINT of their lines being read
\* before the rest of the file.
GuardError(log, raw, e) ==
  Error(IF e.reads THEN ParseNolintSuppressions(log, raw[e.line], e.line) ELSE log,
        Error_(e.line, e.cat, e.conf))
GuardErrors(log, raw, errors) ==
  FoldLeft(LAMBDA acc, e : GuardError(acc, raw, e), log, errors)

SetLog(log) ==
  /\ cpplint' = log.cpplint
  /\ nolint' = log.nolint
  /\ stderr' = log.stderr
  /\ reported' = log.reported

-----------------------------------------------------------------------------
(* The command line.                                                       *)

\* The options one after the other; an option that is not allowed, --help and
\* --filter= end the program.
ParseOption(acc, o) ==
  CASE acc.ends -> acc
    [] \/ o.opt = "help"
       \/ o.opt = "output" /\ o.val \notin {"emacs", "vs7"}
       \/ o.opt = "filter" /\ o.val = <<>>
       \/ o.opt = "counting" /\ o.val \notin {"total", "toplevel", "detailed"}
       \/ o.opt \notin {"help", "output", "verbose", "filter", "counting", "quiet"}
         -> [acc EXCEPT !.ends = TRUE]
    [] OTHER ->
         CASE o.opt = "verbose" -> [acc EXCEPT !.verbose_level = o.val]
           [] o.opt = "output" -> [acc EXCEPT !.output_format = o.val]
           [] o.opt = "filter" -> [acc EXCEPT !.filters = o.val]
           [] o.opt = "counting" -> [acc EXCEPT !.counting = o.val]
           [] o.opt = "quiet" -> [acc EXCEPT !.quiet = TRUE]
NoOptions ==
  [ends |-> FALSE, verbose_level |-> _CppLintState.verbose_level,
   output_format |-> _CppLintState.output_format, filters |-> <<>>,
   counting |-> "", quiet |-> FALSE]
ParseOptions(opts) == FoldLeft(ParseOption, NoOptions, opts)

\* The filters of the command line come after the default ones.  One without
\* a sign raises ValueError.
ParseArguments ==
  /\ status = "start"
  /\ LET opts == ParseOptions(command.opts)
         filters == _DEFAULT_FILTERS \o opts.filters
         unsigned == \E i \in DOMAIN filters : filters[i].sign \notin {"+", "-"}
     IN \/ /\ opts.ends \/ command.files = <<>>
           /\ status' = "exited"
           /\ UNCHANGED cpplint
        \/ /\ ~opts.ends /\ command.files # <<>> /\ unsigned
           /\ status' = "raised"
           /\ cpplint' = [cpplint EXCEPT !.filters = filters,
                            !.verbose_level = opts.verbose_level,
                            !.output_format = opts.output_format]
        \/ /\ ~opts.ends /\ command.files # <<>> /\ ~unsigned
           /\ status' = "file"
           /\ cpplint' = [_CppLintState EXCEPT !.filters = filters,
                            !.verbose_level = opts.verbose_level,
                            !.output_format = opts.output_format,
                            !.counting = opts.counting, !.quiet = opts.quiet]
  /\ UNCHANGED <<command, file, local, nolint, stderr, reported, n>>

-----------------------------------------------------------------------------
(* A file.                                                                 *)

\* The decoding that gives more lines is taken.
ReadWithEncodingDetect(content) ==
  IF Len(content.utf8) >= Len(content.gbk) THEN content.utf8 ELSE content.gbk

CR == "\\r"
CarriageReturn(lines) == \E k \in DOMAIN lines : EndsIn(lines[k], {CR})
WithoutCarriageReturn(line) == IF EndsIn(line, {CR}) THEN Front_(line) ELSE line

Marker == <<"//", "marker">>
LinesOf(content) ==
  LET read == ReadWithEncodingDetect(content)
  IN [k \in 0 .. Len(read) + 1 |->
        IF k \in DOMAIN read THEN WithoutCarriageReturn(read[k]) ELSE Marker]

HasFile == status = "file" /\ file < Len(command.files)
NextContent == command.files[file + 1]
IsLinted(content) ==
  content.readable /\ content.path.ext \in HeaderExtensions \cup SourceExtensions

\* A file that cannot be read, or is not one of C++, is passed over.
SkipFile ==
  /\ HasFile
  /\ ~IsLinted(NextContent)
  /\ file' = file + 1
  /\ reported' = <<>>
  /\ UNCHANGED <<command, cpplint, local, status, nolint, stderr, n>>

ResetNolintSuppressions(suppressions) == [c \in {} |-> {}]

\* ProcessFile and ProcessFileData down to the loop over the lines.
StartFile ==
  /\ HasFile
  /\ IsLinted(NextContent)
  /\ \E lines \in {LinesOf(NextContent)} :
     \E kept \in {RemoveMultiLineComments(lines)} :
     LET content == NextContent
         header == content.path.ext \in HeaderExtensions
         fresh == [Log EXCEPT !.file = @ + 1, !.reported = <<>>]
         global1 == ParseGlobalNolintSuppressions(fresh, lines)
         reset == [global1 EXCEPT !.nolint = ResetNolintSuppressions(@)]
         copyright == Errors(reset, CheckForCopyright(lines))
         guard == IF ~header THEN copyright
                  ELSE GuardErrors(copyright, lines,
                                   CheckForHeaderGuard(content.path, lines))
     IN /\ \E log \in {Errors(guard, When(kept.error >= 0, kept.error,
                                          "readability/multiline_comment", 5))} : SetLog(log)
        /\ clean' = [raw |-> kept.lines, lines |-> CleansedLines(kept.lines),
                     elided |-> Elided(kept.lines)]
  /\ file' = file + 1
  /\ status' = "line"
  /\ n' = 0
  /\ include_state' = _IncludeState
  /\ function_state' = _FunctionState
  /\ nesting_state' = _NestingState
  /\ UNCHANGED command

InAsm(stack) == stack # <<>> /\ Last(stack).inline_asm # "no"

\* What CheckStyle and all rules behind it say of line n.
RestOfLine(log, path, stack, language) ==
  LET elided == clean.elided[n] IN
  Errors(log,
    language.errors
    \o CheckForNonStandardConstructs(elided, n, stack)
    \o CheckPosixThreading(elided, n)
    \o CheckInvalidIncrement(elided, n)
    \o CheckMakePairUsesDeduction(clean.raw[n], n))

\* One line.  Within inline assembly only the blocks are followed.
ProcessLine ==
  /\ status = "line" /\ n \in DOMAIN clean.raw
  /\ \E update \in {Update(nesting_state, clean.raw, clean.elided, n)} :
     \E nested \in {Errors(ParseNolintSuppressions(Log, clean.raw[n], n), update.errors)} :
     LET path == Content.path
         stack == update.nest.stack
         length == CheckForFunctionLengths(clean.lines, n, function_state,
                                           cpplint.verbose_level)
         before == Errors(nested, length.errors
                     \o CheckForMultilineCommentsAndStrings(clean.elided[n], n))
     IN /\ nesting_state' = update.nest
        /\ \/ /\ InAsm(stack)
              /\ SetLog(nested)
              /\ n' = n + 1
              /\ UNCHANGED <<status, include_state, function_state>>
           \/ /\ ~InAsm(stack) /\ length.raised
              /\ SetLog(nested)
              /\ status' = "raised"
              /\ UNCHANGED <<n, include_state, function_state>>
           \/ /\ ~InAsm(stack) /\ ~length.raised /\ JoinBraces(clean.elided, n).hangs
              /\ SetLog(Errors(before, StyleBeforeBraces(path, clean, n)))
              /\ function_state' = length.state
              /\ status' = "hung"
              /\ UNCHANGED <<include_state, n>>
           \/ /\ ~InAsm(stack) /\ ~length.raised /\ ~JoinBraces(clean.elided, n).hangs
              /\ function_state' = length.state
              /\ \E language \in {CheckLanguage(path, clean, n, include_state)},
                    styled \in {Errors(before, CheckStyle(path, clean, n, stack))} :
                   /\ include_state' = language.state
                   /\ \/ /\ language.state.raised
                         /\ SetLog(styled)
                         /\ status' = "raised"
                         /\ UNCHANGED n
                      \/ /\ ~language.state.raised
                         /\ SetLog(RestOfLine(styled, path, stack, language))
                         /\ n' = n + 1
                         /\ UNCHANGED status
  /\ UNCHANGED <<command, file, clean>>

\* What is said of the file as a whole, behind its last line.
FinishFile ==
  /\ status = "line" /\ n \notin DOMAIN clean.raw
  /\ SetLog(Errors(Log,
       CheckClassFinished(nesting_state.stack)
       \o CheckForIncludeWhatYouUse(Content.path, clean.elided,
                                    GetAll(include_state))
       \o CheckForUnicodeReplacementCharacters(clean.raw)
       \o CheckForNewlineAtEOF(clean.raw)
       \o When(CarriageReturn(ReadWithEncodingDetect(Content)),
               0, "whitespace/newline", 1)))
  /\ status' = "file"
  /\ UNCHANGED <<command, file, local, n>>

\* sys.exit, after the errors have been counted out.
Exit ==
  /\ status = "file" /\ file = Len(command.files)
  /\ status' = "exited"
  /\ UNCHANGED <<global, local, nolint, stderr, reported, n>>

\* The process is gone, or is in a loop that nothing ends.
Ended == status \in {"exited", "raised", "hung"}
Stay == Ended /\ UNCHANGED vars

Init ==
  /\ command \in Commands
  /\ status = "start"
  /\ file = 0
  /\ cpplint = _CppLintState
  /\ nolint = [c \in {} |-> {}]
  /\ stderr = <<>>
  /\ reported = <<>>
  /\ clean = [raw |-> [k \in {} |-> <<>>], lines |-> [k \in {} |-> <<>>],
              elided |-> [k \in {} |-> <<>>]]
  /\ n = 0
  /\ include_state = _IncludeState
  /\ function_state = _FunctionState
  /\ nesting_state = _NestingState

Next ==
  \/ ParseArguments
  \/ SkipFile
  \/ StartFile
  \/ ProcessLine
  \/ FinishFile
  \/ Exit
  \/ Stay

\* One thread, which runs until the program ends.  This is WF_vars(Next): there
\* is a next step unless it has ended, as a run that looks for deadlocks shows.
Fairness == []<>Ended \/ []<><<TRUE>>_vars
Spec == Init /\ [][Next]_vars /\ Fairness
=============================================================================

-------------------------- MODULE CppLintIncludes --------------------------
(***************************************************************************)
(* Include lines and whole-file rules of common/tools/cpplint.py: classes  *)
(* _ScopedIncludeState, _IncludeState and FileInfo, and the rules about    *)
(* copyright, header guards, headers that are missing, encoding and the    *)
(* last line.                                                              *)
(*                                                                         *)
(* A path is a record: its directories, "/" being the first one of an      *)
(* absolute path; the parts of the name, each but the first one with the   *)
(* "_" or "-" in front of it; the extension.  a/b_test.cc is               *)
(*   [dir |-> <<"a">>, parts |-> <<"b", "_test">>, ext |-> "cc"].          *)
(***************************************************************************)
EXTENDS CppLintNesting

CONSTANTS
  Path,              \* the path a token stands for in a line or an argument
  Alphabet,          \* the place of a path in alphabetical order, cases and
                     \* the kind of dash being the same
  CppHeaders,        \* _STL_HEADERS and _CPP_HEADERS that end in .h
  Templates,         \* the header of a template: _HEADERS_CONTAINING_TEMPLATES
  WorkingDirectory,
  Disk,              \* the text of the files that can be opened
  Repositories,      \* directories with a .git, .hg or .svn in them
  SvnDirectories,    \* those with a .svn
  BladeRoots,        \* those with a BLADE_ROOT
  CppVar             \* the header guard of a path

ASSUME IncludesAssumption ==
  /\ SvnDirectories \subseteq Repositories
  /\ <<"/">> \notin Repositories    \* the search does not end there

HeaderExtensions == {"h", "hh", "hpp", "hxx"}
SourceExtensions == {"cc", "cpp", "cxx", "inl"}
IsSourceFile(path) == path.ext \in SourceExtensions

Front_(parts) == SubSeq(parts, 1, Len(parts) - 1)
WithoutSuffix(path, exts, suffixes) ==
  IF path.ext \in exts /\ Len(path.parts) > 1 /\ Last(path.parts) \in suffixes
  THEN [path EXCEPT !.parts = Front_(@)] ELSE path

-----------------------------------------------------------------------------
(* FileInfo.                                                               *)

FullName(path) ==
  IF Starts(path.dir, {"/"}) THEN path
  ELSE [path EXCEPT !.dir = WorkingDirectory \o @]

Above(dir) == {SubSeq(dir, 1, k) : k \in 1 .. Len(dir)}
Longest(dirs) == CHOOSE d \in dirs : \A e \in dirs : Len(e) <= Len(d)
Shortest(dirs) == CHOOSE d \in dirs : \A e \in dirs : Len(d) <= Len(e)

\* The root of a checkout is the last directory upwards that still has a .svn,
\* or the first one that has a .git, .hg or .svn.
RepositoryName(path) ==
  LET full == FullName(path)
      svn == {d \in Above(full.dir) :
                \A e \in Above(full.dir) :
                  Len(e) >= Len(d) => e \in SvnDirectories}
      roots == Above(full.dir) \cap Repositories
      below(root) == [full EXCEPT !.dir = After(@, Len(root))]
  IN CASE full \notin DOMAIN Disk -> full
       [] full \in DOMAIN Disk /\ full.dir \in SvnDirectories ->
            below(Shortest(svn))
       [] full \in DOMAIN Disk /\ full.dir \notin SvnDirectories ->
            IF roots = {} THEN full ELSE below(Longest(roots))

\* Relative to the nearest BLADE_ROOT, or to where the program was started.
ProjectScopeName(path) ==
  LET full == FullName(path)
      roots == Above(full.dir) \cap BladeRoots
      start == IF roots = {} THEN WorkingDirectory ELSE Longest(roots)
      shared == Len(Longest({d \in Above(full.dir) \cup {<<>>} :
                               IsPrefix(d, start)}))
  IN [full EXCEPT !.dir = [i \in 1 .. Len(start) - shared |-> ".."]
                          \o After(@, shared)]

-----------------------------------------------------------------------------
(* The order of includes.                                                  *)

_INITIAL_SECTION == 0
_MY_H_SECTION == 1
_C_SECTION == 2
_CPP_SECTION == 3
_OTHER_H_SECTION == 4

NoHeader == [dir |-> <<>>, parts |-> <<>>, ext |-> ""]
_ScopedIncludeState ==
  [section |-> _INITIAL_SECTION, last_header |-> NoHeader, last_line |-> 0,
   line |-> [header \in {} |-> 0]]

CanonicalizeAlphabeticalOrder(header) == WithoutSuffix(header, {"h"}, {"-inl"})

\* Only a header on the line behind the last one is compared with it.
CheckIncludeAlphabeticalOrder(scope, header, n) ==
  LET canonical == CanonicalizeAlphabeticalOrder(header)
      last == scope.last_header
      abutting == n = scope.last_line + 1
      sorted == last = NoHeader \/ Alphabet[canonical] >= Alphabet[last]
  IN [scope |-> [scope EXCEPT !.last_header = canonical, !.last_line = n],
      errors |->
        When(abutting /\ (header.dir = <<>> <=> last.dir = <<>>) /\ ~sorted,
             n, "build/include_alpha", 4)
        \o When(abutting /\ header.dir = <<>> /\ last.dir # <<>>,
             n, "build/include_order", 4)]

\* Mutant: a system header after other headers starts its section anew.
CheckNextIncludeOrder_Restarts(scope, type) ==
  LET to == CASE type = "C" -> _C_SECTION
              [] type = "C++" -> _CPP_SECTION
              [] type \in {"likely my", "possible my"} -> _MY_H_SECTION
              [] type = "other" -> _OTHER_H_SECTION
  IN [scope |-> [scope EXCEPT !.section = to,
                   !.last_header = IF scope.section # to THEN NoHeader ELSE @],
      ok |-> scope.section <= to \/ to = _MY_H_SECTION]

\* The scope after a header of the type, and whether it came in order.  A
\* header of the file itself counts as any other one once it is late; a system
\* header that is late leaves the section as it is.
CheckNextIncludeOrder(scope, type) ==
  LET to == CASE type = "C" -> _C_SECTION
              [] type = "C++" -> _CPP_SECTION
              [] type \in {"likely my", "possible my"} ->
                   IF scope.section <= _MY_H_SECTION THEN _MY_H_SECTION
                   ELSE _OTHER_H_SECTION
              [] type = "other" -> _OTHER_H_SECTION
      ok == scope.section <= to
  IN [scope |-> [scope EXCEPT
                   !.section = IF ok THEN to ELSE @,
                   !.last_header = IF ok /\ scope.section = to THEN @
                                   ELSE NoHeader],
      ok |-> ok]

CommonSuffixes ==
  [cc |-> {"test", "regtest", "unittest"}, cpp |-> {"test"},
   h |-> {"inl", "impl", "internal"}]
_DropCommonSuffixes(path) ==
  IF path.ext \in DOMAIN CommonSuffixes
  THEN WithoutSuffix(path, {path.ext},
         {dash \o s : dash \in {"_", "-"}, s \in CommonSuffixes[path.ext]})
  ELSE path

_IsTestFilename(path) ==
  /\ Len(path.parts) > 1
  /\ \/ path.ext = "cpp" /\ Last(path.parts) = "_test"
     \/ path.ext = "cc" /\ Last(path.parts) \in {"_test", "_unittest", "_regtest"}

\* A C++ header has no extension, or is in the list.
_ClassifyInclude(path, header, is_system) ==
  LET cpp == \/ header \in CppHeaders
             \/ header.ext = "" /\ header.dir \in {<<>>, <<"ext">>, <<"tr1">>}
      target == _DropCommonSuffixes(RepositoryName(path))
      include == _DropCommonSuffixes(header)
      public == IF target.dir = <<>> THEN <<"/", "public">>
                ELSE Append(Front_(target.dir), "public")
  IN CASE is_system /\ cpp -> "C++"
       [] is_system /\ ~cpp -> "C"
       [] /\ ~is_system /\ target.parts = include.parts
          /\ include.dir \in {target.dir, public} -> "likely my"
       [] /\ ~is_system /\ Head(target.parts) = Head(include.parts)
          /\ ~(target.parts = include.parts
               /\ include.dir \in {target.dir, public}) -> "possible my"
       [] OTHER -> "other"

-----------------------------------------------------------------------------
(* The stack of scopes, one for each open branch of a condition.  A scope is *)
(* known by its number, the stack holds numbers, as the code holds           *)
(* references.                                                               *)

_IncludeState == [scopes |-> <<>>, stack |-> <<>>, raised |-> FALSE]

\* Mutant: a condition within a condition has no scope of its own.
PushScope_Once(state) ==
  IF state.stack # <<>> THEN state
  ELSE [state EXCEPT !.scopes = Append(@, _ScopedIncludeState),
                     !.stack = Append(@, Len(state.scopes) + 1)]

\* Mutant: a condition within a condition shares its scope.
PushScope_Shared(state) ==
  IF state.stack # <<>> THEN [state EXCEPT !.stack = Append(@, Last(@))]
  ELSE [state EXCEPT !.scopes = Append(@, _ScopedIncludeState),
                     !.stack = Append(@, Len(state.scopes) + 1)]

PushScope(state) ==
  [state EXCEPT !.scopes = Append(@, _ScopedIncludeState),
                !.stack = Append(@, Len(state.scopes) + 1)]

\* list.pop of an empty list raises IndexError.
PopScope(state) ==
  IF state.stack = <<>> THEN [state EXCEPT !.raised = TRUE]
  ELSE [state EXCEPT !.stack = Front_(@)]

GetAll(state) ==
  UNION {DOMAIN state.scopes[i].line : i \in DOMAIN state.scopes}

ConditionDirective == IfDirective \cup ElseDirective \cup EndifDirective
IsCondition(line) == IsDirective(line, ConditionDirective)

\* _RE_PATTERN_INCLUDE: the header, and whether it stands in <>.
IsInclude(line) ==
  LET s == Strip(line) IN IsIncludeLine(line) /\ Len(s) >= 4 /\ s[4] \in {">", QUOTE}
Included(line) == Path[Strip(line)[3]]
IsSystem(line) == Strip(line)[2] = "<"

IncludeLinePaths(line, n) ==
  LET dir == Included(line).dir IN
     When(Starts(dir, {"/"}), n, "build/include", 4)
  \o When(Contains(dir, "\\"), n, "build/include", 4)
  \o When(Contains(dir, ".."), n, "build/include", 4)
  \o When(Starts(dir, {"."}), n, "build/include", 4)

StreamHeaders == {"stream", "fstream", "indstream", "iostream", "istream",
  "ostream", "parsestream", "pfstream", "stdiostream", "strstream"}

\* For a condition or an include line: the state after it and the errors.
CheckIncludeLine(path, lines, n, state) ==
  LET line == lines[n]
      opened == IF state.stack = <<>> THEN PushScope(state) ELSE state
      top == Last(opened.stack)
      scope == opened.scopes[top]
      header == Included(line)
      old == When(/\ ~IsSystem(line) /\ header.dir = <<>> /\ header.ext = "h",
                  n, "build/include", 4)
      again == header \in DOMAIN scope.line
      order == CheckNextIncludeOrder(scope,
                 _ClassifyInclude(path, header, IsSystem(line)))
      alpha == CheckIncludeAlphabeticalOrder(order.scope, header, n)
      seen == [alpha.scope EXCEPT !.line =
                 [h \in DOMAIN @ \cup {header} |-> IF h = header THEN n ELSE @[h]]]
      streams == When(/\ header.dir = <<>> /\ header.ext = ""
                      /\ Len(header.parts) = 1 /\ header.parts[1] \in StreamHeaders
                      /\ ~_IsTestFilename(path), n, "readability/streams", 3)
  IN CASE IsDirective(line, EndifDirective) ->
            [state |-> PopScope(state), errors |-> <<>>]
       [] IsDirective(line, ElseDirective) ->
            [state |-> LET popped == PopScope(state)
                       IN IF popped.raised THEN popped ELSE PushScope(popped),
             errors |-> <<>>]
       [] IsDirective(line, IfDirective) ->
            [state |-> PushScope(state), errors |-> <<>>]
       [] IsInclude(line) /\ ~again ->
            [state |-> [opened EXCEPT !.scopes[top] = seen],
             errors |-> old \o IncludeLinePaths(line, n)
                        \o When(~order.ok, n, "build/include_order", 4)
                        \o alpha.errors \o streams]
       [] IsInclude(line) /\ again ->
            [state |-> opened,
             errors |-> old \o IncludeLinePaths(line, n)
                        \o When(TRUE, n, "build/include", 4) \o streams]
       [] OTHER -> [state |-> opened, errors |-> <<>>]

-----------------------------------------------------------------------------
(* Headers that the text needs.                                            *)

Algorithms == {"std::copy", "std::max", "std::min", "std::min_element",
               "std::sort", "std::swap", "std::transform"}

\* Places of what the headers are needed for.  An algorithm needs something in
\* front of it, other than > or ., and an argument.
NeedsString(line) ==
  LET i == Find(line, "string") IN
  i > 0 /\ ~(i > 1 /\ line[i - 1] \in {"::", "ns::"})
NeedsAlgorithm(line) ==
  \E i \in 2 .. Len(line) - 2 :
    /\ line[i] \in Algorithms /\ line[i - 1] \notin {">", "."}
    /\ line[i + 1] = "(" /\ line[i + 2] # ")"
Needed(line) ==
  {h \in {"string"} : NeedsString(line)}
  \cup {h \in {"algorithm"} : NeedsAlgorithm(line)}
  \cup {Templates[line[i]] : i \in {j \in 1 .. Len(line) - 1 :
          line[j] \in DOMAIN Templates /\ line[j + 1] = "<"}}

\* Whether a line begins with the character #.
Directive == ConditionDirective \cup {"#include", "#define", "#undef", "#pragma"}

Inner(dir) ==
  [i \in 1 .. Len(dir) |->
     IF i > 1 /\ dir[i] \in {"public", "internal"} THEN "" ELSE dir[i]]
Pieces(path) == SelectSeq(Inner(path.dir), LAMBDA d : d # "") \o path.parts

\* Whether the names are those of one module, and the directories that have to
\* be put in front of the header's.
FilesBelongToSameModule(cc, h) ==
  LET whole == Pieces(WithoutSuffix(cc, {"cc"}, {"_unittest", "_test"}))
      end == Pieces(WithoutSuffix(h, {"h"}, {"-inl"}))
      same == cc.ext = "cc" /\ h.ext = "h" /\ IsSuffix(end, whole)
  IN [same |-> same,
      common |-> IF same THEN SubSeq(whole, 1, Len(whole) - Len(end)) ELSE <<>>]

\* The headers that the file of this path includes.
UpdateIncludeState(path) ==
  LET lines == Disk[path].utf8
  IN {Included(CleanseComments(lines[k])) :
        k \in {j \in DOMAIN lines : IsInclude(CleanseComments(lines[j]))}}

\* One error for each header that is needed and not included, by the file or by
\* the header of its own, at the last line that needs it.  Nothing is said of a
\* source file whose own header is not found.
CheckForIncludeWhatYouUse(path, elided, headers) ==
  LET full == WithoutSuffix(FullName(path), {"cc"}, {"_flymake"})
      own == {[h EXCEPT !.dir = FilesBelongToSameModule(full, h).common \o @] :
                h \in {g \in headers : FilesBelongToSameModule(full, g).same}}
      found == own \cap DOMAIN Disk
      all == headers \cup UNION {UpdateIncludeState(p) : p \in found}
      users(h) == {n \in DOMAIN elided : elided[n] # <<>>
                     /\ ~Starts(elided[n], Directive) /\ h \in Needed(elided[n])}
      missing == {h \in UNION {Needed(elided[n]) : n \in DOMAIN elided} :
                    users(h) # {} /\ Path[h] \notin all}
      named == SetToSeq(missing)
  IN IF IsSourceFile(path) /\ found = {} THEN <<>>
     ELSE [i \in DOMAIN named |->
             Error_(Max(users(named[i])), "build/include_what_you_use", 4)]

-----------------------------------------------------------------------------
(* Rules about the whole file.  The lines are as they are in the file.     *)

CheckForCopyright(lines) ==
  When(\A n \in 1 .. Min({Last_(lines), 10}) : ~Contains(lines[n], "Copyright"),
       1, "legal/copyright", 5)

GetHeaderGuardCPPVariable(path) ==
  LET header == WithoutSuffix(path, {"h"}, {"_flymake"})
  IN CppVar[ProjectScopeName(
       IF EndsIn(header.dir, {".flymake"})
       THEN [header EXCEPT !.dir = Front_(@)] ELSE header)]

Guard(n, reads) ==
  [line |-> n, cat |-> "build/header_guard", conf |-> 5, reads |-> reads]

\* The first #ifndef, the first #define and the last #endif are taken for the
\* guard.  "reads": the NOLINT of the line is looked for before the error is
\* reported.
CheckForHeaderGuard(path, lines) ==
  LET cppvar == GetHeaderGuardCPPVariable(path)
      with(t) == {n \in DOMAIN lines :
                    Len(Strip(lines[n])) >= 2 /\ Head(Strip(lines[n])) = t}
      arg(t) == Strip(lines[Min(with(t))])[2]
      endifs == {n \in DOMAIN lines : Starts(lines[n], {"#endif"})}
      end == lines[Max(endifs)]
      style == ~IsPrefix(cppvar, arg("#ifndef"))
      ended == Len(end) >= 3 /\ end[2] = "//" /\ IsPrefix(cppvar, end[3])
  IN CASE with("#ifndef") = {} -> <<Guard(0, FALSE)>>
       [] with("#ifndef") # {} /\ with("#define") = {} -> <<Guard(0, FALSE)>>
       [] OTHER ->
            (IF style THEN <<Guard(Min(with("#ifndef")), TRUE)>> ELSE <<>>)
            \o CASE endifs = {} -> <<Guard(Last_(lines), FALSE)>>
                 [] endifs # {} /\ arg("#define") # arg("#ifndef") ->
                      <<Guard(0, FALSE)>>
                 [] OTHER -> IF ended THEN <<>>
                             ELSE <<Guard(Max(endifs), TRUE)>>

REPLACEMENT == "\\ufffd"
CheckForUnicodeReplacementCharacters(lines) ==
  LET bad == {n \in DOMAIN lines : Contains(lines[n], REPLACEMENT)}
      sorted == InOrder(bad)
  IN [i \in DOMAIN sorted |-> Error_(sorted[i], "readability/utf8", 5)]

CheckForNewlineAtEOF(lines) ==
  When(Last_(lines) < 2 \/ lines[Last_(lines) - 1] # <<>>,
       Last_(lines) - 1, "whitespace/ending_newline", 5)
=============================================================================

----------------------------- MODULE MCCppLint -----------------------------
(***************************************************************************)
(* Files and command lines for CppLint: for each part of the program all   *)
(* texts up to some length over lines that matter to it.                   *)
(***************************************************************************)
EXTENDS CppLintChecks

Name(dir, base, ext) == [dir |-> dir, parts |-> base, ext |-> ext]
Source == Name(<<"a">>, <<"x">>, "cc")
Header == Name(<<"a">>, <<"x">>, "h")

MCPath == [t \in {"stdio.h", "vector", "string", "algorithm", "utility", "a/x.h",
                  "b/y.h", "a/a.h", "iostream", "/z.h", "sys/types.h"} |->
  CASE t = "stdio.h" -> Name(<<>>, <<"stdio">>, "h")
    [] t = "vector" -> Name(<<>>, <<"vector">>, "")
    [] t = "string" -> Name(<<>>, <<"string">>, "")
    [] t = "algorithm" -> Name(<<>>, <<"algorithm">>, "")
    [] t = "utility" -> Name(<<>>, <<"utility">>, "")
    [] t = "iostream" -> Name(<<>>, <<"iostream">>, "")
    [] t = "a/x.h" -> Header
    [] t = "a/a.h" -> Name(<<"a">>, <<"a">>, "h")
    [] t = "b/y.h" -> Name(<<"b">>, <<"y">>, "h")
    [] t = "/z.h" -> Name(<<"/">>, <<"z">>, "h")
    [] t = "sys/types.h" -> Name(<<"sys">>, <<"types">>, "h")]
MCAlphabet ==
  LET sorted == <<"/z.h", "a/a.h", "a/x.h", "algorithm", "b/y.h", "iostream",
                  "stdio.h", "string", "sys/types.h", "utility", "vector">>
  IN [h \in {MCPath[t] : t \in DOMAIN MCPath} |->
        CHOOSE i \in DOMAIN sorted : MCPath[sorted[i]] = h]
MCCppHeaders == {}
MCTemplates == [t \in {"vector"} |-> "vector"]
MCWorkingDirectory == <<"/", "src">>
InTree(path) == [path EXCEPT !.dir = MCWorkingDirectory \o @]
\* The own header of the source is there, and includes <vector>.
MCDisk ==
  [p \in {InTree(Source), InTree(Header)} |->
     [utf8 |-> IF p.ext = "h" THEN <<<<"#include", "<", "vector", ">">>>>
               ELSE <<>>]]
MCRepositories == {MCWorkingDirectory}
MCSvnDirectories == {}
MCBladeRoots == {MCWorkingDirectory}
MCCppVar == [p \in {Source, Header} |-> "A_X_H"]
MCRawPatterns == [t \in {"\\t"} |-> <<"whitespace/tab", 1>>]
MCLanguagePatterns == [t \in {"memset(p,n,0)"} |-> <<"runtime/memset", 4>>]
MCPatterns == [t \in {"if("} |-> <<"whitespace/parens", 5>>]

Texts(path, lines, length) ==
  {[path |-> path, readable |-> TRUE, utf8 |-> text, gbk |-> <<>>] :
     text \in UNION {[1 .. k -> lines] : k \in 1 .. length}}
Run(opts, text) == [opts |-> opts, files |-> <<text>>]
Runs(opts, files) == {Run(opts, f) : f \in files}
Opt(opt, val) == [opt |-> opt, val |-> val]

If == <<"#if", "A">>
Else == <<"#else">>
Endif == <<"#endif">>
Inc(t) == <<"#include", "<", t, ">">>
Own(t) == <<"#include", QUOTE, t, QUOTE>>

Branches == Texts(Source, {If, Else, Endif, <<"class", "c", "{">>, <<"}", ";">>}, 5)
\* The parentheses of a condition are those of the text around it.
Conditions == Texts(Source,
  {<<"#if", "defined", "(", "A", ")">>, Else, Endif, <<"class", "c">>, <<"{">>}, 4)
Blocks == Texts(Source,
  {<<"class", "c">>, <<"{">>, <<"namespace", "s", "{">>, <<"f", "(", ")", ";">>,
   <<"}">>, <<"public", ":">>}, 3)
Includes == Texts(Source,
  {If, Else, Endif, Inc("stdio.h"), Inc("vector"), Own("a/x.h"), Own("b/y.h"),
   Inc("sys/types.h")}, 4)
Comments == Texts(Source,
  {<<"/*", "x">>, <<"{", "*/">>, <<"*/">>, <<"/*", "x", "*/">>, <<"{">>,
   <<"x", "=", QUOTE, "/*", QUOTE, "+", QUOTE, "*/", QUOTE, ";">>}, 4)
Functions_ == Texts(Source,
  {<<"void", "f", "(", ")", "{">>, <<"}">>, <<IND, "x", ";">>}, 6)
\* Assembly in parentheses within a block, and in a block of its own.
Assembly == Texts(Source,
  {<<"f", "(", ")", "{">>, <<"asm", "(", "x">>, <<")", ";">>, <<"asm", "{">>, <<"}">>,
   <<"long", "x", ";">>}, 4)
\* Shorter than its trigger, and too long for a negative level.
ShortTest == [path |-> Source, readable |-> TRUE, gbk |-> <<>>, utf8 |-> <<
  <<"TEST", "(", ")", "{">>, <<IND, "x", ";">>, <<"}">> >>]
Brackets == Texts(Source,
  UNION {[1 .. k -> {"(", ")", "<", ">", "[", "]", ";"}] : k \in 1 .. 4}, 1)
Expressions == Texts(Source,
  {<<IND, "for", "(", "a", "(">>, <<IND, "b", ")", ")", ";">>,
   <<IND, ")", "x", "(">>, <<"}", "else", "if", "(">>, <<IND, "m", "<", "(", "a">>,
   <<IND, ",", "b", ")", ">", "y", ";">>}, 3)

LongType == <<"long", "x", ";">>
Nolint(code, category) == code \o <<"//", "NOLINT", "(", category, ")">>
Marked ==
  {LongType, Nolint(LongType, "runtime/int"), <<"//", "NOLINT">>,
   LongType \o <<"//", "NOLINT">>, Nolint(LongType, "bad"),
   <<"//", "GLOBAL_NOLINT", "(", "runtime/int", ")">>,
   <<"//", "Copyright">>}
Other == [path |-> Source, readable |-> TRUE, gbk |-> <<>>,
          utf8 |-> <<<<"//", "Copyright">>, LongType, LongType,
                     <<"strcpy", "(", ")", ";">>, <<>>>>]
\* An unknown category on a line that the file before may have marked.
Unknown == [Other EXCEPT !.utf8 =
  <<<<"//", "Copyright">>, <<"//", "GLOBAL_NOLINT", "(", "bad", ")">>, LongType>>]
Pairs == {[opts |-> <<>>, files |-> <<f, g>>] :
            f \in Texts(Source, Marked, 3), g \in {Other, Unknown}}

Guards == Texts(Header,
  {<<"#ifndef", "A_X_H">>, <<"#define", "A_X_H">>, <<"#define", "B">>,
   <<"#endif", "//", "A_X_H">>, <<"#endif", "//", "NOLINT">>,
   <<"using", "namespace", "s", ";">>}, 3)
\* The guard ends in a comment, on a line with a NOLINT.
Commented == [path |-> Header, readable |-> TRUE, gbk |-> <<>>, utf8 |-> <<
  <<"#ifndef", "A_X_H">>, <<"#define", "A_X_H">>, <<"/*", "x">>,
  <<"#endif", "//", "NOLINT">>, <<"*/">>, LongType, <<>> >>]

\* A file that most rules have something to say about.
Bad == [path |-> Source, readable |-> TRUE, gbk |-> <<>>, utf8 |-> <<
  Inc("iostream"), Own("/z.h"), <<"long", "\\t", "x", ";", "y", ";">>,
  <<"if(", "a", ")", "{">>, <<>>, <<"}">>, <<"else", "b", ";">>,
  <<IND, "for", "(", ";", ";", ")", ";">>, <<"CHECK", "(", "a", "==", "1", ")", ";">>,
  <<"a", "and", "b", "<", "c", ";">>, <<"std::sort", "(", "v", ")", ";">>,
  <<IND, "x", "std::sort", "(", "v", ")", ";">>, <<"ctime", "(", "t", ")", ";">>,
  <<IND, "*", "p", "++", ";">>, <<"make_pair", "<", "a", ">", "x", ";">>,
  <<"printf", "(", "f", "(", ")", ")", ";">>, <<"//", "TODO", "x">>,
  <<"a", "=", "int", "(", "b", ")", ";">>, <<"(", "int", ")", "b", ";">>,
  <<"do", "x", ";">>, <<"asm", "(", "x">>, <<If[1], "B">>, <<")", ";">>,
  <<"class", "c", "{">>, <<IND, "c", "(", "int", "x", ")", ";">>,
  <<IND, "memset(p,n,0)", ";">>, <<"private", ":">>, <<>>, <<"string", "s", ";">>,
  <<"}", "if", "(", "x", ")", "{">>, <<REPLACEMENT, CR>> >>]
Hang == [path |-> Source, readable |-> TRUE, gbk |-> <<>>, utf8 |-> <<
  <<IND, "{", "1", "}", ";">>, <<>> >>]
Gbk == [path |-> Source, readable |-> TRUE, utf8 |-> <<<<"x">>>>,
        gbk |-> <<<<"x", ";">>, <<>>>>]
Missing == [path |-> Source, readable |-> FALSE, utf8 |-> <<>>, gbk |-> <<>>]
Text == [path |-> Name(<<>>, <<"readme">>, "txt"), readable |-> TRUE,
         utf8 |-> <<<<"x">>>>, gbk |-> <<>>]

Options ==
  {<<>>, <<Opt("help", 0)>>, <<Opt("output", "xml")>>, <<Opt("filter", <<>>)>>,
   <<Opt("counting", "some")>>}
  \cup {<<Opt("verbose", v), Opt("counting", c), Opt("filter", f),
          Opt("output", "vs7"), Opt("quiet", 0)>> :
          v \in {0, 3, 5}, c \in {"total", "toplevel", "detailed"},
          f \in {<<Filter("-", "runtime")>>, <<Filter("", "build")>>,
                 <<Filter("-", "build"), Filter("+", "readability"),
                   Filter("+", "build/include"), Filter("-", "runtime/int")>>}}

MCCommands ==
  Runs(<<>>, Branches \cup Conditions \cup Blocks \cup Includes \cup Comments \cup Brackets
             \cup Expressions \cup Guards \cup Assembly)
  \cup Pairs
  \cup UNION {Runs(<<Opt("verbose", v)>>, Functions_) : v \in {0, 1}}
  \cup {Run(<<Opt("verbose", v)>>, ShortTest) : v \in {-2, -1}}
  \cup {[opts |-> o, files |-> <<Missing, Text, Bad, Gbk, Missing>>] : o \in Options}
  \cup {[opts |-> <<>>, files |-> <<>>], Run(<<>>, Hang), Run(<<>>, Commented)}
=============================================================================

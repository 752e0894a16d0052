------------------------------ MODULE MCGflags ------------------------------
(***************************************************************************)
(* Programs for Gflags: for each part of it all short sequences of calls   *)
(* over flags whose names, kinds and defaults meet.                        *)
(***************************************************************************)
EXTENDS GflagsChecks

MCRegistry == {FLAGS, SPECIAL_FLAGS, "OTHER"}
MCModule == {"main", "lib", GFLAGS}
MCNameOrder ==
  <<"?", "a", "flagfile", "help", "helpshort", "helpxml", "level", "list", "m", "n",
    "no?", "nohelp", "nohelpshort", "nohelpxml", "nov", "noverbose", "noverify",
    "undefok", "v", "verbose", "verify">>
MCNumber == ("0" :> 0) @@ ("1" :> 1) @@ ("0x1" :> 1) @@ ("5" :> 5) @@ ("9" :> 9)

Bool(name, short_name) == Declaration(name, short_name, "bool", One("False"))
Verbose == Bool("verbose", "v")
Verify == Bool("verify", "")
Level == [Declaration("level", "", "int", One("1")) EXCEPT !.lower = <<0>>, !.upper = <<5>>]
Lax == [Declaration("level", "n", "string", One("x")) EXCEPT !.allow_override = TRUE]
Name == Declaration("n", "", "string", None)
Multi == [Declaration("m", "", "string", List(<<"d">>)) EXCEPT !.multi = TRUE]
MultiInt == [Declaration("m", "a", "int", One("1")) EXCEPT !.multi = TRUE, !.upper = <<5>>]
Items == Declaration("list", "", "list", List(<<"x">>))
MultiEnum ==
  [Declaration("m", "a", "enum", One("1")) EXCEPT !.multi = TRUE, !.enum = {"1", "5", "15"}]
Enum == [Declaration("n", "", "enum", One("x")) EXCEPT !.enum = {"x", "y"}]
UndefOk == Declaration("undefok", "", "string", None)
NewHelp == Bool("help", "")
Override(decl) == [decl EXCEPT !.allow_override = TRUE]

Define(m, r, decl) == [call |-> "DEFINE", module |-> m, reg |-> r, decl |-> decl]
Here(decl) == {Define("main", FLAGS, decl)}
Del(r, name) == [call |-> "del", reg |-> r, name |-> name]
Assign(name, value) == [call |-> "set", reg |-> FLAGS, name |-> name, value |-> value]
Default(name, value) == [call |-> "SetDefault", reg |-> FLAGS, name |-> name, value |-> value]
Require(name) == [call |-> "MarkFlagAsRequired", reg |-> FLAGS, name |-> name]
With(name, r, q) == [call |-> name, reg |-> r, other |-> q]
DeclareKey(m, name) == [call |-> "DECLARE_key_flag", reg |-> FLAGS, module |-> m, name |-> name]
Adopt(m, from) ==
  [call |-> "ADOPT_module_key_flags", reg |-> FLAGS, module |-> m, from |-> from]
Gnu == [call |-> "UseGnuGetOpt", reg |-> FLAGS, use |-> TRUE]
Save == [call |-> "AppendFlagsIntoFile", reg |-> FLAGS, file |-> "saved"]
Restarts == [call |-> "restart"]
Resets == [call |-> "Reset", reg |-> FLAGS]
CommandLines(words, length) ==
  {[call |-> "parse", reg |-> FLAGS, words |-> words, length |-> length]}

\* Flags come and go in two registries.
Moves ==
  {Define("main", FLAGS, Verbose), Define("lib", FLAGS, Verbose), Define("lib", "OTHER", Verbose),
   Define("lib", FLAGS, Override(Bool("v", ""))), Define("lib", "OTHER", Override(Verify)),
   Define("main", FLAGS, Bool("v", "")), Define("main", "OTHER", NewHelp),
   Define("lib", FLAGS, NewHelp), Define("lib", FLAGS, UndefOk), Define("main", "OTHER", UndefOk)}
  \cup {Del(FLAGS, n) : n \in {"v", "verbose", "help"}} \cup {Del("OTHER", "v")}
  \cup {With("AppendFlagValues", FLAGS, "OTHER"), With("RemoveFlagValues", FLAGS, "OTHER"),
        DeclareKey("lib", "verbose"), DeclareKey("lib", "undefok"), Adopt("main", "lib"),
        Adopt("lib", "main"), Adopt("main", GFLAGS)}
Registrations == <<Moves, Moves, Moves, Moves>>
\* A registry is appended to itself or removed from itself.
Selves ==
  <<{Del(FLAGS, "?"), Del(FLAGS, "help")} \cup Here(Verbose),
    {With("AppendFlagValues", FLAGS, FLAGS), With("RemoveFlagValues", FLAGS, FLAGS)}>>

\* Values are assigned, made the default, checked, and given.
Changes ==
  {Assign("level", One("9")), Assign("level", One("5")), Assign("level", None),
   Default("level", One("9")), Default("level", One("5")), Default("level", None),
   Require("level"), Resets, Del(FLAGS, "level"), Define("main", FLAGS, Lax)}
Values ==
  <<Here(Level), Changes, Changes, Changes,
    CommandLines({LongIs("level", "0x1"), LongIs("level", "9")}, 1)>>
Multis(d) ==
  <<Here(d), CommandLines({LongIs("m", "1"), LongIs("m", "9")}, 2),
    {Default("m", List(<<"1", "9">>)), Default("m", List(<<"5", "1">>)), Default("m", None),
     Default("m", List(<<"15", "9">>)), Resets},
    CommandLines({LongIs("m", "1"), ShortIs("a", "5")}, 2), {Resets, Save}>>

\* Command lines of up to three arguments.
Arguments ==
  {Long("verbose"), Long("ver"), Long("verb"), Long("nov"), Short("v"), Short("vn"),
   Long("n"), ShortIs("n", "x"), LongIs("n", "x"), Word("x"), EndOfFlags,
   Long("unknown"), LongIs("undefok", "unknown,z"), Short("z"), Long("help")}
Options(use) ==
  <<Here(Verbose), Here(Verify), Here(Name), use, CommandLines(Arguments, 3)>>

\* Flag files that name themselves, each other, and one that is not there.
Directive(f) == LongIs("flagfile", f)
FlagFiles ==
  <<Here(Name), {Gnu, Resets},
    CommandLines({Directive("f"), Directive("g"), Long("flagfile"), Word("f"),
                  LongIs("n", "x"), EndOfFlags, Directive("none")}, 3)>>
FileSystems ==
  {("f" :> f) @@ ("g" :> g) :
     f \in {<<>>, <<Directive("g")>>, <<Directive("f"), LongIs("n", "y")>>,
            <<COMMENT, Directive("g"), Word("w")>>},
     g \in {<<Directive("f")>>, <<LongIs("n", "y"), Directive("none")>>, <<Long("flagfile")>>}}

\* What is saved and read again.
Kept == <<Here(Verbose), Here(Items), Here(Enum), Here(Multi),
          CommandLines({Short("v"), Long("noverbose"), LongIs("list", "x,y"), LongIs("list", ""),
                        LongIs("n", "y"), LongIs("n", "z"), LongIs("m", "1")}, 2),
          {Save}, {Restarts}, CommandLines({Directive("saved")}, 1)>>

MCPrograms ==
  [registrations |-> Registrations, selves |-> Selves, values |-> Values,
   multis |-> Multis(Multi), multi_ints |-> Multis(MultiInt), multi_enums |-> Multis(MultiEnum),
   options |-> Options({Resets}), gnu_options |-> Options({Gnu}),
   flag_files |-> FlagFiles, kept |-> Kept]
MCDisks == [p \in DOMAIN MCPrograms |-> IF p = "flag_files" THEN FileSystems ELSE {<<>>}]

\* An option that is not known and looks like another one, which is known, and
\* stands further up: --l is --level.
RestPrograms ==
  [lookalikes |->
     <<Here(Declaration("level", "", "string", None)),
       CommandLines({LongIs("undefok", "z,l"), Long("l"), Word("x"), Long("z"), Short("l")}, 5)>>]
RestDisks == [p \in DOMAIN RestPrograms |-> {<<>>}]
=============================================================================

------------------------------- MODULE Gflags -------------------------------
(***************************************************************************)
(* A program that uses thirdparty/gflags/gflags.py: its calls to the       *)
(* registries, and FLAGS(argv), which reads flag files, puts full names    *)
(* for abbreviations of booleans, has getopt take the options out, hands   *)
(* them to the flags one by one and asks the validators.  A loop over a    *)
(* dict takes its names in any order.                                      *)
(***************************************************************************)
EXTENDS GflagsRegistry

CONSTANTS
  Importer,  \* the module that imports gflags first
  Programs,  \* program -> what its first, its second, .. call may be
  Disks      \* program -> the flag files it may find: filename -> lines

\* Programs are finite, and their calls are about registries and modules that are
\* there; "do NOT use _SPECIAL_FLAGS from outside this module".
ASSUME ProgramsAssumption ==
  \A p \in DOMAIN Programs :
    /\ Len(Programs[p]) \in Nat
    /\ \A i \in 1 .. Len(Programs[p]) : \A c \in Programs[p][i] :
         /\ c.call # "restart" => c.reg \in Registry \ {SPECIAL_FLAGS}
         /\ c.call = "AppendFlagValues" => c.other \in Registry
         /\ c.call = "DEFINE" => c.module \in Module
         /\ c.call = "ADOPT_module_key_flags" => c.from \in Module

\* In the help the special flags have a section that is called like no module.
ASSUME ModulesAssumption == Importer \in Module /\ SPECIAL_FLAGS \notin Module

VARIABLES
  program,   \* the client
  made,      \* how many calls it has made
  pc,        \* "client" between calls, or where in a call it is
  op,        \* the call being made, or the last one
  todo,      \* the names a loop over a dict has not come to
  raised,    \* the exception of the last call, or ""
  files,     \* filename -> its lines, one argument or comment each
  saved,     \* the flag values when AppendFlagsIntoFile wrote a file
  frame      \* the local variables of FLAGS(argv), and of what it calls

client == <<program, made, op>>
disk == <<files, saved>>
vars == <<registry, client, disk, pc, todo, raised, frame>>

COMMENT == Word("#")
GFLAGS == "gflags"   \* the module gflags itself

-----------------------------------------------------------------------------
(* Calls that change a registry at once.                                   *)

Calls(name) ==
  IF pc = "client" /\ made < Len(Programs[program])
  THEN {c \in Programs[program][made + 1] : c.call = name} ELSE {}
Makes(c, error) ==
  /\ made' = made + 1 /\ op' = c /\ raised' = error
  /\ UNCHANGED <<program, pc, todo, frame>>

\* The bounds validator that DEFINE_integer adds.
BoundsValidator(decl) ==
  IF decl.type = "int" /\ ~decl.multi /\ (decl.lower # <<>> \/ decl.upper # <<>>)
  THEN <<Validator(NextIndex, "bounds", decl)>> ELSE <<>>

\* A flag is constructed, and registered if its names are free.
DefineFlag ==
  \E c \in Calls("DEFINE") : \E r \in {NewFlag(c.decl)} :
    LET id == Len(decls) + 1
    IN \/ /\ r.error = "" /\ DuplicateNames(c.reg, c.decl) = {}
          /\ decls' = Append(decls, c.decl)
          /\ state' = Append(state, [r.st EXCEPT !.validators = BoundsValidator(c.decl)])
          /\ flags' = [flags EXCEPT ![c.reg] = WithFlag(@, c.decl, id)]
          /\ byModule' = [byModule EXCEPT ![c.reg] = _RegisterFlag(@, c.module, id)]
          /\ modules' = [modules EXCEPT ![c.reg] = @ \cup {c.module}]
          /\ Makes(c, "")
          /\ UNCHANGED <<keyFlags, gnu, disk>>
       \/ /\ r.error # "" \/ DuplicateNames(c.reg, c.decl) # {}
          /\ Makes(c, IF r.error # "" THEN r.error ELSE "DuplicateFlagError")
          /\ UNCHANGED <<registry, disk>>

\* Flags of one registry become key flags in another, up to a name that is not
\* there.
Declare(acc, f, name, m) ==
  IF acc.error # "" THEN acc
  ELSE IF name \notin DOMAIN f THEN [acc EXCEPT !.error = "UnrecognizedFlagError"]
  ELSE [acc EXCEPT !.lists = _RegisterKeyFlag(@, m, f[name])]
DeclareKeys(lists, f, names, m) ==
  FoldLeft(LAMBDA acc, name : Declare(acc, f, name, m), [lists |-> lists, error |-> ""], names)

DECLARE_key_flag ==
  \E c \in Calls("DECLARE_key_flag") :
    LET from == IF c.name \in DOMAIN flags[SPECIAL_FLAGS] THEN SPECIAL_FLAGS ELSE c.reg
        r == DeclareKeys(keyFlags[c.reg], flags[from], <<c.name>>, c.module)
    IN /\ keyFlags' = [keyFlags EXCEPT ![c.reg] = r.lists]
       /\ Makes(c, r.error)
       /\ UNCHANGED <<decls, state, flags, byModule, modules, gnu, disk>>

AdoptedNames(c) ==
  LET ids == _GetKeyFlagsForModule(c.reg, c.from)
  IN [i \in DOMAIN ids |-> decls[ids[i]].name]

\* The special flags, which no other module registers, in the order of the dict.
SpecialNames == {<<"flagfile", "undefok">>, <<"undefok", "flagfile">>}

\* Whoever adopts the key flags of gflags itself adopts the special flags too.
ADOPT_module_key_flags ==
  \E c \in Calls("ADOPT_module_key_flags") : \E special \in SpecialNames :
    LET own == DeclareKeys(keyFlags[c.reg], flags[c.reg], AdoptedNames(c), c.module)
        r == IF c.from = GFLAGS /\ own.error = ""
             THEN DeclareKeys(own.lists, flags[SPECIAL_FLAGS], special, c.module) ELSE own
    IN /\ keyFlags' = [keyFlags EXCEPT ![c.reg] = r.lists]
       /\ Makes(c, r.error)
       /\ UNCHANGED <<decls, state, flags, byModule, modules, gnu, disk>>

\* del registry.name
DelAttr ==
  \E c \in {d \in Calls("del") : d.name \in DOMAIN flags[d.reg]} :
    /\ DelFlag(c.reg, c.name)
    /\ Makes(c, "")
    /\ UNCHANGED <<decls, state, modules, gnu, disk>>

\* registry.name = value: the value stays when a validator objects.
SetAttr ==
  \E c \in {d \in Calls("set") : d.name \in DOMAIN flags[d.reg]} :
    LET id == flags[c.reg][c.name] IN
    /\ state' = [state EXCEPT ![id].value = c.value]
    /\ Makes(c, AssertValidators(flags[c.reg], state', ToSet(state[id].validators)))
    /\ UNCHANGED <<decls, flags, byModule, modules, keyFlags, gnu, disk>>

SetDefaultOf ==
  \E c \in {d \in Calls("SetDefault") : d.name \in DOMAIN flags[d.reg]} :
    LET id == flags[c.reg][c.name] IN
    \E r \in {SetDefault(decls[id], state[id], c.value)} :
       /\ state' = [state EXCEPT ![id] = r.st]
       /\ Makes(c, IF r.error # "" THEN r.error
                   ELSE AssertValidators(flags[c.reg], state', ToSet(r.st.validators)))
       /\ UNCHANGED <<decls, flags, byModule, modules, keyFlags, gnu, disk>>

MarkFlagAsRequired ==
  \E c \in {d \in Calls("MarkFlagAsRequired") : d.name \in DOMAIN flags[d.reg]} :
    LET id == flags[c.reg][c.name]
        v == [Validator(NextIndex, "required", decls[id]) EXCEPT !.name = c.name]
    IN /\ state' = [state EXCEPT ![id].validators = Append(@, v)]
       /\ Makes(c, "")
       /\ UNCHANGED <<decls, flags, byModule, modules, keyFlags, gnu, disk>>

\* A name that is not there.
NoSuchFlag ==
  \E call \in {"del", "set", "SetDefault", "MarkFlagAsRequired"} :
    \E c \in {d \in Calls(call) : d.name \notin DOMAIN flags[d.reg]} :
      /\ Makes(c, IF call \in {"del", "SetDefault"} THEN "AttributeError" ELSE "KeyError")
      /\ UNCHANGED <<registry, disk>>

UseGnuGetOpt ==
  \E c \in Calls("UseGnuGetOpt") :
    /\ gnu' = [gnu EXCEPT ![c.reg] = c.use]
    /\ Makes(c, "")
    /\ UNCHANGED <<decls, state, flags, byModule, modules, keyFlags, disk>>

FlagValuesDict(r) == [n \in DOMAIN flags[r] |-> state[flags[r][n]].value]

\* Every name a flag has writes a line of it.
FlagsIntoString(r) ==
  FoldLeft(LAMBDA acc, n :
             IF n \notin DOMAIN flags[r] THEN acc
             ELSE acc \o Serialize(decls[flags[r][n]], state[flags[r][n]].value),
           <<>>, NameOrder)

\* The file is opened, and so made, before the flags are written as text.
AppendFlagsIntoFile ==
  \E c \in Calls("AppendFlagsIntoFile") :
    LET writes == \A id \in Range(flags[c.reg]) : CanSerialize(decls[id], state[id].value)
        lines == IF writes THEN FlagsIntoString(c.reg) ELSE <<>>
    IN /\ files' = [f \in DOMAIN files \cup {c.file} |->
                      IF f # c.file THEN files[f]
                      ELSE (IF f \in DOMAIN files THEN files[f] ELSE <<>>) \o lines]
       /\ saved' = IF writes THEN FlagValuesDict(c.reg) ELSE saved
       /\ Makes(c, IF writes THEN "" ELSE "TypeError")
       /\ UNCHANGED registry

\* The program is started again, and makes the same definitions.
Restart ==
  \E c \in Calls("restart") :
    /\ state' = [id \in DOMAIN state |->
                   [NewFlag(decls[id]).st EXCEPT !.validators = state[id].validators]]
    /\ Makes(c, "")
    /\ UNCHANGED <<decls, flags, byModule, modules, keyFlags, gnu, disk>>

-----------------------------------------------------------------------------
(* Calls that loop over the names of a dict and may raise on the way.      *)

Start(c, where, names) ==
  /\ made' = made + 1 /\ op' = c /\ raised' = ""
  /\ pc' = where /\ todo' = names
  /\ UNCHANGED <<registry, disk, program, frame>>

\* In AppendFlagValues, the names of the other registry under which a flag has
\* its long name.
AppendFlagValues == \E c \in Calls("AppendFlagValues") : Start(c, "append", OwnNames(c.other))
RemoveFlagValues == \E c \in Calls("RemoveFlagValues") : Start(c, "remove", DOMAIN flags[c.other])
Reset == \E c \in Calls("Reset") : Start(c, "reset", DOMAIN flags[c.reg])

Returns == pc' = "client" /\ todo' = {}
Fails(error) == Returns /\ raised' = error
Continues(n) == todo' = todo \ {n} /\ UNCHANGED <<pc, raised>>
\* A loop over a dict raises RuntimeError where it finds that the dict has got
\* another size: a registry is appended to itself, or removed from itself.
ContinuesOver(n) ==
  IF op.other = op.reg /\ Cardinality(DOMAIN flags'[op.reg]) # Cardinality(DOMAIN flags[op.reg])
  THEN Fails("RuntimeError") ELSE Continues(n)

AppendFlag ==
  pc = "append" /\ \E n \in todo :
    LET id == flags[op.other][n] IN
    /\ IF DuplicateNames(op.reg, decls[id]) = {}
       THEN flags' = [flags EXCEPT ![op.reg] = WithFlag(@, decls[id], id)] /\ ContinuesOver(n)
       ELSE UNCHANGED flags /\ Fails("DuplicateFlagError")
    /\ UNCHANGED <<decls, state, byModule, modules, keyFlags, gnu, disk, client, frame>>

RemoveFlag ==
  pc = "remove" /\ \E n \in todo :
    /\ IF n \in DOMAIN flags[op.reg] THEN DelFlag(op.reg, n) /\ ContinuesOver(n)
       ELSE UNCHANGED <<flags, byModule, keyFlags>> /\ Fails("AttributeError")
    /\ UNCHANGED <<decls, state, modules, gnu, disk, client, frame>>

ResetFlag ==
  pc = "reset" /\ \E n \in todo :
    LET id == flags[op.reg][n] IN
    \E r \in {Unparse(decls[id], state[id])} :
       /\ state' = [state EXCEPT ![id] = r.st]
       /\ IF r.error = "" THEN Continues(n) ELSE Fails(r.error)
       /\ UNCHANGED <<decls, flags, byModule, modules, keyFlags, gnu, disk, client, frame>>

LoopEnds ==
  /\ pc \in {"append", "remove", "reset"} /\ todo = {}
  /\ Returns
  /\ UNCHANGED <<registry, disk, client, raised, frame>>

-----------------------------------------------------------------------------
(* registry(argv), first ReadFlagsFromFiles.  argv is without the name of  *)
(* the program.                                                            *)

NoFrame ==
  [rest |-> <<>>,          \* arguments ReadFlagsFromFiles has not come to
   stack |-> <<>>,         \* the files it is in, and their lines left
   parsed_files |-> <<>>,  \* the files it has opened
   argv |-> <<>>,          \* what it returns; later with full names
   original_argv |-> <<>>, args |-> <<>>, optlist |-> <<>>,
   unrecognized_opts |-> <<>>, undefok_flags |-> {}, unparsed_args |-> <<>>,
   \* History, for the properties: where in argv the args stand, and where those
   \* stood that were taken out, in the order in which they were.
   places |-> <<>>, taken |-> <<>>]

\* A command line is any sequence of the words the call may be given.
CallFlags ==
  \E c \in Calls("parse") : \E k \in 0 .. c.length : \E argv \in [1 .. k -> c.words] :
    /\ made' = made + 1 /\ raised' = "" /\ pc' = "files"
    /\ op' = [call |-> "parse", reg |-> c.reg, argv |-> argv]
    /\ frame' = [NoFrame EXCEPT !.rest = argv]
    /\ UNCHANGED <<registry, disk, program, todo>>

Keeps == UNCHANGED <<registry, disk, client, todo>>
Throws(error) == pc' = "client" /\ raised' = error /\ frame' = NoFrame
Goes(where) == pc' = where /\ UNCHANGED raised

IsFlagFileDirective(a) == a.dash > 0 /\ a.name = "flagfile"

\* Mutant: only the file it is in is known, and only that is gone back to.
Opened_Last(f, filename) ==
  [f EXCEPT !.stack = <<[file |-> filename, lines |-> files[filename]]>>,
            !.parsed_files = <<filename>>]

Opened(f, filename) ==
  [f EXCEPT !.stack = <<[file |-> filename, lines |-> files[filename]]>> \o @,
            !.parsed_files = Append(@, filename)]
Open(f, filename) ==
  IF filename \in DOMAIN files THEN frame' = Opened(f, filename) /\ Goes("files")
  ELSE Throws("CantOpenFlagFileError")

\* One argument of the command line.  The name of the file may be the next one;
\* -- ends the flags, and so does an argument that is none, unless for gnu_getopt.
ReadArgument ==
  /\ pc = "files" /\ frame.stack = <<>> /\ frame.rest # <<>>
  /\ LET a == Head(frame.rest)
         behind == Tail(frame.rest)
         ends == a = EndOfFlags \/ (a.dash = 0 /\ ~gnu[op.reg])
     IN \/ /\ ~IsFlagFileDirective(a)
           /\ frame' = [frame EXCEPT !.argv = @ \o (IF ends THEN frame.rest ELSE <<a>>),
                                     !.rest = IF ends THEN <<>> ELSE behind]
           /\ Goes("files")
        \/ IsFlagFileDirective(a) /\ a.eq /\ Open([frame EXCEPT !.rest = behind], a.val)
        \/ /\ IsFlagFileDirective(a) /\ ~a.eq
           /\ IF behind = <<>> THEN Throws("IllegalFlagValue")
              ELSE Open([frame EXCEPT !.rest = Tail(behind)], Text(Head(behind)))
  /\ Keeps

\* One line of the file read last.  A line has its end, so that --flagfile alone
\* is no directive there, but the last line may have none, and raises then.  A
\* file that has been read is left out.
ReadLine ==
  /\ pc = "files" /\ frame.stack # <<>> /\ Head(frame.stack).lines # <<>>
  /\ LET line == Head(Head(frame.stack).lines)
         next == [frame EXCEPT !.stack[1].lines = Tail(@)]
     IN \/ /\ IsFlagFileDirective(line) /\ line.eq
           /\ IF Contains(frame.parsed_files, line.val)
              THEN frame' = next /\ Goes("files") ELSE Open(next, line.val)
        \/ /\ ~(IsFlagFileDirective(line) /\ line.eq)
           /\ frame' = IF line = COMMENT THEN next ELSE [next EXCEPT !.argv = Append(@, line)]
           /\ Goes("files")
        \/ /\ IsFlagFileDirective(line) /\ ~line.eq /\ Len(Head(frame.stack).lines) = 1
           /\ Throws("FlagsError")
  /\ Keeps

CloseFile ==
  /\ pc = "files" /\ frame.stack # <<>> /\ Head(frame.stack).lines = <<>>
  /\ frame' = [frame EXCEPT !.stack = Tail(@)]
  /\ Goes("files") /\ Keeps

\* Booleans get their values, wherever in argv something looks like one.
ExpandBooleans ==
  /\ pc = "files" /\ frame.stack = <<>> /\ frame.rest = <<>>
  /\ \E expanded \in Expansions(frame.argv, DOMAIN flags[op.reg], BooleanNames(op.reg)) :
       frame' = [frame EXCEPT !.original_argv = frame.argv,
                              !.argv = expanded, !.args = expanded,
                              !.places = [i \in DOMAIN expanded |-> i]]
  /\ Goes("getopt") /\ Keeps

\* getopt is called until it recognises every option; each one it does not is
\* taken out, at the first place where it stands.
ParseOptions ==
  /\ pc = "getopt"
  /\ \E r \in {GetOpt(frame.args, gnu[op.reg], DOMAIN flags[op.reg], BooleanNames(op.reg))} :
     LET at == SelectInSeq(frame.args, LAMBDA a : IsOffender(a, r.opt))
         fatal == r.opt = "" \/ r.opt \in DOMAIN flags[op.reg] \/ at = 0
     IN \/ /\ ~r.error
           /\ frame' = [frame EXCEPT !.optlist = r.opts, !.unparsed_args = r.unparsed]
           /\ Goes("apply")
        \/ r.error /\ fatal /\ Throws("FlagsError")
        \/ /\ r.error /\ ~fatal
           /\ frame' = [frame EXCEPT !.unrecognized_opts = Append(@, r.opt),
                                     !.args = RemoveAt(@, at), !.places = RemoveAt(@, at),
                                     !.taken = Append(@, frame.places[at])]
           /\ Goes("getopt")
  /\ Keeps

\* One option goes to its flag; those before it have changed theirs already.
ApplyOption ==
  /\ pc = "apply" /\ frame.optlist # <<>>
  /\ LET option == Head(frame.optlist)
         next == [frame EXCEPT !.optlist = Tail(@)]
         names == ToSet(Split(option.val))
         id == flags[op.reg][option.name]
         arg == IF Boolean(decls[id]) /\ option.short THEN "1" ELSE option.val
     IN IF option.name = "undefok"
        THEN /\ frame' = [next EXCEPT !.undefok_flags = @ \cup names \cup {"no" \o n : n \in names}]
             /\ Goes("apply") /\ UNCHANGED state
        ELSE \E r \in {Parse(decls[id], state[id], One(arg))} :
             /\ state' = [state EXCEPT ![id] = r.st]
             /\ CASE r.error = "" -> frame' = next /\ Goes("apply")
                  [] r.error = "SystemExit" ->
                       frame' = NoFrame /\ pc' = "exit" /\ raised' = r.error
                  [] OTHER -> Throws(r.error)
  /\ UNCHANGED <<decls, flags, byModule, modules, keyFlags, gnu, disk, client, todo>>

\* Mutant: the arguments are counted from the start, as if none had been taken out.
Returned_FromStart(f, use_gnu) ==
  IF use_gnu THEN f.unparsed_args
  ELSE SubSeq(f.original_argv, Len(f.args) - Len(f.unparsed_args) + 1, Len(f.original_argv))

\* The arguments behind the options, as they were before they were expanded;
\* but not for gnu_getopt, which may have found them anywhere.
Returned(f, use_gnu) ==
  IF use_gnu THEN f.unparsed_args
  ELSE LET given == f.original_argv
       IN SubSeq(given, Len(given) - Len(f.unparsed_args) + 1, Len(given))

CheckAndReturn ==
  /\ pc = "apply" /\ frame.optlist = <<>>
  /\ LET unknown == ToSet(frame.unrecognized_opts) \ frame.undefok_flags
         error == _AssertAllValidators(op.reg)
     IN \/ unknown # {} /\ Throws("UnrecognizedFlagError")
        \/ unknown = {} /\ error # "" /\ Throws(error)
        \/ /\ unknown = {} /\ error = ""
           /\ frame' = [frame EXCEPT !.unparsed_args = Returned(frame, gnu[op.reg])]
           /\ pc' = "client" /\ UNCHANGED raised
  /\ Keeps

-----------------------------------------------------------------------------
(* The specification.                                                      *)

Declaration(name, short_name, type, default) ==
  [name |-> name, short_name |-> short_name, type |-> type, multi |-> FALSE,
   lower |-> <<>>, upper |-> <<>>, enum |-> {}, allow_override |-> FALSE,
   default |-> default]
HelpFlag(name, short_name) ==
  [Declaration(name, short_name, "help", One("")) EXCEPT !.allow_override = TRUE]

\* What importing gflags defines.  DEFINE_flag takes the importing module for
\* the one that defines the flags.
ImportedFlags ==
  <<HelpFlag("help", "?"), HelpFlag("helpshort", ""), HelpFlag("helpxml", ""),
    Declaration("flagfile", "", "string", One("")),
    Declaration("undefok", "", "string", One(""))>>
Imported(r) ==
  CASE r = FLAGS -> [n \in {"help", "?", "helpshort", "helpxml"} |->
                       IF n = "helpshort" THEN 2 ELSE IF n = "helpxml" THEN 3 ELSE 1]
    [] r = SPECIAL_FLAGS -> [n \in {"flagfile", "undefok"} |-> IF n = "flagfile" THEN 4 ELSE 5]
    [] OTHER -> <<>>

Init ==
  /\ decls = ImportedFlags
  /\ state = [i \in 1 .. 5 |-> NewFlag(ImportedFlags[i]).st]
  /\ flags = [r \in Registry |-> Imported(r)]
  /\ byModule = [r \in Registry |-> [m \in Module |->
                   CASE m = Importer /\ r = FLAGS -> <<1, 2, 3>>
                     [] m = Importer /\ r = SPECIAL_FLAGS -> <<4, 5>>
                     [] OTHER -> <<>>]]
  /\ modules = [r \in Registry |-> IF r \in {FLAGS, SPECIAL_FLAGS} THEN {Importer} ELSE {}]
  /\ keyFlags = [r \in Registry |-> [m \in Module |-> <<>>]]
  /\ gnu = [r \in Registry |-> FALSE]
  /\ program \in DOMAIN Programs /\ made = 0 /\ op = [call |-> "import"]
  /\ files \in Disks[program] /\ saved = <<>>
  /\ pc = "client" /\ todo = {} /\ raised = ""
  /\ frame = NoFrame

Step ==
  \/ DefineFlag \/ DECLARE_key_flag \/ ADOPT_module_key_flags \/ DelAttr \/ SetAttr
  \/ SetDefaultOf \/ MarkFlagAsRequired \/ NoSuchFlag \/ UseGnuGetOpt
  \/ AppendFlagsIntoFile \/ Restart
  \/ AppendFlagValues \/ RemoveFlagValues \/ Reset
  \/ AppendFlag \/ RemoveFlag \/ ResetFlag \/ LoopEnds
  \/ CallFlags \/ ReadArgument \/ ReadLine \/ CloseFile \/ ExpandBooleans
  \/ ParseOptions \/ ApplyOption \/ CheckAndReturn

\* The client has made its calls, or a help flag has left the program.
Ended == pc = "exit" \/ (pc = "client" /\ made = Len(Programs[program]))
Stay == Ended /\ UNCHANGED vars
Next == Step \/ Stay

\* One thread that nothing waits for: it takes steps until it ends.
Fairness == []<>Ended \/ []<><<TRUE>>_vars
Spec == Init /\ [][Next]_vars /\ Fairness
=============================================================================

--------------------------- MODULE GflagsRegistry ---------------------------
(***************************************************************************)
(* The classes Flag and FlagValues of thirdparty/gflags/gflags.py: flags   *)
(* and the registries that hold them under their names.  A flag is a       *)
(* number; its declaration never changes, its state does.                  *)
(*                                                                         *)
(* A call that raises leaves the name of the exception in "raised", and    *)
(* the client goes on: each is documented as one a caller may catch.       *)
(***************************************************************************)
EXTENDS GflagsText

CONSTANTS
  Registry,   \* the FlagValues objects
  Module      \* the names of the modules that define flags

\* The global registry and the one of the flags gflags treats specially.
FLAGS == "FLAGS"
SPECIAL_FLAGS == "_SPECIAL_FLAGS"
ASSUME RegistriesAreThere == {FLAGS, SPECIAL_FLAGS} \subseteq Registry

VARIABLES
  decls,      \* flag -> what it was constructed with
  state,      \* flag -> .value, .default, .present, .validators
  flags,      \* registry -> __flags: name -> flag
  byModule,   \* registry -> __flags_by_module: module -> sequence of flags
  modules,    \* registry -> the modules that __flags_by_module has a sequence for
  keyFlags,   \* registry -> __key_flags_by_module: module -> sequence of flags
  gnu         \* registry -> __use_gnu_getopt

registry == <<decls, state, flags, byModule, modules, keyFlags, gnu>>

-----------------------------------------------------------------------------
(* Flags.                                                                  *)

\* A call's result: the new state of the flag, and what it raised.
Done(st) == [st |-> st, error |-> ""]
Raises(st, error) == [st |-> st, error |-> error]

\* Parse of Flag.
ParseOne(decl, st, value) ==
  LET Takes(parsed) ==
        IF parsed = Illegal THEN Raises(st, "IllegalFlagValue")
        ELSE Done([st EXCEPT !.value = parsed, !.present = @ + 1])
  IN Takes(ParsedBy(decl, value))

\* Mutant: what is there is kept whether or not it was given by the user.
ParseMulti_Keeps(decl, st, value) ==
  LET Adds(acc, r) ==
        IF acc.error # "" \/ r.error # "" THEN [acc EXCEPT !.error = @ \o r.error]
        ELSE [acc EXCEPT !.st = r.st, !.values = @ \o r.st.value.items]
      Item(acc, item) == Adds(acc, ParseOne(decl, acc.st, One(item)))
      Takes(last) == IF last.error # "" THEN Raises(last.st, last.error)
                     ELSE Done([last.st EXCEPT !.value = List(last.values)])
  IN Takes(FoldLeft(Item, [st |-> st, error |-> "", values |-> st.value.items], value.items))

\* Parse of MultiFlag.  Each item goes through .value; when one is illegal, or
\* .value was no list, what was parsed last stays there.
ParseMulti(decl, st, value) ==
  LET before == IF st.present > 0 THEN st.value ELSE List(<<>>)
      Adds(acc, r) ==
        IF acc.error # "" THEN acc
        ELSE IF r.error # "" THEN [acc EXCEPT !.error = r.error]
        ELSE IF before.kind # "list" THEN [acc EXCEPT !.st = r.st, !.error = "AttributeError"]
        ELSE [acc EXCEPT !.st = r.st, !.values = @ \o r.st.value.items]
      Item(acc, item) == Adds(acc, ParseOne(decl, acc.st, One(item)))
      Takes(last) ==
        IF last.error # "" THEN Raises(last.st, last.error)
        ELSE Done([last.st EXCEPT !.value = IF before.kind = "list" THEN List(last.values)
                                            ELSE before])
  IN Takes(FoldLeft(Item, [st |-> st, error |-> "", values |-> before.items], value.items))

\* A help flag prints its help and leaves the program, for any text but "".
ParseHelp(st, value) ==
  IF value = One("") THEN Done(st) ELSE Raises(st, "SystemExit")

Parse(decl, st, value) ==
  CASE decl.type = "help" -> ParseHelp(st, value)
    [] decl.type # "help" /\ decl.multi -> ParseMulti(decl, st, value)
    [] OTHER -> ParseOne(decl, st, value)

Unparse(decl, st) ==
  LET Unset(r) == IF r.error # "" THEN r ELSE Done([r.st EXCEPT !.present = 0])
  IN Unset(IF st.default = None THEN Done([st EXCEPT !.value = None])
           ELSE Parse(decl, st, st.default))

\* The new default is there before anything is known of it.
SetDefault(decl, st, value) ==
  IF value = None /\ decl.allow_override
  THEN Raises(st, "DuplicateFlagCannotPropagateNoneToSwig")
  ELSE Unparse(decl, [st EXCEPT !.default = value])

\* Flag.__init__
NewFlag(decl) ==
  SetDefault(decl, [value |-> None, default |-> None, present |-> 0, validators |-> <<>>],
             decl.default)

\* Mutant: booleans are written without their no.
Serialize_Bool(decl, value) ==
  IF value = None THEN <<>> ELSE
  CASE decl.type = "bool" -> <<Long(decl.name)>>
    [] decl.type = "list" -> <<LongIs(decl.name, Join(value.items, ","))>>
    [] OTHER -> <<LongIs(decl.name, Join(value.items, " --" \o decl.name \o "="))>>

\* The line of a flag file that sets the value.  The items of a multi flag are
\* all on this line, which is one argument when it is read; where an illegal item
\* has left a single text, its letters are taken for the items.
Serialize(decl, value) ==
  LET loops == decl.multi \/ decl.type = "list"
      items == IF loops /\ value.kind = "one" THEN Letters(value.items[1]) ELSE value.items
  IN IF value = None \/ (decl.multi /\ items = <<>>) THEN <<>> ELSE
     CASE decl.type = "bool" ->
            <<Long(IF value = One("True") THEN decl.name ELSE "no" \o decl.name)>>
       [] decl.type = "list" -> <<LongIs(decl.name, Join(items, ","))>>
       [] OTHER -> <<LongIs(decl.name, Join(items, " --" \o decl.name \o "="))>>

\* A multi flag that is left with a number raises TypeError.
CanSerialize(decl, value) == ~(decl.multi /\ decl.type \in {"int", "bool"} /\ value.kind = "one")

-----------------------------------------------------------------------------
(* Registries.                                                             *)

Names(decl) == {decl.name} \cup ({decl.short_name} \ {""})
OwnNames(r) == {n \in DOMAIN flags[r] : decls[flags[r][n]].name = n}
BooleanNames(r) == {n \in DOMAIN flags[r] : Boolean(decls[flags[r][n]])}

\* Mutant: the short name is not looked at.
DuplicateNames_Long(r, decl) ==
  {n \in {decl.name} \cap DOMAIN flags[r] :
     ~decl.allow_override /\ ~decls[flags[r][n]].allow_override}

\* What __setitem__ raises DuplicateFlagError for, before it writes anything.
DuplicateNames(r, decl) ==
  {n \in Names(decl) \cap DOMAIN flags[r] :
     ~decl.allow_override /\ ~decls[flags[r][n]].allow_override}

\* The dict after __setitem__.
WithFlag(f, decl, id) ==
  [n \in DOMAIN f \cup Names(decl) |-> IF n \in Names(decl) THEN id ELSE f[n]]

\* Mutant: the short name is not looked at.
_FlagIsRegistered_Long(f, id) == \E n \in {decls[id].name} \cap DOMAIN f : f[n] = id

\* Whether a dict still holds a flag under a name of its own.
_FlagIsRegistered(f, id) == \E n \in Names(decls[id]) \cap DOMAIN f : f[n] = id

_RegisterFlag(lists, m, id) == [lists EXCEPT ![m] = Append(@, id)]
_RegisterKeyFlag(lists, m, id) ==
  IF Contains(lists[m], id) THEN lists ELSE [lists EXCEPT ![m] = Append(@, id)]
Without(s, id) == FoldLeft(LAMBDA acc, i : IF i = id THEN acc ELSE Append(acc, i), <<>>, s)
_RemoveFlag(lists, id) == [m \in Module |-> Without(lists[m], id)]

Joined(s, t) ==
  FoldLeft(LAMBDA acc, id : IF Contains(acc, id) THEN acc ELSE Append(acc, id), s, t)
_GetKeyFlagsForModule(r, m) == Joined(byModule[r][m], keyFlags[r][m])

\* Mutant: the lists forget a flag with the first of its names.
DelFlag_Name(r, name) ==
  LET id == flags[r][name]
      rest == [n \in DOMAIN flags[r] \ {name} |-> flags[r][n]]
  IN /\ flags' = [flags EXCEPT ![r] = rest]
     /\ byModule' = [byModule EXCEPT ![r] = _RemoveFlag(@, id)]
     /\ keyFlags' = [keyFlags EXCEPT ![r] = _RemoveFlag(@, id)]

\* What __delattr__ does with a name that is there.
DelFlag(r, name) ==
  LET id == flags[r][name]
      rest == [n \in DOMAIN flags[r] \ {name} |-> flags[r][n]]
      Forget(lists) == IF _FlagIsRegistered(rest, id) THEN lists ELSE _RemoveFlag(lists, id)
  IN /\ flags' = [flags EXCEPT ![r] = rest]
     /\ byModule' = [byModule EXCEPT ![r] = Forget(@)]
     /\ keyFlags' = [keyFlags EXCEPT ![r] = Forget(@)]

-----------------------------------------------------------------------------
(* Validators, whose class is external: each has the order of its creation *)
(* and a check of the value a name has in the registry it is asked for.    *)

NextIndex == 1 + FoldLeft(LAMBDA acc, st : acc + Len(st.validators), 0, state)
Validator(index, check, decl) ==
  [index |-> index, check |-> check, name |-> decl.name,
   lower |-> decl.lower, upper |-> decl.upper]

\* A text that is no number, or a list, is larger than every number.
Satisfies(v, value) ==
  IF v.check = "required" THEN value # None
  ELSE \/ value = None
       \/ value.kind = "one" /\ value.items[1] \in DOMAIN Number
          /\ ~IsOutsideBounds(v, Number[value.items[1]])
       \/ (value.kind = "list" \/ value.items[1] \notin DOMAIN Number) /\ v.upper = <<>>

\* The exception of the first that fails, or "".
AssertValidators(f, st, validators) ==
  LET bad == {v \in validators :
                v.name \in DOMAIN f => ~Satisfies(v, st[f[v.name]].value)}
      first == CHOOSE v \in bad : \A w \in bad : v.index <= w.index
  IN IF bad = {} THEN ""
     ELSE IF first.name \in DOMAIN f THEN "IllegalFlagValue" ELSE "KeyError"

_AssertAllValidators(r) ==
  AssertValidators(flags[r], state, UNION {ToSet(state[id].validators) : id \in Range(flags[r])})
=============================================================================

---------------------------- MODULE GflagsChecks ----------------------------
(***************************************************************************)
(* What makes the registries of gflags.py correct, and FLAGS(argv).        *)
(***************************************************************************)
EXTENDS Gflags

Flags == DOMAIN decls
ReturnedFrom(call) == pc = "client" /\ op.call = call /\ raised = ""

-----------------------------------------------------------------------------
(* Registries.                                                             *)

\* _FlagIsRegistered looks at two entries of the dict and says that "the flag
\* cannot be registered under any other name", so that it need not search: it
\* finds what a search through the whole dict finds, after any number of
\* definitions, replacements, deletions, and flags moved between registries.
SearchIsFull ==
  \A r \in Registry : \A id \in Flags :
    _FlagIsRegistered(flags[r], id) <=> \E n \in DOMAIN flags[r] : flags[r][n] = id

\* __setitem__: a name comes to stand for another flag only when one of the two
\* allows to be overridden, be it defined or appended, by its long name or the
\* short one.
NamesAreSafe ==
  [][\A r \in Registry : \A n \in DOMAIN flags[r] \cap DOMAIN flags'[r] :
       \/ flags'[r][n] = flags[r][n]
       \/ decls'[flags'[r][n]].allow_override
       \/ decls[flags[r][n]].allow_override]_vars

Listed(lists, r, id) == \E m \in Module : Contains(lists[r][m], id)

\* __delattr__: the lists of a registry forget a flag with the last of its
\* names, not before and not later.
ListsFollowNames ==
  [][\A r \in Registry, id \in Flags :
       LET gone == id \notin Range(flags'[r])
       IN /\ Listed(byModule, r, id) /\ ~Listed(byModule', r, id) => gone
          /\ Listed(keyFlags, r, id) /\ ~Listed(keyFlags', r, id) => gone
          /\ (op'.call \in {"del", "RemoveFlagValues"} /\ id \in Range(flags[r]) /\ gone
                => ~Listed(byModule', r, id) /\ ~Listed(keyFlags', r, id))]_vars

\* Mutant: whatever the module has defined is printed.
RenderFlagList_All(r, ids) == ids

\* __RenderFlagList: a flag that was deleted or replaced since it was listed is
\* left out, and so is one that was printed before.
RenderFlagList(r, ids) ==
  {id \in ids : \E q \in {r, SPECIAL_FLAGS} :
     decls[id].name \in DOMAIN flags[q] /\ flags[q][decls[id].name] = id}

\* A section for each module and one for the special flags; one for all flags
\* if no module has defined any.
GetHelp(r) ==
  LET special == Range(flags[SPECIAL_FLAGS]) IN
  [s \in modules[r] \cup {SPECIAL_FLAGS} |->
     RenderFlagList(r, IF s # SPECIAL_FLAGS THEN ToSet(byModule[r][s])
                       ELSE IF modules[r] = {} THEN Range(flags[r]) \cup special
                       ELSE special)]

\* GetHelp: however the lists and the dict have come apart, a flag is printed in
\* one section only, the special flags in theirs; a flag that a module defined,
\* if it still stands for its name, in the section of that module; and if the
\* flag printed for a name is not the one the name stands for, it is the special
\* flag of that name, the only one that may be printed beside it.
HelpIsCurrent ==
  pc = "client" => \A r \in Registry \ {SPECIAL_FLAGS} :
    LET help == GetHelp(r) IN
    /\ \A s, t \in DOMAIN help : s # t => help[s] \cap help[t] = {}
    /\ Range(flags[SPECIAL_FLAGS]) \subseteq help[SPECIAL_FLAGS]
    /\ \A n \in OwnNames(r) : \A m \in Module :
         Contains(byModule[r][m], flags[r][n]) => m \in DOMAIN help /\ flags[r][n] \in help[m]
    /\ \A s \in DOMAIN help : \A id \in help[s] :
         LET n == decls[id].name IN
         \/ n \in DOMAIN flags[r] /\ flags[r][n] = id
         \/ s = SPECIAL_FLAGS /\ n \in DOMAIN flags[s] /\ flags[s][n] = id

-----------------------------------------------------------------------------
(* FLAGS(argv).                                                            *)

\* ShortestUniquePrefixes, which compares neighbours only: an abbreviation that
\* is accepted starts no other name, and no shorter one would do.
PrefixesAreUnique ==
  pc = "client" /\ op.call = "DEFINE" =>
    LET sorted == SortedFlags(DOMAIN flags[op.reg], BooleanNames(op.reg))
        shortest == ShortestUniquePrefixes(DOMAIN flags[op.reg], BooleanNames(op.reg))
        StartsAnother(p, i) == \E j \in DOMAIN sorted \ {i} : IsPrefix(p, sorted[j])
    IN \A i \in DOMAIN sorted :
         LET n == sorted[i]
             p == shortest[n]
         IN /\ IsPrefix(p, n)
            /\ p # n => ~StartsAnother(p, i)
            /\ Len(p) > 1 => StartsAnother(Prefix(p, Len(p) - 1), i)

\* __GetFlagFileLines goes down into files that name each other: no file is
\* read while it is being read.
NoFileWithinItself ==
  \A i, j \in DOMAIN frame.stack :
    frame.stack[i].file = frame.stack[j].file => i = j

\* "unparsed_args becomes the first non-flag detected by getopt to the end of
\* argv": FLAGS(argv) returns, for each argument that getopt left when it had
\* recognised all others, the one that stood at its place before booleans were
\* expanded, wherever options have been taken out.
RestIsReturned ==
  ReturnedFrom("parse") /\ ~gnu[op.reg] =>
    LET left == GetOpt(frame.args, FALSE, DOMAIN flags[op.reg], BooleanNames(op.reg)).unparsed
        stop == Len(frame.args) - Len(left)
    IN frame.unparsed_args =
         [i \in 1 .. Len(left) |-> frame.original_argv[frame.places[stop + i]]]

\* The same, counted from the end, is right while options were taken out in the
\* order in which they stand in argv: none was taken for another that looks like
\* it and stands further up.  Without flag files the arguments are those of the
\* command line, word for word.
TakenInOrder == \A i, j \in DOMAIN frame.taken : i < j => frame.taken[i] < frame.taken[j]
RestIsUntouched ==
  TakenInOrder =>
    /\ RestIsReturned
    /\ ReturnedFrom("parse") /\ frame.parsed_files = <<>> => frame.original_argv = op.argv

LegalDefault(id) ==
  state[id].default = None
    \/ Parse(decls[id], [state[id] EXCEPT !.present = 0], state[id].default).error = ""

\* MultiFlag.Parse: a flag that was given has one item for each time it was, and
\* none of its default, over any number of command lines.  Of the default the
\* docstring of Flag says that "it is important that it be a legal value".
MultiHoldsWhatWasGiven ==
  \A id \in Flags :
    decls[id].multi /\ LegalDefault(id) /\ state[id].present > 0
      => state[id].value.kind = "list" /\ Len(state[id].value.items) = state[id].present

\* AppendFlagsIntoFile writes "in the format of a flagfile": a program that
\* reads the file has the values back that were written, for flags with a value
\* that are no multi flags.
SavedIsRestored ==
  ReturnedFrom("parse") /\ op.argv = <<LongIs("flagfile", "saved")>> =>
    \A n \in DOMAIN saved :
      LET id == flags[op.reg][n] IN
      saved[n] = None \/ decls[id].multi \/ state[id].value = saved[n]

\* Every call returns or raises, with files that name each other too.
Completes == <>Ended

\* Reset "resets the values to the point before FLAGS(argv) was called".
ResetRestores ==
  ReturnedFrom("Reset") =>
    \A id \in Range(flags[op.reg]) :
      state[id].value = Unparse(decls[id], [state[id] EXCEPT !.present = 0]).st.value
=============================================================================

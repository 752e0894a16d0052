---------------------------- MODULE GflagsProofs ----------------------------
(***************************************************************************)
(* Theorems about the registries and the flag files of gflags.py, for all  *)
(* registries, modules, client programs and files, and about its loops:    *)
(* the lists by module, that _RemoveFlag, DECLARE_key_flag and             *)
(* ADOPT_module_key_flags go through, the help, that is printed from       *)
(* these lists, and the arguments, that FLAGS(argv) and getopt go through. *)
(***************************************************************************)
EXTENDS GflagsChecks, Inductions, SequenceTheorems

(* Sequences of anything.                                                  *)

IsSeq(s) == s \in Seq(Range(s))

LEMMA SeqOfAny == ASSUME NEW S, NEW s \in Seq(S) PROVE IsSeq(s)
<1>1. s \in [1 .. Len(s) -> Range(s)] /\ Len(s) \in Nat
  BY DEF Range
<1>2. QED
  BY <1>1 DEF IsSeq

LEMMA SeqOfLength ==
  ASSUME NEW S, NEW n \in Nat, NEW s \in [1 .. n -> S] PROVE s \in Seq(S)
  OBVIOUS

LEMMA AppendAny ==
  ASSUME NEW s, IsSeq(s), NEW e
  PROVE  /\ IsSeq(Append(s, e))
         /\ DOMAIN s = 1 .. Len(s) /\ Len(s) \in Nat
         /\ DOMAIN Append(s, e) = 1 .. Len(s) + 1
         /\ Append(s, e)[Len(s) + 1] = e
         /\ \A i \in 1 .. Len(s) : Append(s, e)[i] = s[i]
<1> DEFINE S == Range(s) \cup {e}
<1>1. s \in Seq(S)
  BY DEF IsSeq
<1>2. Append(s, e) \in Seq(S)
  BY <1>1
<1>3. Len(Append(s, e)) = Len(s) + 1
  BY <1>1
<1>4. IsSeq(Append(s, e))
  BY <1>2, SeqOfAny
<1>5. QED
  BY <1>1, <1>2, <1>3, <1>4

LEMMA ConsAny ==
  ASSUME NEW s, IsSeq(s), NEW e
  PROVE  /\ IsSeq(<<e>> \o s)
         /\ DOMAIN (<<e>> \o s) = 1 .. Len(s) + 1 /\ Len(s) \in Nat
         /\ DOMAIN s = 1 .. Len(s)
         /\ (<<e>> \o s)[1] = e
         /\ \A i \in 2 .. Len(s) + 1 : (<<e>> \o s)[i] = s[i - 1]
<1> DEFINE S == Range(s) \cup {e}
<1>1. s \in Seq(S) /\ <<e>> \in Seq(S)
  BY DEF IsSeq
<1>2. <<e>> \o s \in Seq(S)
  BY <1>1
<1>3. Len(<<e>> \o s) = Len(s) + 1
  BY <1>1
<1>4. IsSeq(<<e>> \o s)
  BY <1>2, SeqOfAny
<1>5. QED
  BY <1>1, <1>2, <1>3, <1>4

LEMMA TailAny ==
  ASSUME NEW s, IsSeq(s), s # <<>>
  PROVE  /\ IsSeq(Tail(s)) /\ Len(s) \in Nat
         /\ DOMAIN s = 1 .. Len(s)
         /\ DOMAIN Tail(s) = 1 .. Len(s) - 1
         /\ \A i \in 1 .. Len(s) - 1 : Tail(s)[i] = s[i + 1]
<1>1. s \in Seq(Range(s))
  BY DEF IsSeq
<1>2. Tail(s) \in Seq(Range(s))
  BY <1>1
<1>3. Len(Tail(s)) = Len(s) - 1
  BY <1>1
<1>4. IsSeq(Tail(s))
  BY <1>2, SeqOfAny
<1>5. QED
  BY <1>1, <1>2, <1>3, <1>4

LEMMA ReplaceAny ==
  ASSUME NEW s, IsSeq(s), NEW k, NEW e
  PROVE  /\ IsSeq([s EXCEPT ![k] = e])
         /\ DOMAIN [s EXCEPT ![k] = e] = DOMAIN s
<1> DEFINE S == Range(s) \cup {e}
<1>1. s \in Seq(S)
  BY DEF IsSeq
<1>2. s \in [1 .. Len(s) -> S] /\ Len(s) \in Nat
  BY <1>1
<1>3. [s EXCEPT ![k] = e] \in [1 .. Len(s) -> S]
  BY <1>2
<1>4. [s EXCEPT ![k] = e] \in Seq(S)
  BY <1>2, <1>3
<1>5. QED
  BY <1>1, <1>4, SeqOfAny

-----------------------------------------------------------------------------
(* Registries.                                                             *)

\* Names stand for flags that are there and that have them.
Owned(f) == \A n \in DOMAIN f : f[n] \in DOMAIN decls /\ n \in Names(decls[f[n]])

RegistryInv ==
  /\ IsSeq(decls)
  /\ program \in DOMAIN Programs /\ made \in Nat
  /\ DOMAIN flags = Registry
  /\ \A r \in Registry : Owned(flags[r])
  /\ pc = "append" => op.other \in Registry /\ todo \subseteq DOMAIN flags[op.other]

LEMMA ImportedOwned ==
  ASSUME decls = ImportedFlags, NEW r PROVE Owned(Imported(r))
<1>0. /\ DOMAIN ImportedFlags = 1 .. 5
      /\ ImportedFlags[1] = HelpFlag("help", "?") /\ ImportedFlags[2] = HelpFlag("helpshort", "")
      /\ ImportedFlags[3] = HelpFlag("helpxml", "")
      /\ ImportedFlags[4] = Declaration("flagfile", "", "string", One(""))
      /\ ImportedFlags[5] = Declaration("undefok", "", "string", One(""))
  <2> DEFINE a == HelpFlag("help", "?")
             b == HelpFlag("helpshort", "")
             c == HelpFlag("helpxml", "")
             d == Declaration("flagfile", "", "string", One(""))
             e == Declaration("undefok", "", "string", One(""))
  <2>1. ImportedFlags = <<a, b, c, d, e>>
    BY DEF ImportedFlags
  <2> HIDE DEF a, b, c, d, e
  <2>2. /\ DOMAIN ImportedFlags = 1 .. 5
        /\ ImportedFlags[1] = a /\ ImportedFlags[2] = b /\ ImportedFlags[3] = c
        /\ ImportedFlags[4] = d /\ ImportedFlags[5] = e
    BY <2>1
  <2>3. QED
    BY <2>2, Zenon DEF a, b, c, d, e
<1>1. /\ DOMAIN ImportedFlags = 1 .. 5
      /\ {"help", "?"} \subseteq Names(ImportedFlags[1]) /\ "helpshort" \in Names(ImportedFlags[2])
      /\ "helpxml" \in Names(ImportedFlags[3]) /\ "flagfile" \in Names(ImportedFlags[4])
      /\ "undefok" \in Names(ImportedFlags[5])
  <2>1. ASSUME NEW n, NEW short
        PROVE  n \in Names(HelpFlag(n, short)) /\ (short # "" => short \in Names(HelpFlag(n, short)))
    <3>1. HelpFlag(n, short).name = n /\ HelpFlag(n, short).short_name = short
      BY DEF HelpFlag, Declaration
    <3>2. QED
      BY <3>1 DEF Names
  <2>2. ASSUME NEW n, NEW default PROVE n \in Names(Declaration(n, "", "string", default))
    BY DEF Declaration, Names
  <2>3. {"help", "?"} \subseteq Names(HelpFlag("help", "?"))
    BY <2>1
  <2>4. "helpshort" \in Names(HelpFlag("helpshort", "")) /\ "helpxml" \in Names(HelpFlag("helpxml", ""))
    BY <2>1
  <2>5. /\ "flagfile" \in Names(Declaration("flagfile", "", "string", One("")))
        /\ "undefok" \in Names(Declaration("undefok", "", "string", One("")))
    BY <2>2
  <2>6. QED
    BY <1>0, <2>3, <2>4, <2>5
<1>2. CASE r = FLAGS
  <2> DEFINE f == [n \in {"help", "?", "helpshort", "helpxml"} |->
                     IF n = "helpshort" THEN 2 ELSE IF n = "helpxml" THEN 3 ELSE 1]
  <2>1. Imported(r) = f
    BY <1>2 DEF Imported, FLAGS, SPECIAL_FLAGS
  <2>2. Owned(f)
    BY <1>1 DEF Owned
  <2>3. QED
    BY <2>1, <2>2
<1>3. CASE r = SPECIAL_FLAGS
  <2> DEFINE f == [n \in {"flagfile", "undefok"} |-> IF n = "flagfile" THEN 4 ELSE 5]
  <2>1. Imported(r) = f
    BY <1>3 DEF Imported, FLAGS, SPECIAL_FLAGS
  <2>2. Owned(f)
    BY <1>1 DEF Owned
  <2>3. QED
    BY <2>1, <2>2
<1>4. CASE r # FLAGS /\ r # SPECIAL_FLAGS
  <2>1. Imported(r) = <<>>
    BY <1>4 DEF Imported
  <2>2. DOMAIN <<>> = {}
    OBVIOUS
  <2>3. QED
    BY <2>1, <2>2 DEF Owned
<1>5. QED
  BY <1>2, <1>3, <1>4

LEMMA InitRegistryInv == Init => RegistryInv
<1> SUFFICES ASSUME Init PROVE RegistryInv
  OBVIOUS
<1>1. decls = ImportedFlags /\ flags = [r \in Registry |-> Imported(r)]
  BY DEF Init
<1>2. IsSeq(decls)
  <2> DEFINE S == {ImportedFlags[i] : i \in 1 .. 5}
  <2>1. ImportedFlags = [i \in 1 .. 5 |-> ImportedFlags[i]]
    BY DEF ImportedFlags
  <2>2. ImportedFlags \in [1 .. 5 -> S]
    BY <2>1
  <2>3. ImportedFlags \in Seq(S)
    <3>1. 5 \in Nat
      OBVIOUS
    <3>2. QED
      BY <2>2, <3>1, SeqOfLength
  <2>4. QED
    BY <1>1, <2>3, SeqOfAny
<1>3. \A r \in Registry : Owned(flags[r])
  BY <1>1, ImportedOwned DEF Owned
<1>4. QED
  BY <1>1, <1>2, <1>3 DEF Init, RegistryInv

\* A flag that comes in writes only its own names; one that goes leaves the
\* others as they were.
LEMMA WithFlagOwned ==
  ASSUME NEW f, NEW id \in DOMAIN decls, Owned(f)
  PROVE  Owned(WithFlag(f, decls[id], id))
  BY DEF Owned, WithFlag

\* A loop over a dict goes on, or the call fails.
LEMMA HowLoopsGo ==
  ASSUME NEW n, ContinuesOver(n) PROVE Continues(n) \/ Fails("RuntimeError")
  BY DEF ContinuesOver

LEMMA NextRegistryInv == RegistryInv /\ [Next]_vars => RegistryInv'
<1> SUFFICES ASSUME RegistryInv, [Next]_vars PROVE RegistryInv'
  OBVIOUS
<1> USE DEF RegistryInv
<1>m. made + 1 \in Nat /\ made \in Nat
  <2>1. made \in Nat
    OBVIOUS
  <2>2. QED
    BY <2>1
<1>a. \A name : \A c \in Calls(name) :
        /\ pc = "client" /\ c.call = name
        /\ name = "AppendFlagValues" => c.other \in Registry
  BY ProgramsAssumption DEF Calls
<1>b. ASSUME UNCHANGED <<decls, flags, program>>, made' \in Nat,
             pc' = "append" => /\ pc = "append" /\ UNCHANGED op /\ todo' \subseteq todo
      PROVE  RegistryInv'
  BY <1>b DEF Owned
<1>c. ASSUME UNCHANGED <<decls, program>>, made' \in Nat, pc' # "append",
             NEW r, NEW name, DelFlag(r, name)
      PROVE  RegistryInv'
  BY <1>c DEF Owned, DelFlag
<1>d. ASSUME NEW name, NEW c \in Calls(name), NEW error, Makes(c, error),
             UNCHANGED <<decls, flags>>
      PROVE  RegistryInv'
  BY <1>a, <1>b, <1>d DEF Makes
<1>e. ASSUME NEW c, NEW where, NEW names, Start(c, where, names), where # "append"
      PROVE  RegistryInv'
  <2>1. UNCHANGED <<decls, flags, program>> /\ pc' # "append"
    BY <1>e DEF Start, registry
  <2>2. made' \in Nat
    <3>1. made' = made + 1
      BY <1>e DEF Start
    <3>2. QED
      BY <1>m, <3>1
  <2>3. QED
    BY <2>1, <2>2, <1>b
<1>1. CASE DefineFlag
  <2>1. PICK c \in Calls("DEFINE") :
          \/ /\ decls' = Append(decls, c.decl)
             /\ flags' = [flags EXCEPT ![c.reg] = WithFlag(@, c.decl, Len(decls) + 1)]
             /\ Makes(c, "")
          \/ UNCHANGED <<decls, flags>> /\ \E error : Makes(c, error)
    BY <1>1 DEF DefineFlag, registry
  <2>2. CASE UNCHANGED <<decls, flags>> /\ \E error : Makes(c, error)
    BY <2>2, <1>d
  <2>3. CASE /\ decls' = Append(decls, c.decl)
             /\ flags' = [flags EXCEPT ![c.reg] = WithFlag(@, c.decl, Len(decls) + 1)]
             /\ Makes(c, "")
    <3>1. /\ IsSeq(decls') /\ DOMAIN decls' = 1 .. Len(decls) + 1 /\ Len(decls) \in Nat
          /\ DOMAIN decls = 1 .. Len(decls) /\ decls'[Len(decls) + 1] = c.decl
          /\ \A i \in DOMAIN decls : decls'[i] = decls[i]
      <4>1. IsSeq(decls)
        OBVIOUS
      <4>2. decls' = Append(decls, c.decl)
        BY <2>3
      <4>3. QED
        BY <4>1, <4>2, AppendAny
    <3>2. ASSUME NEW r \in Registry PROVE Owned(flags[r])'
      <4>1. flags'[r] = IF r = c.reg THEN WithFlag(flags[r], c.decl, Len(decls) + 1)
                        ELSE flags[r]
        BY <2>3
      <4>2. Len(decls) + 1 \in DOMAIN decls' /\ DOMAIN decls \subseteq DOMAIN decls'
        BY <3>1
      <4>3. ASSUME NEW n \in DOMAIN flags'[r]
            PROVE  flags'[r][n] \in DOMAIN decls' /\ n \in Names(decls'[flags'[r][n]])
        <5>1. CASE r = c.reg /\ n \in Names(c.decl)
          BY <3>1, <4>1, <4>2, <5>1 DEF WithFlag
        <5>2. CASE ~(r = c.reg /\ n \in Names(c.decl))
          <6>1. n \in DOMAIN flags[r] /\ flags'[r][n] = flags[r][n]
            BY <4>1, <4>3, <5>2 DEF WithFlag
          <6>2. QED
            BY <3>1, <4>2, <6>1 DEF Owned
        <5>3. QED
          BY <5>1, <5>2
      <4>4. QED
        BY <4>3 DEF Owned
    <3>3. pc' = "client" /\ made' \in Nat /\ UNCHANGED program
      <4>1. made' = made + 1 /\ UNCHANGED <<program, pc>>
        BY <2>3 DEF Makes
      <4>2. pc = "client"
        BY <2>1, <1>a
      <4>3. QED
        BY <1>m, <4>1, <4>2
    <3>4. DOMAIN flags' = Registry
      BY <2>3
    <3>5. QED
      BY <3>1, <3>2, <3>3, <3>4
  <2>4. QED
    BY <2>1, <2>2, <2>3
<1>2. CASE DECLARE_key_flag
  BY <1>2, <1>d DEF DECLARE_key_flag
<1>3. CASE ADOPT_module_key_flags
  BY <1>3, <1>d DEF ADOPT_module_key_flags
<1>4. CASE DelAttr
  <2>1. PICK c \in Calls("del") : DelFlag(c.reg, c.name) /\ Makes(c, "") /\ UNCHANGED decls
    BY <1>4 DEF DelAttr
  <2>2. pc' # "append" /\ made' \in Nat /\ UNCHANGED <<decls, program>>
    <3>1. made' = made + 1 /\ UNCHANGED <<decls, program, pc>>
      BY <2>1 DEF Makes
    <3>2. pc = "client"
      BY <2>1, <1>a
    <3>3. QED
      BY <1>m, <3>1, <3>2
  <2>3. QED
    BY <2>1, <2>2, <1>c
<1>5. CASE SetAttr
  BY <1>5, <1>d DEF SetAttr
<1>6. CASE SetDefaultOf
  BY <1>6, <1>d DEF SetDefaultOf
<1>7. CASE MarkFlagAsRequired
  BY <1>7, <1>d DEF MarkFlagAsRequired
<1>8. CASE NoSuchFlag
  BY <1>8, <1>d DEF NoSuchFlag, registry
<1>9. CASE UseGnuGetOpt
  BY <1>9, <1>d DEF UseGnuGetOpt
<1>10. CASE AppendFlagsIntoFile
  BY <1>10, <1>d DEF AppendFlagsIntoFile, registry
<1>11. CASE Restart
  BY <1>11, <1>d DEF Restart
<1>12. CASE AppendFlagValues
  <2>1. PICK c \in Calls("AppendFlagValues") : Start(c, "append", OwnNames(c.other))
    BY <1>12 DEF AppendFlagValues
  <2>2. UNCHANGED <<decls, flags, program>> /\ op' = c /\ todo' = OwnNames(c.other)
    BY <2>1 DEF Start, registry
  <2>3. made' \in Nat
    <3>1. made' = made + 1
      BY <2>1 DEF Start
    <3>2. QED
      BY <1>m, <3>1
  <2>4. c.other \in Registry
    BY <2>1, <1>a
  <2>5. OwnNames(c.other) \subseteq DOMAIN flags[c.other]
    BY DEF OwnNames
  <2>6. QED
    BY <2>2, <2>3, <2>4, <2>5 DEF Owned
<1>13. CASE RemoveFlagValues \/ Reset
  BY <1>13, <1>e DEF RemoveFlagValues, Reset
<1>14. CASE AppendFlag
  <2>1. PICK n \in todo :
          \/ UNCHANGED flags /\ Fails("DuplicateFlagError")
          \/ /\ flags' = [flags EXCEPT ![op.reg] =
                            WithFlag(@, decls[flags[op.other][n]], flags[op.other][n])]
             /\ Continues(n) \/ Fails("RuntimeError")
    BY <1>14, HowLoopsGo DEF AppendFlag
  <2>2. pc = "append" /\ UNCHANGED <<decls, program, made, op>>
    BY <1>14 DEF AppendFlag, client
  <2>3. CASE UNCHANGED flags /\ Fails("DuplicateFlagError")
    BY <2>2, <2>3, <1>b DEF Fails, Returns
  <2>4. CASE /\ flags' = [flags EXCEPT ![op.reg] =
                            WithFlag(@, decls[flags[op.other][n]], flags[op.other][n])]
             /\ Continues(n) \/ Fails("RuntimeError")
    <3>1. flags[op.other][n] \in DOMAIN decls
      BY <2>1, <2>2 DEF Owned
    <3>2. ASSUME NEW r \in Registry PROVE Owned(flags[r])' /\ DOMAIN flags[r] \subseteq DOMAIN flags'[r]
      BY <2>2, <2>4, <3>1, WithFlagOwned DEF Owned, WithFlag
    <3>3. QED
      BY <2>2, <2>4, <3>2 DEF Continues, Fails, Returns
  <2>5. QED
    BY <2>1, <2>3, <2>4
<1>15. CASE RemoveFlag
  <2>1. /\ pc' # "append" /\ UNCHANGED <<decls, program, made>>
        /\ UNCHANGED flags \/ \E n \in todo : DelFlag(op.reg, n)
    BY <1>15, HowLoopsGo DEF RemoveFlag, client, Fails, Returns, Continues
  <2>2. QED
    BY <2>1, <1>b, <1>c
<1>16. CASE ResetFlag
  BY <1>16, <1>b DEF ResetFlag, client, Fails, Returns, Continues
<1>17. CASE LoopEnds
  BY <1>17, <1>b DEF LoopEnds, Returns, registry, client
<1>18. CASE CallFlags
  <2>1. UNCHANGED <<decls, flags, program>> /\ pc' # "append"
    BY <1>18 DEF CallFlags, registry
  <2>2. made' \in Nat
    <3>1. made' = made + 1
      BY <1>18 DEF CallFlags
    <3>2. QED
      BY <1>m, <3>1
  <2>3. QED
    BY <2>1, <2>2, <1>b
<1>19. CASE ReadArgument \/ ReadLine \/ CloseFile \/ ExpandBooleans \/ ParseOptions \/ CheckAndReturn
  <2>1. /\ pc' # "append"
        /\ Keeps
    BY <1>19 DEF ReadArgument, ReadLine, CloseFile, ExpandBooleans, ParseOptions,
                CheckAndReturn, Open, Throws, Goes
  <2>2. QED
    BY <2>1, <1>b DEF Keeps, registry, client
<1>20. CASE ApplyOption
  BY <1>20, <1>b DEF ApplyOption, client, Throws, Goes
<1>21. CASE UNCHANGED vars
  BY <1>21, <1>b DEF vars, registry, client
<1>22. QED
  BY <1>1, <1>2, <1>3, <1>4, <1>5, <1>6, <1>7, <1>8, <1>9, <1>10, <1>11, <1>12,
     <1>13, <1>14, <1>15, <1>16, <1>17, <1>18, <1>19, <1>20, <1>21
     DEF Next, Step, Stay

LEMMA RegistryAlways == Spec => []RegistryInv
  BY InitRegistryInv, NextRegistryInv, PTL DEF Spec

\* _FlagIsRegistered may look at the names of a flag only, whatever clients do
\* with any number of registries.
THEOREM SearchesAreFull == Spec => []SearchIsFull
<1>1. RegistryInv => SearchIsFull
  BY DEF RegistryInv, SearchIsFull, Owned, _FlagIsRegistered
<1>2. QED
  BY <1>1, RegistryAlways, PTL

\* The dicts change where a flag comes in or a name is taken out, and nowhere
\* else.
LEMMA HowNamesChange ==
  ASSUME [Next]_vars
  PROVE  \/ UNCHANGED flags \/ DefineFlag \/ AppendFlag
         \/ \E r, name : DelFlag(r, name)
<1>1. CASE DefineFlag \/ AppendFlag
  BY <1>1
<1>2. CASE DECLARE_key_flag \/ ADOPT_module_key_flags \/ SetAttr \/ SetDefaultOf \/ MarkFlagAsRequired
  BY <1>2 DEF DECLARE_key_flag, ADOPT_module_key_flags, SetAttr, SetDefaultOf, MarkFlagAsRequired
<1>3. CASE DelAttr
  BY <1>3 DEF DelAttr
<1>4. CASE NoSuchFlag \/ UseGnuGetOpt \/ AppendFlagsIntoFile \/ Restart
  BY <1>4 DEF NoSuchFlag, UseGnuGetOpt, AppendFlagsIntoFile, Restart, registry
<1>5. CASE AppendFlagValues \/ RemoveFlagValues \/ Reset
  BY <1>5 DEF AppendFlagValues, RemoveFlagValues, Reset, Start, registry
<1>6. CASE RemoveFlag
  BY <1>6 DEF RemoveFlag
<1>7. CASE ResetFlag \/ LoopEnds \/ CallFlags \/ ApplyOption
  BY <1>7 DEF ResetFlag, LoopEnds, CallFlags, ApplyOption, registry
<1>8. CASE ReadArgument \/ ReadLine \/ CloseFile \/ ExpandBooleans \/ ParseOptions \/ CheckAndReturn
  <2>1. Keeps
    BY <1>8 DEF ReadArgument, ReadLine, CloseFile, ExpandBooleans, ParseOptions, CheckAndReturn
  <2>2. QED
    BY <2>1 DEF Keeps, registry
<1>9. CASE UNCHANGED vars
  BY <1>9 DEF vars, registry
<1>10. QED
  BY <1>1, <1>2, <1>3, <1>4, <1>5, <1>6, <1>7, <1>8, <1>9 DEF Next, Step, Stay

NamesStep ==
  \A r \in Registry : \A n \in DOMAIN flags[r] \cap DOMAIN flags'[r] :
    \/ flags'[r][n] = flags[r][n]
    \/ decls'[flags'[r][n]].allow_override
    \/ decls[flags[r][n]].allow_override

LEMMA NextNamesStep ==
  ASSUME RegistryInv, RegistryInv', [Next]_vars PROVE NamesStep
<1> SUFFICES ASSUME NEW r \in Registry, NEW n \in DOMAIN flags[r] \cap DOMAIN flags'[r]
             PROVE  \/ flags'[r][n] = flags[r][n]
                    \/ decls'[flags'[r][n]].allow_override
                    \/ decls[flags[r][n]].allow_override
  BY DEF NamesStep
<1>1. DOMAIN flags = Registry
  BY DEF RegistryInv
<1>2. CASE UNCHANGED flags
  BY <1>2
<1>3. CASE \E q, name : DelFlag(q, name)
  BY <1>1, <1>3 DEF DelFlag
<1>4. CASE DefineFlag
  <2>1. PICK c \in Calls("DEFINE") :
          \/ /\ DuplicateNames(c.reg, c.decl) = {}
             /\ decls' = Append(decls, c.decl)
             /\ flags' = [flags EXCEPT ![c.reg] = WithFlag(@, c.decl, Len(decls) + 1)]
          \/ UNCHANGED flags
    BY <1>4 DEF DefineFlag, registry
  <2>2. CASE UNCHANGED flags
    BY <2>2
  <2>3. CASE r # c.reg \/ n \notin Names(c.decl)
    BY <1>1, <2>1, <2>3 DEF WithFlag
  <2>4. CASE /\ DuplicateNames(c.reg, c.decl) = {}
             /\ decls' = Append(decls, c.decl)
             /\ flags' = [flags EXCEPT ![c.reg] = WithFlag(@, c.decl, Len(decls) + 1)]
             /\ r = c.reg /\ n \in Names(c.decl)
    <3>1. decls'[Len(decls) + 1] = c.decl
      <4>1. IsSeq(decls)
        BY DEF RegistryInv
      <4>2. decls' = Append(decls, c.decl)
        BY <2>4
      <4>3. QED
        BY <4>1, <4>2, AppendAny
    <3>2. flags'[r][n] = Len(decls) + 1
      BY <1>1, <2>4 DEF WithFlag
    <3>3. c.decl.allow_override \/ decls[flags[r][n]].allow_override
      BY <2>4 DEF DuplicateNames
    <3>4. QED
      BY <3>1, <3>2, <3>3
  <2>5. QED
    BY <2>1, <2>2, <2>3, <2>4
<1>5. CASE AppendFlag
  <2>1. PICK m \in todo :
          \/ UNCHANGED flags
          \/ LET id == flags[op.other][m] IN
             /\ DuplicateNames(op.reg, decls[id]) = {}
             /\ flags' = [flags EXCEPT ![op.reg] = WithFlag(@, decls[id], id)]
    BY <1>5 DEF AppendFlag
  <2>2. UNCHANGED decls
    BY <1>5 DEF AppendFlag
  <2> DEFINE id == flags[op.other][m]
  <2>3. CASE UNCHANGED flags
    BY <2>3
  <2>4. CASE r # op.reg \/ n \notin Names(decls[id])
    BY <1>1, <2>1, <2>4 DEF WithFlag
  <2>5. CASE /\ DuplicateNames(op.reg, decls[id]) = {}
             /\ flags' = [flags EXCEPT ![op.reg] = WithFlag(@, decls[id], id)]
             /\ r = op.reg /\ n \in Names(decls[id])
    <3>1. flags'[r][n] = id
      BY <1>1, <2>5 DEF WithFlag
    <3>2. decls[id].allow_override \/ decls[flags[r][n]].allow_override
      BY <2>5 DEF DuplicateNames
    <3>3. QED
      BY <2>2, <3>1, <3>2
  <2>6. QED
    BY <2>1, <2>3, <2>4, <2>5
<1>6. QED
  BY <1>2, <1>3, <1>4, <1>5, HowNamesChange

\* A name never comes to stand for another flag unless one of the two allows it.
THEOREM NamesStaySafe == Spec => NamesAreSafe
<1>1. RegistryInv /\ RegistryInv' /\ [Next]_vars => [NamesStep]_vars
  BY NextNamesStep
<1>2. Spec => [][NamesStep]_vars
  BY <1>1, RegistryAlways, PTL DEF Spec
<1>3. QED
  BY <1>2 DEF NamesAreSafe, NamesStep

-----------------------------------------------------------------------------
(* Flag files.                                                             *)

\* A file being read has been noted as read, and is there once.
FilesInv ==
  /\ DOMAIN frame = DOMAIN NoFrame
  /\ IsSeq(frame.stack) /\ IsSeq(frame.parsed_files)
  /\ \A i \in DOMAIN frame.stack :
       /\ DOMAIN frame.stack[i] = {"file", "lines"}
       /\ Contains(frame.parsed_files, frame.stack[i].file)
  /\ NoFileWithinItself

LEMMA NoFrameFiles ==
  /\ frame = NoFrame => FilesInv
  /\ frame' = NoFrame => FilesInv'
<1>1. IsSeq(<<>>) /\ DOMAIN <<>> = {}
  BY DEF IsSeq, Range
<1>2. NoFrame.stack = <<>> /\ NoFrame.parsed_files = <<>>
  BY DEF NoFrame
<1>3. frame = NoFrame => FilesInv
  BY <1>1, <1>2 DEF FilesInv, NoFileWithinItself
<1>4. ASSUME frame' = NoFrame PROVE FilesInv'
  <2>1. DOMAIN frame' = DOMAIN NoFrame' /\ frame'.stack = <<>> /\ frame'.parsed_files = <<>>
    BY <1>4, <1>2 DEF NoFrame
  <2>2. QED
    BY <1>1, <2>1 DEF FilesInv, NoFileWithinItself
<1>5. QED
  BY <1>3, <1>4

\* A step that leaves the two alone.
LEMMA SameFiles ==
  ASSUME FilesInv, DOMAIN frame' = DOMAIN frame,
         frame'.stack = frame.stack, frame'.parsed_files = frame.parsed_files
  PROVE  FilesInv'
  BY DEF FilesInv, NoFileWithinItself, NoFrame

\* A file that has not been read, or none is being read.
LEMMA OpenFiles ==
  ASSUME FilesInv, NEW f, NEW filename, Open(f, filename),
         DOMAIN f = DOMAIN frame, f.parsed_files = frame.parsed_files,
         IsSeq(f.stack), DOMAIN f.stack = DOMAIN frame.stack,
         \A i \in DOMAIN f.stack : /\ DOMAIN f.stack[i] = {"file", "lines"}
                                   /\ f.stack[i].file = frame.stack[i].file,
         f.stack = <<>> \/ ~Contains(f.parsed_files, filename)
  PROVE  FilesInv'
<1>1. CASE frame' = NoFrame
  BY <1>1, NoFrameFiles
<1>2. CASE frame' = Opened(f, filename)
  <2> DEFINE new == [file |-> filename, lines |-> files[filename]]
  <2>1. {"stack", "parsed_files"} \subseteq DOMAIN f
    BY DEF FilesInv, NoFrame
  <2>2. /\ DOMAIN frame' = DOMAIN frame
        /\ frame'.stack = <<new>> \o f.stack
        /\ frame'.parsed_files = Append(f.parsed_files, filename)
    BY <1>2, <2>1 DEF Opened
  <2>3. /\ IsSeq(frame'.stack) /\ Len(f.stack) \in Nat
        /\ DOMAIN frame'.stack = 1 .. Len(f.stack) + 1 /\ DOMAIN f.stack = 1 .. Len(f.stack)
        /\ frame'.stack[1] = new
        /\ \A i \in 2 .. Len(f.stack) + 1 : frame'.stack[i] = f.stack[i - 1]
    <3> DEFINE both == <<new>> \o f.stack
    <3> HIDE DEF new
    <3>1. /\ IsSeq(both) /\ Len(f.stack) \in Nat
          /\ DOMAIN both = 1 .. Len(f.stack) + 1 /\ DOMAIN f.stack = 1 .. Len(f.stack)
          /\ both[1] = new
          /\ \A i \in 2 .. Len(f.stack) + 1 : both[i] = f.stack[i - 1]
      <4>1. PICK s : s = f.stack
        OBVIOUS
      <4>2. IsSeq(s)
        BY <4>1
      <4>3. /\ IsSeq(<<new>> \o s)
            /\ DOMAIN (<<new>> \o s) = 1 .. Len(s) + 1 /\ Len(s) \in Nat
            /\ DOMAIN s = 1 .. Len(s)
            /\ (<<new>> \o s)[1] = new
            /\ \A i \in 2 .. Len(s) + 1 : (<<new>> \o s)[i] = s[i - 1]
        BY <4>2, ConsAny
      <4>4. QED
        BY <4>1, <4>3, Zenon
    <3>2. frame'.stack = both
      BY <2>2 DEF new
    <3>3. QED
      BY <3>1, <3>2
  <2>4. /\ IsSeq(frame'.parsed_files)
        /\ DOMAIN f.parsed_files = 1 .. Len(f.parsed_files) /\ Len(f.parsed_files) \in Nat
        /\ DOMAIN frame'.parsed_files = 1 .. Len(f.parsed_files) + 1
        /\ frame'.parsed_files[Len(f.parsed_files) + 1] = filename
        /\ \A i \in 1 .. Len(f.parsed_files) : frame'.parsed_files[i] = f.parsed_files[i]
    <3>1. IsSeq(f.parsed_files)
      BY DEF FilesInv
    <3>2. QED
      BY <2>2, <3>1, AppendAny
  <2>5. Len(frame'.parsed_files) = Len(f.parsed_files) + 1
    BY <2>4 DEF IsSeq
  <2>6. /\ Contains(frame'.parsed_files, filename)
        /\ \A e : Contains(f.parsed_files, e) => Contains(frame'.parsed_files, e)
    BY <2>4, <2>5 DEF Contains
  <2>7. \A i \in DOMAIN f.stack : Contains(f.parsed_files, f.stack[i].file)
    BY DEF FilesInv
  <2>8. \A i \in DOMAIN f.stack : f.stack[i].file # filename
    BY <2>7
  <2>9. ASSUME NEW i \in DOMAIN frame'.stack
        PROVE  /\ DOMAIN frame'.stack[i] = {"file", "lines"}
               /\ Contains(frame'.parsed_files, frame'.stack[i].file)
    <3>1. CASE i = 1
      BY <2>3, <2>6, <3>1
    <3>2. CASE i # 1
      <4>1. i - 1 \in DOMAIN f.stack /\ frame'.stack[i] = f.stack[i - 1]
        BY <2>3, <3>2
      <4>2. QED
        BY <2>6, <2>7, <4>1
    <3>3. QED
      BY <3>1, <3>2
  <2>10. ASSUME NEW i \in DOMAIN frame'.stack, NEW j \in DOMAIN frame'.stack,
                frame'.stack[i].file = frame'.stack[j].file
         PROVE  i = j
    <3>1. \A k \in DOMAIN frame'.stack :
            k = 1 \/ (k - 1 \in DOMAIN f.stack /\ frame'.stack[k] = f.stack[k - 1])
      BY <2>3
    <3>2. frame'.stack[1].file = filename
      BY <2>3
    <3>3. CASE i = 1 \/ j = 1
      BY <2>8, <2>10, <3>1, <3>2, <3>3
    <3>4. CASE i # 1 /\ j # 1
      <4>1. i - 1 = j - 1
        BY <2>10, <3>1, <3>4 DEF FilesInv, NoFileWithinItself
      <4>2. QED
        BY <2>3, <4>1
    <3>5. QED
      BY <3>3, <3>4
  <2>11. QED
    BY <2>2, <2>3, <2>4, <2>9, <2>10 DEF FilesInv, NoFileWithinItself, NoFrame
<1>3. QED
  BY <1>1, <1>2 DEF Open, Throws

LEMMA NextFilesInv == FilesInv /\ [Next]_vars => FilesInv'
<1> SUFFICES ASSUME FilesInv, [Next]_vars PROVE FilesInv'
  OBVIOUS
<1>d. DOMAIN frame = {"rest", "stack", "parsed_files", "argv", "original_argv", "args",
                      "optlist", "unrecognized_opts", "undefok_flags", "unparsed_args",
                      "places", "taken"}
  BY DEF FilesInv, NoFrame
<1>n. ASSUME frame' = NoFrame PROVE FilesInv'
  BY <1>n, NoFrameFiles
<1>1. CASE UNCHANGED frame
  BY <1>1, SameFiles
<1>2. CASE CallFlags
  <2>1. /\ DOMAIN frame' = DOMAIN NoFrame
        /\ frame'.stack = <<>> /\ frame'.parsed_files = <<>>
    BY <1>2 DEF CallFlags, NoFrame
  <2>2. IsSeq(<<>>) /\ DOMAIN <<>> = {}
    BY DEF IsSeq, Range
  <2>3. QED
    BY <2>1, <2>2 DEF FilesInv, NoFileWithinItself, NoFrame
<1>3. CASE ReadArgument
  <2>0. frame.stack = <<>>
    BY <1>3 DEF ReadArgument
  <2>1. ASSUME NEW rest, NEW filename, Open([frame EXCEPT !.rest = rest], filename)
        PROVE  FilesInv'
    <3> DEFINE f == [frame EXCEPT !.rest = rest]
    <3>1. /\ DOMAIN f = DOMAIN frame
          /\ f.stack = frame.stack /\ f.parsed_files = frame.parsed_files
      BY <1>d
    <3>2. Open(f, filename)
      BY <2>1
    <3> HIDE DEF f
    <3>3. QED
      BY <2>0, <3>1, <3>2, OpenFiles DEF FilesInv
  <2>2. ASSUME NEW argv, NEW rest, frame' = [frame EXCEPT !.argv = argv, !.rest = rest]
        PROVE  FilesInv'
    BY <1>d, <2>2, SameFiles
  <2>3. \/ \E argv, rest : frame' = [frame EXCEPT !.argv = argv, !.rest = rest]
        \/ \E rest, filename : Open([frame EXCEPT !.rest = rest], filename)
        \/ frame' = NoFrame
    BY <1>3, Zenon DEF ReadArgument, Throws
  <2>4. QED
    BY <1>n, <2>1, <2>2, <2>3
<1>4. CASE ReadLine
  <2> DEFINE next == [frame EXCEPT !.stack[1].lines = Tail(@)]
             line == Head(Head(frame.stack).lines)
  <2>1. IsSeq(frame.stack) /\ frame.stack # <<>>
    BY <1>4 DEF ReadLine, FilesInv
  <2>2. /\ DOMAIN next = DOMAIN frame /\ next.parsed_files = frame.parsed_files
        /\ next.stack = [frame.stack EXCEPT ![1] =
                            [frame.stack[1] EXCEPT !.lines = Tail(frame.stack[1].lines)]]
    <3>1. DOMAIN next = DOMAIN frame /\ next.parsed_files = frame.parsed_files
      BY <1>d
    <3>2. next.stack = [frame.stack EXCEPT ![1] =
                          [frame.stack[1] EXCEPT !.lines = Tail(frame.stack[1].lines)]]
      BY <1>d
    <3>3. QED
      BY <3>1, <3>2
  <2>3. /\ IsSeq(next.stack) /\ DOMAIN next.stack = DOMAIN frame.stack
    <3> DEFINE stack == frame.stack
               top == [frame.stack[1] EXCEPT !.lines = Tail(frame.stack[1].lines)]
    <3>1. IsSeq(stack) /\ next.stack = [stack EXCEPT ![1] = top]
      BY <2>1, <2>2
    <3> HIDE DEF top, next, stack
    <3>2. IsSeq([stack EXCEPT ![1] = top]) /\ DOMAIN [stack EXCEPT ![1] = top] = DOMAIN stack
      BY <3>1, ReplaceAny
    <3>3. QED
      BY <3>1, <3>2 DEF stack
  <2>4. \A i \in DOMAIN next.stack :
          /\ DOMAIN next.stack[i] = {"file", "lines"}
          /\ next.stack[i].file = frame.stack[i].file
    BY <2>2, <2>3 DEF FilesInv
  <2> HIDE DEF next
  <2>5. \/ /\ frame' = next \/ frame' = [next EXCEPT !.argv = Append(@, line)]
        \/ Open(next, line.val) /\ ~Contains(frame.parsed_files, line.val)
        \/ frame' = NoFrame
    BY <1>4, Zenon DEF ReadLine, Throws, next
  <2>6. CASE frame' = next \/ frame' = [next EXCEPT !.argv = Append(@, line)]
    <3>1. /\ DOMAIN frame' = DOMAIN frame /\ frame'.stack = next.stack
          /\ frame'.parsed_files = frame.parsed_files
      BY <1>d, <2>2, <2>6
    <3>2. QED
      BY <2>3, <2>4, <3>1 DEF FilesInv, NoFileWithinItself, NoFrame
  <2>7. CASE Open(next, line.val) /\ ~Contains(frame.parsed_files, line.val)
    BY <2>2, <2>3, <2>4, <2>7, OpenFiles
  <2>8. QED
    BY <1>n, <2>5, <2>6, <2>7
<1>5. CASE CloseFile
  <2>1. IsSeq(frame.stack) /\ frame.stack # <<>>
    BY <1>5 DEF CloseFile, FilesInv
  <2>2. /\ DOMAIN frame' = DOMAIN frame /\ frame'.stack = Tail(frame.stack)
        /\ frame'.parsed_files = frame.parsed_files
    BY <1>5, <1>d DEF CloseFile
  <2>3. /\ IsSeq(frame'.stack) /\ Len(frame.stack) \in Nat
        /\ DOMAIN frame.stack = 1 .. Len(frame.stack)
        /\ DOMAIN frame'.stack = 1 .. Len(frame.stack) - 1
        /\ \A i \in 1 .. Len(frame.stack) - 1 : frame'.stack[i] = frame.stack[i + 1]
    BY <2>1, <2>2, TailAny
  <2>4. \A i \in DOMAIN frame'.stack :
          i + 1 \in DOMAIN frame.stack /\ frame'.stack[i] = frame.stack[i + 1]
    BY <2>3
  <2>5. ASSUME NEW i \in DOMAIN frame'.stack, NEW j \in DOMAIN frame'.stack,
               frame'.stack[i].file = frame'.stack[j].file
        PROVE  i = j
    <3>1. i + 1 = j + 1
      BY <2>4, <2>5 DEF FilesInv, NoFileWithinItself
    <3>2. QED
      BY <2>3, <3>1
  <2>6. QED
    BY <2>2, <2>3, <2>4, <2>5 DEF FilesInv, NoFileWithinItself, NoFrame
<1>6. CASE ExpandBooleans \/ ParseOptions \/ ApplyOption \/ CheckAndReturn
  <2>1. \/ frame' = NoFrame
        \/ /\ DOMAIN frame' = DOMAIN frame
           /\ frame'.stack = frame.stack /\ frame'.parsed_files = frame.parsed_files
    <3>1. CASE ExpandBooleans
      BY <1>d, <3>1 DEF ExpandBooleans
    <3>2. CASE ParseOptions
      BY <1>d, <3>2 DEF ParseOptions, Throws
    <3>3. CASE ApplyOption
      BY <1>d, <3>3 DEF ApplyOption, Throws
    <3>4. CASE CheckAndReturn
      BY <1>d, <3>4 DEF CheckAndReturn, Throws
    <3>5. QED
      BY <1>6, <3>1, <3>2, <3>3, <3>4
  <2>2. QED
    BY <2>1, <1>n, SameFiles
<1>7. CASE UNCHANGED vars
  BY <1>7, <1>1 DEF vars
<1>8. CASE \/ DefineFlag \/ DECLARE_key_flag \/ ADOPT_module_key_flags \/ DelAttr \/ SetAttr
           \/ SetDefaultOf \/ MarkFlagAsRequired \/ NoSuchFlag \/ UseGnuGetOpt
           \/ AppendFlagsIntoFile \/ Restart
  BY <1>8, <1>1 DEF DefineFlag, DECLARE_key_flag, ADOPT_module_key_flags, DelAttr, SetAttr,
                   SetDefaultOf, MarkFlagAsRequired, NoSuchFlag, UseGnuGetOpt,
                   AppendFlagsIntoFile, Restart, Makes
<1>9. CASE AppendFlagValues \/ RemoveFlagValues \/ Reset
  BY <1>9, <1>1 DEF AppendFlagValues, RemoveFlagValues, Reset, Start
<1>10. CASE AppendFlag \/ RemoveFlag \/ ResetFlag \/ LoopEnds
  BY <1>10, <1>1 DEF AppendFlag, RemoveFlag, ResetFlag, LoopEnds
<1>11. QED
  BY <1>2, <1>3, <1>4, <1>5, <1>6, <1>7, <1>8, <1>9, <1>10 DEF Next, Step, Stay

LEMMA FilesAlways == Spec => []FilesInv
<1>1. Init => FilesInv
  BY NoFrameFiles DEF Init
<1>2. QED
  BY <1>1, NextFilesInv, PTL DEF Spec

\* Flag files may name each other as they like: none is read within itself, so
\* that __GetFlagFileLines goes no deeper than there are files.
THEOREM FilesAreNotNested == Spec => []NoFileWithinItself
<1>1. FilesInv => NoFileWithinItself
  BY DEF FilesInv
<1>2. QED
  BY <1>1, FilesAlways, PTL

-----------------------------------------------------------------------------
(* Calls.                                                                  *)

Loops == {"append", "remove", "reset"}

\* A step is one of another call, or one of FLAGS(argv).
LEMMA HowParsingGoes ==
  ASSUME [Next]_vars, pc \in Loops => op.call # "parse"
  PROVE  \/ op'.call # "parse" /\ pc' \in Loops \cup {"client"} /\ UNCHANGED frame
         \/ CallFlags \/ ReadArgument \/ ReadLine \/ CloseFile \/ ExpandBooleans \/ ParseOptions
         \/ ApplyOption \/ CheckAndReturn
         \/ UNCHANGED vars
<1> DEFINE Other == op'.call # "parse" /\ pc' \in Loops \cup {"client"} /\ UNCHANGED frame
<1>a. \A name : \A c \in Calls(name) : pc = "client" /\ c.call = name
  BY DEF Calls
<1>d. ASSUME NEW name, NEW c \in Calls(name), NEW error, Makes(c, error), name # "parse"
      PROVE  Other
  BY <1>a, <1>d DEF Makes
<1>1. CASE \/ DefineFlag \/ DECLARE_key_flag \/ ADOPT_module_key_flags \/ DelAttr \/ SetAttr
           \/ SetDefaultOf \/ MarkFlagAsRequired \/ UseGnuGetOpt
           \/ AppendFlagsIntoFile \/ Restart
  <2>1. \E name : name # "parse" /\ \E c \in Calls(name) : \E error : Makes(c, error)
    <3>1. CASE DefineFlag
      <4>1. "DEFINE" # "parse" /\ \E c \in Calls("DEFINE") : \E error : Makes(c, error)
        BY <3>1, Zenon DEF DefineFlag
      <4>2. QED
        BY <4>1
    <3>2. CASE DECLARE_key_flag
      BY <3>2 DEF DECLARE_key_flag
    <3>3. CASE ADOPT_module_key_flags
      BY <3>3 DEF ADOPT_module_key_flags
    <3>4. CASE DelAttr
      BY <3>4 DEF DelAttr
    <3>5. CASE SetAttr
      BY <3>5 DEF SetAttr
    <3>6. CASE SetDefaultOf
      BY <3>6 DEF SetDefaultOf
    <3>7. CASE MarkFlagAsRequired
      BY <3>7 DEF MarkFlagAsRequired
    <3>8. CASE UseGnuGetOpt
      BY <3>8 DEF UseGnuGetOpt
    <3>9. CASE AppendFlagsIntoFile
      BY <3>9 DEF AppendFlagsIntoFile
    <3>10. CASE Restart
      BY <3>10 DEF Restart
    <3>11. QED
      BY <1>1, <3>1, <3>2, <3>3, <3>4, <3>5, <3>6, <3>7, <3>8, <3>9, <3>10
  <2>2. Other
    BY <2>1, <1>d
  <2>3. QED
    BY <2>2
<1>2. CASE NoSuchFlag
  <2>1. PICK name \in {"del", "set", "SetDefault", "MarkFlagAsRequired"} :
          \E c \in Calls(name) : \E error : Makes(c, error)
    BY <1>2 DEF NoSuchFlag
  <2>2. Other
    BY <2>1, <1>d
  <2>3. QED
    BY <2>2
<1>3. CASE AppendFlagValues \/ RemoveFlagValues \/ Reset
  <2>1. /\ op'.call \in {"AppendFlagValues", "RemoveFlagValues", "Reset"}
        /\ pc' \in Loops /\ UNCHANGED frame
    BY <1>3, <1>a DEF AppendFlagValues, RemoveFlagValues, Reset, Start, Loops
  <2>2. QED
    BY <2>1
<1>4. CASE AppendFlag \/ RemoveFlag \/ ResetFlag \/ LoopEnds
  <2>1. op' = op /\ pc \in Loops /\ (pc' = pc \/ pc' = "client") /\ UNCHANGED frame
    BY <1>4, HowLoopsGo DEF AppendFlag, RemoveFlag, ResetFlag, LoopEnds, client, Loops,
                            Continues, Fails, Returns
  <2>2. QED
    BY <2>1
<1>5. QED
  BY <1>1, <1>2, <1>3, <1>4 DEF Next, Step, Stay

-----------------------------------------------------------------------------
(* Folds.                                                                  *)

\* What the loops over a sequence do with one element e.  The lemmas on folds
\* are about any of them.
Fold(loop, p, acc, e) ==
  CASE loop = "without" -> IF e = p.id THEN acc ELSE Append(acc, e)
    [] loop = "joined" -> IF Contains(acc, e) THEN acc ELSE Append(acc, e)
    [] loop = "declare" -> Declare(acc, p.f, e, p.m)
    [] loop = "sorted" ->
         acc \o (IF e \in p.names THEN <<e>> ELSE <<>>)
             \o (IF \E b \in p.booleans : e = "no" \o b THEN <<e>> ELSE <<>>)
    [] OTHER -> ScanArgument(acc, e, p.gnu, p.names, p.booleans)

\* g folds s over every set of indices among the first n.
Folds(g, loop, p, base, s, n) ==
  g = [S \in SUBSET (1 .. n) |->
         IF S = {} THEN base ELSE Fold(loop, p, g[S \ {Max(S)}], s[Max(S)])]

LEMMA FoldExists ==
  ASSUME NEW loop, NEW p, NEW base, NEW s, NEW n \in Nat
  PROVE  \E g : Folds(g, loop, p, base, s, n)
<1> DEFINE N == {m \in Nat : \E g : Folds(g, loop, p, base, s, m)}
<1>1. 0 \in N
  <2> DEFINE g == [S \in SUBSET (1 .. 0) |-> base]
  <2>1. \A S \in SUBSET (1 .. 0) : S = {}
    OBVIOUS
  <2>2. Folds(g, loop, p, base, s, 0)
    BY <2>1 DEF Folds
  <2>3. QED
    BY <2>2
<1>2. ASSUME NEW m \in Nat, m \in N PROVE m + 1 \in N
  <2>1. PICK g : Folds(g, loop, p, base, s, m)
    BY <1>2
  <2> DEFINE h == [S \in SUBSET (1 .. m + 1) |->
                     IF m + 1 \in S THEN Fold(loop, p, g[S \ {m + 1}], s[m + 1]) ELSE g[S]]
  <2>2. ASSUME NEW S \in SUBSET (1 .. m + 1)
        PROVE  h[S] = IF S = {} THEN base ELSE Fold(loop, p, h[S \ {Max(S)}], s[Max(S)])
    <3>1. CASE m + 1 \in S
      <4>1. Max(S) = m + 1
        BY <3>1, MaxOf
      <4>2. S \ {m + 1} \in SUBSET (1 .. m + 1) /\ m + 1 \notin S \ {m + 1}
        OBVIOUS
      <4>3. h[S \ {m + 1}] = g[S \ {m + 1}]
        BY <4>2
      <4>4. h[S] = Fold(loop, p, g[S \ {m + 1}], s[m + 1])
        BY <3>1
      <4>5. QED
        BY <3>1, <4>1, <4>3, <4>4
    <3>2. CASE m + 1 \notin S
      <4>1. S \in SUBSET (1 .. m)
        BY <3>2
      <4>2. h[S] = g[S]
        BY <3>2
      <4>3. g[S] = IF S = {} THEN base ELSE Fold(loop, p, g[S \ {Max(S)}], s[Max(S)])
        BY <2>1, <4>1 DEF Folds
      <4>4. h[S \ {Max(S)}] = g[S \ {Max(S)}]
        BY <3>2
      <4>5. QED
        BY <4>2, <4>3, <4>4
    <3>3. QED
      BY <3>1, <3>2
  <2>3. Folds(h, loop, p, base, s, m + 1)
    <3> DEFINE k == [S \in SUBSET (1 .. m + 1) |->
                       IF S = {} THEN base ELSE Fold(loop, p, h[S \ {Max(S)}], s[Max(S)])]
    <3>1. h = k
      BY <2>2
    <3> HIDE DEF h
    <3>2. QED
      BY <3>1 DEF Folds
  <2>4. \E f : Folds(f, loop, p, base, s, m + 1)
    <3> HIDE DEF h
    <3>1. QED
      BY <2>3
  <2>5. QED
    BY <2>4
<1>3. Nat \subseteq N
  <2> HIDE DEF N
  <2>1. QED
    BY <1>1, <1>2, NatSetInduction
<1>4. QED
  BY <1>3

\* The fold goes through s from the front.
Runs(g, loop, p, base, s, n) ==
  /\ g[1 .. 0] = base
  /\ \A i \in 1 .. n : g[1 .. i] = Fold(loop, p, g[1 .. i - 1], s[i])

LEMMA FoldRuns ==
  ASSUME NEW loop, NEW p, NEW base, NEW s, NEW n \in Nat,
         NEW g, Folds(g, loop, p, base, s, n)
  PROVE  Runs(g, loop, p, base, s, n)
<1>1. \A S \in SUBSET (1 .. n) :
        g[S] = IF S = {} THEN base ELSE Fold(loop, p, g[S \ {Max(S)}], s[Max(S)])
  BY DEF Folds
<1>2. 1 .. 0 = {} /\ {} \in SUBSET (1 .. n)
  OBVIOUS
<1>3. ASSUME NEW i \in 1 .. n PROVE g[1 .. i] = Fold(loop, p, g[1 .. i - 1], s[i])
  <2>1. 1 .. i \in SUBSET (1 .. n) /\ i \in 1 .. i /\ i \in Nat /\ 1 .. i \in SUBSET (1 .. i)
    OBVIOUS
  <2>2. Max(1 .. i) = i
    BY <2>1, MaxOf
  <2>3. (1 .. i) \ {i} = 1 .. i - 1
    OBVIOUS
  <2>4. QED
    BY <1>1, <2>1, <2>2, <2>3
<1>4. QED
  BY <1>1, <1>2, <1>3 DEF Runs

\* Without is the fold of its loop.
WithoutFolds(g, s, id) ==
  g = [S \in SUBSET DOMAIN s |->
         IF S = {} THEN <<>>
         ELSE IF s[Max(S)] = id THEN g[S \ {Max(S)}] ELSE Append(g[S \ {Max(S)}], s[Max(S)])]

LEMMA WithoutUnfold ==
  ASSUME NEW s, NEW id
  PROVE  Without(s, id) = (CHOOSE g : WithoutFolds(g, s, id))[DOMAIN s]
  BY Zenon DEF Without, FoldLeft, MapThenFoldSet, WithoutFolds

LEMMA WithoutIsFold ==
  ASSUME NEW n \in Nat, NEW s, DOMAIN s = 1 .. n, NEW id
  PROVE  \E g : Folds(g, "without", [id |-> id], <<>>, s, n) /\ Without(s, id) = g[1 .. n]
<1> DEFINE p == [id |-> id]
           c == CHOOSE g : WithoutFolds(g, s, id)
<1>1. \A acc, e : Fold("without", p, acc, e) = IF e = id THEN acc ELSE Append(acc, e)
  BY DEF Fold
<1>2. ASSUME NEW g PROVE WithoutFolds(g, s, id) <=> Folds(g, "without", p, <<>>, s, n)
  <2> DEFINE a == [S \in SUBSET DOMAIN s |->
                     IF S = {} THEN <<>>
                     ELSE IF s[Max(S)] = id THEN g[S \ {Max(S)}]
                     ELSE Append(g[S \ {Max(S)}], s[Max(S)])]
             b == [S \in SUBSET (1 .. n) |->
                     IF S = {} THEN <<>> ELSE Fold("without", p, g[S \ {Max(S)}], s[Max(S)])]
  <2> HIDE DEF p
  <2>1. \A S \in SUBSET (1 .. n) : a[S] = b[S]
    BY <1>1
  <2>2. a = b
    BY <2>1
  <2>3. QED
    BY <2>2 DEF WithoutFolds, Folds
<1>3. \E g : Folds(g, "without", p, <<>>, s, n)
  BY FoldExists
<1>4. WithoutFolds(c, s, id)
  BY <1>2, <1>3
<1>5. QED
  BY <1>2, <1>4, WithoutUnfold

-----------------------------------------------------------------------------
(* Sequences.                                                              *)

LEMMA AppendContains ==
  ASSUME NEW s, IsSeq(s), NEW e
  PROVE  IsSeq(Append(s, e)) /\ \A x : Contains(Append(s, e), x) <=> x = e \/ Contains(s, x)
<1>1. /\ IsSeq(Append(s, e)) /\ Len(s) \in Nat
      /\ DOMAIN Append(s, e) = 1 .. Len(s) + 1
      /\ Append(s, e)[Len(s) + 1] = e
      /\ \A i \in 1 .. Len(s) : Append(s, e)[i] = s[i]
  BY AppendAny
<1>2. Len(Append(s, e)) = Len(s) + 1
  <2>1. s \in Seq(Range(s) \cup {e})
    BY DEF IsSeq
  <2>2. QED
    BY <2>1
<1>3. \A i \in 1 .. Len(s) + 1 : i = Len(s) + 1 \/ i \in 1 .. Len(s)
  BY <1>1
<1>4. Len(s) + 1 \in 1 .. Len(s) + 1 /\ \A i \in 1 .. Len(s) : i \in 1 .. Len(s) + 1
  BY <1>1
<1> DEFINE t == Append(s, e)
<1> HIDE DEF t
<1>5. ASSUME NEW x PROVE Contains(t, x) <=> x = e \/ Contains(s, x)
  <2>1. Len(t) = Len(s) + 1 /\ t[Len(s) + 1] = e /\ \A i \in 1 .. Len(s) : t[i] = s[i]
    BY <1>1, <1>2 DEF t
  <2>2. QED
    BY <1>3, <1>4, <2>1 DEF Contains
<1>6. QED
  BY <1>1, <1>5 DEF t

LEMMA EmptyContains == IsSeq(<<>>) /\ \A x : ~Contains(<<>>, x)
<1>1. IsSeq(<<>>) /\ Len(<<>>) = 0
  BY DEF IsSeq
<1>2. QED
  BY <1>1 DEF Contains

\* All but one element are left.
LEMMA WithoutContains ==
  ASSUME NEW s, IsSeq(s), NEW id
  PROVE  /\ IsSeq(Without(s, id))
         /\ \A x : Contains(Without(s, id), x) <=> x # id /\ Contains(s, x)
<1> DEFINE n == Len(s)
           p == [id |-> id]
<1>1. n \in Nat /\ DOMAIN s = 1 .. n
  BY DEF IsSeq
<1> HIDE DEF n
<1>2. PICK g : Folds(g, "without", p, <<>>, s, n) /\ Without(s, id) = g[1 .. n]
  BY <1>1, WithoutIsFold
<1>3. /\ g[1 .. 0] = <<>>
      /\ \A i \in 1 .. n : g[1 .. i] = IF s[i] = id THEN g[1 .. i - 1]
                                       ELSE Append(g[1 .. i - 1], s[i])
  <2>1. /\ g[1 .. 0] = <<>>
        /\ \A i \in 1 .. n : g[1 .. i] = Fold("without", p, g[1 .. i - 1], s[i])
    <3> HIDE DEF p
    <3>1. Runs(g, "without", p, <<>>, s, n)
      BY <1>1, <1>2, FoldRuns
    <3>2. QED
      BY <3>1 DEF Runs
  <2>2. \A acc, e : Fold("without", p, acc, e) = IF e = id THEN acc ELSE Append(acc, e)
    BY DEF Fold
  <2>3. QED
    BY <2>1, <2>2
<1> DEFINE T == {i \in 0 .. n : /\ IsSeq(g[1 .. i])
                                /\ \A x : Contains(g[1 .. i], x)
                                            <=> x # id /\ \E j \in 1 .. i : s[j] = x}
<1>4. 0 \in T
  BY <1>1, <1>3, EmptyContains
<1>5. ASSUME NEW i \in 1 .. n, i - 1 \in T PROVE i \in T
  <2>1. \A j : j \in 1 .. i <=> j = i \/ j \in 1 .. i - 1
    OBVIOUS
  <2> DEFINE a == g[1 .. i - 1]
             b == g[1 .. i]
  <2>2. /\ IsSeq(a)
        /\ \A x : Contains(a, x) <=> x # id /\ \E j \in 1 .. i - 1 : s[j] = x
    BY <1>5
  <2>3. b = IF s[i] = id THEN a ELSE Append(a, s[i])
    BY <1>3
  <2> HIDE DEF a, b
  <2>4. IsSeq(b) /\ \A x : Contains(b, x) <=> Contains(a, x) \/ (x = s[i] /\ x # id)
    BY <2>2, <2>3, AppendContains
  <2>5. \A x : Contains(b, x) <=> x # id /\ \E j \in 1 .. i : s[j] = x
    BY <2>1, <2>2, <2>4
  <2>6. i \in 0 .. n
    BY <1>1
  <2>7. QED
    BY <2>4, <2>5, <2>6 DEF b
<1>6. n \in T
  <2> HIDE DEF T
  <2>1. QED
    BY <1>1, <1>4, <1>5, FoldKeeps
<1>7. QED
  BY <1>2, <1>6 DEF Contains, n

-----------------------------------------------------------------------------
(* Key flags.                                                              *)

JoinedFolds(g, s, t) ==
  g = [S \in SUBSET DOMAIN t |->
         IF S = {} THEN s
         ELSE IF Contains(g[S \ {Max(S)}], t[Max(S)]) THEN g[S \ {Max(S)}]
         ELSE Append(g[S \ {Max(S)}], t[Max(S)])]

LEMMA JoinedUnfold ==
  ASSUME NEW s, NEW t
  PROVE  Joined(s, t) = (CHOOSE g : JoinedFolds(g, s, t))[DOMAIN t]
  BY Zenon DEF Joined, FoldLeft, MapThenFoldSet, JoinedFolds

LEMMA JoinedIsFold ==
  ASSUME NEW n \in Nat, NEW s, NEW t, DOMAIN t = 1 .. n
  PROVE  \E g : Folds(g, "joined", <<>>, s, t, n) /\ Joined(s, t) = g[1 .. n]
<1> DEFINE c == CHOOSE g : JoinedFolds(g, s, t)
<1>1. \A acc, e : Fold("joined", <<>>, acc, e) = IF Contains(acc, e) THEN acc ELSE Append(acc, e)
  BY DEF Fold
<1>2. ASSUME NEW g PROVE JoinedFolds(g, s, t) <=> Folds(g, "joined", <<>>, s, t, n)
  <2> DEFINE a == [S \in SUBSET DOMAIN t |->
                     IF S = {} THEN s
                     ELSE IF Contains(g[S \ {Max(S)}], t[Max(S)]) THEN g[S \ {Max(S)}]
                     ELSE Append(g[S \ {Max(S)}], t[Max(S)])]
             b == [S \in SUBSET (1 .. n) |->
                     IF S = {} THEN s ELSE Fold("joined", <<>>, g[S \ {Max(S)}], t[Max(S)])]
  <2>1. \A S \in SUBSET (1 .. n) : a[S] = b[S]
    BY <1>1
  <2>2. a = b
    BY <2>1
  <2>3. QED
    BY <2>2 DEF JoinedFolds, Folds
<1>3. \E g : Folds(g, "joined", <<>>, s, t, n)
  BY FoldExists
<1>4. JoinedFolds(c, s, t)
  BY <1>2, <1>3
<1>5. QED
  BY <1>2, <1>4, JoinedUnfold

LEMMA JoinedIsSeq ==
  ASSUME NEW s, NEW t, IsSeq(s), IsSeq(t) PROVE IsSeq(Joined(s, t))
<1> DEFINE n == Len(t)
<1>1. n \in Nat /\ DOMAIN t = 1 .. n
  BY DEF IsSeq
<1> HIDE DEF n
<1>2. PICK g : Folds(g, "joined", <<>>, s, t, n) /\ Joined(s, t) = g[1 .. n]
  BY <1>1, JoinedIsFold
<1>3. /\ g[1 .. 0] = s
      /\ \A i \in 1 .. n : g[1 .. i] = g[1 .. i - 1] \/ g[1 .. i] = Append(g[1 .. i - 1], t[i])
  <2>1. /\ g[1 .. 0] = s
        /\ \A i \in 1 .. n : g[1 .. i] = Fold("joined", <<>>, g[1 .. i - 1], t[i])
    <3>1. Runs(g, "joined", <<>>, s, t, n)
      BY <1>1, <1>2, FoldRuns
    <3>2. QED
      BY <3>1 DEF Runs
  <2>2. \A acc, e : Fold("joined", <<>>, acc, e) = acc \/ Fold("joined", <<>>, acc, e) = Append(acc, e)
    BY DEF Fold
  <2>3. QED
    BY <2>1, <2>2
<1> DEFINE T == {i \in 0 .. n : IsSeq(g[1 .. i])}
<1>4. 0 \in T
  BY <1>1, <1>3
<1>5. ASSUME NEW i \in 1 .. n, i - 1 \in T PROVE i \in T
  <2>1. \A a, e : IsSeq(a) => IsSeq(Append(a, e))
    BY AppendAny
  <2>2. IsSeq(g[1 .. i])
    BY <1>3, <1>5, <2>1
  <2>3. QED
    BY <1>1, <2>2
<1>6. n \in T
  <2> HIDE DEF T
  <2>1. QED
    BY <1>1, <1>4, <1>5, FoldKeeps
<1>7. QED
  BY <1>2, <1>6

\* Lists that have all that the lists before had, and are sequences.
Grown(before, after) ==
  /\ DOMAIN after = DOMAIN before
  /\ \A m \in DOMAIN before : IsSeq(after[m]) /\ \A x : Contains(before[m], x) => Contains(after[m], x)
AreSeqs(lists) == \A m \in DOMAIN lists : IsSeq(lists[m])

LEMMA RegisterKeyGrows ==
  ASSUME NEW lists, AreSeqs(lists), NEW m, NEW id
  PROVE  Grown(lists, _RegisterKeyFlag(lists, m, id))
<1>1. ASSUME NEW k \in DOMAIN lists
      PROVE  /\ IsSeq(Append(lists[k], id))
             /\ \A x : Contains(lists[k], x) => Contains(Append(lists[k], id), x)
  BY AppendContains DEF AreSeqs
<1>2. QED
  BY <1>1 DEF _RegisterKeyFlag, Grown, AreSeqs

LEMMA GrownTwice ==
  ASSUME NEW a, NEW b, NEW c, Grown(a, b), Grown(b, c) PROVE Grown(a, c)
  BY DEF Grown

DeclareFolds(g, base, f, names, m) ==
  g = [S \in SUBSET DOMAIN names |->
         IF S = {} THEN base ELSE Declare(g[S \ {Max(S)}], f, names[Max(S)], m)]

LEMMA DeclareUnfold ==
  ASSUME NEW lists, NEW f, NEW names, NEW m
  PROVE  DeclareKeys(lists, f, names, m)
           = (CHOOSE g : DeclareFolds(g, [lists |-> lists, error |-> ""], f, names, m))[DOMAIN names]
  BY Zenon DEF DeclareKeys, FoldLeft, MapThenFoldSet, DeclareFolds

DeclaredBy(g, lists, f, names, m, n) ==
  /\ Folds(g, "declare", [f |-> f, m |-> m], [lists |-> lists, error |-> ""], names, n)
  /\ DeclareKeys(lists, f, names, m) = g[1 .. n]

LEMMA DeclareIsFold ==
  ASSUME NEW n \in Nat, NEW lists, NEW f, NEW names, NEW m, DOMAIN names = 1 .. n
  PROVE  \E g : DeclaredBy(g, lists, f, names, m, n)
<1> DEFINE p == [f |-> f, m |-> m]
           base == [lists |-> lists, error |-> ""]
           c == CHOOSE g : DeclareFolds(g, base, f, names, m)
<1>1. \A acc, e : Fold("declare", p, acc, e) = Declare(acc, f, e, m)
  BY DEF Fold
<1>2. ASSUME NEW g PROVE DeclareFolds(g, base, f, names, m) <=> Folds(g, "declare", p, base, names, n)
  <2> HIDE DEF p, base
  <2> DEFINE a == [S \in SUBSET DOMAIN names |->
                     IF S = {} THEN base ELSE Declare(g[S \ {Max(S)}], f, names[Max(S)], m)]
             b == [S \in SUBSET (1 .. n) |->
                     IF S = {} THEN base ELSE Fold("declare", p, g[S \ {Max(S)}], names[Max(S)])]
  <2>1. \A S \in SUBSET (1 .. n) : a[S] = b[S]
    BY <1>1
  <2>2. a = b
    BY <2>1
  <2>3. QED
    BY <2>2 DEF DeclareFolds, Folds
<1>3. \E g : Folds(g, "declare", p, base, names, n)
  <2> HIDE DEF p, base
  <2>1. QED
    BY FoldExists
<1>4. DeclareFolds(c, base, f, names, m)
  <2> HIDE DEF p, base
  <2>1. QED
    BY <1>2, <1>3
<1>5. DeclareKeys(lists, f, names, m) = c[1 .. n]
  BY DeclareUnfold
<1>6. Folds(c, "declare", p, base, names, n)
  BY <1>2, <1>4
<1>7. DeclaredBy(c, lists, f, names, m, n)
  BY <1>5, <1>6 DEF DeclaredBy
<1>8. QED
  BY <1>7

\* Declaring key flags takes none out of the lists.
LEMMA DeclareGrows ==
  ASSUME NEW n \in Nat, NEW lists, NEW f, NEW names, NEW m, DOMAIN names = 1 .. n,
         AreSeqs(lists)
  PROVE  Grown(lists, DeclareKeys(lists, f, names, m).lists)
<1> DEFINE p == [f |-> f, m |-> m]
           base == [lists |-> lists, error |-> ""]
<1>0. PICK g : DeclaredBy(g, lists, f, names, m, n)
  BY DeclareIsFold
<1>1. /\ Folds(g, "declare", p, base, names, n)
      /\ DeclareKeys(lists, f, names, m) = g[1 .. n]
  BY <1>0 DEF DeclaredBy
<1>2. /\ g[1 .. 0] = base
      /\ \A i \in 1 .. n : g[1 .. i] = Declare(g[1 .. i - 1], f, names[i], m)
  <2>1. /\ g[1 .. 0] = base
        /\ \A i \in 1 .. n : g[1 .. i] = Fold("declare", p, g[1 .. i - 1], names[i])
    <3> HIDE DEF p, base
    <3>1. Runs(g, "declare", p, base, names, n)
      BY <1>1, FoldRuns
    <3>2. QED
      BY <3>1 DEF Runs
  <2>2. \A acc, e : Fold("declare", p, acc, e) = Declare(acc, f, e, m)
    BY DEF Fold
  <2>3. QED
    BY <2>1, <2>2
<1> DEFINE Good(acc) == DOMAIN acc = {"lists", "error"} /\ Grown(lists, acc.lists)
           T == {i \in 0 .. n : Good(g[1 .. i])}
<1>3. ASSUME NEW acc, Good(acc), NEW name PROVE Good(Declare(acc, f, name, m))
  <2>1. AreSeqs(acc.lists) /\ Grown(lists, acc.lists)
    BY <1>3 DEF AreSeqs, Grown
  <2>2. Grown(lists, _RegisterKeyFlag(acc.lists, m, f[name]))
    BY <2>1, RegisterKeyGrows, GrownTwice
  <2> DEFINE with == [acc EXCEPT !.lists = _RegisterKeyFlag(acc.lists, m, f[name])]
             without == [acc EXCEPT !.error = "UnrecognizedFlagError"]
  <2>3. Good(with)
    BY <1>3, <2>2
  <2>4. Good(without)
    BY <1>3
  <2>5. Declare(acc, f, name, m) \in {acc, with, without}
    BY DEF Declare
  <2> HIDE DEF with, without, Good
  <2>6. QED
    BY <1>3, <2>3, <2>4, <2>5
<1>4. 0 \in T
  <2>1. Grown(lists, lists)
    BY DEF Grown, AreSeqs
  <2>2. Good(base)
    BY <2>1
  <2> HIDE DEF Good, base
  <2>3. QED
    BY <1>2, <2>2
<1>5. ASSUME NEW i \in 1 .. n, i - 1 \in T PROVE i \in T
  <2>0. Good(g[1 .. i - 1]) /\ g[1 .. i] = Declare(g[1 .. i - 1], f, names[i], m)
    BY <1>2, <1>5
  <2> HIDE DEF Good, base
  <2>1. Good(g[1 .. i])
    BY <1>3, <2>0
  <2>2. QED
    BY <2>1
<1>6. n \in T
  <2> HIDE DEF T
  <2>1. QED
    BY <1>4, <1>5, FoldKeeps
<1>7. QED
  BY <1>1, <1>6

-----------------------------------------------------------------------------
(* Lists by module.                                                        *)

\* A flag is in the list of the module that defined it, and in no other.
ListsInv ==
  /\ DOMAIN byModule = Registry /\ DOMAIN keyFlags = Registry
  /\ \A r \in Registry :
       /\ DOMAIN byModule[r] = Module /\ AreSeqs(byModule[r])
       /\ DOMAIN keyFlags[r] = Module /\ AreSeqs(keyFlags[r])
       /\ \A m \in Module : \A id : Contains(byModule[r][m], id) =>
            /\ id \in DOMAIN decls
            /\ r # SPECIAL_FLAGS => id \notin {4, 5}
            /\ \A k \in Module : Contains(byModule[r][k], id) => k = m
  /\ 5 <= Len(decls)

\* Clients leave the special flags alone.
SpecialInv ==
  /\ flags[SPECIAL_FLAGS] = Imported(SPECIAL_FLAGS)
  /\ pc \in {"append", "remove"} => op.reg \in Registry \ {SPECIAL_FLAGS}
  /\ pc = "append" => op.call = "AppendFlagValues"

LEMMA CallsAreSound ==
  ASSUME RegistryInv, NEW name, NEW c \in Calls(name)
  PROVE  /\ pc = "client" /\ c.call = name
         /\ name # "restart" => c.reg \in Registry \ {SPECIAL_FLAGS}
         /\ name = "DEFINE" => c.module \in Module
         /\ name = "ADOPT_module_key_flags" => c.from \in Module
<1>1. /\ pc = "client" /\ c.call = name
      /\ c \in Programs[program][made + 1] /\ made + 1 <= Len(Programs[program])
      /\ program \in DOMAIN Programs
  BY DEF Calls, RegistryInv
<1>2. made + 1 \in 1 .. Len(Programs[program])
  <2>1. Len(Programs[program]) \in Nat /\ made \in Nat
    BY <1>1, ProgramsAssumption DEF RegistryInv
  <2>2. QED
    BY <1>1, <2>1
<1>3. QED
  BY <1>1, <1>2, ProgramsAssumption

\* A name goes out of a registry of the client.
Deletion == \E r \in Registry \ {SPECIAL_FLAGS} : \E name \in DOMAIN flags[r] : DelFlag(r, name)

LEMMA HowListsChange ==
  ASSUME RegistryInv, SpecialInv, [Next]_vars
  PROVE  \/ UNCHANGED <<decls, flags, byModule, keyFlags>>
         \/ DefineFlag
         \/ AppendFlag
         \/ DECLARE_key_flag \/ ADOPT_module_key_flags
         \/ Deletion /\ UNCHANGED decls /\ op'.call \in {"del", op.call}
<1>1. CASE DefineFlag \/ AppendFlag \/ DECLARE_key_flag \/ ADOPT_module_key_flags
  BY <1>1
<1>2. CASE SetAttr \/ SetDefaultOf \/ MarkFlagAsRequired
  BY <1>2 DEF SetAttr, SetDefaultOf, MarkFlagAsRequired
<1>3. CASE DelAttr
  <2>1. PICK c \in Calls("del") : /\ c.name \in DOMAIN flags[c.reg] /\ DelFlag(c.reg, c.name)
                                  /\ Makes(c, "") /\ UNCHANGED decls
    BY <1>3 DEF DelAttr
  <2>2. c.reg \in Registry \ {SPECIAL_FLAGS} /\ c.call = "del"
    BY CallsAreSound
  <2>3. QED
    BY <2>1, <2>2 DEF Deletion, Makes
<1>4. CASE NoSuchFlag \/ UseGnuGetOpt \/ AppendFlagsIntoFile \/ Restart
  BY <1>4 DEF NoSuchFlag, UseGnuGetOpt, AppendFlagsIntoFile, Restart, registry
<1>5. CASE AppendFlagValues \/ RemoveFlagValues \/ Reset
  BY <1>5 DEF AppendFlagValues, RemoveFlagValues, Reset, Start, registry
<1>6. CASE RemoveFlag
  <2>1. pc = "remove" /\ UNCHANGED <<decls, op>>
    BY <1>6 DEF RemoveFlag, client
  <2>2. op.reg \in Registry \ {SPECIAL_FLAGS}
    BY <2>1 DEF SpecialInv
  <2>3. QED
    BY <1>6, <2>1, <2>2 DEF RemoveFlag, Deletion
<1>7. CASE ResetFlag \/ LoopEnds \/ CallFlags \/ ApplyOption
  BY <1>7 DEF ResetFlag, LoopEnds, CallFlags, ApplyOption, registry
<1>8. CASE ReadArgument \/ ReadLine \/ CloseFile \/ ExpandBooleans \/ ParseOptions \/ CheckAndReturn
  <2>1. Keeps
    BY <1>8 DEF ReadArgument, ReadLine, CloseFile, ExpandBooleans, ParseOptions, CheckAndReturn
  <2>2. QED
    BY <2>1 DEF Keeps, registry
<1>9. CASE UNCHANGED vars
  BY <1>9 DEF vars, registry
<1>10. QED
  BY <1>1, <1>2, <1>3, <1>4, <1>5, <1>6, <1>7, <1>8, <1>9 DEF Next, Step, Stay

\* What a deletion does to the lists: nothing, or they are without the flag, of
\* which then no name is left.
LEMMA DeletionForgets ==
  ASSUME RegistryInv, NEW r \in Registry, NEW name \in DOMAIN flags[r], DelFlag(r, name),
         DOMAIN byModule = Registry, DOMAIN keyFlags = Registry
  PROVE  LET id == flags[r][name] IN
         /\ \A q \in Registry \ {r} : UNCHANGED <<flags[q], byModule[q], keyFlags[q]>>
         /\ DOMAIN flags' = Registry /\ DOMAIN byModule' = Registry /\ DOMAIN keyFlags' = Registry
         /\ flags'[r] = [n \in DOMAIN flags[r] \ {name} |-> flags[r][n]]
         /\ \/ /\ id \in Range(flags'[r])
               /\ UNCHANGED <<byModule[r], keyFlags[r]>>
            \/ /\ id \notin Range(flags'[r])
               /\ byModule'[r] = _RemoveFlag(byModule[r], id)
               /\ keyFlags'[r] = _RemoveFlag(keyFlags[r], id)
<1> DEFINE id == flags[r][name]
           rest == [n \in DOMAIN flags[r] \ {name} |-> flags[r][n]]
<1>1. DOMAIN flags = Registry /\ Owned(flags[r])
  BY DEF RegistryInv
<1>2. /\ flags' = [flags EXCEPT ![r] = rest]
      /\ byModule' = [byModule EXCEPT ![r] = IF _FlagIsRegistered(rest, id) THEN byModule[r]
                                             ELSE _RemoveFlag(byModule[r], id)]
      /\ keyFlags' = [keyFlags EXCEPT ![r] = IF _FlagIsRegistered(rest, id) THEN keyFlags[r]
                                             ELSE _RemoveFlag(keyFlags[r], id)]
  BY DEF DelFlag
<1>3. _FlagIsRegistered(rest, id) <=> id \in Range(rest)
  BY <1>1 DEF _FlagIsRegistered, Owned, Range
<1> HIDE DEF rest
<1>4. flags'[r] = rest
  BY <1>1, <1>2
<1>5. QED
  BY <1>1, <1>2, <1>3, <1>4 DEF rest

LEMMA RemoveFlagKeeps ==
  ASSUME NEW lists, DOMAIN lists = Module, AreSeqs(lists), NEW id
  PROVE  /\ DOMAIN _RemoveFlag(lists, id) = Module /\ AreSeqs(_RemoveFlag(lists, id))
         /\ \A m \in Module : \A x : Contains(_RemoveFlag(lists, id)[m], x)
                                       <=> x # id /\ Contains(lists[m], x)
  BY WithoutContains DEF _RemoveFlag, AreSeqs

\* Key flags are added to the lists of one registry.
LEMMA KeysGrow ==
  ASSUME RegistryInv, ListsInv, DECLARE_key_flag \/ ADOPT_module_key_flags
  PROVE  /\ UNCHANGED <<decls, flags, byModule>>
         /\ \A r \in Registry : Grown(keyFlags[r], keyFlags'[r])
         /\ DOMAIN keyFlags' = Registry
<1>0. \A r \in Registry : Grown(keyFlags[r], keyFlags[r])
  BY DEF ListsInv, Grown, AreSeqs
<1>1. CASE DECLARE_key_flag
  <2>0. PICK c \in Calls("DECLARE_key_flag") : \E from :
          /\ keyFlags' = [keyFlags EXCEPT ![c.reg] =
                            DeclareKeys(keyFlags[c.reg], flags[from], <<c.name>>, c.module).lists]
          /\ UNCHANGED <<decls, flags, byModule>>
    BY <1>1, Zenon DEF DECLARE_key_flag
  <2>1. PICK from :
          /\ keyFlags' = [keyFlags EXCEPT ![c.reg] =
                            DeclareKeys(keyFlags[c.reg], flags[from], <<c.name>>, c.module).lists]
          /\ UNCHANGED <<decls, flags, byModule>>
    BY <2>0
  <2>2. DOMAIN <<c.name>> = 1 .. 1 /\ 1 \in Nat
    OBVIOUS
  <2>3. c.reg \in Registry
    BY CallsAreSound
  <2>4. AreSeqs(keyFlags[c.reg])
    BY <2>3 DEF ListsInv
  <2>5. Grown(keyFlags[c.reg],
              DeclareKeys(keyFlags[c.reg], flags[from], <<c.name>>, c.module).lists)
    BY <2>2, <2>4, DeclareGrows
  <2>6. QED
    BY <1>0, <2>1, <2>5 DEF ListsInv
<1>2. CASE ADOPT_module_key_flags
  <2> DEFINE Own(c) == DeclareKeys(keyFlags[c.reg], flags[c.reg], AdoptedNames(c), c.module)
             Both(c, names) == DeclareKeys(Own(c).lists, flags[SPECIAL_FLAGS], names, c.module)
  <2>0. PICK c \in Calls("ADOPT_module_key_flags") : \E special \in SpecialNames :
          /\ keyFlags' = [keyFlags EXCEPT ![c.reg] =
                (IF c.from = GFLAGS /\ Own(c).error = "" THEN Both(c, special) ELSE Own(c)).lists]
          /\ UNCHANGED <<decls, flags, byModule>>
    BY <1>2, Zenon DEF ADOPT_module_key_flags
  <2>1. PICK special \in SpecialNames :
          /\ \/ keyFlags' = [keyFlags EXCEPT ![c.reg] = Both(c, special).lists]
             \/ keyFlags' = [keyFlags EXCEPT ![c.reg] = Own(c).lists]
          /\ UNCHANGED <<decls, flags, byModule>>
    BY <2>0, Zenon
  <2>2. c.reg \in Registry /\ c.from \in Module
    BY CallsAreSound
  <2>3. \E k \in Nat : DOMAIN AdoptedNames(c) = 1 .. k
    <3>1. IsSeq(byModule[c.reg][c.from]) /\ IsSeq(keyFlags[c.reg][c.from])
      BY <2>2 DEF ListsInv, AreSeqs
    <3>2. IsSeq(_GetKeyFlagsForModule(c.reg, c.from))
      BY <3>1, JoinedIsSeq DEF _GetKeyFlagsForModule
    <3>3. \A s : IsSeq(s) => Len(s) \in Nat /\ DOMAIN s = 1 .. Len(s)
      BY DEF IsSeq
    <3>4. DOMAIN AdoptedNames(c) = DOMAIN _GetKeyFlagsForModule(c.reg, c.from)
      BY DEF AdoptedNames
    <3>5. QED
      BY <3>2, <3>3, <3>4
  <2>4. AreSeqs(keyFlags[c.reg])
    BY <2>2 DEF ListsInv
  <2>5. Grown(keyFlags[c.reg], Own(c).lists)
    BY <2>3, <2>4, DeclareGrows
  <2>6. DOMAIN special = 1 .. 2 /\ 2 \in Nat
    BY DEF SpecialNames
  <2>7. AreSeqs(Own(c).lists)
    BY <2>4, <2>5 DEF Grown, AreSeqs
  <2>8. Grown(Own(c).lists, Both(c, special).lists)
    <3> DEFINE lists == Own(c).lists
    <3>1. AreSeqs(lists)
      BY <2>7
    <3> HIDE DEF lists
    <3>2. Grown(lists, DeclareKeys(lists, flags[SPECIAL_FLAGS], special, c.module).lists)
      BY <2>6, <3>1, DeclareGrows
    <3>3. QED
      BY <3>2 DEF lists
  <2> HIDE DEF Own, Both
  <2>9. Grown(keyFlags[c.reg], Both(c, special).lists)
    BY <2>5, <2>8, GrownTwice
  <2>10. QED
    BY <1>0, <2>1, <2>2, <2>5, <2>9 DEF ListsInv
<1>3. QED
  BY <1>1, <1>2

\* A new flag is put at the end of one list.
LEMMA DefinedIsListed ==
  ASSUME RegistryInv, ListsInv, DefineFlag
  PROVE  \/ UNCHANGED <<decls, flags, byModule, keyFlags>>
         \/ /\ IsSeq(decls) /\ Len(decls) \in Nat /\ DOMAIN decls = 1 .. Len(decls)
            /\ DOMAIN decls' = 1 .. Len(decls) + 1 /\ Len(decls') = Len(decls) + 1
            /\ UNCHANGED keyFlags
            /\ \E r \in Registry \ {SPECIAL_FLAGS} :
                 /\ \E decl : flags' = [flags EXCEPT ![r] = WithFlag(@, decl, Len(decls) + 1)]
                 /\ \E m : byModule' = [byModule EXCEPT ![r] = _RegisterFlag(@, m, Len(decls) + 1)]
<1>1. PICK c \in Calls("DEFINE") :
        \/ /\ decls' = Append(decls, c.decl)
           /\ flags' = [flags EXCEPT ![c.reg] = WithFlag(@, c.decl, Len(decls) + 1)]
           /\ byModule' = [byModule EXCEPT ![c.reg] = _RegisterFlag(@, c.module, Len(decls) + 1)]
           /\ UNCHANGED keyFlags
        \/ UNCHANGED <<decls, flags, byModule, keyFlags>>
  BY DEF DefineFlag, registry
<1>2. c.reg \in Registry \ {SPECIAL_FLAGS}
  BY CallsAreSound
<1>3. IsSeq(decls)
  BY DEF RegistryInv
<1>4. CASE UNCHANGED <<decls, flags, byModule, keyFlags>>
  BY <1>4
<1>5. CASE ~UNCHANGED <<decls, flags, byModule, keyFlags>>
  <2>1. /\ decls' = Append(decls, c.decl)
        /\ flags' = [flags EXCEPT ![c.reg] = WithFlag(@, c.decl, Len(decls) + 1)]
        /\ byModule' = [byModule EXCEPT ![c.reg] = _RegisterFlag(@, c.module, Len(decls) + 1)]
        /\ UNCHANGED keyFlags
    BY <1>1, <1>5
  <2>2. /\ IsSeq(decls') /\ Len(decls) \in Nat /\ DOMAIN decls = 1 .. Len(decls)
        /\ DOMAIN decls' = 1 .. Len(decls) + 1
    BY <1>3, <2>1, AppendAny
  <2>3. Len(decls') = Len(decls) + 1
    BY <2>2 DEF IsSeq
  <2>4. QED
    BY <1>2, <1>3, <2>1, <2>2, <2>3
<1>6. QED
  BY <1>4, <1>5

LEMMA NextListsInv ==
  RegistryInv /\ SpecialInv /\ ListsInv /\ [Next]_vars => ListsInv'
<1> SUFFICES ASSUME RegistryInv, SpecialInv, ListsInv, [Next]_vars PROVE ListsInv'
  OBVIOUS
<1>1. CASE UNCHANGED <<decls, byModule, keyFlags>>
  BY <1>1 DEF ListsInv, AreSeqs
<1>2. CASE DefineFlag /\ ~UNCHANGED <<decls, byModule, keyFlags>>
  <2> DEFINE new == Len(decls) + 1
  <2>1. /\ IsSeq(decls) /\ Len(decls) \in Nat /\ DOMAIN decls = 1 .. Len(decls)
        /\ DOMAIN decls' = 1 .. new /\ Len(decls') = new
        /\ UNCHANGED keyFlags
    BY <1>2, DefinedIsListed
  <2>0. PICK r \in Registry \ {SPECIAL_FLAGS} :
          \E m : byModule' = [byModule EXCEPT ![r] = _RegisterFlag(@, m, new)]
    BY <1>2, DefinedIsListed
  <2>2. PICK m : byModule' = [byModule EXCEPT ![r] = _RegisterFlag(@, m, new)]
    BY <2>0
  <2>3. /\ new \notin DOMAIN decls /\ DOMAIN decls \subseteq DOMAIN decls' /\ new \in DOMAIN decls'
        /\ new \notin {4, 5} /\ 5 <= Len(decls')
    BY <2>1 DEF ListsInv
  <2> HIDE DEF new
  <2>4. ASSUME NEW q \in Registry
        PROVE  /\ DOMAIN byModule'[q] = Module /\ AreSeqs(byModule'[q])
               /\ \A k \in Module : \A x : Contains(byModule'[q][k], x)
                                             <=> \/ Contains(byModule[q][k], x)
                                                 \/ q = r /\ k = m /\ x = new
    <3>1. DOMAIN byModule[q] = Module /\ AreSeqs(byModule[q]) /\ DOMAIN byModule = Registry
      BY DEF ListsInv
    <3>2. CASE q # r
      BY <2>2, <3>1, <3>2
    <3>3. CASE q = r
      <4>1. byModule'[q] = [byModule[q] EXCEPT ![m] = Append(@, new)]
        BY <2>2, <3>1, <3>3 DEF _RegisterFlag
      <4>2. ASSUME NEW k \in Module
            PROVE  byModule'[q][k] = IF k = m THEN Append(byModule[q][k], new) ELSE byModule[q][k]
        BY <3>1, <4>1
      <4>3. ASSUME NEW k \in Module
            PROVE  /\ IsSeq(Append(byModule[q][k], new))
                   /\ \A x : Contains(Append(byModule[q][k], new), x)
                               <=> x = new \/ Contains(byModule[q][k], x)
        BY <3>1, AppendContains DEF AreSeqs
      <4>4. DOMAIN byModule'[q] = Module
        BY <3>1, <4>1
      <4>5. QED
        BY <3>1, <3>3, <4>2, <4>3, <4>4 DEF AreSeqs
    <3>4. QED
      BY <3>2, <3>3
  <2>5. ASSUME NEW q \in Registry, NEW k \in Module, NEW x, Contains(byModule'[q][k], x)
        PROVE  /\ x \in DOMAIN decls'
               /\ q # SPECIAL_FLAGS => x \notin {4, 5}
               /\ \A l \in Module : Contains(byModule'[q][l], x) => l = k
    <3>1. CASE Contains(byModule[q][k], x)
      <4>1. /\ x \in DOMAIN decls
            /\ q # SPECIAL_FLAGS => x \notin {4, 5}
            /\ \A l \in Module : Contains(byModule[q][l], x) => l = k
        BY <3>1 DEF ListsInv
      <4>2. x # new /\ x \in DOMAIN decls'
        BY <2>3, <4>1
      <4>3. \A l \in Module : Contains(byModule'[q][l], x) => Contains(byModule[q][l], x)
        BY <2>4, <4>2
      <4>4. QED
        BY <4>1, <4>2, <4>3
    <3>2. CASE ~Contains(byModule[q][k], x)
      <4>1. q = r /\ k = m /\ x = new
        BY <2>4, <2>5, <3>2
      <4>2. \A l \in Module : ~Contains(byModule[q][l], new)
        BY <2>3 DEF ListsInv
      <4>3. QED
        BY <2>3, <2>4, <4>1, <4>2
    <3>3. QED
      BY <3>1, <3>2
  <2>6. /\ DOMAIN byModule' = Registry /\ DOMAIN keyFlags' = Registry
        /\ \A q \in Registry : DOMAIN keyFlags'[q] = Module /\ AreSeqs(keyFlags'[q])
    BY <2>1, <2>2 DEF ListsInv
  <2>7. QED
    BY <2>3, <2>4, <2>5, <2>6 DEF ListsInv, AreSeqs
<1>3. CASE DECLARE_key_flag \/ ADOPT_module_key_flags
  <2>1. /\ UNCHANGED <<decls, byModule>>
        /\ \A r \in Registry : Grown(keyFlags[r], keyFlags'[r])
        /\ DOMAIN keyFlags' = Registry
    BY <1>3, KeysGrow
  <2>2. \A r \in Registry : DOMAIN keyFlags'[r] = Module /\ AreSeqs(keyFlags'[r])
    BY <2>1 DEF Grown, AreSeqs, ListsInv
  <2>3. QED
    BY <2>1, <2>2 DEF ListsInv, AreSeqs
<1>4. CASE Deletion /\ UNCHANGED decls
  <2>1. PICK r \in Registry \ {SPECIAL_FLAGS} : \E name \in DOMAIN flags[r] : DelFlag(r, name)
    BY <1>4 DEF Deletion
  <2>2. PICK name \in DOMAIN flags[r] : DelFlag(r, name)
    BY <2>1
  <2>3. DOMAIN byModule = Registry /\ DOMAIN keyFlags = Registry
    BY DEF ListsInv
  <2>4. /\ \A q \in Registry \ {r} : UNCHANGED <<byModule[q], keyFlags[q]>>
        /\ DOMAIN byModule' = Registry /\ DOMAIN keyFlags' = Registry
        /\ \/ UNCHANGED <<byModule[r], keyFlags[r]>>
           \/ \E id : /\ byModule'[r] = _RemoveFlag(byModule[r], id)
                      /\ keyFlags'[r] = _RemoveFlag(keyFlags[r], id)
    BY <2>2, <2>3, DeletionForgets, Zenon
  <2>5. ASSUME NEW q \in Registry
        PROVE  /\ DOMAIN byModule'[q] = Module /\ AreSeqs(byModule'[q])
               /\ DOMAIN keyFlags'[q] = Module /\ AreSeqs(keyFlags'[q])
               /\ \A m \in Module : \A x : Contains(byModule'[q][m], x) => Contains(byModule[q][m], x)
    <3>1. /\ DOMAIN byModule[q] = Module /\ AreSeqs(byModule[q])
          /\ DOMAIN keyFlags[q] = Module /\ AreSeqs(keyFlags[q])
      BY DEF ListsInv
    <3>2. CASE q # r \/ UNCHANGED <<byModule[r], keyFlags[r]>>
      BY <2>4, <3>1, <3>2
    <3>3. CASE q = r /\ ~UNCHANGED <<byModule[r], keyFlags[r]>>
      <4>1. PICK id : /\ byModule'[q] = _RemoveFlag(byModule[q], id)
                      /\ keyFlags'[q] = _RemoveFlag(keyFlags[q], id)
        BY <2>4, <3>3
      <4> DEFINE left == _RemoveFlag(byModule[q], id)
      <4>2. /\ DOMAIN left = Module /\ AreSeqs(left)
            /\ \A m \in Module : \A x : Contains(left[m], x) <=> x # id /\ Contains(byModule[q][m], x)
        BY <3>1, RemoveFlagKeeps
      <4>a. byModule'[q] = left
        BY <4>1
      <4> HIDE DEF left
      <4>3. DOMAIN keyFlags'[q] = Module /\ AreSeqs(keyFlags'[q])
        BY <3>1, <4>1, RemoveFlagKeeps
      <4>4. QED
        BY <4>2, <4>a, <4>3
    <3>4. QED
      BY <3>2, <3>3
  <2>6. QED
    BY <1>4, <2>4, <2>5 DEF ListsInv, AreSeqs
<1>5. CASE AppendFlag
  BY <1>5, <1>1 DEF AppendFlag
<1>6. QED
  BY <1>1, <1>2, <1>3, <1>4, <1>5, HowListsChange

LEMMA NextSpecialInv ==
  RegistryInv /\ SpecialInv /\ ListsInv /\ [Next]_vars => SpecialInv'
<1> SUFFICES ASSUME RegistryInv, SpecialInv, ListsInv, [Next]_vars PROVE SpecialInv'
  OBVIOUS
<1>0. Imported(SPECIAL_FLAGS)' = Imported(SPECIAL_FLAGS)
  BY DEF Imported
<1>1. flags'[SPECIAL_FLAGS] = flags[SPECIAL_FLAGS]
  <2>1. DOMAIN flags = Registry /\ SPECIAL_FLAGS \in Registry
    BY RegistriesAreThere DEF RegistryInv
  <2>2. CASE DefineFlag
    BY <2>1, <2>2, DefinedIsListed
  <2>3. CASE AppendFlag
    <3>1. op.reg # SPECIAL_FLAGS
      BY <2>3 DEF AppendFlag, SpecialInv
    <3>2. QED
      BY <2>1, <2>3, <3>1 DEF AppendFlag
  <2>4. CASE DECLARE_key_flag \/ ADOPT_module_key_flags
    BY <2>4, KeysGrow
  <2>5. CASE Deletion
    BY <2>1, <2>5 DEF Deletion, DelFlag
  <2>6. QED
    BY <2>2, <2>3, <2>4, <2>5, HowListsChange
<1>a. ASSUME pc' \notin {"append", "remove"} PROVE SpecialInv'
  BY <1>0, <1>1, <1>a DEF SpecialInv
<1>b. ASSUME UNCHANGED <<pc, op>> PROVE SpecialInv'
  BY <1>0, <1>1, <1>b DEF SpecialInv
<1>c. ASSUME NEW name, NEW c \in Calls(name), NEW error, Makes(c, error) PROVE SpecialInv'
  <2>1. pc' \notin {"append", "remove"}
    BY <1>c, CallsAreSound DEF Makes
  <2>2. QED
    BY <1>a, <2>1
<1>2. CASE \/ DefineFlag \/ DECLARE_key_flag \/ ADOPT_module_key_flags \/ DelAttr \/ SetAttr
           \/ SetDefaultOf \/ MarkFlagAsRequired \/ NoSuchFlag \/ UseGnuGetOpt
           \/ AppendFlagsIntoFile \/ Restart
  <2>1. \E name : \E c \in Calls(name) : \E error : Makes(c, error)
    <3>1. CASE DefineFlag
      <4>1. \E c \in Calls("DEFINE") : \E error : Makes(c, error)
        BY <3>1, Zenon DEF DefineFlag
      <4>2. QED
        BY <4>1
    <3>2. CASE DECLARE_key_flag
      BY <3>2 DEF DECLARE_key_flag
    <3>3. CASE ADOPT_module_key_flags
      BY <3>3 DEF ADOPT_module_key_flags
    <3>4. CASE DelAttr
      BY <3>4 DEF DelAttr
    <3>5. CASE SetAttr
      BY <3>5 DEF SetAttr
    <3>6. CASE SetDefaultOf
      BY <3>6 DEF SetDefaultOf
    <3>7. CASE MarkFlagAsRequired
      BY <3>7 DEF MarkFlagAsRequired
    <3>8. CASE NoSuchFlag
      BY <3>8 DEF NoSuchFlag
    <3>9. CASE UseGnuGetOpt
      BY <3>9 DEF UseGnuGetOpt
    <3>10. CASE AppendFlagsIntoFile
      BY <3>10 DEF AppendFlagsIntoFile
    <3>11. CASE Restart
      BY <3>11 DEF Restart
    <3>12. QED
      BY <1>2, <3>1, <3>2, <3>3, <3>4, <3>5, <3>6, <3>7, <3>8, <3>9, <3>10, <3>11
  <2>2. QED
    BY <1>c, <2>1
<1>3. CASE AppendFlagValues
  <2>1. PICK c \in Calls("AppendFlagValues") : pc' = "append" /\ op' = c
    BY <1>3 DEF AppendFlagValues, Start
  <2>2. c.call = "AppendFlagValues" /\ c.reg \in Registry \ {SPECIAL_FLAGS}
    BY CallsAreSound
  <2>3. QED
    BY <1>0, <1>1, <2>1, <2>2 DEF SpecialInv
<1>4. CASE RemoveFlagValues
  <2>1. PICK c \in Calls("RemoveFlagValues") : pc' = "remove" /\ op' = c
    BY <1>4 DEF RemoveFlagValues, Start
  <2>2. c.reg \in Registry \ {SPECIAL_FLAGS}
    BY CallsAreSound
  <2>3. QED
    BY <1>0, <1>1, <2>1, <2>2 DEF SpecialInv
<1>5. CASE Reset
  BY <1>a, <1>5 DEF Reset, Start
<1>6. CASE AppendFlag \/ RemoveFlag \/ ResetFlag \/ LoopEnds
  <2>1. op' = op /\ (pc' = pc \/ pc' = "client")
    BY <1>6, HowLoopsGo DEF AppendFlag, RemoveFlag, ResetFlag, LoopEnds, client, Continues, Fails,
                            Returns
  <2>2. QED
    BY <1>a, <1>b, <2>1
<1>7. CASE CallFlags
  BY <1>7, <1>a DEF CallFlags
<1>8. CASE \/ ReadArgument \/ ReadLine \/ CloseFile \/ ExpandBooleans \/ ParseOptions
           \/ ApplyOption \/ CheckAndReturn
  <2>1. pc' \in {"files", "getopt", "apply", "exit", "client"}
    BY <1>8 DEF ReadArgument, ReadLine, CloseFile, ExpandBooleans, ParseOptions, ApplyOption,
                CheckAndReturn, Open, Goes, Throws
  <2>2. QED
    BY <2>1, <1>a
<1>9. CASE UNCHANGED vars
  BY <1>9, <1>b DEF vars, client
<1>10. QED
  BY <1>2, <1>3, <1>4, <1>5, <1>6, <1>7, <1>8, <1>9 DEF Next, Step, Stay

LEMMA InitListsInv == Init => SpecialInv /\ ListsInv
<1> SUFFICES ASSUME Init PROVE SpecialInv /\ ListsInv
  OBVIOUS
<1>1. /\ flags = [r \in Registry |-> Imported(r)]
      /\ byModule = [r \in Registry |-> [m \in Module |->
                       CASE m = Importer /\ r = FLAGS -> <<1, 2, 3>>
                         [] m = Importer /\ r = SPECIAL_FLAGS -> <<4, 5>>
                         [] OTHER -> <<>>]]
      /\ keyFlags = [r \in Registry |-> [m \in Module |-> <<>>]]
      /\ pc = "client" /\ decls = ImportedFlags
  BY Zenon DEF Init
<1>2. SpecialInv
  BY <1>1, RegistriesAreThere DEF SpecialInv
<1>3. \A r \in Registry, m \in Module :
        \/ byModule[r][m] = <<>>
        \/ byModule[r][m] = <<1, 2, 3>> /\ m = Importer /\ r = FLAGS
        \/ byModule[r][m] = <<4, 5>> /\ m = Importer
  BY <1>1
<1>4. /\ IsSeq(<<1, 2, 3>>) /\ \A x : Contains(<<1, 2, 3>>, x) => x \in 1 .. 3
      /\ IsSeq(<<4, 5>>) /\ \A x : Contains(<<4, 5>>, x) => x \in 4 .. 5
  <2>1. <<1, 2, 3>> \in Seq(1 .. 3) /\ <<4, 5>> \in Seq(4 .. 5)
    OBVIOUS
  <2>2. \A S : \A s \in Seq(S) : IsSeq(s) /\ \A x : Contains(s, x) => x \in S
    <3>1. ASSUME NEW S, NEW s \in Seq(S) PROVE IsSeq(s) /\ \A x : Contains(s, x) => x \in S
      BY SeqOfAny DEF Contains
    <3>2. QED
      BY <3>1
  <2>3. QED
    BY <2>1, <2>2
<1>5. DOMAIN decls = 1 .. 5 /\ Len(decls) = 5
  <2> DEFINE a == HelpFlag("help", "?")
             b == HelpFlag("helpshort", "")
             c == HelpFlag("helpxml", "")
             d == Declaration("flagfile", "", "string", One(""))
             e == Declaration("undefok", "", "string", One(""))
  <2>1. decls = <<a, b, c, d, e>>
    BY <1>1 DEF ImportedFlags
  <2> HIDE DEF a, b, c, d, e
  <2>2. QED
    BY <2>1
<1>6. ASSUME NEW r \in Registry, NEW m \in Module, NEW x, Contains(byModule[r][m], x)
      PROVE  /\ x \in DOMAIN decls /\ m = Importer
             /\ r # SPECIAL_FLAGS => x \notin {4, 5}
  <2>1. CASE byModule[r][m] = <<>>
    BY <1>6, <2>1, EmptyContains
  <2>2. CASE byModule[r][m] = <<1, 2, 3>> /\ m = Importer /\ r = FLAGS
    <3>1. x \in 1 .. 3
      BY <1>4, <1>6, <2>2
    <3>2. QED
      BY <1>5, <2>2, <3>1
  <2>3. CASE byModule[r][m] = <<4, 5>> /\ m = Importer
    <3>1. x \in 4 .. 5
      BY <1>4, <1>6, <2>3
    <3>2. r = SPECIAL_FLAGS
      <4>1. byModule[r][m] # <<>> /\ byModule[r][m] # <<1, 2, 3>>
        BY <2>3
      <4>2. QED
        BY <1>1, <4>1
    <3>3. QED
      BY <1>5, <2>3, <3>1, <3>2
  <2>4. QED
    BY <1>3, <2>1, <2>2, <2>3
<1>7. \A r \in Registry : /\ DOMAIN byModule[r] = Module /\ AreSeqs(byModule[r])
                          /\ DOMAIN keyFlags[r] = Module /\ AreSeqs(keyFlags[r])
  <2>1. \A r \in Registry : DOMAIN byModule[r] = Module /\ DOMAIN keyFlags[r] = Module
    BY <1>1
  <2>2. \A r \in Registry, m \in Module : IsSeq(byModule[r][m])
    BY <1>3, <1>4, EmptyContains
  <2>3. \A r \in Registry, m \in Module : IsSeq(keyFlags[r][m])
    BY <1>1, EmptyContains
  <2>4. QED
    BY <2>1, <2>2, <2>3 DEF AreSeqs
<1>8. DOMAIN byModule = Registry /\ DOMAIN keyFlags = Registry
  BY <1>1
<1>9. ASSUME NEW r \in Registry, NEW m \in Module, NEW x, Contains(byModule[r][m], x)
      PROVE  /\ x \in DOMAIN decls
             /\ r # SPECIAL_FLAGS => x \notin {4, 5}
             /\ \A k \in Module : Contains(byModule[r][k], x) => k = m
  BY <1>6, <1>9
<1>10. ListsInv
  BY <1>5, <1>7, <1>8, <1>9 DEF ListsInv
<1>11. QED
  BY <1>2, <1>10

LEMMA ListsAlways == Spec => [](RegistryInv /\ SpecialInv /\ ListsInv)
  BY InitRegistryInv, NextRegistryInv, InitListsInv, NextSpecialInv, NextListsInv, PTL DEF Spec

\* ListsFollowNames of one step.
FollowsStep ==
  \A r \in Registry, id \in Flags :
    LET gone == id \notin Range(flags'[r])
    IN /\ Listed(byModule, r, id) /\ ~Listed(byModule', r, id) => gone
       /\ Listed(keyFlags, r, id) /\ ~Listed(keyFlags', r, id) => gone
       /\ (op'.call \in {"del", "RemoveFlagValues"} /\ id \in Range(flags[r]) /\ gone
             => ~Listed(byModule', r, id) /\ ~Listed(keyFlags', r, id))

LEMMA DeletionFollows ==
  ASSUME RegistryInv, ListsInv, Deletion
  PROVE  FollowsStep
<1>1. PICK r \in Registry \ {SPECIAL_FLAGS} : \E name \in DOMAIN flags[r] : DelFlag(r, name)
  BY DEF Deletion
<1>2. PICK name \in DOMAIN flags[r] : DelFlag(r, name)
  BY <1>1
<1> DEFINE last == flags[r][name]
<1>3. /\ \A q \in Registry \ {r} : UNCHANGED <<flags[q], byModule[q], keyFlags[q]>>
      /\ flags'[r] = [n \in DOMAIN flags[r] \ {name} |-> flags[r][n]]
      /\ \/ /\ last \in Range(flags'[r])
            /\ UNCHANGED <<byModule[r], keyFlags[r]>>
         \/ /\ last \notin Range(flags'[r])
            /\ byModule'[r] = _RemoveFlag(byModule[r], last)
            /\ keyFlags'[r] = _RemoveFlag(keyFlags[r], last)
  <2>1. DOMAIN byModule = Registry /\ DOMAIN keyFlags = Registry
    BY DEF ListsInv
  <2>2. QED
    BY <1>2, <2>1, DeletionForgets, Zenon
<1>4. ASSUME NEW id \in Range(flags[r]), id \notin Range(flags'[r]) PROVE id = last
  <2>1. PICK n \in DOMAIN flags[r] : id = flags[r][n]
    BY DEF Range
  <2>2. CASE n # name
    <3>1. n \in DOMAIN flags'[r] /\ flags'[r][n] = id
      BY <1>3, <2>1, <2>2
    <3>2. QED
      BY <1>4, <3>1 DEF Range
  <2>3. QED
    BY <2>1, <2>2
<1> HIDE DEF last
<1>5. ASSUME NEW q \in Registry \ {r}, NEW id
      PROVE  /\ Listed(byModule, q, id) <=> Listed(byModule', q, id)
             /\ Listed(keyFlags, q, id) <=> Listed(keyFlags', q, id)
             /\ Range(flags'[q]) = Range(flags[q])
  BY <1>3 DEF Listed
<1>6. CASE last \in Range(flags'[r]) /\ UNCHANGED <<byModule[r], keyFlags[r]>>
  <2>1. ASSUME NEW id PROVE /\ Listed(byModule, r, id) <=> Listed(byModule', r, id)
                            /\ Listed(keyFlags, r, id) <=> Listed(keyFlags', r, id)
    BY <1>6 DEF Listed
  <2>2. QED
    BY <1>4, <1>5, <1>6, <2>1 DEF FollowsStep
<1>7. CASE /\ last \notin Range(flags'[r])
           /\ byModule'[r] = _RemoveFlag(byModule[r], last)
           /\ keyFlags'[r] = _RemoveFlag(keyFlags[r], last)
  <2>1. ASSUME NEW lists, DOMAIN lists = Module, AreSeqs(lists), NEW after,
               after[r] = _RemoveFlag(lists, last), NEW id
        PROVE  Listed(after, r, id) <=> id # last /\ \E m \in Module : Contains(lists[m], id)
    <3> DEFINE left == _RemoveFlag(lists, last)
    <3>1. \A m \in Module : \A x : Contains(left[m], x) <=> x # last /\ Contains(lists[m], x)
      BY <2>1, RemoveFlagKeeps
    <3>2. after[r] = left
      BY <2>1
    <3> HIDE DEF left
    <3>3. QED
      BY <3>1, <3>2 DEF Listed
  <2>2. /\ DOMAIN byModule[r] = Module /\ AreSeqs(byModule[r])
        /\ DOMAIN keyFlags[r] = Module /\ AreSeqs(keyFlags[r])
    BY DEF ListsInv
  <2>3. ASSUME NEW id
        PROVE  /\ Listed(byModule', r, id) <=> id # last /\ Listed(byModule, r, id)
               /\ Listed(keyFlags', r, id) <=> id # last /\ Listed(keyFlags, r, id)
    <3>1. Listed(byModule', r, id) <=> id # last /\ \E m \in Module : Contains(byModule[r][m], id)
      BY <1>7, <2>1, <2>2
    <3>2. Listed(keyFlags', r, id) <=> id # last /\ \E m \in Module : Contains(keyFlags[r][m], id)
      BY <1>7, <2>1, <2>2
    <3>3. QED
      BY <3>1, <3>2 DEF Listed
  <2>4. QED
    BY <1>4, <1>5, <1>7, <2>3 DEF FollowsStep
<1>8. QED
  BY <1>3, <1>6, <1>7

LEMMA NextFollows == RegistryInv /\ SpecialInv /\ ListsInv /\ [Next]_vars => FollowsStep
<1> SUFFICES ASSUME RegistryInv, SpecialInv, ListsInv, [Next]_vars PROVE FollowsStep
  OBVIOUS
<1>1. CASE UNCHANGED <<decls, flags, byModule, keyFlags>>
  BY <1>1 DEF FollowsStep, Listed
<1>2. CASE DefineFlag /\ ~UNCHANGED <<decls, flags, byModule, keyFlags>>
  <2>1. op'.call = "DEFINE"
    <3>1. PICK c \in Calls("DEFINE") : op' = c
      BY <1>2 DEF DefineFlag, Makes
    <3>2. QED
      BY <3>1, CallsAreSound
  <2>2. UNCHANGED keyFlags
    BY <1>2, DefinedIsListed
  <2>3. PICK r \in Registry \ {SPECIAL_FLAGS} :
          \E m : byModule' = [byModule EXCEPT ![r] = _RegisterFlag(@, m, Len(decls) + 1)]
    BY <1>2, DefinedIsListed
  <2>4. PICK m : byModule' = [byModule EXCEPT ![r] = _RegisterFlag(@, m, Len(decls) + 1)]
    BY <2>3
  <2> DEFINE new == Len(decls) + 1
  <2>5. byModule' = [byModule EXCEPT ![r] = _RegisterFlag(@, m, new)]
    BY <2>4
  <2> HIDE DEF new
  <2>6. ASSUME NEW q \in Registry, NEW k \in Module, NEW id, Contains(byModule[q][k], id)
        PROVE  Contains(byModule'[q][k], id)
    <3>1. /\ DOMAIN byModule[q] = Module /\ IsSeq(byModule[q][k]) /\ DOMAIN byModule = Registry
      BY DEF ListsInv, AreSeqs
    <3>2. Contains(Append(byModule[q][k], new), id)
      BY <2>6, <3>1, AppendContains
    <3>3. byModule'[q][k] = byModule[q][k] \/ byModule'[q][k] = Append(byModule[q][k], new)
      BY <2>5, <3>1 DEF _RegisterFlag
    <3>4. QED
      BY <2>6, <3>2, <3>3
  <2>7. \A q \in Registry : \A id : Listed(byModule, q, id) => Listed(byModule', q, id)
    BY <2>6 DEF Listed
  <2>8. QED
    BY <2>1, <2>2, <2>7 DEF FollowsStep, Listed
<1>3. CASE AppendFlag
  <2>1. op'.call = "AppendFlagValues" /\ UNCHANGED <<byModule, keyFlags>>
    BY <1>3 DEF AppendFlag, SpecialInv, client
  <2>2. QED
    BY <2>1 DEF FollowsStep, Listed
<1>4. CASE DECLARE_key_flag \/ ADOPT_module_key_flags
  <2>1. /\ UNCHANGED <<decls, flags, byModule>>
        /\ \A r \in Registry : Grown(keyFlags[r], keyFlags'[r])
    BY <1>4, KeysGrow
  <2>2. \A r \in Registry : \A id : Listed(keyFlags, r, id) => Listed(keyFlags', r, id)
    BY <2>1 DEF Listed, Grown, ListsInv
  <2>3. QED
    BY <2>1, <2>2 DEF FollowsStep, Listed
<1>5. CASE Deletion
  BY <1>5, DeletionFollows
<1>6. QED
  BY <1>1, <1>2, <1>3, <1>4, <1>5, HowListsChange

\* __delattr__: the lists of a registry forget a flag with the last of its names,
\* and nothing else takes a flag out of them.
THEOREM ListsFollowTheNames == Spec => ListsFollowNames
<1>1. RegistryInv /\ SpecialInv /\ ListsInv /\ [Next]_vars => FollowsStep
  BY NextFollows
<1>2. QED
  BY <1>1, ListsAlways, PTL DEF Spec, ListsFollowNames, FollowsStep

-----------------------------------------------------------------------------
(* The help.                                                               *)

LEMMA ToSetContains ==
  ASSUME NEW s, IsSeq(s), NEW x PROVE x \in ToSet(s) <=> Contains(s, x)
<1>1. DOMAIN s = 1 .. Len(s)
  BY DEF IsSeq
<1>2. QED
  BY <1>1 DEF ToSet, Contains

\* The help has a section for each module with flags; the special flags have
\* their long names, in the registry of their own.
HelpInv ==
  /\ DOMAIN modules = Registry
  /\ \A r \in Registry :
       /\ modules[r] \subseteq Module
       /\ \A m \in Module : \A id : Contains(byModule[r][m], id) => m \in modules[r]
  /\ \A n \in DOMAIN flags[SPECIAL_FLAGS] : decls[flags[SPECIAL_FLAGS][n]].name = n

\* A module gets its section with its first flag.
LEMMA HowModulesChange ==
  ASSUME [Next]_vars
  PROVE  UNCHANGED modules \/ DefineFlag
<1>1. CASE DefineFlag
  BY <1>1
<1>2. CASE DECLARE_key_flag \/ ADOPT_module_key_flags \/ SetAttr \/ SetDefaultOf \/ MarkFlagAsRequired
  BY <1>2 DEF DECLARE_key_flag, ADOPT_module_key_flags, SetAttr, SetDefaultOf, MarkFlagAsRequired
<1>3. CASE DelAttr \/ RemoveFlag
  BY <1>3 DEF DelAttr, RemoveFlag
<1>4. CASE NoSuchFlag \/ UseGnuGetOpt \/ AppendFlagsIntoFile \/ Restart
  BY <1>4 DEF NoSuchFlag, UseGnuGetOpt, AppendFlagsIntoFile, Restart, registry
<1>5. CASE AppendFlagValues \/ RemoveFlagValues \/ Reset
  BY <1>5 DEF AppendFlagValues, RemoveFlagValues, Reset, Start, registry
<1>6. CASE AppendFlag \/ ResetFlag \/ LoopEnds \/ CallFlags \/ ApplyOption
  BY <1>6 DEF AppendFlag, ResetFlag, LoopEnds, CallFlags, ApplyOption, registry
<1>7. CASE ReadArgument \/ ReadLine \/ CloseFile \/ ExpandBooleans \/ ParseOptions \/ CheckAndReturn
  <2>1. Keeps
    BY <1>7 DEF ReadArgument, ReadLine, CloseFile, ExpandBooleans, ParseOptions, CheckAndReturn
  <2>2. QED
    BY <2>1 DEF Keeps, registry
<1>8. CASE UNCHANGED vars
  BY <1>8 DEF vars, registry
<1>9. QED
  BY <1>1, <1>2, <1>3, <1>4, <1>5, <1>6, <1>7, <1>8 DEF Next, Step, Stay

LEMMA NextHelpInv ==
  RegistryInv /\ SpecialInv /\ SpecialInv' /\ ListsInv /\ ListsInv' /\ HelpInv /\ [Next]_vars => HelpInv'
<1> SUFFICES ASSUME RegistryInv, SpecialInv, SpecialInv', ListsInv, ListsInv', HelpInv, [Next]_vars
             PROVE  HelpInv'
  OBVIOUS
<1>1. UNCHANGED flags[SPECIAL_FLAGS]
  BY DEF SpecialInv, Imported
<1>2. \A n \in DOMAIN flags[SPECIAL_FLAGS] : flags[SPECIAL_FLAGS][n] \in DOMAIN decls
  BY RegistriesAreThere DEF RegistryInv, Owned
<1>3. CASE DefineFlag
  <2>1. PICK c \in Calls("DEFINE") :
          \/ /\ decls' = Append(decls, c.decl)
             /\ byModule' = [byModule EXCEPT ![c.reg] = _RegisterFlag(@, c.module, Len(decls) + 1)]
             /\ modules' = [modules EXCEPT ![c.reg] = @ \cup {c.module}]
          \/ UNCHANGED <<decls, byModule, modules>>
    BY <1>3 DEF DefineFlag, registry
  <2>2. c.reg \in Registry \ {SPECIAL_FLAGS} /\ c.module \in Module
    BY CallsAreSound
  <2>3. CASE UNCHANGED <<decls, byModule, modules>>
    BY <1>1, <2>3 DEF HelpInv
  <2>4. CASE /\ decls' = Append(decls, c.decl)
             /\ byModule' = [byModule EXCEPT ![c.reg] = _RegisterFlag(@, c.module, Len(decls) + 1)]
             /\ modules' = [modules EXCEPT ![c.reg] = @ \cup {c.module}]
    <3>1. \A i \in DOMAIN decls : decls'[i] = decls[i]
      <4>1. IsSeq(decls)
        BY DEF RegistryInv
      <4>2. QED
        BY <2>4, <4>1, AppendAny
    <3>2. ASSUME NEW r \in Registry, NEW m \in Module
          PROVE  byModule'[r][m] = byModule[r][m] \/ (r = c.reg /\ m = c.module)
      BY <2>4 DEF _RegisterFlag, ListsInv
    <3>3. \A r \in Registry : modules'[r] = modules[r] \/ (r = c.reg /\ modules'[r] = modules[r] \cup {c.module})
      BY <2>4 DEF HelpInv
    <3>4. c.module \in modules'[c.reg] /\ DOMAIN modules' = Registry
      BY <2>2, <2>4 DEF HelpInv
    <3>5. ASSUME NEW r \in Registry
          PROVE  /\ modules'[r] \subseteq Module
                 /\ \A m \in Module : \A id : Contains(byModule'[r][m], id) => m \in modules'[r]
      BY <2>2, <3>2, <3>3, <3>4 DEF HelpInv
    <3>6. \A n \in DOMAIN flags'[SPECIAL_FLAGS] : decls'[flags'[SPECIAL_FLAGS][n]].name = n
      BY <1>1, <1>2, <3>1 DEF HelpInv
    <3>7. QED
      BY <3>4, <3>5, <3>6 DEF HelpInv
  <2>5. QED
    BY <2>1, <2>3, <2>4
<1>4. CASE ~DefineFlag
  <2>1. UNCHANGED modules
    BY <1>4, HowModulesChange
  <2>2. UNCHANGED decls
    BY <1>4, HowListsChange DEF AppendFlag, DECLARE_key_flag, ADOPT_module_key_flags
  <2>3. \A r \in Registry, m \in Module : \A id : Contains(byModule'[r][m], id) => Contains(byModule[r][m], id)
    <3>1. CASE UNCHANGED byModule
      BY <3>1
    <3>2. CASE Deletion
      <4>1. PICK r \in Registry \ {SPECIAL_FLAGS} : \E name \in DOMAIN flags[r] : DelFlag(r, name)
        BY <3>2 DEF Deletion
      <4>2. PICK name \in DOMAIN flags[r] : DelFlag(r, name)
        BY <4>1
      <4>3. DOMAIN byModule = Registry /\ DOMAIN keyFlags = Registry
        BY DEF ListsInv
      <4>4. /\ \A q \in Registry \ {r} : UNCHANGED byModule[q]
            /\ \/ UNCHANGED byModule[r]
               \/ byModule'[r] = _RemoveFlag(byModule[r], flags[r][name])
        BY <4>2, <4>3, DeletionForgets, Zenon
      <4>5. DOMAIN byModule[r] = Module /\ AreSeqs(byModule[r])
        BY DEF ListsInv
      <4>6. ASSUME NEW m \in Module, NEW id, Contains(_RemoveFlag(byModule[r], flags[r][name])[m], id)
            PROVE  Contains(byModule[r][m], id)
        BY <4>5, <4>6, RemoveFlagKeeps
      <4>7. QED
        BY <4>4, <4>6
    <3>3. QED
      BY <1>4, <3>1, <3>2, HowListsChange, KeysGrow DEF AppendFlag
  <2>4. QED
    BY <1>1, <2>1, <2>2, <2>3 DEF HelpInv
<1>5. QED
  BY <1>3, <1>4

LEMMA InitHelpInv == Init => HelpInv
<1> SUFFICES ASSUME Init PROVE HelpInv
  OBVIOUS
<1>1. /\ byModule = [r \in Registry |-> [m \in Module |->
                       CASE m = Importer /\ r = FLAGS -> <<1, 2, 3>>
                         [] m = Importer /\ r = SPECIAL_FLAGS -> <<4, 5>>
                         [] OTHER -> <<>>]]
      /\ modules = [r \in Registry |-> IF r \in {FLAGS, SPECIAL_FLAGS} THEN {Importer} ELSE {}]
      /\ flags = [r \in Registry |-> Imported(r)] /\ decls = ImportedFlags
  BY Zenon DEF Init
<1>2. ASSUME NEW r \in Registry, NEW m \in Module, NEW id, Contains(byModule[r][m], id)
      PROVE  m \in modules[r]
  <2>1. byModule[r][m] # <<>>
    BY <1>2, EmptyContains
  <2>2. m = Importer /\ r \in {FLAGS, SPECIAL_FLAGS}
    BY <1>1, <2>1
  <2>3. QED
    BY <1>1, <2>2
<1>3. decls[4].name = "flagfile" /\ decls[5].name = "undefok"
  <2> DEFINE a == HelpFlag("help", "?")
             b == HelpFlag("helpshort", "")
             c == HelpFlag("helpxml", "")
             d == Declaration("flagfile", "", "string", One(""))
             e == Declaration("undefok", "", "string", One(""))
  <2>1. decls = <<a, b, c, d, e>>
    BY <1>1 DEF ImportedFlags
  <2>2. d.name = "flagfile" /\ e.name = "undefok"
    BY DEF Declaration
  <2> HIDE DEF a, b, c, d, e
  <2>3. decls[4] = d /\ decls[5] = e
    BY <2>1
  <2>4. QED
    BY <2>2, <2>3
<1>4. \A n \in DOMAIN flags[SPECIAL_FLAGS] : decls[flags[SPECIAL_FLAGS][n]].name = n
  <2>1. flags[SPECIAL_FLAGS] = [n \in {"flagfile", "undefok"} |-> IF n = "flagfile" THEN 4 ELSE 5]
    BY <1>1, RegistriesAreThere DEF Imported, FLAGS, SPECIAL_FLAGS
  <2>2. QED
    BY <1>3, <2>1
<1>5. QED
  BY <1>1, <1>2, <1>4, ModulesAssumption DEF HelpInv

\* A flag that stands for its name in one of the two registries is printed.
Current(r, id) ==
  \E q \in {r, SPECIAL_FLAGS} : decls[id].name \in DOMAIN flags[q] /\ flags[q][decls[id].name] = id

\* What the help has in a section of a module, and in the other.
LEMMA Helped ==
  ASSUME ListsInv, HelpInv, NEW r \in Registry, NEW id
  PROVE  /\ DOMAIN GetHelp(r) = modules[r] \cup {SPECIAL_FLAGS}
         /\ \A m \in modules[r] :
              id \in GetHelp(r)[m] <=> Contains(byModule[r][m], id) /\ Current(r, id)
         /\ id \in GetHelp(r)[SPECIAL_FLAGS] <=>
              /\ Current(r, id)
              /\ id \in Range(flags[SPECIAL_FLAGS]) \/ (modules[r] = {} /\ id \in Range(flags[r]))
<1>1. \A m \in modules[r] : m \in Module /\ m # SPECIAL_FLAGS
  BY ModulesAssumption DEF HelpInv
<1>2. \A m \in modules[r] : id \in ToSet(byModule[r][m]) <=> Contains(byModule[r][m], id)
  <2>1. \A m \in modules[r] : IsSeq(byModule[r][m])
    BY <1>1 DEF ListsInv, AreSeqs
  <2>2. QED
    BY <2>1, ToSetContains
<1>3. \A ids : id \in RenderFlagList(r, ids) <=> id \in ids /\ Current(r, id)
  BY DEF RenderFlagList, Current
<1>4. DOMAIN GetHelp(r) = modules[r] \cup {SPECIAL_FLAGS}
  BY DEF GetHelp
<1>5. /\ \A m \in modules[r] : GetHelp(r)[m] = RenderFlagList(r, ToSet(byModule[r][m]))
      /\ GetHelp(r)[SPECIAL_FLAGS] =
           RenderFlagList(r, IF modules[r] = {} THEN Range(flags[r]) \cup Range(flags[SPECIAL_FLAGS])
                             ELSE Range(flags[SPECIAL_FLAGS]))
  BY <1>1, Zenon DEF GetHelp
<1>6. QED
  BY <1>2, <1>3, <1>4, <1>5

LEMMA ListsMakeHelpCurrent ==
  ASSUME SpecialInv, ListsInv, HelpInv PROVE HelpIsCurrent
<1> SUFFICES ASSUME NEW r \in Registry \ {SPECIAL_FLAGS}
             PROVE  LET help == GetHelp(r) IN
                    /\ \A s, t \in DOMAIN help : s # t => help[s] \cap help[t] = {}
                    /\ Range(flags[SPECIAL_FLAGS]) \subseteq help[SPECIAL_FLAGS]
                    /\ \A n \in OwnNames(r) : \A m \in Module :
                         Contains(byModule[r][m], flags[r][n])
                           => m \in DOMAIN help /\ flags[r][n] \in help[m]
                    /\ \A s \in DOMAIN help : \A id \in help[s] :
                         LET n == decls[id].name IN
                         \/ n \in DOMAIN flags[r] /\ flags[r][n] = id
                         \/ s = SPECIAL_FLAGS /\ n \in DOMAIN flags[s] /\ flags[s][n] = id
  BY DEF HelpIsCurrent
<1> DEFINE help == GetHelp(r)
           special == Range(flags[SPECIAL_FLAGS])
<1>1. DOMAIN help = modules[r] \cup {SPECIAL_FLAGS} /\ modules[r] \subseteq Module
  BY Helped DEF HelpInv
<1>2. \A id : /\ \A m \in modules[r] :
                   id \in help[m] <=> Contains(byModule[r][m], id) /\ Current(r, id)
              /\ id \in help[SPECIAL_FLAGS] <=>
                   /\ Current(r, id)
                   /\ id \in special \/ (modules[r] = {} /\ id \in Range(flags[r]))
  BY Helped
<1>3. special \subseteq {4, 5}
  BY DEF SpecialInv, Imported, FLAGS, SPECIAL_FLAGS, Range
<1>4. \A m \in Module : \A id : Contains(byModule[r][m], id) =>
        /\ id \notin {4, 5}
        /\ \A k \in Module : Contains(byModule[r][k], id) => k = m
  BY DEF ListsInv
<1> HIDE DEF help, special
<1>5. ASSUME NEW s \in DOMAIN help, NEW t \in DOMAIN help, s # t, NEW id, id \in help[s], id \in help[t]
      PROVE  FALSE
  <2>1. CASE s # SPECIAL_FLAGS /\ t # SPECIAL_FLAGS
    BY <1>1, <1>2, <1>4, <1>5, <2>1
  <2>2. CASE s = SPECIAL_FLAGS
    BY <1>1, <1>2, <1>3, <1>4, <1>5, <2>2
  <2>3. CASE t = SPECIAL_FLAGS
    BY <1>1, <1>2, <1>3, <1>4, <1>5, <2>3
  <2>4. QED
    BY <2>1, <2>2, <2>3
<1>6. ASSUME NEW id \in special PROVE id \in help[SPECIAL_FLAGS]
  <2>1. PICK n \in DOMAIN flags[SPECIAL_FLAGS] : id = flags[SPECIAL_FLAGS][n]
    BY DEF Range, special
  <2>2. decls[id].name = n
    BY <2>1 DEF HelpInv
  <2>3. Current(r, id)
    BY <2>1, <2>2 DEF Current
  <2>4. QED
    BY <1>2, <2>3
<1>7. ASSUME NEW n \in OwnNames(r), NEW m \in Module, Contains(byModule[r][m], flags[r][n])
      PROVE  m \in DOMAIN help /\ flags[r][n] \in help[m]
  <2>1. m \in modules[r]
    BY <1>7 DEF HelpInv
  <2>2. Current(r, flags[r][n])
    BY DEF Current, OwnNames
  <2>3. QED
    BY <1>1, <1>2, <1>7, <2>1, <2>2
<1>8. ASSUME NEW s \in DOMAIN help, NEW id \in help[s]
      PROVE  LET n == decls[id].name IN
             \/ n \in DOMAIN flags[r] /\ flags[r][n] = id
             \/ s = SPECIAL_FLAGS /\ n \in DOMAIN flags[s] /\ flags[s][n] = id
  <2>1. Current(r, id)
    BY <1>1, <1>2
  <2>2. CASE s = SPECIAL_FLAGS
    BY <2>1, <2>2 DEF Current
  <2>3. CASE s # SPECIAL_FLAGS
    <3>1. id \notin special
      BY <1>1, <1>2, <1>3, <1>4, <2>3
    <3>2. QED
      BY <2>1, <3>1 DEF Current, Range, special
  <2>4. QED
    BY <2>2, <2>3
<1>9. QED
  BY <1>5, <1>6, <1>7, <1>8 DEF help, special

\* Whatever was defined, replaced, moved or deleted, the help prints a flag once,
\* under the module that defined it, and nothing under a name that stands for
\* something else; only the special flags may come beside a flag of the same name.
THEOREM HelpStaysCurrent == Spec => []HelpIsCurrent
<1>1. Spec => [](RegistryInv /\ SpecialInv /\ ListsInv /\ HelpInv)
  BY ListsAlways, InitHelpInv, NextHelpInv, PTL DEF Spec
<1>2. SpecialInv /\ ListsInv /\ HelpInv => HelpIsCurrent
  BY ListsMakeHelpCurrent
<1>3. QED
  BY <1>1, <1>2, PTL

-----------------------------------------------------------------------------
(* What getopt leaves of the arguments.                                    *)

Scanned(scan) == DOMAIN scan = DOMAIN NothingScanned /\ IsSeq(scan.unparsed)

\* getopt, unlike gnu_getopt, has come to the arguments behind the options.
Stopped(scan) == ~scan.error /\ scan.mode = "rest"

\* An argument is put behind those left, or it is not.
LEMMA ScanLeaves ==
  ASSUME NEW scan, NEW a, NEW names, NEW booleans, DOMAIN scan = DOMAIN NothingScanned
  PROVE  /\ DOMAIN ScanArgument(scan, a, FALSE, names, booleans) = DOMAIN NothingScanned
         /\ \/ ScanArgument(scan, a, FALSE, names, booleans).unparsed = scan.unparsed
            \/ ScanArgument(scan, a, FALSE, names, booleans).unparsed = Append(scan.unparsed, a)
<1> DEFINE D == {"mode", "pending", "opts", "unparsed", "error", "opt"}
           Leaves(r) == DOMAIN r = D /\ (r.unparsed = scan.unparsed \/ r.unparsed = Append(scan.unparsed, a))
<1>1. DOMAIN NothingScanned = D
  BY DEF NothingScanned
<1>2. Leaves(scan)
  BY <1>1
<1>3. Leaves(LongOption(scan, a, names))
  BY <1>1 DEF LongOption
<1>4. Leaves(ShortOptions(scan, a, names, booleans))
  <2> DEFINE last == Letterwise(scan, a.name \o Behind(a), names, booleans)
             mode == IF last.mode = "attached" THEN "options" ELSE last.mode
  <2>1. ShortOptions(scan, a, names, booleans)
          = [scan EXCEPT !.mode = mode, !.opts = last.opts, !.pending = last.pending,
                         !.error = last.error, !.opt = last.opt]
    BY DEF ShortOptions
  <2> HIDE DEF last, mode
  <2>2. QED
    BY <1>1, <2>1
<1>5. Leaves([scan EXCEPT !.mode = "rest"])
  BY <1>1
<1>6. ASSUME NEW m PROVE Leaves([scan EXCEPT !.mode = m, !.unparsed = Append(@, a)])
  BY <1>1
<1>7. ASSUME NEW o PROVE Leaves([scan EXCEPT !.mode = "options", !.opts = Append(@, o)])
  BY <1>1
<1>8. Leaves([scan EXCEPT !.unparsed = Append(@, a)])
  BY <1>1
<1> HIDE DEF Leaves
<1>9. Leaves(ScanArgument(scan, a, FALSE, names, booleans))
  BY <1>2, <1>3, <1>4, <1>5, <1>6, <1>7, <1>8 DEF ScanArgument
<1>10. QED
  BY <1>1, <1>9 DEF Leaves

\* It leaves arguments when it has stopped, and then goes on to do so.
LEMMA ScanStops ==
  ASSUME NEW scan, NEW a, NEW names, NEW booleans, DOMAIN scan = DOMAIN NothingScanned,
         scan.unparsed # <<>> => Stopped(scan)
  PROVE  LET r == ScanArgument(scan, a, FALSE, names, booleans) IN
         (Stopped(scan) => Stopped(r)) /\ (r.unparsed # <<>> => Stopped(r))
<1> DEFINE D == {"mode", "pending", "opts", "unparsed", "error", "opt"}
           Good(r) == (Stopped(scan) => Stopped(r)) /\ (r.unparsed # <<>> => Stopped(r))
<1>1. DOMAIN NothingScanned = D
  BY DEF NothingScanned
<1>2. Good(scan)
  OBVIOUS
<1>3. ~Stopped(scan) => Good(LongOption(scan, a, names))
  <2>1. LongOption(scan, a, names).unparsed = scan.unparsed
    BY <1>1 DEF LongOption
  <2>2. QED
    BY <2>1
<1>4. ~Stopped(scan) => Good(ShortOptions(scan, a, names, booleans))
  <2> DEFINE last == Letterwise(scan, a.name \o Behind(a), names, booleans)
             mode == IF last.mode = "attached" THEN "options" ELSE last.mode
  <2>1. ShortOptions(scan, a, names, booleans)
          = [scan EXCEPT !.mode = mode, !.opts = last.opts, !.pending = last.pending,
                         !.error = last.error, !.opt = last.opt]
    BY DEF ShortOptions
  <2> HIDE DEF last, mode
  <2>2. ShortOptions(scan, a, names, booleans).unparsed = scan.unparsed
    BY <1>1, <2>1
  <2>3. QED
    BY <2>2
<1>5. ~Stopped(scan) => Good([scan EXCEPT !.mode = "rest"])
  BY <1>1
<1>6. ~scan.error => Good([scan EXCEPT !.mode = "rest", !.unparsed = Append(@, a)])
  BY <1>1 DEF Stopped
<1>7. ASSUME NEW o PROVE ~Stopped(scan) => Good([scan EXCEPT !.mode = "options", !.opts = Append(@, o)])
  BY <1>1
<1>8. Stopped(scan) => Good([scan EXCEPT !.unparsed = Append(@, a)])
  BY <1>1 DEF Stopped
<1>9. ~Stopped(scan) <=> scan.error \/ scan.mode # "rest"
  BY DEF Stopped
<1> HIDE DEF Good
<1>10. Good(ScanArgument(scan, a, FALSE, names, booleans))
  BY <1>2, <1>3, <1>4, <1>5, <1>6, <1>7, <1>8, <1>9 DEF ScanArgument
<1>11. QED
  BY <1>10 DEF Good

ScanFolds(g, use_gnu, names, booleans, args) ==
  g = [S \in SUBSET DOMAIN args |->
         IF S = {} THEN NothingScanned
         ELSE ScanArgument(g[S \ {Max(S)}], args[Max(S)], use_gnu, names, booleans)]

LEMMA ScanUnfold ==
  ASSUME NEW use_gnu, NEW names, NEW booleans, NEW args
  PROVE  ScanArguments(args, use_gnu, names, booleans)
           = (CHOOSE g : ScanFolds(g, use_gnu, names, booleans, args))[DOMAIN args]
  BY Zenon DEF ScanArguments, FoldLeft, MapThenFoldSet, ScanFolds

ScannedBy(g, use_gnu, names, booleans, args, n) ==
  /\ Folds(g, "scan", [gnu |-> use_gnu, names |-> names, booleans |-> booleans],
           NothingScanned, args, n)
  /\ ScanArguments(args, use_gnu, names, booleans) = g[1 .. n]

LEMMA ScanIsFold ==
  ASSUME NEW n \in Nat, NEW use_gnu, NEW names, NEW booleans, NEW args, DOMAIN args = 1 .. n
  PROVE  \E g : ScannedBy(g, use_gnu, names, booleans, args, n)
<1> DEFINE p == [gnu |-> use_gnu, names |-> names, booleans |-> booleans]
           c == CHOOSE g : ScanFolds(g, use_gnu, names, booleans, args)
<1>1. \A acc, e : Fold("scan", p, acc, e) = ScanArgument(acc, e, use_gnu, names, booleans)
  BY DEF Fold
<1>2. ASSUME NEW g
      PROVE  ScanFolds(g, use_gnu, names, booleans, args) <=> Folds(g, "scan", p, NothingScanned, args, n)
  <2> HIDE DEF p
  <2> DEFINE x == [S \in SUBSET DOMAIN args |->
                     IF S = {} THEN NothingScanned
                     ELSE ScanArgument(g[S \ {Max(S)}], args[Max(S)], use_gnu, names, booleans)]
             y == [S \in SUBSET (1 .. n) |->
                     IF S = {} THEN NothingScanned
                     ELSE Fold("scan", p, g[S \ {Max(S)}], args[Max(S)])]
  <2>1. \A S \in SUBSET (1 .. n) : x[S] = y[S]
    BY <1>1
  <2>2. x = y
    BY <2>1
  <2>3. QED
    BY <2>2 DEF ScanFolds, Folds
<1>3. \E g : Folds(g, "scan", p, NothingScanned, args, n)
  <2> HIDE DEF p
  <2>1. QED
    BY FoldExists
<1>4. ScanFolds(c, use_gnu, names, booleans, args)
  <2> HIDE DEF p
  <2>1. QED
    BY <1>2, <1>3
<1>5. ScanArguments(args, use_gnu, names, booleans) = c[1 .. n]
  BY ScanUnfold
<1>6. Folds(c, "scan", p, NothingScanned, args, n)
  BY <1>2, <1>4
<1>7. ScannedBy(c, use_gnu, names, booleans, args, n)
  BY <1>5, <1>6 DEF ScannedBy
<1>8. QED
  BY <1>7

LEMMA AppendLength ==
  ASSUME NEW s, IsSeq(s), NEW e
  PROVE  Len(Append(s, e)) = Len(s) + 1 /\ Append(s, e) # <<>>
<1>1. s \in Seq(Range(s) \cup {e})
  BY DEF IsSeq
<1>2. Len(Append(s, e)) = Len(s) + 1 /\ Len(s) \in Nat
  BY <1>1
<1>3. Len(Append(s, e)) # 0
  BY <1>2
<1>4. QED
  BY <1>2, <1>3

\* g says how far getopt is after each of n arguments.
Scans(g, args, n, names, booleans) ==
  /\ g[0] = NothingScanned
  /\ \A i \in 1 .. n : g[i] = ScanArgument(g[i - 1], args[i], FALSE, names, booleans)

\* Of the first p arguments it leaves none.
NoneIsLeft(args, p, names, booleans) ==
  \E g : Scans(g, args, p, names, booleans) /\ g[p].unparsed = <<>>

LEMMA GetOptScans ==
  ASSUME NEW names, NEW booleans, NEW args, IsSeq(args)
  PROVE  \E g : /\ Scans(g, args, Len(args), names, booleans)
                /\ ScanArguments(args, FALSE, names, booleans) = g[Len(args)]
<1> DEFINE n == Len(args)
           p == [gnu |-> FALSE, names |-> names, booleans |-> booleans]
<1>1. n \in Nat /\ DOMAIN args = 1 .. n
  BY DEF IsSeq
<1> HIDE DEF n
<1>2. PICK f : ScannedBy(f, FALSE, names, booleans, args, n)
  BY <1>1, ScanIsFold
<1>3. /\ f[1 .. 0] = NothingScanned
      /\ \A i \in 1 .. n : f[1 .. i] = ScanArgument(f[1 .. i - 1], args[i], FALSE, names, booleans)
  <2>1. /\ f[1 .. 0] = NothingScanned
        /\ \A i \in 1 .. n : f[1 .. i] = Fold("scan", p, f[1 .. i - 1], args[i])
    <3>1. Folds(f, "scan", p, NothingScanned, args, n)
      BY <1>2 DEF ScannedBy
    <3> HIDE DEF p
    <3>2. Runs(f, "scan", p, NothingScanned, args, n)
      BY <1>1, <3>1, FoldRuns
    <3>3. QED
      BY <3>2 DEF Runs
  <2>2. \A acc, e : Fold("scan", p, acc, e) = ScanArgument(acc, e, FALSE, names, booleans)
    BY DEF Fold
  <2> HIDE DEF p
  <2>3. QED
    BY <2>1, <2>2
<1> DEFINE g == [i \in 0 .. n |-> f[1 .. i]]
<1>4. g[0] = f[1 .. 0] /\ \A i \in 1 .. n : g[i] = f[1 .. i] /\ g[i - 1] = f[1 .. i - 1]
  BY <1>1
<1>5. g[n] = f[1 .. n]
  BY <1>1
<1> HIDE DEF g
<1>6. Scans(g, args, n, names, booleans)
  BY <1>3, <1>4 DEF Scans
<1>7. ScanArguments(args, FALSE, names, booleans) = g[n]
  BY <1>2, <1>5 DEF ScannedBy
<1>8. QED
  BY <1>6, <1>7 DEF n

\* getopt leaves arguments behind the options only.
LEMMA GetOptLeaves ==
  ASSUME NEW names, NEW booleans, NEW args, IsSeq(args), NEW p \in 0 .. Len(args),
         NoneIsLeft(args, p, names, booleans)
  PROVE  LET left == GetOpt(args, FALSE, names, booleans).unparsed
         IN IsSeq(left) /\ Len(left) \in 0 .. Len(args) - p
<1> DEFINE n == Len(args)
<1>1. n \in Nat /\ p \in Nat /\ p <= n
  BY DEF IsSeq
<1>2. PICK g : /\ Scans(g, args, n, names, booleans)
               /\ ScanArguments(args, FALSE, names, booleans) = g[n]
  BY GetOptScans
<1>3. PICK h : Scans(h, args, p, names, booleans) /\ h[p].unparsed = <<>>
  BY DEF NoneIsLeft
<1> HIDE DEF n
<1>4. g[p] = h[p]
  <2> DEFINE T == {i \in 0 .. p : g[i] = h[i]}
  <2>1. 0 \in T
    BY <1>1, <1>2, <1>3 DEF Scans
  <2>2. ASSUME NEW i \in 1 .. p, i - 1 \in T PROVE i \in T
    <3>1. i \in 1 .. n /\ i \in 0 .. p
      BY <1>1
    <3>2. QED
      BY <1>2, <1>3, <2>2, <3>1 DEF Scans
  <2>3. p \in T
    <3> HIDE DEF T
    <3>1. QED
      BY <1>1, <2>1, <2>2, FoldKeeps
  <2>4. QED
    BY <2>3
<1> DEFINE T == {i \in 0 .. n : Scanned(g[i]) /\ (i >= p => Len(g[i].unparsed) \in 0 .. i - p)}
<1>5. IsSeq(<<>>) /\ Len(<<>>) = 0
  BY EmptyContains
<1>6. 0 \in T
  <2>1. NothingScanned.unparsed = <<>>
    BY DEF NothingScanned
  <2>2. g[0] = NothingScanned
    BY <1>2 DEF Scans
  <2>3. Scanned(g[0]) /\ Len(g[0].unparsed) = 0
    BY <1>5, <2>1, <2>2 DEF Scanned
  <2>4. 0 >= p => Len(g[0].unparsed) \in 0 .. 0 - p
    BY <1>1, <2>3
  <2>5. QED
    BY <1>1, <2>3, <2>4
<1>7. ASSUME NEW i \in 1 .. n, i - 1 \in T PROVE i \in T
  <2>1. PICK before : before = g[i - 1]
    OBVIOUS
  <2>2. PICK after : after = g[i]
    OBVIOUS
  <2>3. /\ Scanned(before) /\ (i - 1 >= p => Len(before.unparsed) \in 0 .. i - 1 - p)
        /\ after = ScanArgument(before, args[i], FALSE, names, booleans)
    BY <1>2, <1>7, <2>1, <2>2 DEF Scans
  <2>4. /\ DOMAIN after = DOMAIN NothingScanned
        /\ after.unparsed = before.unparsed \/ after.unparsed = Append(before.unparsed, args[i])
    <3>1. DOMAIN before = DOMAIN NothingScanned
      BY <2>3 DEF Scanned
    <3>2. /\ DOMAIN ScanArgument(before, args[i], FALSE, names, booleans) = DOMAIN NothingScanned
          /\ \/ ScanArgument(before, args[i], FALSE, names, booleans).unparsed = before.unparsed
             \/ ScanArgument(before, args[i], FALSE, names, booleans).unparsed
                  = Append(before.unparsed, args[i])
      BY <3>1, ScanLeaves
    <3>3. QED
      BY <2>3, <3>2
  <2>5. \A s, e : IsSeq(s) => IsSeq(Append(s, e)) /\ Len(Append(s, e)) = Len(s) + 1
    BY AppendAny, AppendLength
  <2>6. /\ IsSeq(before.unparsed) /\ IsSeq(after.unparsed)
        /\ \/ Len(after.unparsed) = Len(before.unparsed)
           \/ Len(after.unparsed) = Len(before.unparsed) + 1
    BY <2>3, <2>4, <2>5 DEF Scanned
  <2>7. ASSUME i >= p PROVE Len(after.unparsed) \in 0 .. i - p
    <3>1. CASE i - 1 >= p
      <4>1. PICK k \in 0 .. i - 1 - p : k = Len(before.unparsed)
        BY <2>3, <3>1
      <4>2. k \in 0 .. i - p /\ k + 1 \in 0 .. i - p
        BY <1>1, <3>1, <4>1
      <4>3. QED
        BY <2>6, <4>1, <4>2
    <3>2. CASE i = p
      <4>1. after.unparsed = <<>>
        BY <1>3, <1>4, <2>2, <3>2
      <4>2. 0 \in 0 .. i - p
        BY <1>1, <3>2
      <4>3. QED
        BY <1>5, <4>1, <4>2
    <3>3. QED
      BY <1>1, <2>7, <3>1, <3>2
  <2>8. i \in 0 .. n
    BY <1>1
  <2>9. QED
    BY <2>2, <2>4, <2>6, <2>7, <2>8 DEF Scanned
<1>8. n \in T
  <2> HIDE DEF T
  <2>1. QED
    BY <1>1, <1>6, <1>7, FoldKeeps
<1>9. PICK last : last = ScanArguments(args, FALSE, names, booleans)
  OBVIOUS
<1>10. Scanned(last) /\ Len(last.unparsed) \in 0 .. n - p
  BY <1>1, <1>2, <1>8, <1>9
<1>11. GetOpt(args, FALSE, names, booleans).unparsed = last.unparsed
  BY <1>9, <1>10 DEF GetOpt, Scanned
<1>12. QED
  BY <1>10, <1>11 DEF Scanned, n

\* When it finds an option it does not recognise it has not come to them.
LEMMA GetOptStops ==
  ASSUME NEW names, NEW booleans, NEW args, IsSeq(args), NEW p \in 0 .. Len(args),
         GetOpt(args, FALSE, names, booleans).error
  PROVE  NoneIsLeft(args, p, names, booleans)
<1> DEFINE n == Len(args)
<1>1. n \in Nat /\ p \in Nat /\ p <= n
  BY DEF IsSeq
<1>2. PICK g : /\ Scans(g, args, n, names, booleans)
               /\ ScanArguments(args, FALSE, names, booleans) = g[n]
  BY GetOptScans
<1> HIDE DEF n
<1> DEFINE Good(scan) == /\ DOMAIN scan = DOMAIN NothingScanned
                         /\ scan.unparsed # <<>> => Stopped(scan)
<1>3. ASSUME NEW i \in 1 .. n, Good(g[i - 1])
      PROVE  Good(g[i]) /\ (Stopped(g[i - 1]) => Stopped(g[i]))
  <2>1. g[i] = ScanArgument(g[i - 1], args[i], FALSE, names, booleans)
    BY <1>2 DEF Scans
  <2>2. DOMAIN g[i] = DOMAIN NothingScanned
    <3>1. PICK before : before = g[i - 1]
      OBVIOUS
    <3>2. DOMAIN before = DOMAIN NothingScanned
      BY <1>3, <3>1
    <3>3. DOMAIN ScanArgument(before, args[i], FALSE, names, booleans) = DOMAIN NothingScanned
      BY <3>2, ScanLeaves
    <3>4. QED
      BY <2>1, <3>1, <3>3
  <2>3. (Stopped(g[i - 1]) => Stopped(g[i])) /\ (g[i].unparsed # <<>> => Stopped(g[i]))
    BY <1>3, <2>1, ScanStops
  <2>4. QED
    BY <2>2, <2>3
<1>4. Good(g[0])
  <2>1. g[0] = NothingScanned
    BY <1>2 DEF Scans
  <2>2. NothingScanned.unparsed = <<>>
    BY DEF NothingScanned
  <2>3. QED
    BY <2>1, <2>2
<1> HIDE DEF Good
<1>5. ASSUME NEW k \in 0 .. n PROVE Good(g[k])
  <2> DEFINE T == {i \in 0 .. n : Good(g[i])}
  <2>1. 0 \in T
    BY <1>1, <1>4
  <2>2. ASSUME NEW i \in 1 .. k, i - 1 \in T PROVE i \in T
    <3>1. i \in 1 .. n /\ i \in 0 .. n
      BY <1>1
    <3>2. QED
      BY <1>3, <2>2, <3>1
  <2>3. k \in T
    <3> HIDE DEF T
    <3>1. k \in Nat
      BY <1>1
    <3>2. QED
      BY <2>1, <2>2, <3>1, FoldKeeps
  <2>4. QED
    BY <2>3
<1>6. Stopped(g[p]) => Stopped(g[n])
  <2> DEFINE T == {i \in 0 .. n : i >= p => (Stopped(g[p]) => Stopped(g[i]))}
  <2>1. 0 \in T
    BY <1>1
  <2>2. ASSUME NEW i \in 1 .. n, i - 1 \in T PROVE i \in T
    <3>1. i - 1 \in 0 .. n /\ i \in 0 .. n
      BY <1>1
    <3>2. Stopped(g[i - 1]) => Stopped(g[i])
      BY <1>3, <1>5, <3>1
    <3>3. CASE i - 1 >= p
      BY <2>2, <3>1, <3>2, <3>3
    <3>4. CASE i <= p
      <4>1. i >= p => i = p
        BY <1>1, <3>4
      <4>2. QED
        BY <3>1, <4>1
    <3>5. QED
      BY <1>1, <3>3, <3>4
  <2>3. n \in T
    <3> HIDE DEF T
    <3>1. QED
      BY <1>1, <2>1, <2>2, FoldKeeps
  <2>4. QED
    BY <1>1, <2>3
<1>7. ~Stopped(g[n])
  <2>1. PICK last : last = g[n]
    OBVIOUS
  <2>2. GetOpt(args, FALSE, names, booleans)
          = IF ~last.error /\ last.mode = "value"
            THEN [last EXCEPT !.error = TRUE, !.opt = last.pending.name] ELSE last
    BY <1>2, <2>1 DEF GetOpt
  <2>3. last.error \/ last.mode = "value"
    BY <2>2
  <2>4. QED
    BY <2>1, <2>3 DEF Stopped
<1>8. g[p].unparsed = <<>>
  BY <1>1, <1>5, <1>6, <1>7 DEF Good
<1>9. Scans(g, args, p, names, booleans)
  <2>1. \A i \in 1 .. p : i \in 1 .. n
    BY <1>1
  <2>2. QED
    BY <1>2, <2>1 DEF Scans
<1>10. QED
  BY <1>8, <1>9 DEF NoneIsLeft

\* The rest of an argument list goes to its front part from the front.
LEMMA MoveHead ==
  ASSUME NEW s, NEW t, IsSeq(s), IsSeq(t), t # <<>>
  PROVE  /\ IsSeq(s \o <<Head(t)>>) /\ IsSeq(Tail(t))
         /\ (s \o <<Head(t)>>) \o Tail(t) = s \o t
<1> DEFINE S == Range(s) \cup Range(t)
<1>1. s \in Seq(S) /\ t \in Seq(S)
  BY DEF IsSeq
<1> HIDE DEF S
<1>2. Head(t) \in S /\ Tail(t) \in Seq(S) /\ <<Head(t)>> \in Seq(S)
  BY <1>1
<1>3. s \o <<Head(t)>> \in Seq(S)
  BY <1>1, <1>2
<1>4. <<Head(t)>> \o Tail(t) = t
  BY <1>1
<1>5. (s \o <<Head(t)>>) \o Tail(t) = s \o (<<Head(t)>> \o Tail(t))
  BY <1>1, <1>2, ConcatAssociative
<1>6. QED
  BY <1>2, <1>3, <1>4, <1>5, SeqOfAny

LEMMA ConcatAny ==
  ASSUME NEW s, NEW t, IsSeq(s), IsSeq(t)
  PROVE  IsSeq(s \o t) /\ s \o <<>> = s /\ <<>> \o s = s
<1> DEFINE S == Range(s) \cup Range(t)
<1>1. s \in Seq(S) /\ t \in Seq(S)
  BY DEF IsSeq
<1> HIDE DEF S
<1>2. s \o t \in Seq(S)
  BY <1>1
<1>3. QED
  BY <1>1, <1>2, SeqOfAny, ConcatEmptySeq

\* What stood behind the element that is taken out moves up.
LEMMA RemoveMoves ==
  ASSUME NEW S, NEW s \in Seq(S), NEW i \in 1 .. Len(s)
  PROVE  /\ RemoveAt(s, i) \in Seq(S) /\ Len(RemoveAt(s, i)) = Len(s) - 1
         /\ \A j \in 1 .. i - 1 : RemoveAt(s, i)[j] = s[j]
         /\ \A j \in i .. Len(s) - 1 : RemoveAt(s, i)[j] = s[j + 1]
<1> DEFINE l == SubSeq(s, 1, i - 1)
           r == SubSeq(s, i + 1, Len(s))
<1>1. Len(s) \in Nat /\ i \in Nat /\ i >= 1 /\ i <= Len(s) /\ \A j \in 1 .. Len(s) : s[j] \in S
  OBVIOUS
<1>2. l \in Seq(S) /\ Len(l) = i - 1 /\ \A j \in 1 .. i - 1 : l[j] = s[j]
  <2>1. \A j \in 1 .. i - 1 : s[j] \in S
    BY <1>1
  <2>2. 1 \in Int /\ i - 1 \in Int
    BY <1>1
  <2>3. /\ l \in Seq(S) /\ Len(l) = IF 1 <= i - 1 THEN i - 1 - 1 + 1 ELSE 0
        /\ \A j \in 1 .. i - 1 - 1 + 1 : l[j] = s[1 + j - 1]
    BY <2>1, <2>2, SubSeqProperties
  <2> HIDE DEF l
  <2>4. i - 1 - 1 + 1 = i - 1 /\ \A j \in 1 .. i - 1 : 1 + j - 1 = j
    BY <1>1
  <2>5. QED
    BY <1>1, <2>3, <2>4
<1>3. r \in Seq(S) /\ Len(r) = Len(s) - i /\ \A j \in 1 .. Len(s) - i : r[j] = s[i + j]
  <2>1. \A j \in i + 1 .. Len(s) : s[j] \in S
    BY <1>1
  <2>2. i + 1 \in Int /\ Len(s) \in Int
    BY <1>1
  <2>3. /\ r \in Seq(S) /\ Len(r) = IF i + 1 <= Len(s) THEN Len(s) - (i + 1) + 1 ELSE 0
        /\ \A j \in 1 .. Len(s) - (i + 1) + 1 : r[j] = s[i + 1 + j - 1]
    BY <2>1, <2>2, SubSeqProperties
  <2> HIDE DEF r
  <2>4. Len(s) - (i + 1) + 1 = Len(s) - i /\ \A j \in 1 .. Len(s) - i : i + 1 + j - 1 = i + j
    BY <1>1
  <2>5. Len(r) = Len(s) - i
    <3> HIDE DEF l
    <3>1. PICK n : n = Len(s)
      OBVIOUS
    <3>2. (IF i + 1 <= n THEN n - (i + 1) + 1 ELSE 0) = n - i
      BY <1>1, <3>1
    <3>3. QED
      BY <2>3, <3>1, <3>2
  <2>6. \A j \in 1 .. Len(s) - i : r[j] = s[i + j]
    BY <2>3, <2>4
  <2>7. QED
    BY <2>3, <2>5, <2>6
<1> HIDE DEF l, r
<1>4. /\ l \o r \in Seq(S) /\ Len(l \o r) = Len(l) + Len(r)
      /\ \A j \in 1 .. Len(l) + Len(r) : (l \o r)[j] = IF j <= Len(l) THEN l[j] ELSE r[j - Len(l)]
  BY <1>2, <1>3, ConcatProperties
<1>5. RemoveAt(s, i) = l \o r
  BY DEF RemoveAt, l, r
<1>6. Len(l) + Len(r) = Len(s) - 1
  BY <1>1, <1>2, <1>3
<1>7. ASSUME NEW j \in 1 .. i - 1 PROVE (l \o r)[j] = s[j]
  <2>1. j \in 1 .. Len(l) + Len(r) /\ j <= Len(l)
    BY <1>1, <1>2, <1>6
  <2>2. QED
    BY <1>2, <1>4, <2>1
<1>8. ASSUME NEW j \in i .. Len(s) - 1 PROVE (l \o r)[j] = s[j + 1]
  <2>1. j \in 1 .. Len(l) + Len(r) /\ ~(j <= Len(l)) /\ j - Len(l) = j - i + 1
    BY <1>1, <1>2, <1>6
  <2>2. j - i + 1 \in 1 .. Len(s) - i /\ i + (j - i + 1) = j + 1
    BY <1>1
  <2>3. QED
    BY <1>3, <1>4, <2>1, <2>2
<1>9. QED
  BY <1>4, <1>5, <1>6, <1>7, <1>8

\* The last k elements.
LEMMA LastOnes ==
  ASSUME NEW t, IsSeq(t), NEW k \in 0 .. Len(t)
  PROVE  SubSeq(t, Len(t) - k + 1, Len(t)) = [i \in 1 .. k |-> t[Len(t) - k + i]]
<1> DEFINE S == Range(t)
           n == Len(t)
           r == SubSeq(t, n - k + 1, n)
<1>1. n \in Nat /\ k \in Nat /\ k <= n /\ \A j \in 1 .. n : t[j] \in S
  BY DEF IsSeq
<1>2. r \in Seq(S) /\ Len(r) = k /\ \A i \in 1 .. k : r[i] = t[n - k + i]
  <2> HIDE DEF S, n
  <2>1. \A j \in n - k + 1 .. n : t[j] \in S
    BY <1>1
  <2>2. n - k + 1 \in Int /\ n \in Int
    BY <1>1
  <2>3. /\ r \in Seq(S)
        /\ Len(r) = IF n - k + 1 <= n THEN n - (n - k + 1) + 1 ELSE 0
        /\ \A i \in 1 .. n - (n - k + 1) + 1 : r[i] = t[n - k + 1 + i - 1]
    BY <2>1, <2>2, SubSeqProperties
  <2> HIDE DEF r
  <2>4. n - (n - k + 1) + 1 = k /\ \A i \in 1 .. k : n - k + 1 + i - 1 = n - k + i
    BY <1>1
  <2>5. Len(r) = k
    BY <1>1, <2>3, <2>4
  <2>6. QED
    BY <2>3, <2>4, <2>5
<1> HIDE DEF S, r, n
<1>3. r \in [1 .. k -> S]
  BY <1>2
<1>4. r = [i \in 1 .. k |-> t[n - k + i]]
  BY <1>2, <1>3
<1>5. QED
  BY <1>4 DEF r, n

-----------------------------------------------------------------------------
(* What FLAGS(argv) returns.                                               *)

\* s is no longer than t.
Within(s, t) == IsSeq(s) /\ IsSeq(t) /\ Len(s) \in 0 .. Len(t)

Options == DOMAIN flags[op.reg]
Booleans == BooleanNames(op.reg)

\* Behind the first p arguments nothing has been taken out: they stand in argv as
\* far from the end as in args.  The others were there before the last that was
\* taken out, and getopt leaves none of them.
LocatedFrom(p) ==
  /\ \A i \in p + 1 .. Len(frame.args) :
       frame.places[i] = Len(frame.original_argv) - Len(frame.args) + i
  /\ \A i \in 1 .. p : frame.taken # <<>> /\ frame.places[i] < frame.taken[Len(frame.taken)]
  /\ NoneIsLeft(frame.args, p, Options, Booleans)

Located ==
  /\ Within(frame.args, frame.original_argv)
  /\ frame.places \in Seq(Int) /\ Len(frame.places) = Len(frame.args)
  /\ frame.parsed_files = <<>> => frame.original_argv = op.argv
  /\ ~gnu[op.reg] /\ TakenInOrder => \E p \in 0 .. Len(frame.args) : LocatedFrom(p)

\* Without flag files the arguments read and those not read yet are what was
\* given.  Then come the rounds of getopt, and what the last one leaves.
RestInv ==
  /\ frame.taken \in Seq(Int)
  /\ pc = "files" => /\ IsSeq(frame.argv) /\ IsSeq(frame.rest)
                     /\ frame.parsed_files = <<>> => frame.argv \o frame.rest = op.argv
  /\ pc \in {"getopt", "apply"} => Located
  /\ pc = "apply" =>
       frame.unparsed_args = GetOpt(frame.args, gnu[op.reg], Options, Booleans).unparsed
  /\ RestIsUntouched
  /\ pc \in Loops => op.call # "parse"

LEMMA NoneTaken == <<>> \in Seq(Int) /\ NoFrame.taken = <<>>
  BY DEF NoFrame

LEMMA LeftRestInv ==
  ASSUME pc' \notin {"files", "getopt", "apply"}, ~ReturnedFrom("parse")', frame'.taken \in Seq(Int),
         pc' \in Loops => op'.call # "parse"
  PROVE  RestInv'
  BY DEF RestInv, RestIsUntouched, RestIsReturned

LEMMA ThrowsRestInv ==
  ASSUME pc' \in {"client", "exit"}, raised' # "", frame' = NoFrame PROVE RestInv'
<1>1. NoFrame' = NoFrame
  BY DEF NoFrame
<1>2. frame'.taken \in Seq(Int)
  BY <1>1, NoneTaken
<1>3. QED
  BY <1>2, LeftRestInv DEF ReturnedFrom, Loops

LEMMA ReadingRest ==
  ASSUME pc' = "files", frame'.taken \in Seq(Int), IsSeq(frame'.argv), IsSeq(frame'.rest),
         frame'.parsed_files = <<>> => frame'.argv \o frame'.rest = op'.argv
  PROVE  RestInv'
  BY DEF RestInv, RestIsUntouched, RestIsReturned, ReturnedFrom, Loops

LEMMA OpenRest ==
  ASSUME NEW f, NEW filename, Open(f, filename), DOMAIN f = DOMAIN NoFrame,
         IsSeq(f.argv), IsSeq(f.rest), IsSeq(f.parsed_files), f.taken \in Seq(Int)
  PROVE  RestInv'
<1>1. CASE filename \in DOMAIN files
  <2>1. frame' = Opened(f, filename) /\ pc' = "files"
    BY <1>1 DEF Open, Goes
  <2>2. DOMAIN f = {"rest", "stack", "parsed_files", "argv", "original_argv", "args", "optlist",
                    "unrecognized_opts", "undefok_flags", "unparsed_args", "places", "taken"}
    BY DEF NoFrame
  <2>3. /\ frame'.argv = f.argv /\ frame'.rest = f.rest /\ frame'.taken = f.taken
        /\ frame'.parsed_files = Append(f.parsed_files, filename)
    BY <2>1, <2>2 DEF Opened
  <2>4. frame'.parsed_files # <<>>
    <3>1. Append(f.parsed_files, filename) # <<>>
      BY AppendLength
    <3>2. QED
      BY <2>3, <3>1
  <2>5. QED
    BY <2>1, <2>3, <2>4, ReadingRest
<1>2. CASE filename \notin DOMAIN files
  BY <1>2, ThrowsRestInv DEF Open, Throws
<1>3. QED
  BY <1>1, <1>2

\* While the options go to their flags nothing changes that this is about.
LEMMA SameLocated ==
  ASSUME UNCHANGED <<op, gnu, flags, decls>>,
         frame'.args = frame.args, frame'.places = frame.places, frame'.taken = frame.taken,
         frame'.original_argv = frame.original_argv, frame'.parsed_files = frame.parsed_files
  PROVE  Options' = Options /\ Booleans' = Booleans /\ (Located => Located')
<1>1. Options' = Options /\ Booleans' = Booleans
  BY DEF Options, Booleans, BooleanNames
<1>2. TakenInOrder' <=> TakenInOrder
  BY DEF TakenInOrder
<1>3. \A p : LocatedFrom(p) => LocatedFrom(p)'
  BY <1>1 DEF LocatedFrom
<1>4. QED
  BY <1>1, <1>2, <1>3 DEF Located

\* Nothing has been taken out yet.
LEMMA ExpandedLocated ==
  ASSUME UNCHANGED op, Within(frame'.args, frame'.original_argv),
         Len(frame'.args) = Len(frame'.original_argv),
         frame'.places = [i \in DOMAIN frame'.args |-> i],
         frame'.parsed_files = <<>> => frame'.original_argv = op.argv
  PROVE  Located'
<1>1. PICK n \in Nat : n = Len(frame'.args) /\ DOMAIN frame'.args = 1 .. n
  BY DEF Within, IsSeq
<1>2. frame'.places \in Seq(Int) /\ Len(frame'.places) = n /\ \A i \in 1 .. n : frame'.places[i] = i
  <2>1. frame'.places \in [1 .. n -> Int]
    BY <1>1
  <2>2. QED
    BY <1>1, <2>1
<1>3. ASSUME NEW names, NEW booleans PROVE NoneIsLeft(frame'.args, 0, names, booleans)
  <2> DEFINE g == [i \in {0} |-> NothingScanned]
  <2>1. g[0] = NothingScanned /\ NothingScanned.unparsed = <<>>
    BY DEF NothingScanned
  <2> HIDE DEF g
  <2>2. Scans(g, frame'.args, 0, names, booleans) /\ g[0].unparsed = <<>>
    BY <2>1 DEF Scans
  <2>3. QED
    BY <2>2 DEF NoneIsLeft
<1>4. LocatedFrom(0)'
  BY <1>1, <1>2, <1>3 DEF LocatedFrom
<1>5. 0 \in 0 .. Len(frame'.args)
  BY <1>1
<1>6. QED
  BY <1>1, <1>2, <1>4, <1>5 DEF Located

\* One more is taken out.
LEMMA TakenLocated ==
  ASSUME Located, frame.taken \in Seq(Int), NEW at \in 1 .. Len(frame.args),
         UNCHANGED <<op, gnu, flags, decls>>,
         ~gnu[op.reg] => GetOpt(frame.args, FALSE, Options, Booleans).error,
         frame'.args = RemoveAt(frame.args, at), frame'.places = RemoveAt(frame.places, at),
         frame'.taken = Append(frame.taken, frame.places[at]),
         frame'.original_argv = frame.original_argv, frame'.parsed_files = frame.parsed_files
  PROVE  Located' /\ frame'.taken \in Seq(Int)
<1> DEFINE n == Len(frame.args)
           m == Len(frame.original_argv)
           t == Len(frame.taken)
           S == Range(frame.args)
<1>1. /\ IsSeq(frame.args) /\ IsSeq(frame.original_argv)
      /\ n \in Nat /\ m \in Nat /\ n <= m /\ t \in Nat /\ at \in Nat /\ at >= 1 /\ at <= n
      /\ frame.places \in Seq(Int) /\ Len(frame.places) = n
      /\ \A i \in 1 .. n : frame.places[i] \in Int
      /\ \A i \in 1 .. t : frame.taken[i] \in Int
  BY DEF Located, Within, IsSeq
<1>2. Options' = Options /\ Booleans' = Booleans
  BY DEF Options, Booleans, BooleanNames
<1>3. /\ IsSeq(frame'.args) /\ Len(frame'.args) = n - 1
      /\ \A j \in 1 .. at - 1 : frame'.args[j] = frame.args[j]
  <2>1. frame.args \in Seq(S)
    BY <1>1 DEF IsSeq
  <2> HIDE DEF S
  <2>2. /\ frame'.args \in Seq(S) /\ Len(frame'.args) = n - 1
        /\ \A j \in 1 .. at - 1 : frame'.args[j] = frame.args[j]
    <3>1. PICK s : s = frame.args
      OBVIOUS
    <3>2. s \in Seq(S) /\ at \in 1 .. Len(s)
      BY <2>1, <3>1
    <3>3. /\ RemoveAt(s, at) \in Seq(S) /\ Len(RemoveAt(s, at)) = Len(s) - 1
          /\ \A j \in 1 .. at - 1 : RemoveAt(s, at)[j] = s[j]
      BY <3>2, RemoveMoves
    <3>4. QED
      BY <3>1, <3>3
  <2>3. QED
    BY <2>2, SeqOfAny
<1>4. /\ frame'.places \in Seq(Int) /\ Len(frame'.places) = n - 1
      /\ \A j \in 1 .. at - 1 : frame'.places[j] = frame.places[j]
      /\ \A j \in at .. n - 1 : frame'.places[j] = frame.places[j + 1]
  <2>1. PICK s : s = frame.places
    OBVIOUS
  <2>2. s \in Seq(Int) /\ at \in 1 .. Len(s) /\ Len(s) = n
    BY <1>1, <2>1
  <2>3. /\ RemoveAt(s, at) \in Seq(Int) /\ Len(RemoveAt(s, at)) = Len(s) - 1
        /\ \A j \in 1 .. at - 1 : RemoveAt(s, at)[j] = s[j]
        /\ \A j \in at .. Len(s) - 1 : RemoveAt(s, at)[j] = s[j + 1]
    BY <2>2, RemoveMoves
  <2>4. QED
    BY <2>1, <2>2, <2>3
<1>5. /\ frame'.taken \in Seq(Int) /\ Len(frame'.taken) = t + 1 /\ frame'.taken # <<>>
      /\ DOMAIN frame'.taken = 1 .. t + 1 /\ frame'.taken[t + 1] = frame.places[at]
      /\ \A i \in 1 .. t : frame'.taken[i] = frame.taken[i]
      /\ DOMAIN frame.taken = 1 .. t
  <2>1. PICK s, e : s = frame.taken /\ e = frame.places[at]
    OBVIOUS
  <2>2. s \in Seq(Int) /\ e \in Int
    BY <1>1, <2>1
  <2>3. /\ Append(s, e) \in Seq(Int) /\ Append(s, e) # <<>>
        /\ Len(Append(s, e)) = Len(s) + 1 /\ Append(s, e)[Len(s) + 1] = e
        /\ \A i \in 1 .. Len(s) : Append(s, e)[i] = s[i]
    BY <2>2, AppendProperties
  <2>4. DOMAIN Append(s, e) = 1 .. Len(Append(s, e)) /\ DOMAIN s = 1 .. Len(s)
    BY <2>2, <2>3
  <2> HIDE DEF n, m
  <2>5. QED
    BY <2>1, <2>3, <2>4
<1> HIDE DEF n, m, t
<1>6. ASSUME ~gnu[op.reg], TakenInOrder'
      PROVE  \E p \in 0 .. n - 1 : LocatedFrom(p)'
  <2>1. TakenInOrder
    <3>1. \A i \in 1 .. t : i \in 1 .. t + 1
      BY <1>1
    <3>2. QED
      BY <1>5, <1>6, <3>1 DEF TakenInOrder
  <2>2. PICK p \in 0 .. n : LocatedFrom(p)
    BY <1>6, <2>1 DEF Located, n
  <2>3. /\ \A i \in p + 1 .. n : frame.places[i] = m - n + i
        /\ \A i \in 1 .. p : frame.taken # <<>> /\ frame.places[i] < frame.taken[t]
    BY <2>2 DEF LocatedFrom, n, m, t
  <2>4. frame.taken # <<>> => t \in 1 .. t /\ frame.taken[t] < frame.places[at]
    <3>1. ASSUME frame.taken # <<>> PROVE t \in 1 .. t
      BY <1>1, <3>1, EmptySeq DEF t
    <3>2. ASSUME t \in 1 .. t PROVE frame.taken[t] < frame.places[at]
      <4>1. t \in 1 .. t + 1 /\ t + 1 \in 1 .. t + 1 /\ t < t + 1
        BY <1>1, <3>2
      <4>2. frame'.taken[t] < frame'.taken[t + 1]
        BY <1>5, <1>6, <4>1 DEF TakenInOrder
      <4>3. QED
        BY <1>5, <3>2, <4>2
    <3>3. QED
      BY <3>1, <3>2
  <2>5. at > p
    <3>1. ASSUME at <= p PROVE FALSE
      <4>1. at \in 1 .. p
        BY <1>1, <3>1
      <4>2. frame.places[at] < frame.taken[t] /\ frame.taken[t] < frame.places[at] /\ t \in 1 .. t
        BY <2>3, <2>4, <4>1
      <4>3. frame.places[at] \in Int /\ frame.taken[t] \in Int
        BY <1>1, <4>2
      <4>4. QED
        BY <4>2, <4>3
    <3>2. QED
      BY <1>1, <3>1
  <2>6. ASSUME NEW i \in at .. n - 1 PROVE frame'.places[i] = m - (n - 1) + i
    <3>1. i + 1 \in p + 1 .. n
      BY <1>1, <2>5
    <3>2. frame.places[i + 1] = m - n + (i + 1)
      BY <2>3, <3>1
    <3>3. QED
      BY <1>1, <1>4, <3>2
  <2>7. ASSUME NEW i \in 1 .. at - 1 PROVE frame'.places[i] < frame.places[at]
    <3>1. frame'.places[i] = frame.places[i] /\ i \in 1 .. n
      BY <1>1, <1>4
    <3>2. CASE i <= p
      <4>1. i \in 1 .. p
        BY <3>2
      <4>2. frame.places[i] < frame.taken[t] /\ frame.taken[t] < frame.places[at] /\ t \in 1 .. t
        BY <2>3, <2>4, <4>1
      <4>3. frame.places[i] \in Int /\ frame.places[at] \in Int /\ frame.taken[t] \in Int
        BY <1>1, <3>1, <4>2
      <4>4. QED
        BY <3>1, <4>2, <4>3
    <3>3. CASE i > p
      <4>1. i \in p + 1 .. n /\ at \in p + 1 .. n
        BY <1>1, <2>5, <3>1, <3>3
      <4>2. frame.places[i] = m - n + i /\ frame.places[at] = m - n + at
        BY <2>3, <4>1
      <4>3. QED
        BY <1>1, <3>1, <4>2
    <3>4. QED
      BY <3>2, <3>3
  <2>8. NoneIsLeft(frame'.args, at - 1, Options, Booleans)
    <3>1. at - 1 \in 0 .. Len(frame.args)
      BY <1>1 DEF n
    <3>2. NoneIsLeft(frame.args, at - 1, Options, Booleans)
      BY <1>1, <1>6, <3>1, GetOptStops
    <3>3. PICK g : Scans(g, frame.args, at - 1, Options, Booleans) /\ g[at - 1].unparsed = <<>>
      BY <3>2 DEF NoneIsLeft
    <3>4. Scans(g, frame'.args, at - 1, Options, Booleans)
      BY <1>3, <3>3 DEF Scans
    <3>5. QED
      BY <3>3, <3>4 DEF NoneIsLeft
  <2>9. at - 1 \in 0 .. n - 1 /\ at - 1 + 1 = at
    BY <1>1
  <2>10. LocatedFrom(at - 1)'
    <3>1. \A i \in at - 1 + 1 .. Len(frame'.args) :
            frame'.places[i] = Len(frame'.original_argv) - Len(frame'.args) + i
      BY <1>3, <2>6, <2>9 DEF m
    <3>2. \A i \in 1 .. at - 1 :
            frame'.taken # <<>> /\ frame'.places[i] < frame'.taken[Len(frame'.taken)]
      BY <1>5, <2>7
    <3>3. QED
      BY <1>2, <2>8, <3>1, <3>2 DEF LocatedFrom
  <2>11. QED
    BY <2>9, <2>10
<1>7. Within(frame'.args, frame'.original_argv)
  BY <1>1, <1>3 DEF Within, m
<1>8. gnu'[op'.reg] = gnu[op.reg] /\ op'.argv = op.argv
  OBVIOUS
<1> HIDE DEF S
<1>9. Located'
  BY <1>3, <1>4, <1>6, <1>7, <1>8 DEF Located
<1>10. QED
  BY <1>5, <1>9

\* A registry for which use_gnu_getopt was not set has getopt.
LEMMA GnuOrNot ==
  ASSUME NEW use_gnu, ~use_gnu, NEW names, NEW booleans, NEW args
  PROVE  GetOpt(args, FALSE, names, booleans) = GetOpt(args, use_gnu, names, booleans)
<1>1. ASSUME NEW scan, NEW a
      PROVE  ScanArgument(scan, a, use_gnu, names, booleans) = ScanArgument(scan, a, FALSE, names, booleans)
  BY DEF ScanArgument
<1>2. \A g : ScanFolds(g, use_gnu, names, booleans, args) <=> ScanFolds(g, FALSE, names, booleans, args)
  BY <1>1 DEF ScanFolds
<1>3. (CHOOSE g : ScanFolds(g, use_gnu, names, booleans, args))
        = (CHOOSE g : ScanFolds(g, FALSE, names, booleans, args))
  BY <1>2, Zenon
<1>4. ScanArguments(args, use_gnu, names, booleans) = ScanArguments(args, FALSE, names, booleans)
  BY <1>3, ScanUnfold
<1>5. QED
  BY <1>4 DEF GetOpt

\* What is returned stands where the arguments stood that getopt has left.
LEMMA LocatedReturned ==
  ASSUME Located, ~gnu[op.reg], TakenInOrder,
         frame.unparsed_args = GetOpt(frame.args, gnu[op.reg], Options, Booleans).unparsed
  PROVE  LET left == GetOpt(frame.args, FALSE, Options, Booleans).unparsed
             stop == Len(frame.args) - Len(left)
         IN Returned(frame, gnu[op.reg])
              = [i \in 1 .. Len(left) |-> frame.original_argv[frame.places[stop + i]]]
<1> DEFINE left == GetOpt(frame.args, FALSE, Options, Booleans).unparsed
           k == Len(left)
           n == Len(frame.args)
           m == Len(frame.original_argv)
<1>0. GetOpt(frame.args, gnu[op.reg], Options, Booleans).unparsed = left
  BY GnuOrNot
<1>1. IsSeq(frame.args) /\ IsSeq(frame.original_argv) /\ n \in Nat /\ m \in Nat /\ n <= m
  BY DEF Located, Within, IsSeq
<1>2. PICK p \in 0 .. n : LocatedFrom(p)
  BY DEF Located
<1>3. k \in 0 .. n - p
  BY <1>1, <1>2, GetOptLeaves DEF LocatedFrom
<1>4. \A i \in p + 1 .. n : frame.places[i] = m - n + i
  BY <1>2 DEF LocatedFrom
<1>5. Returned(frame, gnu[op.reg]) = SubSeq(frame.original_argv, m - k + 1, m)
  BY <1>0 DEF Returned
<1> HIDE DEF left, k, n, m
<1>6. Returned(frame, gnu[op.reg]) = [i \in 1 .. k |-> frame.original_argv[m - k + i]]
  <2>1. k \in 0 .. m
    BY <1>1, <1>3
  <2>2. QED
    BY <1>1, <1>5, <2>1, LastOnes DEF m
<1>7. ASSUME NEW i \in 1 .. k PROVE frame.places[n - k + i] = m - k + i
  <2>1. n - k + i \in p + 1 .. n
    BY <1>1, <1>3
  <2>2. QED
    BY <1>1, <1>3, <1>4, <2>1
<1>8. Returned(frame, gnu[op.reg]) = [i \in 1 .. k |-> frame.original_argv[frame.places[n - k + i]]]
  BY <1>6, <1>7
<1>9. QED
  BY <1>8 DEF left, k, n

LEMMA NextRestInv ==
  FilesInv /\ FilesInv' /\ RestInv /\ [Next]_vars => RestInv'
<1> SUFFICES ASSUME FilesInv, FilesInv', RestInv, [Next]_vars PROVE RestInv'
  OBVIOUS
<1>0. DOMAIN frame = {"rest", "stack", "parsed_files", "argv", "original_argv", "args", "optlist",
                      "unrecognized_opts", "undefok_flags", "unparsed_args", "places", "taken"}
  BY DEF FilesInv, NoFrame
<1>a. ASSUME pc' = "client", raised' # "", frame' = NoFrame PROVE RestInv'
  BY <1>a, ThrowsRestInv
<1>1. CASE op'.call # "parse" /\ pc' \in Loops \cup {"client"} /\ UNCHANGED frame
  <2>1. frame'.taken \in Seq(Int)
    BY <1>1 DEF RestInv
  <2>2. QED
    BY <1>1, <2>1, LeftRestInv DEF ReturnedFrom, Loops
<1>2. CASE CallFlags
  <2>1. PICK c \in Calls("parse") : \E k \in 0 .. c.length : \E argv \in [1 .. k -> c.words] :
          /\ pc' = "files" /\ op' = [call |-> "parse", reg |-> c.reg, argv |-> argv]
          /\ frame' = [NoFrame EXCEPT !.rest = argv]
    BY <1>2 DEF CallFlags
  <2>2. PICK k \in 0 .. c.length : \E argv \in [1 .. k -> c.words] :
          /\ pc' = "files" /\ op' = [call |-> "parse", reg |-> c.reg, argv |-> argv]
          /\ frame' = [NoFrame EXCEPT !.rest = argv]
    BY <2>1
  <2>3. PICK argv \in [1 .. k -> c.words] :
          /\ pc' = "files" /\ op' = [call |-> "parse", reg |-> c.reg, argv |-> argv]
          /\ frame' = [NoFrame EXCEPT !.rest = argv]
    BY <2>2
  <2>4. /\ pc' = "files" /\ op'.argv = argv /\ frame'.rest = argv /\ frame'.argv = <<>>
        /\ frame'.taken = <<>>
    BY <2>3 DEF NoFrame
  <2>5. IsSeq(argv)
    <3>1. k \in Nat
      OBVIOUS
    <3>2. argv \in Seq(c.words)
      BY <3>1, SeqOfLength
    <3>3. QED
      BY <3>2, SeqOfAny
  <2>6. IsSeq(<<>>) /\ <<>> \o argv = argv
    BY <2>5, ConcatAny, EmptyContains
  <2>7. QED
    BY <2>4, <2>5, <2>6, ReadingRest
<1>3. CASE ReadArgument
  <2> DEFINE a == Head(frame.rest)
             behind == Tail(frame.rest)
             ends == a = EndOfFlags \/ (a.dash = 0 /\ ~gnu[op.reg])
  <2>1. /\ pc = "files" /\ frame.rest # <<>> /\ UNCHANGED op
        /\ IsSeq(frame.argv) /\ IsSeq(frame.rest) /\ IsSeq(frame.parsed_files)
        /\ frame.taken \in Seq(Int)
    BY <1>3 DEF ReadArgument, Keeps, client, RestInv, FilesInv
  <2>2. /\ IsSeq(frame.argv \o <<a>>) /\ IsSeq(behind)
        /\ (frame.argv \o <<a>>) \o behind = frame.argv \o frame.rest
    BY <2>1, MoveHead
  <2>3. IsSeq(frame.argv \o frame.rest) /\ (frame.argv \o frame.rest) \o <<>> = frame.argv \o frame.rest
    BY <2>1, ConcatAny
  <2>4. IsSeq(<<>>)
    BY EmptyContains
  <2> HIDE DEF a, behind
  <2>5. \/ /\ frame' = [frame EXCEPT !.argv = @ \o (IF ends THEN frame.rest ELSE <<a>>),
                                     !.rest = IF ends THEN <<>> ELSE behind]
           /\ pc' = "files"
        \/ Open([frame EXCEPT !.rest = behind], a.val)
        \/ behind = <<>> /\ Throws("IllegalFlagValue")
        \/ behind # <<>> /\ Open([frame EXCEPT !.rest = Tail(behind)], Text(Head(behind)))
    BY <1>3 DEF ReadArgument, Goes, a, behind
  <2>6. CASE /\ frame' = [frame EXCEPT !.argv = @ \o (IF ends THEN frame.rest ELSE <<a>>),
                                       !.rest = IF ends THEN <<>> ELSE behind]
             /\ pc' = "files"
    <3>1. /\ frame'.argv = frame.argv \o (IF ends THEN frame.rest ELSE <<a>>)
          /\ frame'.rest = IF ends THEN <<>> ELSE behind
          /\ frame'.parsed_files = frame.parsed_files /\ frame'.taken = frame.taken
      BY <1>0, <2>6
    <3>2. IsSeq(frame'.argv) /\ IsSeq(frame'.rest) /\ frame'.argv \o frame'.rest = frame.argv \o frame.rest
      <4>1. CASE ends
        BY <2>3, <2>4, <3>1, <4>1
      <4>2. CASE ~ends
        BY <2>2, <3>1, <4>2
      <4>3. QED
        BY <4>1, <4>2
    <3>3. QED
      BY <2>1, <2>6, <3>1, <3>2, ReadingRest DEF RestInv
  <2>7. ASSUME NEW rest, IsSeq(rest), NEW filename, Open([frame EXCEPT !.rest = rest], filename)
        PROVE  RestInv'
    <3> DEFINE f == [frame EXCEPT !.rest = rest]
    <3>1. /\ DOMAIN f = DOMAIN NoFrame /\ f.argv = frame.argv /\ f.rest = rest
          /\ f.parsed_files = frame.parsed_files /\ f.taken = frame.taken
      BY <1>0 DEF NoFrame
    <3>2. Open(f, filename)
      BY <2>7
    <3> HIDE DEF f
    <3>3. QED
      BY <2>1, <2>7, <3>1, <3>2, OpenRest
  <2>8. CASE Open([frame EXCEPT !.rest = behind], a.val)
    BY <2>2, <2>7, <2>8
  <2>9. CASE behind = <<>> /\ Throws("IllegalFlagValue")
    BY <2>9, <1>a DEF Throws
  <2>10. CASE behind # <<>> /\ Open([frame EXCEPT !.rest = Tail(behind)], Text(Head(behind)))
    <3>1. IsSeq(Tail(behind))
      BY <2>2, <2>10, MoveHead
    <3>2. QED
      BY <2>7, <2>10, <3>1
  <2>11. QED
    BY <2>5, <2>6, <2>8, <2>9, <2>10
<1>4. CASE ReadLine
  <2> DEFINE line == Head(Head(frame.stack).lines)
             next == [frame EXCEPT !.stack[1].lines = Tail(@)]
  <2>1. /\ pc = "files" /\ frame.stack # <<>> /\ UNCHANGED op
        /\ IsSeq(frame.argv) /\ IsSeq(frame.rest) /\ IsSeq(frame.parsed_files)
        /\ frame.taken \in Seq(Int)
    BY <1>4 DEF ReadLine, Keeps, client, RestInv, FilesInv
  <2>2. frame.parsed_files # <<>>
    <3>1. 1 \in DOMAIN frame.stack
      <4>1. IsSeq(frame.stack)
        BY DEF FilesInv
      <4>2. QED
        BY <2>1, <4>1, TailAny
    <3>2. \E x : Contains(frame.parsed_files, x)
      BY <3>1 DEF FilesInv
    <3>3. QED
      BY <3>2, EmptyContains
  <2>3. /\ DOMAIN next = DOMAIN NoFrame /\ next.argv = frame.argv /\ next.rest = frame.rest
        /\ next.parsed_files = frame.parsed_files /\ next.taken = frame.taken
    BY <1>0 DEF NoFrame
  <2>4. \/ frame' \in {next, [next EXCEPT !.argv = Append(@, line)]} /\ pc' = "files"
        \/ Open(next, line.val)
        \/ Throws("FlagsError")
    BY <1>4, Zenon DEF ReadLine, Goes
  <2> HIDE DEF next, line
  <2>5. CASE frame' \in {next, [next EXCEPT !.argv = Append(@, line)]} /\ pc' = "files"
    <3>1. /\ frame'.argv \in {frame.argv, Append(frame.argv, line)}
          /\ frame'.rest = frame.rest /\ frame'.parsed_files = frame.parsed_files
          /\ frame'.taken = frame.taken
      BY <2>3, <2>5 DEF NoFrame
    <3>2. IsSeq(frame'.argv) /\ IsSeq(frame'.rest)
      <4>1. IsSeq(Append(frame.argv, line))
        BY <2>1, AppendAny
      <4>2. QED
        BY <2>1, <3>1, <4>1
    <3>3. QED
      BY <2>1, <2>2, <2>5, <3>1, <3>2, ReadingRest
  <2>6. CASE Open(next, line.val)
    BY <2>1, <2>3, <2>6, OpenRest
  <2>7. CASE Throws("FlagsError")
    BY <1>a, <2>7 DEF Throws
  <2>8. QED
    BY <2>4, <2>5, <2>6, <2>7
<1>5. CASE CloseFile
  <2>1. /\ frame'.argv = frame.argv /\ frame'.rest = frame.rest
        /\ frame'.parsed_files = frame.parsed_files /\ frame'.taken = frame.taken
        /\ pc = "files" /\ pc' = "files" /\ UNCHANGED op
    BY <1>0, <1>5 DEF CloseFile, Goes, Keeps, client
  <2>2. QED
    BY <2>1, ReadingRest DEF RestInv
<1>6. CASE ExpandBooleans
  <2>1. /\ pc = "files" /\ pc' = "getopt" /\ UNCHANGED op /\ frame.rest = <<>>
        /\ \E expanded \in Expansions(frame.argv, DOMAIN flags[op.reg], BooleanNames(op.reg)) :
             frame' = [frame EXCEPT !.original_argv = frame.argv,
                                    !.argv = expanded, !.args = expanded,
                                    !.places = [i \in DOMAIN expanded |-> i]]
    BY <1>6 DEF ExpandBooleans, Goes, Keeps, client
  <2>2. PICK expanded \in Expansions(frame.argv, DOMAIN flags[op.reg], BooleanNames(op.reg)) :
          frame' = [frame EXCEPT !.original_argv = frame.argv,
                                 !.argv = expanded, !.args = expanded,
                                 !.places = [i \in DOMAIN expanded |-> i]]
    BY <2>1
  <2>3. /\ frame'.original_argv = frame.argv /\ frame'.args = expanded
        /\ frame'.places = [i \in DOMAIN expanded |-> i]
        /\ frame'.parsed_files = frame.parsed_files /\ frame'.taken = frame.taken
    BY <1>0, <2>2
  <2>4. \E T : expanded \in [DOMAIN frame.argv -> T]
    BY DEF Expansions
  <2>5. IsSeq(frame.argv) /\ (frame.parsed_files = <<>> => frame.argv \o frame.rest = op.argv)
    BY <2>1 DEF RestInv
  <2>6. frame.argv \o <<>> = frame.argv
    BY <2>5, ConcatAny, EmptyContains
  <2>7. Len(frame.argv) \in Nat /\ DOMAIN frame.argv = 1 .. Len(frame.argv)
    BY <2>5 DEF IsSeq
  <2>8. PICK T : expanded \in Seq(T) /\ Len(expanded) = Len(frame.argv)
    <3>1. PICK T : expanded \in [DOMAIN frame.argv -> T]
      BY <2>4
    <3>2. PICK n \in Nat : n = Len(frame.argv) /\ expanded \in [1 .. n -> T]
      BY <2>7, <3>1
    <3>3. expanded \in Seq(T) /\ Len(expanded) = n
      BY <3>2
    <3>4. QED
      BY <3>2, <3>3
  <2>9. Within(expanded, frame.argv)
    BY <2>5, <2>7, <2>8, SeqOfAny DEF Within
  <2>10. Located'
    BY <2>1, <2>3, <2>5, <2>6, <2>8, <2>9, ExpandedLocated
  <2>11. frame'.taken \in Seq(Int)
    BY <2>3 DEF RestInv
  <2>12. QED
    BY <2>1, <2>10, <2>11 DEF RestInv, RestIsUntouched, RestIsReturned, ReturnedFrom, Loops
<1>7. CASE ParseOptions
  <2>1. PICK r \in {GetOpt(frame.args, gnu[op.reg], DOMAIN flags[op.reg], BooleanNames(op.reg))} :
          LET at == SelectInSeq(frame.args, LAMBDA a : IsOffender(a, r.opt))
          IN \/ /\ frame' = [frame EXCEPT !.optlist = r.opts, !.unparsed_args = r.unparsed]
                /\ Goes("apply")
             \/ Throws("FlagsError")
             \/ /\ at # 0 /\ r.error
                /\ frame' = [frame EXCEPT !.unrecognized_opts = Append(@, r.opt),
                                          !.args = RemoveAt(@, at), !.places = RemoveAt(@, at),
                                          !.taken = Append(@, frame.places[at])]
                /\ Goes("getopt")
    BY <1>7 DEF ParseOptions
  <2>2. pc = "getopt" /\ UNCHANGED <<op, gnu, flags, decls>>
    BY <1>7 DEF ParseOptions, Keeps, client, registry
  <2>3. Located /\ frame.taken \in Seq(Int)
    BY <2>2 DEF RestInv
  <2>4. r = GetOpt(frame.args, gnu[op.reg], Options, Booleans)
    BY <2>1 DEF Options, Booleans
  <2>5. CASE Throws("FlagsError")
    BY <2>5, <1>a DEF Throws
  <2>6. CASE /\ frame' = [frame EXCEPT !.optlist = r.opts, !.unparsed_args = r.unparsed]
             /\ Goes("apply")
    <3>1. /\ frame'.unparsed_args = r.unparsed /\ frame'.original_argv = frame.original_argv
          /\ frame'.args = frame.args /\ frame'.places = frame.places /\ frame'.taken = frame.taken
          /\ frame'.parsed_files = frame.parsed_files /\ pc' = "apply"
      BY <1>0, <2>6 DEF Goes
    <3>2. Options' = Options /\ Booleans' = Booleans /\ Located'
      BY <2>2, <2>3, <3>1, SameLocated
    <3>3. frame'.unparsed_args = GetOpt(frame'.args, gnu'[op'.reg], Options', Booleans').unparsed
      BY <2>2, <2>4, <3>1, <3>2
    <3>4. QED
      BY <2>3, <3>1, <3>2, <3>3 DEF RestInv, RestIsUntouched, RestIsReturned, ReturnedFrom, Loops
  <2>7. ASSUME NEW at, at # 0, at = SelectInSeq(frame.args, LAMBDA a : IsOffender(a, r.opt)), r.error,
               frame' = [frame EXCEPT !.unrecognized_opts = Append(@, r.opt),
                                      !.args = RemoveAt(@, at), !.places = RemoveAt(@, at),
                                      !.taken = Append(@, frame.places[at])],
               Goes("getopt")
        PROVE  RestInv'
    <3>1. at \in 1 .. Len(frame.args)
      <4> DEFINE I == {i \in 1 .. Len(frame.args) : IsOffender(frame.args[i], r.opt)}
      <4>1. at = IF I # {} THEN Min(I) ELSE 0
        BY <2>7 DEF SelectInSeq
      <4>2. I \subseteq Nat /\ I \subseteq 1 .. Len(frame.args)
        OBVIOUS
      <4> HIDE DEF I
      <4>3. I # {} /\ at = Min(I)
        BY <2>7, <4>1
      <4>4. \E i \in I : \A j \in I : i <= j
        BY <4>2, <4>3, LeastNatural
      <4>5. Min(I) \in I
        BY <4>4 DEF Min
      <4>6. QED
        BY <4>2, <4>3, <4>5
    <3>2. /\ frame'.args = RemoveAt(frame.args, at) /\ frame'.original_argv = frame.original_argv
          /\ frame'.places = RemoveAt(frame.places, at)
          /\ frame'.taken = Append(frame.taken, frame.places[at])
          /\ frame'.parsed_files = frame.parsed_files /\ pc' = "getopt"
      BY <1>0, <2>7 DEF Goes
    <3>3. ~gnu[op.reg] => GetOpt(frame.args, FALSE, Options, Booleans).error
      <4>1. ASSUME ~gnu[op.reg]
            PROVE  GetOpt(frame.args, FALSE, Options, Booleans)
                     = GetOpt(frame.args, gnu[op.reg], Options, Booleans)
        BY <4>1, GnuOrNot
      <4>2. QED
        BY <2>4, <2>7, <4>1
    <3>4. Located' /\ frame'.taken \in Seq(Int)
      BY <2>2, <2>3, <3>1, <3>2, <3>3, TakenLocated
    <3>5. QED
      BY <3>2, <3>4 DEF RestInv, RestIsUntouched, RestIsReturned, ReturnedFrom, Loops
  <2>8. QED
    BY <2>1, <2>5, <2>6, <2>7
<1>8. CASE ApplyOption
  <2>1. pc = "apply" /\ UNCHANGED <<op, gnu, flags, decls>>
    BY <1>8 DEF ApplyOption, client
  <2> DEFINE next == [frame EXCEPT !.optlist = Tail(@)]
  <2>2. /\ next.unparsed_args = frame.unparsed_args /\ next.original_argv = frame.original_argv
        /\ next.args = frame.args /\ next.places = frame.places /\ next.taken = frame.taken
        /\ next.parsed_files = frame.parsed_files /\ DOMAIN next = DOMAIN frame
    BY <1>0
  <2>3. ASSUME NEW names, frame' \in {next, [next EXCEPT !.undefok_flags = names]}, pc' = "apply"
        PROVE  RestInv'
    <3>1. /\ frame'.unparsed_args = frame.unparsed_args
          /\ frame'.original_argv = frame.original_argv
          /\ frame'.args = frame.args /\ frame'.places = frame.places /\ frame'.taken = frame.taken
          /\ frame'.parsed_files = frame.parsed_files
      BY <1>0, <2>2, <2>3
    <3>2. Options' = Options /\ Booleans' = Booleans /\ Located'
      <4>1. Located
        BY <2>1 DEF RestInv
      <4>2. QED
        BY <2>1, <3>1, <4>1, SameLocated
    <3>3. frame'.unparsed_args = GetOpt(frame'.args, gnu'[op'.reg], Options', Booleans').unparsed
      BY <2>1, <3>1, <3>2 DEF RestInv
    <3>4. frame'.taken \in Seq(Int)
      BY <3>1 DEF RestInv
    <3>5. QED
      BY <2>3, <3>2, <3>3, <3>4 DEF RestInv, RestIsUntouched, RestIsReturned, ReturnedFrom, Loops
  <2>4. \/ pc' \in {"client", "exit"} /\ raised' # "" /\ frame' = NoFrame
        \/ pc' = "apply" /\ \E names : frame' \in {next, [next EXCEPT !.undefok_flags = names]}
    <3> DEFINE option == Head(frame.optlist)
               more == ToSet(Split(option.val))
    <3>1. CASE option.name = "undefok"
      BY <1>8, <3>1 DEF ApplyOption, Goes
    <3>2. CASE option.name # "undefok"
      <4>1. PICK error : CASE error = "" -> frame' = next /\ Goes("apply")
                           [] error = "SystemExit" ->
                                frame' = NoFrame /\ pc' = "exit" /\ raised' = error
                           [] OTHER -> Throws(error)
        BY <1>8, <3>2 DEF ApplyOption
      <4>2. QED
        BY <4>1 DEF Goes, Throws
    <3>3. QED
      BY <3>1, <3>2
  <2> HIDE DEF next
  <2>5. CASE pc' = "apply" /\ \E names : frame' \in {next, [next EXCEPT !.undefok_flags = names]}
    <3>1. PICK names : frame' \in {next, [next EXCEPT !.undefok_flags = names]}
      BY <2>5
    <3>2. QED
      BY <2>3, <2>5, <3>1
  <2>6. QED
    BY <2>4, <2>5, ThrowsRestInv
<1>9. CASE CheckAndReturn
  <2>1. pc = "apply" /\ UNCHANGED <<op, gnu, flags, decls>>
    BY <1>9 DEF CheckAndReturn, Keeps, client, registry
  <2>2. \/ pc' = "client" /\ raised' # "" /\ frame' = NoFrame
        \/ frame' = [frame EXCEPT !.unparsed_args = Returned(frame, gnu[op.reg])] /\ pc' = "client"
    BY <1>9 DEF CheckAndReturn, Throws
  <2>3. CASE frame' = [frame EXCEPT !.unparsed_args = Returned(frame, gnu[op.reg])] /\ pc' = "client"
    <3>1. /\ frame'.unparsed_args = Returned(frame, gnu[op.reg])
          /\ frame'.original_argv = frame.original_argv
          /\ frame'.args = frame.args /\ frame'.places = frame.places /\ frame'.taken = frame.taken
          /\ frame'.parsed_files = frame.parsed_files
      BY <1>0, <2>3
    <3>2. /\ Located /\ frame.taken \in Seq(Int)
          /\ frame.unparsed_args = GetOpt(frame.args, gnu[op.reg], Options, Booleans).unparsed
      BY <2>1 DEF RestInv
    <3>3. Options' = Options /\ Booleans' = Booleans /\ (TakenInOrder' <=> TakenInOrder)
      BY <2>1, <3>1, SameLocated DEF TakenInOrder
    <3>4. ASSUME TakenInOrder PROVE RestIsReturned'
      <4>1. CASE gnu[op.reg]
        BY <2>1, <4>1 DEF RestIsReturned
      <4>2. CASE ~gnu[op.reg]
        <5> DEFINE left == GetOpt(frame.args, FALSE, Options, Booleans).unparsed
                   stop == Len(frame.args) - Len(left)
        <5>1. Returned(frame, gnu[op.reg])
                = [i \in 1 .. Len(left) |-> frame.original_argv[frame.places[stop + i]]]
          BY <3>2, <3>4, <4>2, LocatedReturned
        <5>2. GetOpt(frame'.args, FALSE, DOMAIN flags'[op'.reg], BooleanNames(op.reg)').unparsed = left
          BY <3>1, <3>3 DEF Options, Booleans
        <5> HIDE DEF left
        <5>3. QED
          BY <3>1, <5>1, <5>2 DEF RestIsReturned
      <4>3. QED
        BY <4>1, <4>2
    <3>5. frame'.parsed_files = <<>> => frame'.original_argv = op'.argv
      BY <2>1, <3>1, <3>2 DEF Located
    <3>6. RestIsUntouched'
      BY <3>3, <3>4, <3>5 DEF RestIsUntouched
    <3>7. frame'.taken \in Seq(Int)
      BY <3>1, <3>2
    <3>8. QED
      BY <2>3, <3>6, <3>7 DEF RestInv, Loops
  <2>4. QED
    BY <1>a, <2>2, <2>3
<1>10. CASE UNCHANGED vars
  <2>1. UNCHANGED <<pc, op, raised, frame, gnu, flags, decls>>
    BY <1>10 DEF vars, registry, client
  <2>2. Options' = Options /\ Booleans' = Booleans /\ (Located => Located')
    BY <2>1, SameLocated
  <2>3. RestIsUntouched => RestIsUntouched'
    <3>1. RestIsReturned => RestIsReturned'
      BY <2>1, <2>2 DEF Options, Booleans, RestIsReturned, ReturnedFrom
    <3>2. QED
      BY <2>1, <3>1 DEF RestIsUntouched, ReturnedFrom, TakenInOrder
  <2>4. QED
    BY <2>1, <2>2, <2>3 DEF RestInv
<1>11. QED
  BY <1>1, <1>2, <1>3, <1>4, <1>5, <1>6, <1>7, <1>8, <1>9, <1>10, HowParsingGoes DEF RestInv

\* While options were taken out from the front to the back, FLAGS(argv) returns
\* what stood where getopt stopped, to the end: for any command lines, flag files,
\* abbreviations of booleans, and options it does not know.
THEOREM RestStaysUntouched == Spec => []RestIsUntouched
<1>1. Init => RestInv
  <2>1. ASSUME Init PROVE pc = "client" /\ op.call # "parse" /\ frame = NoFrame
    <3>1. pc = "client" /\ op = [call |-> "import"] /\ frame = NoFrame
      BY <2>1, Zenon DEF Init
    <3>2. QED
      BY <3>1
  <2>2. QED
    BY <2>1, NoneTaken DEF RestInv, RestIsUntouched, RestIsReturned, ReturnedFrom, Loops
<1>2. RestInv => RestIsUntouched
  BY DEF RestInv
<1>3. QED
  BY <1>1, <1>2, FilesAlways, NextRestInv, PTL DEF Spec

-----------------------------------------------------------------------------
(* Abbreviations.                                                          *)

Texts == ToSet(NameOrder)

\* The names begin with the same k letters.
Alike(s, t, k) ==
  k \in Nat /\ k <= Len(s) /\ k <= Len(t) /\ Beginning(s, k) = Beginning(t, k)

\* What the assumption on names says of them.
LEMMA TextsAre ==
  /\ DOMAIN NameOrder = 1 .. Len(NameOrder) /\ Len(NameOrder) \in Nat
  /\ \A i \in DOMAIN NameOrder : NameOrder[i] \in Texts
  /\ \A s \in Texts :
       /\ Len(s) \in Nat /\ Beginning(s, Len(s)) = s
       /\ \A k \in 0 .. Len(s) :
            /\ Len(Beginning(s, k)) = k
            /\ \A j \in 0 .. k : Beginning(Beginning(s, k), j) = Beginning(s, j)
       /\ \A t \in Texts : Beginning(s, 0) = Beginning(t, 0)
<1>1. NameOrder \in Seq(Texts)
  BY NamesAreTexts DEF Texts
<1>2. /\ DOMAIN NameOrder = 1 .. Len(NameOrder) /\ Len(NameOrder) \in Nat
      /\ \A i \in DOMAIN NameOrder : NameOrder[i] \in Texts
  BY <1>1
<1>3. QED
  BY <1>2, NamesAreTexts, Zenon DEF Texts

LEMMA AlikeIs ==
  ASSUME NEW s \in Texts, NEW t \in Texts, NEW k
  PROVE  /\ Alike(s, t, 0) /\ (k \in 0 .. Len(s) => Alike(s, s, k))
         /\ Alike(s, t, k) => Alike(t, s, k) /\ k \in 0 .. Len(s) /\ k \in 0 .. Len(t)
         /\ Alike(s, t, k) => \A j \in 0 .. k : Alike(s, t, j)
         /\ \A u \in Texts : Alike(s, t, k) /\ Alike(t, u, k) => Alike(s, u, k)
<1>1. Len(s) \in Nat /\ Len(t) \in Nat /\ Beginning(s, 0) = Beginning(t, 0)
  BY TextsAre
<1>2. ASSUME Alike(s, t, k), NEW j \in 0 .. k PROVE Alike(s, t, j)
  <2>1. k \in 0 .. Len(s) /\ k \in 0 .. Len(t) /\ Beginning(s, k) = Beginning(t, k)
    BY <1>1, <1>2 DEF Alike
  <2>2. Beginning(Beginning(s, k), j) = Beginning(s, j) /\ Beginning(Beginning(t, k), j) = Beginning(t, j)
    BY <2>1, TextsAre
  <2>3. QED
    BY <1>1, <2>1, <2>2 DEF Alike
<1>3. QED
  BY <1>1, <1>2 DEF Alike

LEMMA SharedIs ==
  ASSUME NEW s \in Texts, NEW t \in Texts
  PROVE  Shared(s, t) \in Nat /\ \A k : Alike(s, t, k) <=> k \in 0 .. Shared(s, t)
<1>1. Len(s) \in Nat /\ Len(t) \in Nat
  BY TextsAre
<1>2. \A k : k \in 0 .. Min({Len(s), Len(t)}) <=> k \in Nat /\ k <= Len(s) /\ k <= Len(t)
  <2>1. Min({Len(s), Len(t)}) \in {Len(s), Len(t)} /\ Min({Len(s), Len(t)}) <= Len(s) /\ Min({Len(s), Len(t)}) <= Len(t)
    <3>1. \E x \in {Len(s), Len(t)} : \A y \in {Len(s), Len(t)} : x <= y
      BY <1>1
    <3>2. QED
      BY <3>1 DEF Min
  <2>2. QED
    BY <1>1, <2>1
<1> DEFINE K == {k \in 0 .. Min({Len(s), Len(t)}) : Beginning(s, k) = Beginning(t, k)}
<1>3. Shared(s, t) = Max(K)
  BY Zenon DEF Shared, Beginning
<1>4. \A k : k \in K <=> Alike(s, t, k)
  BY <1>2 DEF Alike
<1>5. K \subseteq Nat /\ 0 \in K /\ \A k \in K : k <= Len(s)
  BY <1>1, <1>2, <1>4, AlikeIs
<1> HIDE DEF K
<1>6. Max(K) \in K /\ \A k \in K : k <= Max(K)
  <2> DEFINE T == {Len(s) - k : k \in K}
  <2>1. T \subseteq Nat /\ T # {}
    BY <1>1, <1>5
  <2>2. PICK d \in T : \A e \in T : d <= e
    BY <2>1, LeastNatural
  <2>3. PICK m \in K : d = Len(s) - m
    BY <2>2
  <2>4. \A k \in K : Len(s) - m <= Len(s) - k
    BY <2>2, <2>3
  <2>5. \A k \in K : m >= k
    BY <1>1, <1>5, <2>4
  <2>6. Max(K) \in K /\ \A k \in K : Max(K) >= k
    BY <2>5 DEF Max
  <2>7. QED
    BY <1>5, <2>6
<1>7. QED
  <2>1. ASSUME NEW k, Alike(s, t, k) PROVE k \in 0 .. Max(K)
    <3>1. k \in K
      BY <1>4, <2>1
    <3>2. QED
      BY <1>5, <1>6, <3>1
  <2>2. \A k \in 0 .. Max(K) : Alike(s, t, k)
    BY <1>4, <1>6, AlikeIs
  <2>3. QED
    BY <1>3, <1>5, <1>6, <2>1, <2>2

\* k letters, or all there are.
LEMMA PrefixIs ==
  ASSUME NEW s \in Texts, NEW k \in Nat
  PROVE  /\ k <= Len(s) => Prefix(s, k) = Beginning(s, k)
         /\ k >= Len(s) => Prefix(s, k) = s
<1>1. Len(s) \in Nat /\ Beginning(s, Len(s)) = s
  BY TextsAre
<1>2. \A m, n \in Nat : m <= n => Min({m, n}) = m /\ Min({n, m}) = m
  <2>1. SUFFICES ASSUME NEW m \in Nat, NEW n \in Nat, m <= n PROVE Min({m, n}) = m
    <3>1. \A m, n : {m, n} = {n, m}
      OBVIOUS
    <3>2. QED
      BY <2>1, <3>1
  <2>2. \A x \in {m, n} : (\A y \in {m, n} : x <= y) <=> x = m
    BY <2>1
  <2>3. QED
    BY <2>2 DEF Min
<1>3. Prefix(s, k) = Beginning(s, Min({k, Len(s)}))
  BY Zenon DEF Prefix, Beginning
<1>4. QED
  BY <1>1, <1>2, <1>3

\* Its beginnings, and the names that begin with it.
LEMMA BeginningIs ==
  ASSUME NEW s \in Texts, NEW k \in 0 .. Len(s)
  PROVE  /\ Len(Beginning(s, k)) = k
         /\ \A t : IsPrefix(Beginning(s, k), t) <=> Alike(s, t, k)
         /\ k > 0 => Prefix(Beginning(s, k), k - 1) = Beginning(s, k - 1)
<1>1. Len(s) \in Nat /\ Len(Beginning(s, k)) = k /\ Beginning(Beginning(s, k), k) = Beginning(s, k)
  BY TextsAre
<1>2. ASSUME NEW t PROVE IsPrefix(Beginning(s, k), t) <=> Alike(s, t, k)
  <2> DEFINE p == Beginning(s, k)
  <2>1. IsPrefix(p, t) <=> Len(p) <= Len(t) /\ Beginning(p, Len(p)) = Beginning(t, Len(p))
    BY Zenon DEF IsPrefix, Beginning
  <2>2. QED
    BY <1>1, <2>1 DEF Alike
<1>3. ASSUME k > 0 PROVE Prefix(Beginning(s, k), k - 1) = Beginning(s, k - 1)
  <2> DEFINE p == Beginning(s, k)
  <2>1. Min({k - 1, k}) = k - 1
    <3>1. \A x \in {k - 1, k} : (\A y \in {k - 1, k} : x <= y) <=> x = k - 1
      BY <1>1
    <3>2. QED
      BY <3>1 DEF Min
  <2>2. Prefix(p, k - 1) = Beginning(p, Min({k - 1, Len(p)}))
    BY Zenon DEF Prefix, Beginning
  <2>3. k - 1 \in 0 .. k
    BY <1>1, <1>3
  <2>4. Beginning(p, k - 1) = Beginning(s, k - 1)
    BY <2>3, TextsAre
  <2>5. QED
    BY <1>1, <2>1, <2>2, <2>4
<1>4. QED
  BY <1>1, <1>2, <1>3

\* s lists names among the first m, in the order of sort().
Placed(s, m) ==
  /\ IsSeq(s)
  /\ \E h \in [DOMAIN s -> 1 .. m] :
       /\ \A i \in DOMAIN s : s[i] = NameOrder[h[i]]
       /\ \A i, j \in DOMAIN s : i <= j => h[i] <= h[j]

LEMMA PlacedMore ==
  ASSUME NEW m \in Nat, NEW s, Placed(s, m) PROVE Placed(s, m + 1)
<1>1. PICK h \in [DOMAIN s -> 1 .. m] :
        /\ \A i \in DOMAIN s : s[i] = NameOrder[h[i]]
        /\ \A i, j \in DOMAIN s : i <= j => h[i] <= h[j]
  BY DEF Placed
<1>2. h \in [DOMAIN s -> 1 .. m + 1]
  BY <1>1
<1>3. QED
  BY <1>1, <1>2 DEF Placed

LEMMA PlacedAppend ==
  ASSUME NEW m \in Nat, m > 0, NEW s, Placed(s, m) PROVE Placed(Append(s, NameOrder[m]), m)
<1>1. PICK h \in [DOMAIN s -> 1 .. m] :
        /\ \A i \in DOMAIN s : s[i] = NameOrder[h[i]]
        /\ \A i, j \in DOMAIN s : i <= j => h[i] <= h[j]
  BY DEF Placed
<1> DEFINE t == Append(s, NameOrder[m])
           n == Len(s)
<1>2. /\ IsSeq(t) /\ n \in Nat /\ DOMAIN s = 1 .. n /\ DOMAIN t = 1 .. n + 1
      /\ \A i \in 1 .. n : t[i] = s[i]
      /\ t[n + 1] = NameOrder[m]
  <2>1. s \in Seq(Range(s) \cup {NameOrder[m]}) /\ IsSeq(s)
    BY DEF Placed, IsSeq
  <2>2. IsSeq(t)
    BY <2>1, AppendAny
  <2>3. QED
    BY <2>1, <2>2
<1> HIDE DEF t, n
<1> DEFINE f == [i \in 1 .. n + 1 |-> IF i <= n THEN h[i] ELSE m]
<1>3. \A i \in 1 .. n : h[i] \in 1 .. m
  BY <1>1, <1>2
<1>4. f \in [DOMAIN t -> 1 .. m]
  BY <1>2, <1>3
<1>5. \A i \in DOMAIN t : t[i] = NameOrder[f[i]]
  <2>1. ASSUME NEW i \in 1 .. n PROVE t[i] = NameOrder[f[i]]
    BY <1>1, <1>2
  <2>2. t[n + 1] = NameOrder[f[n + 1]]
    BY <1>2
  <2> HIDE DEF f
  <2>3. \A i \in 1 .. n + 1 : i \in 1 .. n \/ i = n + 1
    BY <1>2
  <2>4. QED
    BY <1>2, <2>1, <2>2, <2>3
<1>6. \A i, j \in DOMAIN t : i <= j => f[i] <= f[j]
  <2>1. SUFFICES ASSUME NEW i \in 1 .. n + 1, NEW j \in 1 .. n + 1, i <= j PROVE f[i] <= f[j]
    BY <1>2
  <2>2. CASE j <= n
    BY <1>1, <1>2, <2>1, <2>2
  <2>3. CASE j = n + 1
    BY <1>2, <1>3, <2>1, <2>3
  <2>4. QED
    BY <1>2, <2>2, <2>3
<1>7. Placed(t, m)
  <2> HIDE DEF f
  <2>1. QED
    BY <1>2, <1>4, <1>5, <1>6 DEF Placed
<1>8. QED
  BY <1>7 DEF t

\* SortedFlags is the fold of its loop.
SortedFolds(g, names, booleans) ==
  g = [S \in SUBSET DOMAIN NameOrder |->
         IF S = {} THEN <<>>
         ELSE g[S \ {Max(S)}]
                \o (IF NameOrder[Max(S)] \in names THEN <<NameOrder[Max(S)]>> ELSE <<>>)
                \o (IF \E b \in booleans : NameOrder[Max(S)] = "no" \o b
                    THEN <<NameOrder[Max(S)]>> ELSE <<>>)]

LEMMA SortedUnfold ==
  ASSUME NEW names, NEW booleans
  PROVE  SortedFlags(names, booleans) = (CHOOSE g : SortedFolds(g, names, booleans))[DOMAIN NameOrder]
  BY Zenon DEF SortedFlags, FoldLeft, MapThenFoldSet, SortedFolds

LEMMA SortedIsFold ==
  ASSUME NEW n \in Nat, NEW names, NEW booleans, DOMAIN NameOrder = 1 .. n
  PROVE  \E g : /\ Folds(g, "sorted", [names |-> names, booleans |-> booleans], <<>>, NameOrder, n)
                /\ SortedFlags(names, booleans) = g[1 .. n]
<1> DEFINE p == [names |-> names, booleans |-> booleans]
           c == CHOOSE g : SortedFolds(g, names, booleans)
           Twice(acc, e) == acc \o (IF e \in names THEN <<e>> ELSE <<>>)
                                \o (IF \E b \in booleans : e = "no" \o b THEN <<e>> ELSE <<>>)
<1>1. \A acc, e : Fold("sorted", p, acc, e) = Twice(acc, e)
  BY Zenon DEF Fold
<1>2. ASSUME NEW g PROVE SortedFolds(g, names, booleans) <=> Folds(g, "sorted", p, <<>>, NameOrder, n)
  <2> HIDE DEF p
  <2> DEFINE x == [S \in SUBSET DOMAIN NameOrder |->
                     IF S = {} THEN <<>> ELSE Twice(g[S \ {Max(S)}], NameOrder[Max(S)])]
             y == [S \in SUBSET (1 .. n) |->
                     IF S = {} THEN <<>> ELSE Fold("sorted", p, g[S \ {Max(S)}], NameOrder[Max(S)])]
  <2>1. SortedFolds(g, names, booleans) <=> g = x
    BY Zenon DEF SortedFolds
  <2> HIDE DEF Twice
  <2>2. \A S \in SUBSET (1 .. n) : x[S] = y[S]
    BY <1>1
  <2>3. x = y
    BY <2>2
  <2>4. QED
    BY <2>1, <2>3 DEF Folds
<1>3. \E g : Folds(g, "sorted", p, <<>>, NameOrder, n)
  <2> HIDE DEF p
  <2>1. QED
    BY FoldExists
<1> HIDE DEF p
<1>4. SortedFolds(c, names, booleans)
  BY <1>2, <1>3
<1>5. Folds(c, "sorted", p, <<>>, NameOrder, n) /\ SortedFlags(names, booleans) = c[1 .. n]
  BY <1>2, <1>4, SortedUnfold
<1>6. QED
  BY <1>5 DEF p

LEMMA SortedIsPlaced ==
  ASSUME NEW names, NEW booleans
  PROVE  Placed(SortedFlags(names, booleans), Len(NameOrder))
<1> DEFINE n == Len(NameOrder)
           p == [names |-> names, booleans |-> booleans]
<1>1. n \in Nat /\ DOMAIN NameOrder = 1 .. n
  BY TextsAre
<1> HIDE DEF n
<1>2. PICK g : Folds(g, "sorted", p, <<>>, NameOrder, n) /\ SortedFlags(names, booleans) = g[1 .. n]
  BY <1>1, SortedIsFold
<1>3. ASSUME NEW s, IsSeq(s), NEW e
      PROVE  Fold("sorted", p, s, e) \in {s, Append(s, e), Append(Append(s, e), e)}
  <2>1. \A t : IsSeq(t) => t \o <<>> = t /\ t \o <<e>> = Append(t, e)
    <3>1. ASSUME NEW t, IsSeq(t) PROVE t \o <<>> = t /\ t \o <<e>> = Append(t, e)
      <4>1. t \in Seq(Range(t) \cup {e})
        BY <3>1 DEF IsSeq
      <4>2. QED
        BY <4>1, AppendIsConcat, ConcatEmptySeq
    <3>2. QED
      BY <3>1
  <2>2. IsSeq(Append(s, e))
    BY <1>3, AppendAny
  <2>3. \E a, b \in {<<>>, <<e>>} : Fold("sorted", p, s, e) = s \o a \o b
    <3>1. Fold("sorted", p, s, e) = s \o (IF e \in p.names THEN <<e>> ELSE <<>>)
             \o (IF \E b \in p.booleans : e = "no" \o b THEN <<e>> ELSE <<>>)
      BY Zenon DEF Fold
    <3>2. \A P \in BOOLEAN : (IF P THEN <<e>> ELSE <<>>) \in {<<>>, <<e>>}
      OBVIOUS
    <3>3. (IF e \in p.names THEN <<e>> ELSE <<>>) \in {<<>>, <<e>>}
      OBVIOUS
    <3>4. (IF \E b \in p.booleans : e = "no" \o b THEN <<e>> ELSE <<>>) \in {<<>>, <<e>>}
      BY Zenon
    <3>5. QED
      BY <3>1, <3>3, <3>4, Zenon
  <2>4. QED
    BY <1>3, <2>1, <2>2, <2>3
<1>4. /\ g[1 .. 0] = <<>>
      /\ \A i \in 1 .. n : g[1 .. i] = Fold("sorted", p, g[1 .. i - 1], NameOrder[i])
  <2> HIDE DEF p
  <2>1. Runs(g, "sorted", p, <<>>, NameOrder, n)
    BY <1>1, <1>2, FoldRuns
  <2>2. QED
    BY <2>1 DEF Runs
<1> DEFINE T == {i \in 0 .. n : Placed(g[1 .. i], i)}
<1>5. 0 \in T
  <2>1. Placed(<<>>, 0)
    <3>1. IsSeq(<<>>) /\ DOMAIN <<>> = {}
      BY EmptyContains
    <3> DEFINE h == [i \in {} |-> 1]
    <3>2. h \in [DOMAIN <<>> -> 1 .. 0]
      BY <3>1
    <3> HIDE DEF h
    <3>3. QED
      BY <3>1, <3>2 DEF Placed
  <2>2. QED
    BY <1>1, <1>4, <2>1
<1>6. ASSUME NEW i \in 1 .. n, i - 1 \in T PROVE i \in T
  <2> DEFINE s == g[1 .. i - 1]
             e == NameOrder[i]
  <2>1. Placed(s, i - 1) /\ i - 1 \in Nat /\ i - 1 + 1 = i
    BY <1>6
  <2> HIDE DEF s
  <2>2. Placed(s, i)
    BY <2>1, PlacedMore
  <2>3. Placed(Append(s, e), i) /\ Placed(Append(Append(s, e), e), i)
    BY <2>2, PlacedAppend
  <2>4. QED
    <3>1. IsSeq(s)
      BY <2>1 DEF Placed
    <3>2. g[1 .. i] \in {s, Append(s, e), Append(Append(s, e), e)}
      <4>1. g[1 .. i] = Fold("sorted", p, s, e)
        BY <1>4 DEF s
      <4>2. QED
        BY <1>3, <3>1, <4>1, Zenon
    <3>3. Placed(g[1 .. i], i)
      BY <2>2, <2>3, <3>2
    <3>4. QED
      BY <1>1, <3>3
<1>7. n \in T
  <2> HIDE DEF T
  <2>1. QED
    BY <1>1, <1>5, <1>6, FoldKeeps
<1>8. QED
  BY <1>2, <1>7 DEF n

\* What two names begin with, those between them begin with.
LEMMA PlacedTogether ==
  ASSUME NEW s, Placed(s, Len(NameOrder)), NEW i \in DOMAIN s, NEW j \in DOMAIN s, NEW m \in i .. j,
         NEW k, Alike(s[i], s[j], k)
  PROVE  Alike(s[i], s[m], k) /\ Alike(s[m], s[j], k)
<1>1. PICK h \in [DOMAIN s -> 1 .. Len(NameOrder)] :
        /\ \A x \in DOMAIN s : s[x] = NameOrder[h[x]]
        /\ \A x, y \in DOMAIN s : x <= y => h[x] <= h[y]
  BY DEF Placed
<1>2. DOMAIN s = 1 .. Len(s) /\ Len(s) \in Nat
  BY DEF Placed, IsSeq
<1>3. m \in DOMAIN s /\ i <= m /\ m <= j
  BY <1>2
<1>4. h[i] \in DOMAIN NameOrder /\ h[j] \in DOMAIN NameOrder /\ h[m] \in h[i] .. h[j]
  <2>1. h[i] <= h[m] /\ h[m] <= h[j] /\ h[i] \in 1 .. Len(NameOrder) /\ h[m] \in 1 .. Len(NameOrder)
        /\ h[j] \in 1 .. Len(NameOrder)
    BY <1>1, <1>3
  <2>2. QED
    BY <2>1, TextsAre
<1> DEFINE a == h[i]
           b == h[j]
           c == h[m]
<1>5. /\ s[i] = NameOrder[a] /\ s[j] = NameOrder[b] /\ s[m] = NameOrder[c]
      /\ s[i] \in Texts /\ s[j] \in Texts /\ s[m] \in Texts
  <2>1. c \in DOMAIN NameOrder
    BY <1>1, <1>3, TextsAre
  <2>2. QED
    BY <1>1, <1>3, <1>4, <2>1, TextsAre
<1> HIDE DEF a, b, c
<1>6. /\ k \in 0 .. Len(s[i]) /\ k <= Len(s[j]) /\ Beginning(s[j], k) = Beginning(s[i], k)
      /\ k \in Nat
  BY <1>5, AlikeIs DEF Alike
<1>7. k <= Len(s[m]) /\ Beginning(s[m], k) = Beginning(s[i], k)
  <2>1. a \in DOMAIN NameOrder /\ b \in DOMAIN NameOrder /\ c \in a .. b
    BY <1>4 DEF a, b, c
  <2>2. k <= Len(NameOrder[b]) /\ Beginning(NameOrder[b], k) = Beginning(NameOrder[a], k)
          => k <= Len(NameOrder[c]) /\ Beginning(NameOrder[c], k) = Beginning(NameOrder[a], k)
    BY <1>5, <1>6, <2>1, NamesAreSorted
  <2>3. QED
    BY <1>5, <1>6, <2>2
<1>8. QED
  BY <1>6, <1>7 DEF Alike

\* The letters the i-th name shares with the one behind it.
SharedAt(s, i) == IF i \in 1 .. Len(s) - 1 THEN Shared(s[i], s[i + 1]) ELSE 0
LastOf(s, n) == Max({i \in DOMAIN s : s[i] = n})

LEMMA ShortestIs ==
  ASSUME NEW names, NEW booleans, NEW s, s = SortedFlags(names, booleans), NEW n \in ToSet(s)
  PROVE  ShortestUniquePrefixes(names, booleans)[n]
           = IF SharedAt(s, LastOf(s, n)) < Len(n)
             THEN Prefix(n, Max({SharedAt(s, LastOf(s, n) - 1), SharedAt(s, LastOf(s, n))}) + 1)
             ELSE n
<1> DEFINE f == [x \in ToSet(s) |->
                   IF SharedAt(s, LastOf(s, x)) < Len(x)
                   THEN Prefix(x, Max({SharedAt(s, LastOf(s, x) - 1), SharedAt(s, LastOf(s, x))}) + 1)
                   ELSE x]
<1>1. ShortestUniquePrefixes(names, booleans) = f
  BY Zenon DEF ShortestUniquePrefixes, SharedAt, LastOf
<1>2. QED
  BY <1>1

LEMMA SharedAtIs ==
  ASSUME NEW s, Placed(s, Len(NameOrder)), NEW i
  PROVE  /\ SharedAt(s, i) \in Nat
         /\ SharedAt(s, i) > 0 => i \in DOMAIN s /\ i + 1 \in DOMAIN s
         /\ i \in DOMAIN s /\ i + 1 \in DOMAIN s =>
              \A k : Alike(s[i], s[i + 1], k) <=> k \in 0 .. SharedAt(s, i)
<1>1. DOMAIN s = 1 .. Len(s) /\ Len(s) \in Nat
  BY DEF Placed, IsSeq
<1>2. \A x \in DOMAIN s : s[x] \in Texts
  BY TextsAre DEF Placed
<1>3. i \in 1 .. Len(s) - 1 <=> i \in DOMAIN s /\ i + 1 \in DOMAIN s
  BY <1>1
<1>4. CASE i \in 1 .. Len(s) - 1
  BY <1>2, <1>3, <1>4, SharedIs DEF SharedAt
<1>5. CASE i \notin 1 .. Len(s) - 1
  BY <1>3, <1>5 DEF SharedAt
<1>6. QED
  BY <1>4, <1>5

\* The abbreviation of the i-th name: what tells it from all others, and no less.
LEMMA ShortestAre ==
  ASSUME NEW names, NEW booleans, NEW s, s = SortedFlags(names, booleans), NEW i \in DOMAIN s,
         NEW p, p = ShortestUniquePrefixes(names, booleans)[s[i]]
  PROVE  /\ IsPrefix(p, s[i])
         /\ p # s[i] => \A x \in DOMAIN s \ {i} : ~IsPrefix(p, s[x])
         /\ Len(p) > 1 => \E x \in DOMAIN s \ {i} : IsPrefix(Prefix(p, Len(p) - 1), s[x])
<1> DEFINE n == s[i]
           j == LastOf(s, n)
           a == SharedAt(s, j)
           b == SharedAt(s, j - 1)
<1>1. Placed(s, Len(NameOrder))
  BY SortedIsPlaced
<1>2. DOMAIN s = 1 .. Len(s) /\ Len(s) \in Nat
  BY <1>1 DEF Placed, IsSeq
<1>3. \A x \in DOMAIN s : s[x] \in Texts
  BY <1>1, TextsAre DEF Placed
<1>4. j \in DOMAIN s /\ s[j] = n /\ \A x \in DOMAIN s : s[x] = n => x <= j
  <2> DEFINE S == {x \in DOMAIN s : s[x] = n}
  <2>1. S \in SUBSET (1 .. Len(s)) /\ S # {}
    BY <1>2
  <2>2. j = Max(S)
    BY Zenon DEF LastOf
  <2>3. Max(S) \in S /\ \A x \in S : x <= Max(S)
    BY <1>2, <2>1, MaxOf
  <2>4. QED
    BY <2>2, <2>3
<1>5. n \in ToSet(s) /\ n \in Texts
  BY <1>3 DEF ToSet
<1>6. p = IF a < Len(n) THEN Prefix(n, Max({b, a}) + 1) ELSE n
  <2> HIDE DEF n
  <2>1. ShortestUniquePrefixes(names, booleans)[n]
          = IF SharedAt(s, LastOf(s, n)) < Len(n)
            THEN Prefix(n, Max({SharedAt(s, LastOf(s, n) - 1), SharedAt(s, LastOf(s, n))}) + 1)
            ELSE n
    BY <1>5, ShortestIs
  <2>2. QED
    BY <2>1 DEF n
<1> HIDE DEF j
<1>7. /\ a \in Nat /\ b \in Nat
      /\ a > 0 => j + 1 \in DOMAIN s
      /\ j + 1 \in DOMAIN s => \A k : Alike(n, s[j + 1], k) <=> k \in 0 .. a
      /\ b > 0 => j - 1 \in DOMAIN s
      /\ j - 1 \in DOMAIN s => \A k : Alike(s[j - 1], n, k) <=> k \in 0 .. b
  <2>1. j - 1 + 1 = j
    BY <1>2, <1>4
  <2>2. QED
    BY <1>1, <1>4, <2>1, SharedAtIs
<1> HIDE DEF a, b
<1>8. Len(n) \in Nat /\ a <= Len(n) /\ b <= Len(n)
  <2>1. Len(n) \in Nat
    BY <1>5, TextsAre
  <2>2. a > 0 => a <= Len(n)
    <3>1. a > 0 => Alike(n, s[j + 1], a)
      BY <1>7
    <3>2. QED
      BY <3>1 DEF Alike
  <2>3. b > 0 => b <= Len(n)
    <3>1. b > 0 => Alike(s[j - 1], n, b)
      BY <1>7
    <3>2. QED
      BY <3>1 DEF Alike
  <2>4. QED
    BY <1>7, <2>1, <2>2, <2>3
<1>9. PICK k \in 0 .. Len(n) :
        /\ p = Beginning(n, k)
        /\ (a < k /\ b < k /\ (k = a + 1 \/ k = b + 1)) \/ (p = n /\ (k <= a \/ k <= b))
  <2>1. Beginning(n, Len(n)) = n
    BY <1>5, TextsAre
  <2>2. Max({b, a}) \in {a, b} /\ a <= Max({b, a}) /\ b <= Max({b, a})
    <3>1. \E x \in {b, a} : \A y \in {b, a} : x >= y
      BY <1>7
    <3>2. Max({b, a}) \in {b, a} /\ \A y \in {b, a} : Max({b, a}) >= y
      BY <3>1, Zenon DEF Max
    <3>3. QED
      BY <1>7, <3>2
  <2> DEFINE c == Max({b, a})
  <2> HIDE DEF c
  <2>3. c \in {a, b} /\ a <= c /\ b <= c /\ c \in Nat
    BY <1>7, <2>2 DEF c
  <2>4. CASE c < Len(n)
    <3>1. p = Prefix(n, c + 1)
      BY <1>6, <1>7, <1>8, <2>3, <2>4 DEF c
    <3>2. p = Beginning(n, c + 1) /\ c + 1 \in 0 .. Len(n)
      BY <1>5, <1>8, <2>3, <2>4, <3>1, PrefixIs
    <3>3. QED
      BY <1>7, <2>3, <3>2
  <2>5. CASE ~(c < Len(n))
    <3>1. c = Len(n)
      BY <1>8, <2>3, <2>5
    <3>2. p = n
      <4>1. a < Len(n) => p = Prefix(n, c + 1)
        BY <1>6 DEF c
      <4>2. c + 1 \in Nat /\ c + 1 >= Len(n)
        BY <1>8, <2>3, <3>1
      <4>3. Prefix(n, c + 1) = n
        BY <1>5, <4>2, PrefixIs
      <4>4. QED
        BY <1>6, <4>1, <4>3
    <3>3. QED
      BY <1>8, <2>1, <2>3, <3>1, <3>2
  <2>6. QED
    BY <2>4, <2>5
<1>10. /\ Len(p) = k /\ \A t : IsPrefix(p, t) <=> Alike(n, t, k)
       /\ k > 0 => Prefix(p, k - 1) = Beginning(n, k - 1)
  BY <1>5, <1>9, BeginningIs
<1>11. IsPrefix(p, s[i])
  BY <1>5, <1>9, <1>10, AlikeIs
<1>12. ASSUME p # n, NEW x \in DOMAIN s \ {i}, Alike(n, s[x], k) PROVE FALSE
  <2>1. a < k /\ b < k
    BY <1>9, <1>12
  <2>2. CASE x > j
    <3>1. j + 1 \in DOMAIN s /\ j + 1 \in j .. x
      BY <1>2, <1>4, <2>2
    <3>2. Alike(n, s[j + 1], k)
      BY <1>1, <1>4, <1>12, <3>1, PlacedTogether
    <3>3. QED
      BY <1>7, <2>1, <3>1, <3>2
  <2>3. ASSUME NEW y \in DOMAIN s, y < j, Alike(n, s[y], k) PROVE FALSE
    <3>1. j - 1 \in DOMAIN s /\ j - 1 \in y .. j
      BY <1>2, <1>4, <2>3
    <3>2. Alike(s[y], s[j], k)
      BY <1>3, <1>4, <1>5, <2>3, AlikeIs
    <3>3. Alike(s[j - 1], n, k)
      BY <1>1, <1>4, <2>3, <3>1, <3>2, PlacedTogether
    <3>4. QED
      BY <1>7, <2>1, <3>1, <3>3
  <2>4. CASE x < j
    BY <1>12, <2>3, <2>4
  <2>5. CASE x = j
    <3>1. i < j /\ i \in DOMAIN s
      BY <1>2, <1>4, <1>12, <2>5
    <3>2. Alike(n, s[i], k)
      BY <1>5, <1>9, AlikeIs
    <3>3. QED
      BY <2>3, <3>1, <3>2
  <2>6. QED
    BY <1>2, <1>4, <2>2, <2>4, <2>5
<1>13. ASSUME Len(p) > 1 PROVE \E x \in DOMAIN s \ {i} : IsPrefix(Prefix(p, Len(p) - 1), s[x])
  <2>1. k > 1 /\ k - 1 \in Nat /\ k - 1 \in 0 .. Len(n) /\ k - 1 > 0
    BY <1>8, <1>9, <1>10, <1>13
  <2>2. \A t : IsPrefix(Prefix(p, Len(p) - 1), t) <=> Alike(n, t, k - 1)
    BY <1>5, <1>10, <2>1, BeginningIs
  <2>3. k - 1 \in 0 .. a \/ k - 1 \in 0 .. b
    BY <1>7, <1>9, <2>1
  <2>4. CASE k - 1 \in 0 .. a
    <3>1. j + 1 \in DOMAIN s /\ Alike(n, s[j + 1], k - 1)
      BY <1>7, <2>1, <2>4
    <3>2. j + 1 # i
      BY <1>2, <1>4
    <3>3. QED
      BY <2>2, <3>1, <3>2
  <2>5. CASE k - 1 \in 0 .. b
    <3>1. j - 1 \in DOMAIN s /\ Alike(s[j - 1], n, k - 1)
      BY <1>7, <2>1, <2>5
    <3>2. Alike(n, s[j - 1], k - 1)
      BY <1>3, <1>5, <3>1, AlikeIs
    <3>3. Alike(n, s[j], k - 1)
      BY <1>4, <1>5, <2>1, AlikeIs
    <3>4. j - 1 # i \/ j # i
      BY <1>2, <1>4
    <3>5. QED
      BY <1>4, <2>2, <3>1, <3>2, <3>3, <3>4
  <2>6. QED
    BY <2>3, <2>4, <2>5
<1>14. QED
  <2>1. p # s[i] => \A x \in DOMAIN s \ {i} : ~IsPrefix(p, s[x])
    BY <1>10, <1>12
  <2>2. QED
    BY <1>11, <1>13, <2>1

\* ShortestUniquePrefixes compares neighbours and carries one number over; its
\* abbreviations are told from all names, and none could be shorter.
THEOREM AbbreviationsAreUnique == Spec => []PrefixesAreUnique
<1>1. PrefixesAreUnique
  <2> DEFINE names == DOMAIN flags[op.reg]
             s == SortedFlags(names, BooleanNames(op.reg))
             shortest == ShortestUniquePrefixes(names, BooleanNames(op.reg))
             Starts(p, i) == \E j \in DOMAIN s \ {i} : IsPrefix(p, s[j])
  <2>1. ASSUME NEW i \in DOMAIN s
        PROVE  /\ IsPrefix(shortest[s[i]], s[i])
               /\ shortest[s[i]] # s[i] => ~Starts(shortest[s[i]], i)
               /\ Len(shortest[s[i]]) > 1
                    => Starts(Prefix(shortest[s[i]], Len(shortest[s[i]]) - 1), i)
    BY <2>1, ShortestAre
  <2>2. QED
    BY <2>1, Zenon DEF PrefixesAreUnique
<1>2. QED
  BY <1>1, PTL
=============================================================================

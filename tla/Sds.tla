-------------------------------- MODULE Sds --------------------------------
(***************************************************************************)
(* The dynamic strings of redis/src/sds.cc.  An sds is the address of the  *)
(* bytes behind an sdshdr; here it is the address of the block.  A block   *)
(* has room for len + free bytes and one more, the terminator.             *)
(*                                                                         *)
(* A read or write outside its block sets "undefined", from where on the   *)
(* program has no defined behaviour.                                       *)
(***************************************************************************)
EXTENDS Integers, Sequences, FiniteSets, FiniteSetsExt

CONSTANTS
  Addr,         \* the addresses of blocks
  Var,          \* the callers' variables of type sds
  NULL,
  Byte,         \* a set of char values, 0 included, closed under change of case
  Literals,     \* the C strings callers hand in
  Csets,        \* the cset arguments of sdstrim, as sets of bytes
  Indices,      \* the start and end arguments of sdsrange
  TrimCleared,  \* whether callers trim a string right after they cleared it
  MaxRoom,      \* bound: the most bytes a string is given room for
  SizeofHdr, PREFIX_SIZE, SizeMod

Sizes == {SizeofHdr + n + 1 : n \in 0 .. MaxRoom}

ASSUME SdsAssumption ==
  /\ NULL \notin Addr
  /\ NULL \notin Seq(Byte)
  /\ Byte \subseteq 0 .. 127 /\ 0 \in Byte
  /\ \A b \in Byte : /\ b \in 65 .. 90 => b + 32 \in Byte
                     /\ b \in 97 .. 122 => b - 32 \in Byte
  /\ Literals \subseteq Seq(Byte \ {0})
  /\ Csets \subseteq SUBSET (Byte \ {0})
  /\ Indices \subseteq Int
  /\ TrimCleared \in BOOLEAN
  /\ MaxRoom \in Nat /\ SizeofHdr \in Nat
  /\ PREFIX_SIZE \in Nat \ {0} /\ SizeMod \in Nat
  /\ SizeofHdr + MaxRoom + 1 + PREFIX_SIZE < SizeMod

VARIABLES
  room, header, used_memory, status,   \* the allocator's, see Zmalloc
  sh,         \* the sdshdr behind each address: len, free, buf
  var,        \* what each variable holds, an address or NULL
  undefined   \* the program has done something without defined behaviour

Z == INSTANCE Zmalloc WITH Requests <- Sizes

heap == <<room, header, used_memory, status>>
vars == <<heap, sh, var, undefined>>

JUNK == -1                          \* a byte that was never written
Blank == [len |-> 0, free |-> 0, buf |-> <<>>]

Init ==
  /\ Z!Init
  /\ sh = [a \in Addr |-> Blank]
  /\ var = [v \in Var |-> NULL]
  /\ undefined = FALSE

Running == status = "running" /\ ~undefined

\* v holds a string, the subject of the next call.
Holds(v) == Running /\ var[v] # NULL
Of(v) == sh[var[v]]
Room(h) == h.len + h.free

sdslen(v) == Of(v).len
sdsavail(v) == Of(v).free

\* A call that writes to the block of v and moves nothing.
InPlace(v, h) ==
  /\ sh' = [sh EXCEPT ![var[v]] = h]
  /\ UNCHANGED <<heap, var, undefined>>

-----------------------------------------------------------------------------
(* Creation and release.                                                   *)

\* The n bytes of init, or zeros when init is NULL, in a new block at a.
sdsnewlen(v, a, init, n) ==
  /\ Running /\ var[v] = NULL
  /\ n <= MaxRoom
  /\ Z!zmalloc(a, SizeofHdr + n + 1)
  /\ sh' = [sh EXCEPT ![a] =
       [len |-> n, free |-> 0,
        buf |-> [i \in 0 .. n |-> IF init = NULL \/ i = n THEN 0
                                  ELSE init[i + 1]]]]
  /\ var' = [var EXCEPT ![v] = a]
  /\ UNCHANGED undefined

sdsnew(v, a, init) ==
  sdsnewlen(v, a, init, IF init = NULL THEN 0 ELSE Len(init))
sdsempty(v, a) == sdsnewlen(v, a, <<>>, 0)

sdsdup(v, w, a) ==
  /\ Holds(v)
  /\ sdsnewlen(w, a, [i \in 1 .. sdslen(v) |-> Of(v).buf[i - 1]], sdslen(v))

\* The caller does not use the variable again before it is assigned.
sdsfree(v) ==
  /\ Running
  /\ Z!zfree(var[v])
  /\ sh' = [a \in Addr |-> IF a = var[v] THEN Blank ELSE sh[a]]
  /\ var' = [var EXCEPT ![v] = NULL]
  /\ UNCHANGED undefined

-----------------------------------------------------------------------------
(* Writing.                                                                *)

\* The bytes stay in buf, its first one included: no terminator is written.
sdsclear(v) ==
  /\ Holds(v)
  /\ InPlace(v, [len |-> 0, free |-> Room(Of(v)), buf |-> Of(v).buf])

\* Mutant: room is made for twice the bytes that are added only.
sdsMakeRoomFor_AddedOnly(v, addlen) ==
  IF sdsavail(v) >= addlen THEN Room(Of(v)) ELSE addlen * 2

\* The room there is once sdsMakeRoomFor has run.
sdsMakeRoomFor(v, addlen) ==
  IF sdsavail(v) >= addlen THEN Room(Of(v)) ELSE (sdslen(v) + addlen) * 2

\* Mutant: the terminator is not counted.
Grow_NoTerminator(v, b, newroom) ==
  IF newroom = Room(Of(v))
    THEN b = var[v] /\ UNCHANGED <<heap, var>>
    ELSE /\ newroom <= MaxRoom
         /\ Z!zremalloc(var[v], b, SizeofHdr + newroom)
         /\ var' = [var EXCEPT ![v] = b]

\* The string of v, given the room newroom: at its place, or, when it has to
\* grow, at b, where zremalloc puts it.
Grow(v, b, newroom) ==
  IF newroom = Room(Of(v))
    THEN b = var[v] /\ UNCHANGED <<heap, var>>
    ELSE /\ newroom <= MaxRoom
         /\ Z!zremalloc(var[v], b, SizeofHdr + newroom + 1)
         /\ var' = [var EXCEPT ![v] = b]

\* The bytes t go to buf + at, and a terminator behind them.  They must fit.
Write(v, b, newroom, at, t) ==
  LET old == Of(v)
      end == at + Len(t)
      byte(i) == IF i \in at .. end - 1 THEN t[i - at + 1]
                 ELSE IF i = end THEN 0
                 ELSE IF i <= Room(old) THEN old.buf[i] ELSE JUNK
  IN IF end > newroom
       THEN undefined' = TRUE /\ UNCHANGED <<heap, sh, var>>
       ELSE /\ Grow(v, b, newroom)
            /\ sh' = [sh EXCEPT ![var[v]] = Blank,
                        ![b] = [len |-> end, free |-> newroom - end,
                                buf |-> [i \in 0 .. newroom |-> byte(i)]]]
            /\ UNCHANGED undefined

\* s = sdscat(s, t): t is not s itself, whose block may move.
sdscatlen(v, b, t) ==
  /\ Holds(v)
  /\ Write(v, b, sdsMakeRoomFor(v, Len(t)), sdslen(v), t)

sdscpylen(v, b, t) ==
  /\ Holds(v)
  /\ Write(v, b, IF Room(Of(v)) < Len(t)
                 THEN sdsMakeRoomFor(v, Len(t) - sdslen(v)) ELSE Room(Of(v)),
           0, t)

-----------------------------------------------------------------------------
(* Cutting and changing case.                                              *)

\* Mutant: no terminator is written.
Keep_NoTerminator(v, from, n) ==
  LET old == Of(v) IN
  IF n > Room(old) \/ (n > 0 /\ from + n > Room(old) + 1)
    THEN undefined' = TRUE /\ UNCHANGED <<heap, sh, var>>
    ELSE InPlace(v, [len |-> n, free |-> Room(old) - n,
                     buf |-> [i \in 0 .. Room(old) |->
                                IF i < n THEN old.buf[from + i] ELSE old.buf[i]]])

\* The n bytes from buf + from move to buf, a terminator is written behind
\* them, and the rest of the room is free.
Keep(v, from, n) ==
  LET old == Of(v) IN
  IF n > Room(old) \/ (n > 0 /\ from + n > Room(old) + 1)
    THEN undefined' = TRUE /\ UNCHANGED <<heap, sh, var>>
    ELSE InPlace(v, [len |-> n, free |-> Room(old) - n,
                     buf |-> [i \in 0 .. Room(old) |->
                                IF i < n THEN old.buf[from + i]
                                ELSE IF i = n THEN 0 ELSE old.buf[i]]])

\* sp and ep are where the two scans stop.  strchr finds the terminator of cset
\* too, so zeros are trimmed, and both scans look at buf[len], which sdsclear
\* leaves as it was.
sdstrim(v, cset) ==
  /\ Holds(v)
  /\ Of(v).buf[sdslen(v)] = 0 \/ TrimCleared
  /\ LET s == Of(v).buf
         strchr(b) == b \in cset \cup {0}
     IN \E sp \in 0 .. sdslen(v) + 1, ep \in 0 .. sdslen(v) :
          /\ \A i \in 0 .. sp - 1 : strchr(s[i])
          /\ sp <= sdslen(v) => ~strchr(s[sp])
          /\ \A i \in ep + 1 .. sdslen(v) : strchr(s[i])
          /\ ep > 0 => ~strchr(s[ep])
          /\ Keep(v, sp, IF sp > ep THEN 0 ELSE ep - sp + 1)

\* A negative index counts from the end.
BackIndex(v, i) ==
  IF i >= 0 THEN i ELSE IF i + sdslen(v) < 0 THEN 0 ELSE i + sdslen(v)

\* Mutant: the end is not part of the range.
sdsrange_EndExcluded(v, start, end) ==
  LET s == BackIndex(v, start)
      e == BackIndex(v, end)
  IN /\ Holds(v)
     /\ sdslen(v) > 0 /\ end < sdslen(v)
     /\ Keep(v, s, IF s > e THEN 0 ELSE e - s)

\* The end must be within the string: sdsrange does not cut it to len.  An
\* empty string is returned as it is.
sdsrange(v, start, end) ==
  LET s == BackIndex(v, start)
      e == BackIndex(v, end)
  IN /\ Holds(v)
     /\ sdslen(v) > 0 /\ end < sdslen(v)
     /\ Keep(v, s, IF s > e THEN 0 ELSE e - s + 1)

tolower == [b \in Byte |-> IF b \in 65 .. 90 THEN b + 32 ELSE b]
toupper == [b \in Byte |-> IF b \in 97 .. 122 THEN b - 32 ELSE b]

\* Mutant: the loop ends before the last byte.
ChangeCase_NotLast(v, change) ==
  /\ Holds(v)
  /\ InPlace(v, [len |-> sdslen(v), free |-> sdsavail(v),
                  buf |-> [i \in DOMAIN Of(v).buf |->
                             IF i < sdslen(v) - 1 THEN change[Of(v).buf[i]]
                             ELSE Of(v).buf[i]]])

ChangeCase(v, change) ==
  /\ Holds(v)
  /\ InPlace(v, [len |-> sdslen(v), free |-> sdsavail(v),
                  buf |-> [i \in DOMAIN Of(v).buf |->
                             IF i < sdslen(v) THEN change[Of(v).buf[i]]
                             ELSE Of(v).buf[i]]])
sdstolower(v) == ChangeCase(v, tolower)
sdstoupper(v) == ChangeCase(v, toupper)

-----------------------------------------------------------------------------
(* Comparison.                                                             *)

\* memcmp of the common length, then the difference of the lengths.
sdscmp(v, w) ==
  LET minlen == Min({sdslen(v), sdslen(w)})
      differ == {i \in 0 .. minlen - 1 : Of(v).buf[i] # Of(w).buf[i]}
  IN IF differ = {} THEN sdslen(v) - sdslen(w)
     ELSE Of(v).buf[Min(differ)] - Of(w).buf[Min(differ)]

-----------------------------------------------------------------------------

OutOfMemory ==
  /\ ~undefined
  /\ Z!zmalloc_oom
  /\ UNCHANGED <<sh, var, undefined>>

Next ==
  \/ \E v \in Var, a \in Addr :
        \/ \E init \in Literals \cup {NULL} : sdsnew(v, a, init)
        \/ \E n \in 0 .. MaxRoom : sdsnewlen(v, a, NULL, n)
        \/ sdsempty(v, a)
        \/ \E w \in Var : sdsdup(v, w, a)
        \/ \E t \in Literals : sdscatlen(v, a, t) \/ sdscpylen(v, a, t)
  \/ \E v \in Var :
        \/ sdsfree(v) \/ sdsclear(v) \/ sdstolower(v) \/ sdstoupper(v)
        \/ \E cset \in Csets : sdstrim(v, cset)
        \/ \E start, end \in Indices : sdsrange(v, start, end)
  \/ OutOfMemory

Spec == Init /\ [][Next]_vars

-----------------------------------------------------------------------------
(* Properties.                                                             *)

Held == {v \in Var : var[v] # NULL}

\* No call reads or writes outside a block, whatever sequence of calls led to
\* the lengths it trusts.
NeverUndefined == ~undefined

\* Every block is the string of exactly one variable, and what sdshdr says of
\* its room is what zmalloc gave: len, free and the terminator fill the block.
\* So freeing each variable once frees all, wherever zremalloc moved them.
HandlesOwnTheirBlocks ==
  /\ {a \in Addr : room[a] > 0} = {var[v] : v \in Held}
  /\ \A v, w \in Held : var[v] = var[w] => v = w
  /\ \A v \in Held :
       /\ Z!zsizeof(var[v]) = SizeofHdr + Room(Of(v)) + 1
       /\ DOMAIN Of(v).buf = 0 .. Room(Of(v))

\* No byte of a string is one that was never written, and a string that is
\* not empty has its terminator.  sdsclear leaves an empty one without.
WrittenAndTerminated ==
  \A v \in Held :
    /\ \A i \in 0 .. sdslen(v) : Of(v).buf[i] # JUNK
    /\ sdslen(v) > 0 => Of(v).buf[sdslen(v)] = 0

\* Callers see strings of bytes, see ByteStrings.
Text(v) == [i \in 1 .. sdslen(v) |-> Of(v).buf[i - 1]]
Abstract == INSTANCE ByteStrings WITH
  Absent <- NULL,
  Strings <- Literals \cup {<<>>} \cup {[i \in 1 .. n |-> 0] : n \in 1 .. MaxRoom},
  str <- [v \in Var |-> IF var[v] = NULL THEN NULL ELSE Text(v)]
ImplementsStrings == Abstract!Spec

\* Each call makes the string its arguments ask for, whatever room and stale
\* bytes the calls before have left behind: appending, copying, trimming any set
\* of bytes, and ranges counted from either end.
CallsMakeTheirStrings ==
  [][\A v \in Var :
       /\ \A a \in Addr, t \in Literals :
             /\ sdscatlen(v, a, t) => Abstract!Extend(v, t)
             /\ sdscpylen(v, a, t) => Abstract!Copy(v, t)
       /\ \A cset \in Csets : sdstrim(v, cset) => Abstract!Trim(v, cset)
       /\ \A start, end \in Indices :
             sdsrange(v, start, end) => Abstract!Slice(v, start, end)]_vars

\* sdscmp orders strings as a dictionary does, also when one is the beginning
\* of the other.
ComparesAsStrings ==
  \A v, w \in Held :
    /\ sdscmp(v, w) < 0 <=> Abstract!Before(Text(v), Text(w))
    /\ sdscmp(v, w) = 0 <=> Text(v) = Text(w)

\* What callers read of a string, through its bytes or through sdscmp, is what
\* was written to it.
ReadAsStrings == WrittenAndTerminated /\ ComparesAsStrings
=============================================================================

---------------------------- MODULE ByteStrings ----------------------------
(***************************************************************************)
(* What the sds library promises its callers: each handle stands for a     *)
(* string of bytes, and every call makes the string it says.  Blocks,      *)
(* headers, spare room and terminators are not visible.  Sds implements    *)
(* this specification.                                                     *)
(***************************************************************************)
EXTENDS Integers, Sequences, FiniteSetsExt

CONSTANTS
  Var,          \* the callers' variables
  Absent,       \* marks a variable that holds no string
  Byte,
  Strings,      \* the strings callers copy in or append
  Csets,        \* the sets of bytes callers trim
  Indices       \* the ends of the ranges callers ask for

VARIABLE str

Held == {v \in Var : str[v] # Absent}

Init == str = [v \in Var |-> Absent]

New(v, s) == v \notin Held /\ str' = [str EXCEPT ![v] = s]
Free(v) == str' = [str EXCEPT ![v] = Absent]
Clear(v) == str' = [str EXCEPT ![v] = <<>>]
Extend(v, s) == str' = [str EXCEPT ![v] = @ \o s]
Copy(v, s) == str' = [str EXCEPT ![v] = s]
Dup(v, w) == New(w, str[v])

\* The string without the bytes of cset, and the zeros, at both its ends.
Trimmed(s, cset) ==
  LET kept == {i \in DOMAIN s : s[i] \notin cset \cup {0}}
  IN IF kept = {} THEN <<>> ELSE SubSeq(s, Min(kept), Max(kept))
Trim(v, cset) == str' = [str EXCEPT ![v] = Trimmed(@, cset)]

\* The bytes from start to end, both included and counted from 0, as far as the
\* string goes; a negative index counts from its end.
From(s, i) == IF i >= 0 THEN i ELSE Max({0, Len(s) + i})
Slice(v, start, end) ==
  str' = [str EXCEPT ![v] = SubSeq(@, From(@, start) + 1,
                                   Min({Len(@), From(@, end) + 1}))]

ToLower(b) == IF b \in 65 .. 90 THEN b + 32 ELSE b
ToUpper(b) == IF b \in 97 .. 122 THEN b - 32 ELSE b
Lower(v) == str' = [str EXCEPT ![v] = [i \in DOMAIN @ |-> ToLower(@[i])]]
Upper(v) == str' = [str EXCEPT ![v] = [i \in DOMAIN @ |-> ToUpper(@[i])]]

\* s comes before t: at the first place where they differ, it has the lesser
\* byte or has ended.
Before(s, t) ==
  \E n \in 0 .. Len(t) - 1 :
     /\ \A i \in 1 .. n : i <= Len(s) /\ s[i] = t[i]
     /\ n = Len(s) \/ (n < Len(s) /\ s[n + 1] < t[n + 1])

Next ==
  \/ \E v \in Var, s \in Strings : New(v, s)
  \/ \E v \in Held, s \in Strings : Extend(v, s) \/ Copy(v, s)
  \/ \E v \in Held, w \in Var : Dup(v, w)
  \/ \E v \in Held : Free(v) \/ Clear(v) \/ Lower(v) \/ Upper(v)
  \/ \E v \in Held, cset \in Csets : Trim(v, cset)
  \/ \E v \in Held, start, end \in Indices : Slice(v, start, end)

Spec == Init /\ [][Next]_str
=============================================================================

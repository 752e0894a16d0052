------------------------------ MODULE SdsProofs ------------------------------
(***************************************************************************)
(* The strings, for every number of variables, addresses, bytes and        *)
(* arguments, and every bound MaxRoom: memory safety, then that the calls  *)
(* make the strings of ByteStrings.                                        *)
(***************************************************************************)
EXTENDS Sds, Inductions, SequenceTheorems

Shapes ==
  /\ DOMAIN sh = Addr
  /\ var \in [Var -> Addr \cup {NULL}]
  /\ room \in [Addr -> Nat] /\ header \in [Addr -> Nat]
  /\ \A v \in Held : sdslen(v) \in Nat /\ sdsavail(v) \in Nat

\* HandlesOwnTheirBlocks, address by address and variable by variable.
Owned ==
  /\ \A a \in Addr : room[a] > 0 => \E v \in Held : var[v] = a
  /\ \A v \in Held : room[var[v]] > 0
  /\ \A v, w \in Held : var[v] = var[w] => v = w
  /\ \A v \in Held : /\ header[var[v]] = SizeofHdr + Room(Of(v)) + 1
                     /\ DOMAIN Of(v).buf = 0 .. Room(Of(v))

\* A string that fills its room ends in the terminator: sdsclear is the only
\* call that writes none, and it leaves room when there were bytes to clear.
FullIsTerminated ==
  \A v \in Held : Of(v).buf[sdslen(v)] = 0 \/ sdsavail(v) > 0

\* A header whose string is one of bytes: nothing in buf but bytes and what was
\* never written, bytes up to the terminator, and the terminator of a string
\* that is not empty.
Typed(h) ==
  /\ \A i \in 0 .. Room(h) : h.buf[i] \in Byte \cup {JUNK}
  /\ \A i \in 0 .. h.len : h.buf[i] \in Byte
  /\ h.len > 0 => h.buf[h.len] = 0

Bytes == \A v \in Held : Typed(Of(v))

IInv == Shapes /\ Owned /\ FullIsTerminated /\ Bytes /\ NeverUndefined

LEMMA OwnedIsOwnership ==
  ASSUME Shapes, Owned PROVE HandlesOwnTheirBlocks
<1>1. \A v \in Held : var[v] \in Addr
  BY DEF Shapes, Held
<1>2. {a \in Addr : room[a] > 0} = {var[v] : v \in Held}
  BY <1>1 DEF Owned
<1>3. QED
  BY <1>2 DEF Owned, HandlesOwnTheirBlocks, Z!zsizeof

LEMMA InitIInv == Init => IInv
  BY SdsAssumption
     DEF Init, IInv, Shapes, Owned, FullIsTerminated, Bytes,
         NeverUndefined, Held, Z!Init

\* The headers the calls write.
NewHdr(init, n) ==
  [len |-> n, free |-> 0,
   buf |-> [i \in 0 .. n |-> IF init = NULL \/ i = n THEN 0 ELSE init[i + 1]]]
WrittenHdr(old, newroom, at, t) ==
  [len |-> at + Len(t), free |-> newroom - (at + Len(t)),
   buf |-> [i \in 0 .. newroom |->
              IF i \in at .. at + Len(t) - 1 THEN t[i - at + 1]
              ELSE IF i = at + Len(t) THEN 0
              ELSE IF i <= Room(old) THEN old.buf[i] ELSE JUNK]]
KeptHdr(old, from, n) ==
  [len |-> n, free |-> Room(old) - n,
   buf |-> [i \in 0 .. Room(old) |-> IF i < n THEN old.buf[from + i]
                                     ELSE IF i = n THEN 0 ELSE old.buf[i]]]
ClearedHdr(old) == [len |-> 0, free |-> Room(old), buf |-> old.buf]
CasedHdr(old, change) ==
  [len |-> old.len, free |-> old.free,
   buf |-> [i \in DOMAIN old.buf |-> IF i < old.len THEN change[old.buf[i]]
                                     ELSE old.buf[i]]]

\* A header whose len, free and buf agree.
Sound(h) ==
  /\ h.len \in Nat /\ h.free \in Nat
  /\ DOMAIN h.buf = 0 .. Room(h)
  /\ h.buf[h.len] = 0 \/ h.free > 0

\* What every call but sdsfree amounts to: v holds the block at b afterwards,
\* its own or one that was free, with a sound header, and the one it held
\* before is free unless it is b.
Places(v, b, h) ==
  /\ Sound(h)
  /\ b = var[v] \/ room[b] = 0
  /\ DOMAIN sh' = Addr /\ sh'[b] = h
  /\ room' \in [Addr -> Nat] /\ header' \in [Addr -> Nat]
  /\ \A c \in Addr : c # b /\ c # var[v] =>
        sh'[c] = sh[c] /\ room'[c] = room[c] /\ header'[c] = header[c]
  /\ var[v] # b /\ var[v] # NULL => room'[var[v]] = 0
  /\ room'[b] > 0 /\ header'[b] = SizeofHdr + Room(h) + 1
  /\ var' = [var EXCEPT ![v] = b]
  /\ ~undefined'

\* The other variables keep their blocks and their strings.
LEMMA PlacesOthers ==
  ASSUME IInv, NEW v \in Var, NEW b \in Addr, NEW h, Places(v, b, h)
  PROVE  /\ var'[v] = b /\ \A w \in Var \ {v} : var'[w] = var[w]
         /\ \A w \in Held : var[w] \in Addr /\ room[var[w]] > 0
         /\ \A w \in Held \ {v} : var[w] # b /\ var[w] # var[v]
         /\ Held' = Held \cup {v}
         /\ Of(v)' = h
         /\ \A w \in Held' : w # v =>
              /\ w \in Held /\ Of(w)' = Of(w) /\ var'[w] = var[w]
              /\ room'[var[w]] = room[var[w]] /\ header'[var[w]] = header[var[w]]
<1> USE SdsAssumption DEF Places
<1>1. var'[v] = b /\ \A w \in Var \ {v} : var'[w] = var[w]
  BY DEF IInv, Shapes
<1>2. \A w \in Held : var[w] \in Addr /\ room[var[w]] > 0
  BY DEF IInv, Shapes, Owned, Held
<1>3. \A w \in Held \ {v} : var[w] # b /\ var[w] # var[v]
  BY <1>2 DEF IInv, Owned, Held
<1>4. Held' = Held \cup {v}
  BY <1>1 DEF Held
<1>5. Of(v)' = h
  BY <1>1 DEF Of
<1>6. \A w \in Held' : w # v =>
        /\ w \in Held /\ Of(w)' = Of(w) /\ var'[w] = var[w]
        /\ room'[var[w]] = room[var[w]] /\ header'[var[w]] = header[var[w]]
  <2> TAKE w \in Held'
  <2> HAVE w # v
  <2>1. w \in Held \ {v}
    BY <1>4
  <2>2. var[w] \in Addr /\ var[w] # b /\ var[w] # var[v] /\ var'[w] = var[w]
    BY <2>1, <1>1, <1>2, <1>3 DEF Held
  <2>3. QED
    BY <2>1, <2>2 DEF Of
<1>7. QED
  BY <1>1, <1>2, <1>3, <1>4, <1>5, <1>6

LEMMA PlacesIInv ==
  ASSUME IInv, NEW v \in Var, NEW b \in Addr, NEW h, Places(v, b, h), Typed(h)
  PROVE  IInv'
<1> USE SdsAssumption
<1>1. var'[v] = b /\ \A w \in Var \ {v} : var'[w] = var[w]
  BY PlacesOthers
<1>2. \A w \in Held : var[w] \in Addr /\ room[var[w]] > 0
  BY PlacesOthers
<1>3. \A w \in Held \ {v} : var[w] # b /\ var[w] # var[v]
  BY PlacesOthers
<1>4. Held' = Held \cup {v}
  BY PlacesOthers
<1>5. Of(v)' = h
  BY PlacesOthers
<1>6. \A w \in Held' : w # v =>
        /\ w \in Held /\ Of(w)' = Of(w) /\ var'[w] = var[w]
        /\ room'[var[w]] = room[var[w]] /\ header'[var[w]] = header[var[w]]
  BY PlacesOthers
<1> USE DEF Places
<1>7. Shapes'
  <2>1. var' \in [Var -> Addr \cup {NULL}]
    BY DEF IInv, Shapes
  <2>2. \A w \in Held' : sdslen(w)' \in Nat /\ sdsavail(w)' \in Nat
    BY <1>5, <1>6 DEF IInv, Shapes, sdslen, sdsavail, Sound
  <2>3. QED
    BY <2>1, <2>2 DEF Shapes
<1>8. Owned'
  <2>1. ASSUME NEW c \in Addr, room'[c] > 0
        PROVE  \E w \in Held' : var'[w] = c
    <3>1. CASE c = b
      BY <3>1, <1>1, <1>4
    <3>2. CASE c # b
      <4>1. c # var[v]
        BY <2>1, <3>2
      <4>2. PICK w \in Held : var[w] = c
        BY <2>1, <3>2, <4>1 DEF IInv, Owned
      <4>3. QED
        BY <4>1, <4>2, <1>1, <1>4 DEF Held
    <3>3. QED
      BY <3>1, <3>2
  <2>2. \A w \in Held' : room'[var'[w]] > 0
    BY <1>1, <1>2, <1>6
  <2>3. \A w, x \in Held' : var'[w] = var'[x] => w = x
    BY <1>1, <1>3, <1>6 DEF IInv, Owned
  <2>4. \A w \in Held' : /\ header'[var'[w]] = SizeofHdr + Room(Of(w)') + 1
                         /\ DOMAIN Of(w)'.buf = 0 .. Room(Of(w)')
    BY <1>1, <1>5, <1>6 DEF IInv, Owned, Sound
  <2>5. QED
    BY <2>1, <2>2, <2>3, <2>4 DEF Owned, Room, Of
<1>9. FullIsTerminated'
  BY <1>5, <1>6 DEF IInv, FullIsTerminated, sdslen, sdsavail, Sound
<1>10. Bytes'
  <2>1. \A w \in Held' : Of(w)' = h \/ (w \in Held /\ Of(w)' = Of(w))
    BY <1>5, <1>6
  <2>2. \A w \in Held : Typed(Of(w))
    BY DEF IInv, Bytes
  <2>3. ASSUME NEW w \in Held' PROVE Typed(Of(w)')
    <3>1. PICK x : x = Of(w)'
      OBVIOUS
    <3>2. x = h \/ (w \in Held /\ x = Of(w))
      BY <2>1, <3>1
    <3>3. Typed(x)
      BY <2>2, <3>2
    <3>4. QED
      BY <3>1, <3>3
  <2>4. QED
    BY <2>3, Zenon DEF Bytes, Typed, Room
<1>11. QED
  BY <1>7, <1>8, <1>9, <1>10 DEF IInv, NeverUndefined

\* What there is to know of a string about to be changed.
LEMMA HeldIsSound ==
  ASSUME IInv, NEW v \in Var, Holds(v)
  PROVE  /\ v \in Held /\ var[v] \in Addr /\ Sound(Of(v)) /\ Typed(Of(v))
         /\ room[var[v]] > 0
         /\ header[var[v]] = SizeofHdr + Room(Of(v)) + 1
         /\ Room(Of(v)) \in Nat
<1>1. v \in Held /\ var[v] \in Addr
  BY DEF IInv, Shapes, Held, Holds
<1>2. Sound(Of(v))
  BY <1>1 DEF IInv, Shapes, Owned, FullIsTerminated, Sound, sdslen, sdsavail
<1>3. Typed(Of(v))
  BY <1>1 DEF IInv, Bytes
<1>4. QED
  BY <1>1, <1>2, <1>3 DEF IInv, Owned, Sound, Room

\* A call that leaves every block where it is.
LEMMA InPlacePlaces ==
  ASSUME IInv, NEW v \in Var, Holds(v), NEW h, InPlace(v, h),
         Sound(h), Room(h) = Room(Of(v))
  PROVE  Places(v, var[v], h)
<1>1. var[v] \in Addr /\ room[var[v]] > 0
      /\ header[var[v]] = SizeofHdr + Room(h) + 1
  BY HeldIsSound
<1>2. /\ DOMAIN sh' = Addr /\ sh'[var[v]] = h
      /\ \A c \in Addr : c # var[v] => sh'[c] = sh[c]
      /\ room' = room /\ header' = header /\ ~undefined'
      /\ var' = [var EXCEPT ![v] = var[v]]
  BY <1>1 DEF IInv, Shapes, NeverUndefined, InPlace, heap
<1>3. QED
  BY <1>1, <1>2 DEF IInv, Shapes, Places

\* The blocks of strings are too short for their sizes to wrap.
LEMMA SizesFit ==
  ASSUME NEW n \in Nat, n <= MaxRoom
  PROVE  (SizeofHdr + n + 1 + PREFIX_SIZE) % SizeMod
           = SizeofHdr + n + 1 + PREFIX_SIZE
<1>1. \A m \in Nat \ {0}, s \in Nat : s < m => s % m = s
  OBVIOUS
<1>2. /\ SizeofHdr + n + 1 + PREFIX_SIZE \in Nat /\ SizeMod \in Nat \ {0}
      /\ SizeofHdr + n + 1 + PREFIX_SIZE < SizeMod
  BY SdsAssumption
<1>3. QED
  BY <1>1, <1>2

\* A new block, at a free address, for a variable that held none.
LEMMA NewPlaces ==
  ASSUME IInv, NEW v \in Var, NEW a \in Addr, NEW init, NEW n \in Nat,
         sdsnewlen(v, a, init, n)
  PROVE  Places(v, a, NewHdr(init, n)) /\ Sound(NewHdr(init, n)) /\ Room(NewHdr(init, n)) = n
<1> USE SdsAssumption
<1> DEFINE h == NewHdr(init, n)
<1>0. var' = [var EXCEPT ![v] = a] /\ ~undefined'
  BY DEF sdsnewlen, IInv, NeverUndefined
<1>a. var[v] = NULL /\ n <= MaxRoom /\ sh' = [sh EXCEPT ![a] = h]
  BY DEF sdsnewlen, NewHdr
<1>b. Z!zmalloc(a, SizeofHdr + n + 1)
  BY DEF sdsnewlen
<1>1. /\ room[a] = 0
      /\ header' = [header EXCEPT ![a] = SizeofHdr + n + 1]
      /\ room' = [room EXCEPT ![a] =
                    (SizeofHdr + n + 1 + PREFIX_SIZE) % SizeMod]
  BY <1>b DEF Z!zmalloc
<1>2. (SizeofHdr + n + 1 + PREFIX_SIZE) % SizeMod = SizeofHdr + n + 1 + PREFIX_SIZE
  BY <1>a, SizesFit
<1>3. Sound(h) /\ Room(h) = n
  BY DEF Sound, Room, NewHdr
<1> HIDE DEF h
<1>4. /\ DOMAIN sh' = Addr /\ sh'[a] = h
      /\ room' \in [Addr -> Nat] /\ header' \in [Addr -> Nat]
      /\ room'[a] > 0 /\ header'[a] = SizeofHdr + Room(h) + 1
      /\ \A c \in Addr : c # a =>
           sh'[c] = sh[c] /\ room'[c] = room[c] /\ header'[c] = header[c]
  BY <1>1, <1>2, <1>3, <1>a DEF IInv, Shapes
<1>5. Places(v, a, h)
  BY <1>0, <1>1, <1>3, <1>4, <1>a DEF Places
<1>6. QED
  BY <1>3, <1>5 DEF h

\* Bytes that fit are written, at the place of the string or where it moves.
LEMMA WritePlaces ==
  ASSUME IInv, NEW v \in Var, NEW b \in Addr, Holds(v),
         NEW newroom \in Nat, NEW at \in Nat, NEW t, Len(t) \in Nat,
         at + Len(t) <= newroom, Write(v, b, newroom, at, t)
  PROVE  Places(v, b, WrittenHdr(Of(v), newroom, at, t))
<1> USE SdsAssumption
<1> DEFINE end == at + Len(t)
           h == WrittenHdr(Of(v), newroom, at, t)
<1>0. ~ (end > newroom)
  OBVIOUS
<1>1. /\ Grow(v, b, newroom) /\ undefined' = undefined
      /\ sh' = [sh EXCEPT ![var[v]] = Blank, ![b] = h]
  BY <1>0 DEF Write, WrittenHdr
<1>2. Sound(h) /\ Room(h) = newroom
  <2>1. end \in Nat /\ newroom - end \in Nat /\ end \in 0 .. newroom
    OBVIOUS
  <2>2. QED
    BY <2>1 DEF Sound, Room, WrittenHdr
<1> HIDE DEF h
<1>3. v \in Held /\ var[v] \in Addr /\ room[var[v]] > 0 /\ DOMAIN sh = Addr
      /\ header[var[v]] = SizeofHdr + Room(Of(v)) + 1
  BY HeldIsSound DEF IInv, Shapes
<1>4. /\ DOMAIN sh' = Addr /\ sh'[b] = h
      /\ \A c \in Addr : c # b /\ c # var[v] => sh'[c] = sh[c]
  BY <1>1, <1>3
<1>5. CASE newroom = Room(Of(v))
  <2>1. b = var[v] /\ UNCHANGED <<heap, var>>
    BY <1>1, <1>5 DEF Grow
  <2>2. var' = [var EXCEPT ![v] = b]
    BY <2>1 DEF IInv, Shapes
  <2>3. Places(v, b, h)
    BY <1>1, <1>2, <1>3, <1>4, <1>5, <2>1, <2>2
       DEF IInv, Shapes, NeverUndefined, Places, heap
  <2>4. QED
    BY <2>3 DEF h
<1>6. CASE newroom # Room(Of(v))
  <2>1. /\ newroom <= MaxRoom
        /\ Z!zremalloc(var[v], b, SizeofHdr + newroom + 1)
        /\ var' = [var EXCEPT ![v] = b]
    BY <1>1, <1>6 DEF Grow
  <2>2. /\ b = var[v] \/ room[b] = 0
        /\ header' = [header EXCEPT ![var[v]] = 0,
                                    ![b] = SizeofHdr + newroom + 1]
        /\ room' = [room EXCEPT ![var[v]] = 0,
                      ![b] = (SizeofHdr + newroom + 1 + PREFIX_SIZE) % SizeMod]
    BY <1>3, <2>1 DEF Z!zremalloc
  <2>3. (SizeofHdr + newroom + 1 + PREFIX_SIZE) % SizeMod
          = SizeofHdr + newroom + 1 + PREFIX_SIZE
    BY <2>1, SizesFit
  <2>4. /\ room' \in [Addr -> Nat] /\ header' \in [Addr -> Nat]
        /\ room'[b] > 0 /\ header'[b] = SizeofHdr + newroom + 1
        /\ \A c \in Addr : c # b /\ c # var[v] =>
             room'[c] = room[c] /\ header'[c] = header[c]
        /\ var[v] # b => room'[var[v]] = 0
    BY <1>3, <2>2, <2>3 DEF IInv, Shapes
  <2>5. Places(v, b, h)
    BY <1>1, <1>2, <1>4, <2>1, <2>2, <2>4 DEF IInv, NeverUndefined, Places
  <2>6. QED
    BY <2>5 DEF h
<1>7. QED
  BY <1>5, <1>6

LEMMA KeepPlaces ==
  ASSUME IInv, NEW v \in Var, Holds(v), NEW from \in Nat, NEW n \in Nat,
         n <= Room(Of(v)), n > 0 => from + n <= Room(Of(v)) + 1,
         Keep(v, from, n)
  PROVE  Places(v, var[v], KeptHdr(Of(v), from, n))
<1> DEFINE old == Of(v)
           h == KeptHdr(old, from, n)
<1>1. Room(old) \in Nat
  BY HeldIsSound
<1>2. InPlace(v, h)
  BY <1>1 DEF Keep, KeptHdr
<1>3. Sound(h) /\ Room(h) = Room(old)
  <2>1. n \in 0 .. Room(old) /\ Room(old) - n \in Nat
    BY <1>1
  <2>2. QED
    BY <1>1, <2>1 DEF Sound, Room, KeptHdr
<1> HIDE DEF h
<1>4. Places(v, var[v], h)
  BY <1>2, <1>3, InPlacePlaces
<1>5. QED
  BY <1>4 DEF h

\* Where the two scans of sdstrim stop.
TrimStops(v, cset, sp, ep) ==
  /\ \A i \in 0 .. sp - 1 : Of(v).buf[i] \in cset \cup {0}
  /\ sp <= sdslen(v) => Of(v).buf[sp] \notin cset \cup {0}
  /\ \A i \in ep + 1 .. sdslen(v) : Of(v).buf[i] \in cset \cup {0}
  /\ ep > 0 => Of(v).buf[ep] \notin cset \cup {0}

\* The scans meet the terminator of a string that fills its room, so they
\* never keep more bytes than there is room for.
LEMMA TrimPlaces ==
  ASSUME IInv, NEW v \in Var, NEW cset, sdstrim(v, cset)
  PROVE  \E sp \in 0 .. sdslen(v) + 1, ep \in 0 .. sdslen(v) :
           TrimStops(v, cset, sp, ep) /\
           LET n == IF sp > ep THEN 0 ELSE ep - sp + 1 IN
           Places(v, var[v], KeptHdr(Of(v), sp, n))
<1> DEFINE s == Of(v).buf
           strchr(b) == b \in cset \cup {0}
<1>1. Holds(v)
  BY DEF sdstrim
<1>2. PICK sp \in 0 .. sdslen(v) + 1, ep \in 0 .. sdslen(v) :
        /\ TrimStops(v, cset, sp, ep)
        /\ Keep(v, sp, IF sp > ep THEN 0 ELSE ep - sp + 1)
  BY DEF sdstrim, TrimStops
<1>a. /\ sp <= sdslen(v) => ~strchr(s[sp])
      /\ ep > 0 => ~strchr(s[ep])
  BY <1>2 DEF TrimStops
<1>3. Sound(Of(v)) /\ Room(Of(v)) \in Nat
  BY <1>1, HeldIsSound
<1>4. sdslen(v) \in Nat /\ sdslen(v) <= Room(Of(v))
  BY <1>3 DEF Sound, Room, sdslen
<1>5. CASE sp > ep
  <2>1. Keep(v, sp, 0) /\ sp \in Nat
    BY <1>2, <1>4, <1>5
  <2>2. Places(v, var[v], KeptHdr(Of(v), sp, 0))
    BY <1>1, <1>3, <2>1, KeepPlaces
  <2>3. QED
    BY <1>2, <1>5, <2>2
<1>6. CASE sp <= ep
  <2>1. ~(ep = sdslen(v) /\ sdslen(v) = Room(Of(v)))
    <3> SUFFICES ASSUME ep = sdslen(v), sdslen(v) = Room(Of(v)) PROVE FALSE
      OBVIOUS
    <3>1. s[sdslen(v)] = 0
      BY <1>3 DEF Sound, Room, sdslen
    <3>2. ep = 0
      BY <1>a, <1>4, <3>1
    <3>3. sp = 0
      BY <1>4, <1>6, <3>2
    <3>4. QED
      BY <1>a, <3>1, <3>2, <3>3
  <2>2. /\ ep - sp + 1 \in Nat /\ ep - sp + 1 <= Room(Of(v))
        /\ sp + (ep - sp + 1) <= Room(Of(v)) + 1 /\ sp \in Nat
    BY <1>3, <1>4, <1>6, <2>1
  <2>3. Keep(v, sp, ep - sp + 1)
    BY <1>2, <1>4, <1>6
  <2>4. Places(v, var[v], KeptHdr(Of(v), sp, ep - sp + 1))
    BY <1>1, <2>2, <2>3, KeepPlaces
  <2>5. ~(sp > ep)
    BY <1>6, <1>4
  <2>6. QED
    BY <1>2, <2>4, <2>5
<1>7. QED
  BY <1>4, <1>5, <1>6

LEMMA RangePlaces ==
  ASSUME IInv, NEW v \in Var, NEW start \in Int, NEW end \in Int,
         sdsrange(v, start, end)
  PROVE  LET s == BackIndex(v, start)
             e == BackIndex(v, end)
         IN  /\ s \in Nat /\ e \in Nat /\ e < sdslen(v)
             /\ Places(v, var[v], KeptHdr(Of(v), s, IF s > e THEN 0 ELSE e - s + 1))
<1> DEFINE s == BackIndex(v, start)
           e == BackIndex(v, end)
<1>1. Holds(v) /\ sdslen(v) > 0 /\ end < sdslen(v)
      /\ Keep(v, s, IF s > e THEN 0 ELSE e - s + 1)
  BY DEF sdsrange
<1>2. Sound(Of(v)) /\ Room(Of(v)) \in Nat
  BY <1>1, HeldIsSound
<1>3. sdslen(v) \in Nat /\ sdslen(v) <= Room(Of(v))
  BY <1>2 DEF Sound, Room, sdslen
<1>4. s \in Nat /\ e \in Nat /\ e < sdslen(v)
  BY <1>1, <1>3 DEF BackIndex
<1> HIDE DEF s, e
<1>5. CASE s > e
  <2>1. Keep(v, s, 0)
    BY <1>1, <1>5
  <2>2. Places(v, var[v], KeptHdr(Of(v), s, 0))
    BY <1>1, <1>2, <1>4, <2>1, KeepPlaces
  <2>3. QED
    BY <1>4, <1>5, <2>2 DEF s, e
<1>6. CASE s <= e
  <2>1. /\ e - s + 1 \in Nat /\ e - s + 1 <= Room(Of(v))
        /\ s + (e - s + 1) <= Room(Of(v)) + 1
    BY <1>2, <1>3, <1>4, <1>6
  <2>2. Keep(v, s, e - s + 1)
    BY <1>1, <1>4, <1>6
  <2>3. Places(v, var[v], KeptHdr(Of(v), s, e - s + 1))
    BY <1>1, <1>4, <2>1, <2>2, KeepPlaces
  <2>4. ~(s > e)
    BY <1>4, <1>6
  <2>5. QED
    BY <1>4, <2>3, <2>4 DEF s, e
<1>7. QED
  BY <1>4, <1>5, <1>6

LEMMA ClearPlaces ==
  ASSUME IInv, NEW v \in Var, sdsclear(v)
  PROVE  Places(v, var[v], ClearedHdr(Of(v)))
<1> DEFINE h == ClearedHdr(Of(v))
<1>1. Holds(v) /\ InPlace(v, h)
  BY DEF sdsclear, ClearedHdr
<1>2. Sound(Of(v)) /\ Room(Of(v)) \in Nat
  BY <1>1, HeldIsSound
<1>3. Sound(h) /\ Room(h) = Room(Of(v))
  <2>1. CASE Room(Of(v)) = 0
    <3>1. /\ Of(v).len \in Nat /\ Of(v).free \in Nat
          /\ Of(v).len + Of(v).free = 0
      BY <1>2, <2>1, Zenon DEF Sound, Room
    <3>2. Of(v).len = 0 /\ Of(v).free = 0
      BY <3>1
    <3>3. Of(v).buf[0] = 0 /\ DOMAIN Of(v).buf = 0 .. Room(Of(v))
      BY <1>2, <3>2 DEF Sound
    <3>4. QED
      BY <1>2, <2>1, <3>3 DEF Sound, Room, ClearedHdr
  <2>2. CASE Room(Of(v)) > 0
    BY <1>2, <2>2 DEF Sound, Room, ClearedHdr
  <2>3. QED
    BY <1>2, <2>1, <2>2
<1> HIDE DEF h
<1>4. Places(v, var[v], h)
  BY <1>1, <1>3, InPlacePlaces
<1>5. QED
  BY <1>4 DEF h

LEMMA CasePlaces ==
  ASSUME IInv, NEW v \in Var, NEW change, ChangeCase(v, change)
  PROVE  Places(v, var[v], CasedHdr(Of(v), change))
<1> DEFINE h == CasedHdr(Of(v), change)
<1>1. Holds(v) /\ InPlace(v, h)
  BY DEF ChangeCase, CasedHdr, sdslen, sdsavail
<1>2. Sound(Of(v))
  BY <1>1, HeldIsSound
<1>3. sdslen(v) \in 0 .. Room(Of(v)) /\ ~ (sdslen(v) < sdslen(v))
  BY <1>2 DEF Sound, Room, sdslen
<1>4. Sound(h) /\ Room(h) = Room(Of(v))
  BY <1>2, <1>3 DEF Sound, Room, sdslen, CasedHdr
<1> HIDE DEF h
<1>5. Places(v, var[v], h)
  BY <1>1, <1>4, InPlacePlaces
<1>6. QED
  BY <1>5 DEF h

LEMMA FreeIInv ==
  ASSUME IInv, NEW v \in Var, sdsfree(v) PROVE IInv'
<1> USE SdsAssumption
<1>1. /\ ~undefined' /\ var' = [var EXCEPT ![v] = NULL]
      /\ sh' = [a \in Addr |-> IF a = var[v] THEN Blank ELSE sh[a]]
      /\ Z!zfree(var[v])
  BY DEF sdsfree, Running
<1>2. Held' = Held \ {v} /\ \A w \in Held' : var'[w] = var[w]
  BY <1>1 DEF IInv, Shapes, Held
<1>3. \A w \in Held : var[w] \in Addr
  BY DEF IInv, Shapes, Held
<1>4. \A w \in Held' : w \in Held /\ w # v /\ var[w] # var[v]
  <2> SUFFICES ASSUME NEW w \in Held', var[w] = var[v] PROVE FALSE
    BY <1>2
  <2>1. v \in Held
    BY <1>2 DEF Held
  <2>2. QED
    BY <1>2, <2>1 DEF IInv, Owned
<1>5. /\ room' \in [Addr -> Nat] /\ header' \in [Addr -> Nat]
      /\ \A a \in Addr : a # var[v] => room'[a] = room[a] /\ header'[a] = header[a]
      /\ var[v] # NULL => room'[var[v]] = 0
  <2>1. CASE var[v] = NULL
    <3>1. room' = room /\ header' = header
      BY <1>1, <2>1 DEF Z!zfree, Z!vars, Z!Allocated
    <3>2. QED
      BY <2>1, <3>1 DEF IInv, Shapes
  <2>2. CASE var[v] # NULL
    <3>1. var[v] \in Addr
      BY <2>2 DEF IInv, Shapes
    <3>2. /\ room' = [room EXCEPT ![var[v]] = 0]
          /\ header' = [header EXCEPT ![var[v]] = 0]
      BY <1>1, <2>2 DEF Z!zfree
    <3>3. QED
      BY <3>1, <3>2 DEF IInv, Shapes
  <2>3. QED
    BY <2>1, <2>2
<1>6. \A w \in Held' : /\ Of(w)' = Of(w)
                       /\ room'[var[w]] = room[var[w]]
                       /\ header'[var[w]] = header[var[w]]
  BY <1>1, <1>2, <1>3, <1>4, <1>5 DEF Of
<1>7. Shapes'
  <2>1. DOMAIN sh' = Addr /\ var' \in [Var -> Addr \cup {NULL}]
    BY <1>1 DEF IInv, Shapes
  <2>2. \A w \in Held' : sdslen(w)' \in Nat /\ sdsavail(w)' \in Nat
    BY <1>4, <1>6 DEF IInv, Shapes, sdslen, sdsavail
  <2>3. QED
    BY <1>5, <2>1, <2>2 DEF Shapes
<1>8. Owned'
  <2>1. ASSUME NEW c \in Addr, room'[c] > 0
        PROVE  \E w \in Held' : var'[w] = c
    <3>1. c # var[v]
      BY <1>5, <2>1
    <3>2. PICK w \in Held : var[w] = c
      BY <1>5, <2>1, <3>1 DEF IInv, Owned
    <3>3. QED
      BY <1>2, <3>1, <3>2
  <2>2. \A w \in Held' : room'[var'[w]] > 0
    BY <1>2, <1>4, <1>6 DEF IInv, Owned
  <2>3. \A w, x \in Held' : var'[w] = var'[x] => w = x
    BY <1>2, <1>4 DEF IInv, Owned
  <2>4. \A w \in Held' : /\ header'[var'[w]] = SizeofHdr + Room(Of(w)') + 1
                         /\ DOMAIN Of(w)'.buf = 0 .. Room(Of(w)')
    BY <1>2, <1>4, <1>6 DEF IInv, Owned
  <2>5. QED
    BY <2>1, <2>2, <2>3, <2>4 DEF Owned, Room, Of
<1>9. FullIsTerminated'
  BY <1>4, <1>6 DEF IInv, FullIsTerminated, sdslen, sdsavail
<1>10. Bytes'
  <2>1. \A w \in Held' : Typed(Of(w)) /\ Of(w)' = Of(w)
    BY <1>4, <1>6 DEF IInv, Bytes
  <2>2. ASSUME NEW w \in Held' PROVE Typed(Of(w)')
    <3>1. PICK x : x = Of(w)'
      OBVIOUS
    <3>2. Typed(x)
      BY <2>1, <3>1
    <3>3. QED
      BY <3>1, <3>2
  <2>3. QED
    BY <2>2, Zenon DEF Bytes, Typed, Room
<1>11. QED
  BY <1>1, <1>7, <1>8, <1>9, <1>10 DEF IInv, NeverUndefined

\* Nothing the invariant speaks of changes.
LEMMA StutterIInv ==
  ASSUME IInv, UNCHANGED <<room, header, sh, var, undefined>> PROVE IInv'
<1>1. Held' = Held /\ \A v \in Var : Of(v)' = Of(v)
  BY DEF Held, Of
<1>2. Bytes'
  BY <1>1 DEF IInv, Bytes, Typed, Room, Held
<1>3. QED
  BY <1>1, <1>2 DEF IInv, Shapes, Owned, FullIsTerminated, NeverUndefined, Held,
              sdslen, sdsavail, Room, Of

-----------------------------------------------------------------------------
(* The bytes of the headers.                                               *)

\* sdsnewlen writes the bytes it is given, or zeros, and a terminator.
LEMMA NewTyped ==
  ASSUME NEW init, NEW n \in Nat,
         init = NULL \/ \A i \in 1 .. n : init[i] \in Byte
  PROVE  Typed(NewHdr(init, n))
<1>1. Room(NewHdr(init, n)) = n
  BY DEF Room, NewHdr
<1>2. \A i \in 0 .. n : NewHdr(init, n).buf[i] \in Byte
  BY SdsAssumption DEF NewHdr
<1>3. NewHdr(init, n).len = n /\ NewHdr(init, n).buf[n] = 0
  BY DEF NewHdr
<1>4. QED
  BY <1>1, <1>2, <1>3 DEF Typed

\* Bytes written behind the first at bytes of a string.
LEMMA WrittenTyped ==
  ASSUME NEW old, Sound(old), Typed(old), NEW newroom \in Nat, NEW at \in Nat,
         at <= old.len, NEW t \in Seq(Byte), at + Len(t) <= newroom
  PROVE  Typed(WrittenHdr(old, newroom, at, t))
<1> DEFINE h == WrittenHdr(old, newroom, at, t)
           end == at + Len(t)
<1>1. Len(t) \in Nat /\ \A i \in 1 .. Len(t) : t[i] \in Byte
  BY ElementOfSeq, LenProperties
<1>2. Room(h) = newroom /\ h.len = end
  BY <1>1 DEF Room, WrittenHdr
<1>3. \A i \in 0 .. newroom : h.buf[i] =
        IF i \in at .. end - 1 THEN t[i - at + 1]
        ELSE IF i = end THEN 0
        ELSE IF i <= Room(old) THEN old.buf[i] ELSE JUNK
  BY DEF WrittenHdr
<1>4. old.len \in Nat /\ Room(old) \in Nat /\ old.len <= Room(old)
  BY DEF Sound, Room
<1>5. ASSUME NEW i \in 0 .. newroom PROVE h.buf[i] \in Byte \cup {JUNK}
  <2>1. CASE i \in at .. end - 1
    <3>1. i - at + 1 \in 1 .. Len(t)
      BY <1>1, <2>1
    <3>2. QED
      BY <1>1, <1>3, <2>1, <3>1
  <2>2. CASE i \notin at .. end - 1 /\ i <= Room(old)
    <3>1. h.buf[i] = IF i = end THEN 0 ELSE old.buf[i]
      BY <1>3, <2>2, Zenon
    <3>2. i \in 0 .. Room(old)
      BY <1>4, <2>2
    <3>3. old.buf[i] \in Byte \cup {JUNK} /\ 0 \in Byte
      BY <3>2, SdsAssumption DEF Typed
    <3> HIDE DEF h, end
    <3>4. QED
      BY <3>1, <3>3
  <2>3. CASE i \notin at .. end - 1 /\ ~(i <= Room(old))
    BY <1>3, <1>4, <2>3, SdsAssumption
  <2>4. QED
    BY <2>1, <2>2, <2>3
<1>6. ASSUME NEW i \in 0 .. end PROVE h.buf[i] \in Byte
  <2>1. CASE i \in at .. end - 1
    <3>1. i - at + 1 \in 1 .. Len(t) /\ i \in 0 .. newroom
      BY <1>1, <2>1
    <3>2. QED
      BY <1>1, <1>3, <2>1, <3>1
  <2>2. CASE i = end
    BY <1>1, <1>3, <2>2, SdsAssumption
  <2>3. CASE i < at
    <3>1. i \in 0 .. old.len /\ i <= Room(old) /\ i \in 0 .. newroom
          /\ i \notin at .. end - 1 /\ i # end
      BY <1>1, <1>4, <2>3
    <3>2. QED
      BY <1>3, <3>1 DEF Typed
  <2>4. QED
    BY <1>1, <2>1, <2>2, <2>3
<1>7. h.buf[end] = 0
  <2>1. end \in 0 .. newroom /\ end \notin at .. end - 1
    BY <1>1
  <2>2. QED
    BY <1>3, <2>1, Zenon
<1> HIDE DEF h
<1>8. Typed(h)
  BY <1>2, <1>5, <1>6, <1>7 DEF Typed
<1>9. QED
  BY <1>8 DEF h

\* Bytes kept are bytes of the string.
LEMMA KeptTyped ==
  ASSUME NEW old, Sound(old), Typed(old), NEW from \in Nat, NEW n \in Nat,
         n <= Room(old), n > 0 => from + n <= old.len + 1
  PROVE  Typed(KeptHdr(old, from, n))
<1> DEFINE h == KeptHdr(old, from, n)
<1>1. old.len \in Nat /\ Room(old) \in Nat /\ old.len <= Room(old)
  BY DEF Sound, Room
<1>2. Room(h) = Room(old) /\ h.len = n
  BY <1>1 DEF Room, KeptHdr
<1>3. \A i \in 0 .. Room(old) : h.buf[i] =
        IF i < n THEN old.buf[from + i] ELSE IF i = n THEN 0 ELSE old.buf[i]
  BY DEF KeptHdr
<1>4. ASSUME NEW i \in 0 .. n PROVE h.buf[i] \in Byte
  <2>1. CASE i < n
    <3>1. from + i \in 0 .. old.len /\ i \in 0 .. Room(old)
      BY <1>1, <2>1
    <3>2. old.buf[from + i] \in Byte
      BY <3>1 DEF Typed
    <3>3. QED
      BY <1>3, <2>1, <3>1, <3>2
  <2>2. CASE i = n
    BY <1>1, <1>3, <2>2, SdsAssumption
  <2>3. QED
    BY <2>1, <2>2
<1>5. ASSUME NEW i \in 0 .. Room(old) PROVE h.buf[i] \in Byte \cup {JUNK}
  <2>1. CASE i \in 0 .. n
    BY <1>4, <2>1
  <2>2. CASE i > n
    BY <1>1, <1>3, <2>2 DEF Typed
  <2>3. QED
    BY <2>1, <2>2
<1>6. h.buf[n] = 0
  BY <1>1, <1>3
<1> HIDE DEF h
<1>7. Typed(h)
  BY <1>2, <1>4, <1>5, <1>6 DEF Typed
<1>8. QED
  BY <1>7 DEF h

\* The first byte of what is cleared is a byte.
LEMMA ClearedTyped ==
  ASSUME NEW old, Sound(old), Typed(old)
  PROVE  Typed(ClearedHdr(old))
<1>1. old.len \in Nat /\ Room(old) \in Nat
  BY DEF Sound, Room
<1>2. ClearedHdr(old).len = 0 /\ ClearedHdr(old).buf = old.buf
      /\ Room(ClearedHdr(old)) = Room(old)
  BY <1>1 DEF Room, ClearedHdr
<1>3. QED
  BY <1>1, <1>2 DEF Typed

\* tolower and toupper make bytes of bytes.
LEMMA CasesAreBytes ==
  \A b \in Byte : tolower[b] \in Byte /\ toupper[b] \in Byte
BY SdsAssumption DEF tolower, toupper

LEMMA CasedTyped ==
  ASSUME NEW old, Sound(old), Typed(old), NEW change,
         \A b \in Byte : change[b] \in Byte
  PROVE  Typed(CasedHdr(old, change))
<1> DEFINE h == CasedHdr(old, change)
<1>1. old.len \in Nat /\ Room(old) \in Nat /\ old.len <= Room(old)
      /\ DOMAIN old.buf = 0 .. Room(old)
  BY DEF Sound, Room
<1>2. Room(h) = Room(old) /\ h.len = old.len
  BY <1>1 DEF Room, CasedHdr
<1>3. \A i \in 0 .. Room(old) : h.buf[i] =
        IF i < old.len THEN change[old.buf[i]] ELSE old.buf[i]
  BY <1>1 DEF CasedHdr
<1>4. ASSUME NEW i \in 0 .. old.len PROVE h.buf[i] \in Byte
  <2>1. i \in 0 .. Room(old) /\ old.buf[i] \in Byte
    BY <1>1 DEF Typed
  <2>2. QED
    BY <1>3, <2>1
<1>5. ASSUME NEW i \in 0 .. Room(old) PROVE h.buf[i] \in Byte \cup {JUNK}
  <2>1. CASE i \in 0 .. old.len
    BY <1>4, <2>1
  <2>2. CASE i > old.len
    BY <1>1, <1>3, <2>2 DEF Typed
  <2>3. QED
    BY <1>1, <2>1, <2>2
<1>6. old.len > 0 => h.buf[old.len] = 0
  BY <1>1, <1>3 DEF Typed
<1> HIDE DEF h
<1>7. Typed(h)
  BY <1>2, <1>4, <1>5, <1>6 DEF Typed
<1>8. QED
  BY <1>7 DEF h

-----------------------------------------------------------------------------
(* The calls.                                                              *)

\* The strings callers hand in are strings of bytes.
LEMMA LiteralsAreStrings ==
  \A t \in Literals : /\ t \in Seq(Byte) /\ Len(t) \in Nat
                      /\ \A i \in 1 .. Len(t) : t[i] \in Byte
<1> TAKE t \in Literals
<1>1. t \in Seq(Byte \ {0})
  BY SdsAssumption
<1>2. t \in Seq(Byte)
  BY <1>1, SeqMonotonic
<1>3. QED
  BY <1>2, ElementOfSeq, LenProperties

\* sdscatlen and sdscpylen ask sdsMakeRoomFor for what they then write.
LEMMA CatPlaces ==
  ASSUME IInv, NEW v \in Var, NEW b \in Addr, NEW t \in Literals,
         sdscatlen(v, b, t)
  PROVE  \E newroom \in Nat :
           /\ sdslen(v) + Len(t) <= newroom
           /\ Places(v, b, WrittenHdr(Of(v), newroom, sdslen(v), t))
<1>1. Holds(v) /\ Len(t) \in Nat
  BY LiteralsAreStrings DEF sdscatlen
<1>2. /\ sdslen(v) \in Nat /\ sdsavail(v) \in Nat
      /\ Room(Of(v)) = sdslen(v) + sdsavail(v)
  BY <1>1, HeldIsSound DEF Sound, Room, sdslen, sdsavail
<1>3. PICK newroom : newroom = sdsMakeRoomFor(v, Len(t))
  OBVIOUS
<1>4. newroom \in Nat /\ sdslen(v) + Len(t) <= newroom
  BY <1>1, <1>2, <1>3 DEF sdsMakeRoomFor
<1>5. Write(v, b, newroom, sdslen(v), t)
  BY <1>3 DEF sdscatlen
<1>6. Places(v, b, WrittenHdr(Of(v), newroom, sdslen(v), t))
  BY <1>1, <1>2, <1>4, <1>5, WritePlaces
<1>7. QED
  BY <1>4, <1>6

LEMMA CpyPlaces ==
  ASSUME IInv, NEW v \in Var, NEW b \in Addr, NEW t \in Literals,
         sdscpylen(v, b, t)
  PROVE  \E newroom \in Nat :
           /\ 0 + Len(t) <= newroom
           /\ Places(v, b, WrittenHdr(Of(v), newroom, 0, t))
<1>1. Holds(v) /\ Len(t) \in Nat
  BY LiteralsAreStrings DEF sdscpylen
<1>2. /\ sdslen(v) \in Nat /\ sdsavail(v) \in Nat
      /\ Room(Of(v)) = sdslen(v) + sdsavail(v)
  BY <1>1, HeldIsSound DEF Sound, Room, sdslen, sdsavail
<1>3. PICK newroom : newroom = IF Room(Of(v)) < Len(t)
                               THEN sdsMakeRoomFor(v, Len(t) - sdslen(v))
                               ELSE Room(Of(v))
  OBVIOUS
<1>4. newroom \in Nat /\ 0 + Len(t) <= newroom
  BY <1>1, <1>2, <1>3 DEF sdsMakeRoomFor
<1>5. Write(v, b, newroom, 0, t)
  BY <1>3 DEF sdscpylen
<1>6. Places(v, b, WrittenHdr(Of(v), newroom, 0, t))
  BY <1>1, <1>4, <1>5, WritePlaces
<1>7. QED
  BY <1>4, <1>6

LEMMA NewIInv ==
  ASSUME IInv, NEW v \in Var, NEW a \in Addr, NEW init, NEW n \in Nat,
         sdsnewlen(v, a, init, n),
         init = NULL \/ \A i \in 1 .. n : init[i] \in Byte
  PROVE  IInv'
BY NewPlaces, NewTyped, PlacesIInv

LEMMA CatCpyIInv ==
  ASSUME IInv, NEW v \in Var, NEW b \in Addr, NEW t \in Literals,
         sdscatlen(v, b, t) \/ sdscpylen(v, b, t)
  PROVE  IInv'
<1>1. Holds(v)
  BY DEF sdscatlen, sdscpylen
<1>2. PICK old : old = Of(v)
  OBVIOUS
<1>3. Sound(old) /\ Typed(old) /\ sdslen(v) = old.len /\ old.len \in Nat
  BY <1>1, <1>2, HeldIsSound DEF Sound, sdslen
<1>4. t \in Seq(Byte)
  BY LiteralsAreStrings
<1>5. CASE sdscatlen(v, b, t)
  <2>1. PICK newroom \in Nat :
          /\ old.len + Len(t) <= newroom
          /\ Places(v, b, WrittenHdr(old, newroom, old.len, t))
    BY <1>2, <1>3, <1>5, CatPlaces
  <2>2. Typed(WrittenHdr(old, newroom, old.len, t))
    BY <1>3, <1>4, <2>1, WrittenTyped
  <2>3. QED
    BY <2>1, <2>2, PlacesIInv
<1>6. CASE sdscpylen(v, b, t)
  <2>1. PICK newroom \in Nat : /\ 0 + Len(t) <= newroom
                               /\ Places(v, b, WrittenHdr(old, newroom, 0, t))
    BY <1>2, <1>6, CpyPlaces
  <2>2. Typed(WrittenHdr(old, newroom, 0, t))
    BY <1>3, <1>4, <2>1, WrittenTyped
  <2>3. QED
    BY <2>1, <2>2, PlacesIInv
<1>7. QED
  BY <1>5, <1>6

LEMMA ClearIInv == ASSUME IInv, NEW v \in Var, sdsclear(v) PROVE IInv'
<1>1. Holds(v)
  BY DEF sdsclear
<1>2. QED
  BY <1>1, HeldIsSound, ClearPlaces, ClearedTyped, PlacesIInv

LEMMA CaseIInv ==
  ASSUME IInv, NEW v \in Var, sdstolower(v) \/ sdstoupper(v) PROVE IInv'
<1>1. PICK change : /\ ChangeCase(v, change)
                    /\ \A b \in Byte : change[b] \in Byte
  BY CasesAreBytes DEF sdstolower, sdstoupper
<1>2. Holds(v)
  BY <1>1 DEF ChangeCase
<1>3. Places(v, var[v], CasedHdr(Of(v), change))
  BY <1>1, CasePlaces
<1>4. QED
  BY <1>1, <1>2, <1>3, HeldIsSound, CasedTyped, PlacesIInv

LEMMA TrimIInv ==
  ASSUME IInv, NEW v \in Var, NEW cset, sdstrim(v, cset) PROVE IInv'
<1>1. Holds(v)
  BY DEF sdstrim
<1>2. PICK old : old = Of(v)
  OBVIOUS
<1>3. Sound(old) /\ Typed(old) /\ sdslen(v) = old.len /\ old.len \in Nat
      /\ var[v] \in Addr
  BY <1>1, <1>2, HeldIsSound DEF Sound, sdslen
<1>4. PICK sp \in 0 .. old.len + 1, ep \in 0 .. old.len :
         Places(v, var[v], KeptHdr(old, sp, IF sp > ep THEN 0 ELSE ep - sp + 1))
  BY <1>2, <1>3, TrimPlaces
<1>5. PICK n : n = IF sp > ep THEN 0 ELSE ep - sp + 1
  OBVIOUS
<1>6. n \in Nat /\ (n > 0 => sp + n <= old.len + 1) /\ sp \in Nat
  BY <1>3, <1>5
<1>7. Places(v, var[v], KeptHdr(old, sp, n))
  BY <1>4, <1>5
<1>8. n <= Room(old)
  <2>1. Sound(KeptHdr(old, sp, n))
    BY <1>7 DEF Places
  <2>2. Room(old) - n \in Nat
    BY <2>1, Zenon DEF Sound, KeptHdr
  <2>3. Room(old) \in Nat
    BY <1>3 DEF Sound, Room
  <2>4. QED
    BY <1>6, <2>2, <2>3
<1>9. Typed(KeptHdr(old, sp, n))
  BY <1>3, <1>6, <1>8, KeptTyped
<1>10. QED
  BY <1>3, <1>7, <1>9, PlacesIInv

LEMMA RangeIInv ==
  ASSUME IInv, NEW v \in Var, NEW start \in Int, NEW end \in Int,
         sdsrange(v, start, end)
  PROVE  IInv'
<1>1. Holds(v)
  BY DEF sdsrange
<1>2. PICK old : old = Of(v)
  OBVIOUS
<1>3. Sound(old) /\ Typed(old) /\ sdslen(v) = old.len /\ old.len \in Nat
      /\ var[v] \in Addr
  BY <1>1, <1>2, HeldIsSound DEF Sound, sdslen
<1>4. PICK s \in Nat, e \in Nat :
        /\ e < old.len
        /\ Places(v, var[v], KeptHdr(old, s, IF s > e THEN 0 ELSE e - s + 1))
  BY <1>2, <1>3, RangePlaces
<1>5. PICK n : n = IF s > e THEN 0 ELSE e - s + 1
  OBVIOUS
<1>6. n \in Nat /\ (n > 0 => s + n <= old.len + 1) /\ n <= old.len
  BY <1>3, <1>4, <1>5
<1>7. Places(v, var[v], KeptHdr(old, s, n))
  BY <1>4, <1>5
<1>8. n <= Room(old)
  BY <1>3, <1>6 DEF Sound, Room
<1>9. Typed(KeptHdr(old, s, n))
  BY <1>3, <1>6, <1>8, KeptTyped
<1>10. QED
  BY <1>3, <1>7, <1>9, PlacesIInv

LEMMA NextIInv == IInv /\ [Next]_vars => IInv'
<1> SUFFICES ASSUME IInv, [Next]_vars PROVE IInv'
  OBVIOUS
<1>1. ASSUME NEW v \in Var, NEW a \in Addr,
             \/ \E init \in Literals \cup {NULL} : sdsnew(v, a, init)
             \/ \E n \in 0 .. MaxRoom : sdsnewlen(v, a, NULL, n)
             \/ sdsempty(v, a)
             \/ \E w \in Var : sdsdup(v, w, a)
      PROVE  IInv'
  <2>1. ASSUME NEW init \in Literals \cup {NULL}, sdsnew(v, a, init)
        PROVE  IInv'
    <3>1. PICK n : n = IF init = NULL THEN 0 ELSE Len(init)
      OBVIOUS
    <3>2. n \in Nat /\ (init = NULL \/ \A i \in 1 .. n : init[i] \in Byte)
      BY <3>1, LiteralsAreStrings
    <3>3. sdsnewlen(v, a, init, n)
      BY <2>1, <3>1 DEF sdsnew
    <3>4. QED
      BY <3>2, <3>3, NewIInv
  <2>2. ASSUME NEW n \in 0 .. MaxRoom, sdsnewlen(v, a, NULL, n)
        PROVE  IInv'
    <3>1. n \in Nat
      BY SdsAssumption
    <3>2. QED
      BY <2>2, <3>1, NewIInv
  <2>3. CASE sdsempty(v, a)
    BY <2>3, NewIInv DEF sdsempty
  <2>4. ASSUME NEW w \in Var, sdsdup(v, w, a)
        PROVE  IInv'
    <3>1. PICK bytes : bytes = [i \in 1 .. sdslen(v) |-> Of(v).buf[i - 1]]
      OBVIOUS
    <3>2. Holds(v) /\ sdsnewlen(w, a, bytes, sdslen(v))
      BY <2>4, <3>1 DEF sdsdup
    <3>3. sdslen(v) \in Nat /\ Typed(Of(v)) /\ sdslen(v) = Of(v).len
      BY <3>2, HeldIsSound DEF Sound, sdslen
    <3>4. \A i \in 1 .. sdslen(v) : bytes[i] \in Byte
      BY <3>1, <3>3 DEF Typed
    <3>5. QED
      BY <3>2, <3>3, <3>4, NewIInv
  <2>5. QED
    BY <1>1, <2>1, <2>2, <2>3, <2>4
<1>2. ASSUME NEW v \in Var, NEW a \in Addr, NEW t \in Literals,
             sdscatlen(v, a, t) \/ sdscpylen(v, a, t)
      PROVE  IInv'
  BY <1>2, CatCpyIInv
<1>3. ASSUME NEW v \in Var,
             sdsfree(v) \/ sdsclear(v) \/ sdstolower(v) \/ sdstoupper(v)
      PROVE  IInv'
  BY <1>3, FreeIInv, ClearIInv, CaseIInv
<1>4. ASSUME NEW v \in Var, NEW cset \in Csets, sdstrim(v, cset)
      PROVE  IInv'
  BY <1>4, TrimIInv
<1>5. ASSUME NEW v \in Var, NEW start \in Indices, NEW end \in Indices,
             sdsrange(v, start, end)
      PROVE  IInv'
  <2>1. start \in Int /\ end \in Int
    BY SdsAssumption
  <2>2. QED
    BY <1>5, <2>1, RangeIInv
<1>6. CASE OutOfMemory
  BY <1>6, StutterIInv DEF OutOfMemory, Z!zmalloc_oom, Z!heap
<1>7. CASE UNCHANGED vars
  BY <1>7, StutterIInv DEF vars, heap
<1>8. QED
  BY <1>1, <1>2, <1>3, <1>4, <1>5, <1>6, <1>7 DEF Next

-----------------------------------------------------------------------------
(* Strings, as callers read them.                                          *)

StringOf(h) == [i \in 1 .. h.len |-> h.buf[i - 1]]

\* The least and the greatest of a set of numbers, once they are known.
LEMMA MinIs ==
  ASSUME NEW S \in SUBSET Int, NEW m \in S, \A k \in S : m <= k
  PROVE  Min(S) = m
<1>1. \A x \in S : (\A y \in S : x <= y) => x = m
  OBVIOUS
<1>2. QED
  BY <1>1 DEF Min
LEMMA MaxIs ==
  ASSUME NEW S \in SUBSET Int, NEW m \in S, \A k \in S : m >= k
  PROVE  Max(S) = m
<1>1. \A x \in S : (\A y \in S : x >= y) => x = m
  OBVIOUS
<1>2. QED
  BY <1>1 DEF Max

LEMMA MinOfTwo ==
  ASSUME NEW a \in Int, NEW b \in Int, a <= b
  PROVE  Min({a, b}) = a /\ Min({b, a}) = a
<1>1. PICK S : S = {a, b} /\ S = {b, a}
  OBVIOUS
<1>2. S \in SUBSET Int /\ a \in S /\ \A k \in S : a <= k
  BY <1>1
<1>3. QED
  BY <1>1, <1>2, MinIs

LEMMA MaxOfTwo ==
  ASSUME NEW a \in Int, NEW b \in Int, a >= b
  PROVE  Max({a, b}) = a /\ Max({b, a}) = a
<1>1. PICK S : S = {a, b} /\ S = {b, a}
  OBVIOUS
<1>2. S \in SUBSET Int /\ a \in S /\ \A k \in S : a >= k
  BY <1>1
<1>3. QED
  BY <1>1, <1>2, MaxIs

\* A function on 1 .. n to S is a sequence of length n.
LEMMA SequenceOfLength ==
  ASSUME NEW n \in Nat, NEW S, NEW f \in [1 .. n -> S]
  PROVE  f \in Seq(S) /\ Len(f) = n
<1>1. f \in Seq(S)
  BY SeqDef
<1>2. Len(f) \in Nat /\ DOMAIN f = 1 .. Len(f)
  BY <1>1, LenProperties
<1>3. QED
  BY <1>1, <1>2

LEMMA StringOfTyped ==
  ASSUME NEW h, h.len \in Nat, Typed(h)
  PROVE  /\ StringOf(h) \in Seq(Byte)
         /\ Len(StringOf(h)) = h.len
         /\ DOMAIN StringOf(h) = 1 .. h.len
         /\ \A i \in 1 .. h.len : /\ StringOf(h)[i] = h.buf[i - 1]
                                  /\ StringOf(h)[i] \in Byte
<1>1. \A i \in 1 .. h.len : i - 1 \in 0 .. h.len
  OBVIOUS
<1>2. StringOf(h) \in [1 .. h.len -> Byte]
  BY <1>1 DEF Typed, StringOf
<1>3. QED
  BY <1>2, SequenceOfLength DEF StringOf

-----------------------------------------------------------------------------
(* Comparison.                                                             *)

\* The places where two headers differ, as sdscmp scans them.
Differ(p, q) ==
  {i \in 0 .. Min({p.len, q.len}) - 1 : p.buf[i] # q.buf[i]}

LEMMA CompareIs ==
  ASSUME NEW p, NEW q, p.len \in Nat, q.len \in Nat, Typed(p), Typed(q),
         NEW c, c = IF Differ(p, q) = {} THEN p.len - q.len
                    ELSE p.buf[Min(Differ(p, q))] - q.buf[Min(Differ(p, q))]
  PROVE  /\ c < 0 <=> Abstract!Before(StringOf(p), StringOf(q))
         /\ c = 0 <=> StringOf(p) = StringOf(q)
<1> DEFINE s == StringOf(p)
           t == StringOf(q)
<1>1. /\ Len(s) = p.len /\ \A i \in 1 .. p.len : s[i] = p.buf[i - 1]
      /\ Len(t) = q.len /\ \A i \in 1 .. q.len : t[i] = q.buf[i - 1]
      /\ s \in Seq(Byte) /\ t \in Seq(Byte)
  BY StringOfTyped
<1>2. /\ \A i \in 0 .. p.len : p.buf[i] \in Int
      /\ \A i \in 0 .. q.len : q.buf[i] \in Int
  <2>1. Byte \subseteq Int
    BY SdsAssumption
  <2>2. \A i \in 0 .. p.len : p.buf[i] \in Byte
    BY DEF Typed
  <2>3. \A i \in 0 .. q.len : q.buf[i] \in Byte
    BY DEF Typed
  <2>4. QED
    BY <2>1, <2>2, <2>3
<1>a. /\ \A i \in 1 .. p.len : s[i] \in Int
      /\ \A i \in 1 .. q.len : t[i] \in Int
  <2>1. Byte \subseteq Int
    BY SdsAssumption
  <2>2. QED
    BY <2>1, StringOfTyped
<1> HIDE DEF s, t
<1>3. PICK m : m = Min({p.len, q.len})
  OBVIOUS
<1>4. m \in Nat /\ m <= p.len /\ m <= q.len /\ (m = p.len \/ m = q.len)
  <2>1. CASE p.len <= q.len
    <3>1. Min({p.len, q.len}) = p.len
      BY <2>1, MinOfTwo
    <3>2. QED
      BY <1>3, <2>1, <3>1
  <2>2. CASE q.len <= p.len
    <3>1. Min({p.len, q.len}) = q.len
      BY <2>2, MinOfTwo
    <3>2. QED
      BY <1>3, <2>2, <3>1
  <2>3. QED
    BY <2>1, <2>2
<1>5. Differ(p, q) = {i \in 0 .. m - 1 : p.buf[i] # q.buf[i]}
  BY <1>3 DEF Differ
<1>6. \A n : n \in Differ(p, q) <=> (n \in 0 .. m - 1 /\ s[n + 1] # t[n + 1])
  <2>1. \A n \in 0 .. m - 1 : n + 1 \in 1 .. p.len /\ n + 1 \in 1 .. q.len
                                /\ (n + 1) - 1 = n
    BY <1>4
  <2>2. \A n \in 0 .. m - 1 : s[n + 1] = p.buf[n] /\ t[n + 1] = q.buf[n]
    BY <1>1, <2>1
  <2>3. QED
    BY <1>5, <2>2
<1>7. ASSUME NEW n \in 0 .. q.len - 1,
             \A i \in 1 .. n : i <= p.len /\ s[i] = t[i],
             n = p.len \/ (n < p.len /\ s[n + 1] < t[n + 1])
      PROVE  Abstract!Before(s, t)
  BY <1>1, <1>7 DEF Abstract!Before
<1>8. ASSUME Abstract!Before(s, t)
      PROVE  \E n \in 0 .. q.len - 1 :
               /\ \A i \in 1 .. n : i <= p.len /\ s[i] = t[i]
               /\ n = p.len \/ (n < p.len /\ s[n + 1] < t[n + 1])
  BY <1>1, <1>8 DEF Abstract!Before
<1>9. CASE Differ(p, q) = {}
  <2>1. c = p.len - q.len
    BY <1>9
  <2>2. \A n \in 0 .. m - 1 : s[n + 1] = t[n + 1]
    BY <1>6, <1>9
  <2>3. \A i \in 1 .. m : s[i] = t[i]
    <3>1. \A i \in 1 .. m : i - 1 \in 0 .. m - 1 /\ (i - 1) + 1 = i
      BY <1>4
    <3>2. QED
      BY <2>2, <3>1
  <2>4. ASSUME c < 0 PROVE Abstract!Before(s, t)
    <3>1. p.len \in 0 .. q.len - 1 /\ m = p.len
      BY <1>4, <2>1, <2>4
    <3>2. QED
      BY <1>7, <2>3, <3>1
  <2>5. ASSUME Abstract!Before(s, t) PROVE c < 0
    <3>1. PICK n \in 0 .. q.len - 1 :
               /\ \A i \in 1 .. n : i <= p.len /\ s[i] = t[i]
               /\ n = p.len \/ (n < p.len /\ s[n + 1] < t[n + 1])
      BY <1>8, <2>5
    <3>2. CASE n = p.len
      BY <2>1, <3>1, <3>2
    <3>3. CASE n < p.len /\ s[n + 1] < t[n + 1]
      <4>1. n \in 0 .. m - 1
        BY <1>4, <3>1, <3>3
      <4>2. /\ s[n + 1] \in Int /\ s[n + 1] = t[n + 1]
        BY <1>a, <1>4, <2>2, <4>1
      <4>3. QED
        BY <3>3, <4>2
    <3>4. QED
      BY <3>1, <3>2, <3>3
  <2>6. ASSUME c = 0 PROVE s = t
    <3>1. p.len = q.len /\ m = p.len
      BY <1>4, <2>1, <2>6
    <3>2. QED
      BY <1>1, <2>3, <3>1, SeqEqual
  <2>7. ASSUME s = t PROVE c = 0
    BY <1>1, <2>1, <2>7
  <2>8. QED
    BY <2>4, <2>5, <2>6, <2>7 DEF s, t
<1>10. CASE Differ(p, q) # {}
  <2>1. Differ(p, q) \subseteq Nat
    BY <1>4, <1>5
  <2>2. PICK k \in Differ(p, q) : \A j \in Differ(p, q) : k <= j
    BY <1>10, <2>1, LeastNatural
  <2>3. Min(Differ(p, q)) = k
    <3>1. Differ(p, q) \in SUBSET Int
      BY <2>1
    <3>2. QED
      BY <2>2, <3>1, MinIs
  <2>4. c = p.buf[k] - q.buf[k]
    BY <1>10, <2>3
  <2>5. k \in 0 .. m - 1 /\ s[k + 1] # t[k + 1]
    BY <1>6, <2>2
  <2>6. k + 1 \in 1 .. p.len /\ k + 1 \in 1 .. q.len
        /\ k \in 0 .. p.len /\ k \in 0 .. q.len
    BY <1>4, <2>5
  <2>7. s[k + 1] = p.buf[k] /\ t[k + 1] = q.buf[k]
    BY <1>1, <2>6
  <2>8. s[k + 1] \in Int /\ t[k + 1] \in Int /\ c = s[k + 1] - t[k + 1]
    BY <1>2, <2>4, <2>6, <2>7
  <2>9. \A i \in 1 .. k : s[i] = t[i]
    <3> TAKE i \in 1 .. k
    <3>1. i - 1 \in 0 .. m - 1 /\ ~(k <= i - 1) /\ (i - 1) + 1 = i
      BY <1>4, <2>5
    <3>2. QED
      BY <1>6, <2>2, <3>1
  <2>10. ASSUME c < 0 PROVE Abstract!Before(s, t)
    <3>1. k \in 0 .. q.len - 1 /\ k < p.len /\ s[k + 1] < t[k + 1]
      BY <1>4, <2>5, <2>8, <2>10
    <3>2. QED
      BY <1>7, <2>9, <3>1
  <2>11. ASSUME Abstract!Before(s, t) PROVE c < 0
    <3>1. PICK n \in 0 .. q.len - 1 :
               /\ \A i \in 1 .. n : i <= p.len /\ s[i] = t[i]
               /\ n = p.len \/ (n < p.len /\ s[n + 1] < t[n + 1])
      BY <1>8, <2>11
    <3>2. ~(k + 1 \in 1 .. n)
      BY <2>5, <3>1
    <3>3. n <= k
      BY <2>5, <3>2
    <3>4. n < p.len /\ s[n + 1] < t[n + 1]
      BY <1>4, <2>5, <3>1, <3>3
    <3>5. n \in 0 .. m - 1 /\ s[n + 1] # t[n + 1]
      <4>1. n \in 0 .. m - 1
        BY <1>4, <2>5, <3>3
      <4>2. s[n + 1] \in Int
        BY <1>a, <3>1, <3>4
      <4>3. QED
        BY <3>4, <4>1, <4>2
    <3>6. k <= n
      BY <1>6, <2>2, <3>5
    <3>7. n = k
      BY <2>5, <3>3, <3>6
    <3>8. QED
      BY <2>8, <3>4, <3>7
  <2>12. c # 0
    BY <2>5, <2>8
  <2>13. s # t
    BY <2>5
  <2>14. QED
    BY <2>10, <2>11, <2>12, <2>13 DEF s, t
<1>11. QED
  BY <1>9, <1>10

LEMMA IInvReads == IInv => ReadAsStrings
<1> SUFFICES ASSUME IInv PROVE ReadAsStrings
  OBVIOUS
<1>1. \A v \in Held : /\ Typed(Of(v)) /\ sdslen(v) \in Nat
                      /\ sdslen(v) = Of(v).len /\ Text(v) = StringOf(Of(v))
  BY DEF IInv, Bytes, Shapes, sdslen, Text, StringOf
<1>2. WrittenAndTerminated
  BY <1>1, SdsAssumption DEF WrittenAndTerminated, Typed, JUNK
<1>3. ASSUME NEW v \in Held, NEW w \in Held
      PROVE  /\ sdscmp(v, w) < 0 <=> Abstract!Before(Text(v), Text(w))
             /\ sdscmp(v, w) = 0 <=> Text(v) = Text(w)
  <2>1. PICK p, q : p = Of(v) /\ q = Of(w)
    OBVIOUS
  <2>2. /\ p.len \in Nat /\ q.len \in Nat /\ Typed(p) /\ Typed(q)
        /\ Text(v) = StringOf(p) /\ Text(w) = StringOf(q)
    BY <1>1, <2>1
  <2>3. sdscmp(v, w) =
          IF Differ(p, q) = {} THEN p.len - q.len
          ELSE p.buf[Min(Differ(p, q))] - q.buf[Min(Differ(p, q))]
    BY <2>1, Zenon DEF sdscmp, sdslen, Differ
  <2>4. QED
    BY <2>2, <2>3, CompareIs
<1>4. QED
  BY <1>2, <1>3 DEF ReadAsStrings, ComparesAsStrings

-----------------------------------------------------------------------------
(* The strings the headers hold.                                           *)

LEMMA NoBytes ==
  ASSUME NEW h, h.len = 0 PROVE StringOf(h) = <<>>
BY DEF StringOf

\* sdsnewlen makes the string of its n bytes.
LEMMA NewString ==
  ASSUME NEW init \in Seq(Byte), NEW n \in Nat, n = Len(init)
  PROVE  StringOf(NewHdr(init, n)) = init
<1> DEFINE h == NewHdr(init, n)
<1>1. h.len = n /\ \A i \in 0 .. n - 1 : h.buf[i] = init[i + 1]
  <2>1. init # NULL
    BY SdsAssumption
  <2>2. QED
    BY <2>1 DEF NewHdr
<1>2. \A i \in 1 .. n : init[i] \in Byte
  BY ElementOfSeq
<1>3. Typed(h) /\ h.len \in Nat
  BY <1>1, <1>2, NewTyped
<1> HIDE DEF h
<1>4. \A i \in 1 .. n : i - 1 \in 0 .. n - 1 /\ (i - 1) + 1 = i
  OBVIOUS
<1>5. \A i \in 1 .. n : StringOf(h)[i] = init[i]
  BY <1>1, <1>3, <1>4, StringOfTyped
<1>6. StringOf(h) \in Seq(Byte) /\ Len(StringOf(h)) = n
  BY <1>1, <1>3, StringOfTyped
<1>7. StringOf(h) = init
  BY <1>5, <1>6, SeqEqual
<1>8. QED
  BY <1>7 DEF h

LEMMA ZerosString ==
  ASSUME NEW n \in Nat
  PROVE  StringOf(NewHdr(NULL, n)) = [i \in 1 .. n |-> 0]
<1>1. \A i \in 1 .. n : i - 1 \in 0 .. n
  OBVIOUS
<1>2. QED
  BY <1>1 DEF StringOf, NewHdr

\* Bytes written behind those of the string are appended to it.
LEMMA AppendedString ==
  ASSUME NEW old, Sound(old), Typed(old), NEW newroom \in Nat,
         NEW t \in Seq(Byte), old.len + Len(t) <= newroom
  PROVE  StringOf(WrittenHdr(old, newroom, old.len, t)) = StringOf(old) \o t
<1> DEFINE h == WrittenHdr(old, newroom, old.len, t)
<1>1. old.len \in Nat /\ Len(t) \in Nat /\ old.len <= Room(old)
  BY LenProperties DEF Sound, Room
<1>2. Typed(h)
  BY <1>1, WrittenTyped
<1>3. h.len = old.len + Len(t)
  BY DEF WrittenHdr
<1>4. \A i \in 0 .. h.len - 1 :
        h.buf[i] = IF i < old.len THEN old.buf[i] ELSE t[i - old.len + 1]
  <2> TAKE i \in 0 .. h.len - 1
  <2>1. i \in 0 .. newroom /\ i # old.len + Len(t)
        /\ (i < old.len => i \notin old.len .. old.len + Len(t) - 1 /\ i <= Room(old))
        /\ (~ (i < old.len) => i \in old.len .. old.len + Len(t) - 1)
    <3>1. PICK m, k, r : m = Len(t) /\ k = old.len /\ r = Room(old)
      OBVIOUS
    <3>2. i \in 0 .. k + m - 1 /\ k + m <= newroom /\ k \in Nat /\ m \in Nat
      BY <1>1, <1>3, <3>1
    <3>3. k <= r /\ r \in Nat
      BY <1>1, <3>1 DEF Sound, Room
    <3>4. /\ i \in 0 .. newroom /\ i # k + m
          /\ i < k => i \notin k .. k + m - 1 /\ i <= r
          /\ ~ (i < k) => i \in k .. k + m - 1
      BY <3>2, <3>3
    <3>5. QED
      BY <3>1, <3>4
  <2>2. QED
    BY <2>1 DEF WrittenHdr
<1> HIDE DEF h
<1>5. StringOf(h) \in Seq(Byte) /\ Len(StringOf(h)) = h.len
      /\ \A i \in 1 .. h.len : StringOf(h)[i] = h.buf[i - 1]
  BY <1>1, <1>2, <1>3, StringOfTyped
<1>6. StringOf(old) \in Seq(Byte) /\ Len(StringOf(old)) = old.len
      /\ \A i \in 1 .. old.len : StringOf(old)[i] = old.buf[i - 1]
  BY <1>1, StringOfTyped
<1>7. PICK s : s = StringOf(old)
  OBVIOUS
<1>8. /\ s \o t \in Seq(Byte)
      /\ Len(s \o t) = old.len + Len(t)
      /\ \A i \in 1 .. old.len + Len(t) :
           (s \o t)[i] = IF i <= old.len THEN s[i] ELSE t[i - old.len]
  BY <1>6, <1>7, ConcatProperties
<1>9. \A i \in 1 .. h.len : StringOf(h)[i] = (s \o t)[i]
  <2> TAKE i \in 1 .. h.len
  <2>1. i - 1 \in 0 .. h.len - 1 /\ i \in 1 .. old.len + Len(t)
        /\ (i - 1 < old.len <=> i <= old.len) /\ i - 1 - old.len + 1 = i - old.len
    BY <1>1, <1>3
  <2>2. StringOf(h)[i] = IF i - 1 < old.len THEN old.buf[i - 1]
                         ELSE t[i - 1 - old.len + 1]
    BY <1>4, <1>5, <2>1
  <2>3. i <= old.len => s[i] = old.buf[i - 1]
    BY <1>1, <1>6, <1>7
  <2>4. (s \o t)[i] = IF i <= old.len THEN s[i] ELSE t[i - old.len]
    BY <1>8, <2>1
  <2>5. QED
    BY <2>1, <2>2, <2>3, <2>4
<1>10. StringOf(h) = s \o t
  BY <1>3, <1>5, <1>8, <1>9, SeqEqual
<1>11. QED
  BY <1>7, <1>10 DEF h

\* Bytes written at the front are the string.
LEMMA CopiedString ==
  ASSUME NEW old, Sound(old), Typed(old), NEW newroom \in Nat,
         NEW t \in Seq(Byte), 0 + Len(t) <= newroom
  PROVE  StringOf(WrittenHdr(old, newroom, 0, t)) = t
<1> DEFINE h == WrittenHdr(old, newroom, 0, t)
<1>1. old.len \in Nat /\ Len(t) \in Nat
  BY LenProperties DEF Sound
<1>2. Typed(h)
  BY <1>1, WrittenTyped
<1>3. h.len = Len(t)
  BY <1>1 DEF WrittenHdr
<1>4. \A i \in 0 .. h.len - 1 : h.buf[i] = t[i + 1]
  <2> TAKE i \in 0 .. h.len - 1
  <2>1. i \in 0 .. newroom /\ i \in 0 .. 0 + Len(t) - 1 /\ i - 0 + 1 = i + 1
    BY <1>1, <1>3
  <2>2. QED
    BY <2>1 DEF WrittenHdr
<1> HIDE DEF h
<1>5. StringOf(h) \in Seq(Byte) /\ Len(StringOf(h)) = h.len
      /\ \A i \in 1 .. h.len : StringOf(h)[i] = h.buf[i - 1]
  BY <1>1, <1>2, <1>3, StringOfTyped
<1>6. \A i \in 1 .. h.len : i - 1 \in 0 .. h.len - 1 /\ (i - 1) + 1 = i
  BY <1>1, <1>3
<1>7. \A i \in 1 .. h.len : StringOf(h)[i] = t[i]
  BY <1>4, <1>5, <1>6
<1>8. StringOf(h) = t
  BY <1>3, <1>5, <1>7, SeqEqual
<1>9. QED
  BY <1>8 DEF h

\* Bytes kept are a part of the string.
LEMMA KeptString ==
  ASSUME NEW old, Sound(old), Typed(old), NEW from \in Nat, NEW n \in Nat,
         n > 0, from + n <= old.len
  PROVE  StringOf(KeptHdr(old, from, n))
           = SubSeq(StringOf(old), from + 1, from + n)
<1> DEFINE h == KeptHdr(old, from, n)
<1>1. old.len \in Nat /\ Room(old) \in Nat /\ old.len <= Room(old)
  BY DEF Sound, Room
<1>2. Typed(h)
  BY <1>1, KeptTyped
<1>3. h.len = n /\ \A i \in 0 .. n - 1 : h.buf[i] = old.buf[from + i]
  <2>1. \A i \in 0 .. n - 1 : i \in 0 .. Room(old) /\ i < n
    BY <1>1
  <2>2. QED
    BY <2>1 DEF KeptHdr
<1> HIDE DEF h
<1>4. StringOf(h) \in Seq(Byte) /\ Len(StringOf(h)) = n
      /\ \A i \in 1 .. n : StringOf(h)[i] = h.buf[i - 1]
  BY <1>2, <1>3, StringOfTyped
<1>5. PICK s : s = StringOf(old)
  OBVIOUS
<1>6. \A i \in 1 .. old.len : s[i] = old.buf[i - 1] /\ s[i] \in Byte
  BY <1>1, <1>5, StringOfTyped
<1>7. PICK a, b : a = from + 1 /\ b = from + n
  OBVIOUS
<1>8. /\ SubSeq(s, a, b) \in Seq(Byte)
      /\ Len(SubSeq(s, a, b)) = IF a <= b THEN b - a + 1 ELSE 0
      /\ \A i \in 1 .. b - a + 1 : SubSeq(s, a, b)[i] = s[a + i - 1]
  <2>1. a \in Int /\ b \in Int /\ \A i \in a .. b : s[i] \in Byte
    BY <1>1, <1>6, <1>7
  <2>2. QED
    BY <2>1, SubSeqProperties
<1>9. Len(SubSeq(s, a, b)) = n /\ b - a + 1 = n
  BY <1>7, <1>8
<1>10. \A i \in 1 .. n : StringOf(h)[i] = SubSeq(s, a, b)[i]
  <2> TAKE i \in 1 .. n
  <2>1. i - 1 \in 0 .. n - 1 /\ a + i - 1 \in 1 .. old.len
        /\ (a + i - 1) - 1 = from + (i - 1)
    BY <1>1, <1>7
  <2>2. StringOf(h)[i] = old.buf[from + (i - 1)]
    BY <1>3, <1>4, <2>1
  <2>3. s[a + i - 1] = old.buf[from + (i - 1)]
    BY <1>6, <2>1
  <2>4. SubSeq(s, a, b)[i] = s[a + i - 1]
    BY <1>8, <1>9
  <2>5. QED
    BY <2>2, <2>3, <2>4
<1>11. StringOf(h) = SubSeq(s, a, b)
  BY <1>4, <1>8, <1>9, <1>10, SeqEqual
<1>12. QED
  BY <1>5, <1>7, <1>11 DEF h

\* A string whose case changes.
LEMMA CasedString ==
  ASSUME NEW old, Sound(old), Typed(old), NEW change
  PROVE  StringOf(CasedHdr(old, change))
           = [i \in DOMAIN StringOf(old) |-> change[StringOf(old)[i]]]
<1>1. old.len \in Nat /\ DOMAIN old.buf = 0 .. Room(old)
      /\ old.len <= Room(old) /\ Room(old) \in Nat
  BY DEF Sound, Room
<1>2. /\ DOMAIN StringOf(old) = 1 .. old.len
      /\ \A i \in 1 .. old.len : StringOf(old)[i] = old.buf[i - 1]
  BY <1>1, StringOfTyped
<1>3. \A i \in 1 .. old.len : i - 1 \in 0 .. Room(old) /\ i - 1 < old.len
  BY <1>1
<1>4. \A i \in 1 .. old.len :
        CasedHdr(old, change).buf[i - 1] = change[StringOf(old)[i]]
  BY <1>1, <1>2, <1>3 DEF CasedHdr
<1>5. StringOf(CasedHdr(old, change))
        = [i \in 1 .. old.len |-> CasedHdr(old, change).buf[i - 1]]
  BY DEF StringOf, CasedHdr
<1>6. QED
  BY <1>2, <1>4, <1>5

\* ByteStrings has the same least and greatest elements.
LEMMA SameMinMax ==
  ASSUME NEW S PROVE Abstract!Min(S) = Min(S) /\ Abstract!Max(S) = Max(S)
BY Zenon DEF Abstract!Min, Abstract!Max, Min, Max

\* What the two scans of sdstrim leave is what Trimmed keeps, when the byte
\* behind the string is its terminator.
LEMMA TrimmedString ==
  ASSUME NEW old, Sound(old), Typed(old), old.buf[old.len] = 0, NEW cset,
         NEW sp \in 0 .. old.len + 1, NEW ep \in 0 .. old.len,
         \A i \in 0 .. sp - 1 : old.buf[i] \in cset \cup {0},
         sp <= old.len => old.buf[sp] \notin cset \cup {0},
         \A i \in ep + 1 .. old.len : old.buf[i] \in cset \cup {0},
         ep > 0 => old.buf[ep] \notin cset \cup {0},
         NEW n, n = IF sp > ep THEN 0 ELSE ep - sp + 1
  PROVE  StringOf(KeptHdr(old, sp, n)) = Abstract!Trimmed(StringOf(old), cset)
<1>1. PICK s : s = StringOf(old)
  OBVIOUS
<1>2. old.len \in Nat
  BY DEF Sound
<1>3. DOMAIN s = 1 .. old.len /\ \A i \in 1 .. old.len : s[i] = old.buf[i - 1]
  BY <1>1, <1>2, StringOfTyped
<1>4. PICK kept : kept = {i \in DOMAIN s : s[i] \notin cset \cup {0}}
  OBVIOUS
<1>5. \A i : i \in kept <=>
        i \in 1 .. old.len /\ old.buf[i - 1] \notin cset \cup {0}
  BY <1>3, <1>4
<1>6. Abstract!Trimmed(s, cset)
        = IF kept = {} THEN <<>> ELSE SubSeq(s, Min(kept), Max(kept))
  <2>1. Abstract!Trimmed(s, cset)
          = IF kept = {} THEN <<>>
            ELSE SubSeq(s, Abstract!Min(kept), Abstract!Max(kept))
    BY <1>4, Zenon DEF Abstract!Trimmed
  <2>2. QED
    BY <2>1, SameMinMax, Zenon
<1>7. CASE sp > ep
  <2>1. \A i \in 0 .. old.len : i \in 0 .. sp - 1 \/ i \in ep + 1 .. old.len
    BY <1>2, <1>7
  <2>2. \A i \in 0 .. old.len : old.buf[i] \in cset \cup {0}
    BY <2>1
  <2>3. \A i \in 1 .. old.len : i - 1 \in 0 .. old.len
    BY <1>2
  <2>4. kept = {}
    BY <1>5, <2>2, <2>3
  <2>5. KeptHdr(old, sp, n).len = 0
    BY <1>7 DEF KeptHdr
  <2>6. QED
    BY <1>1, <1>6, <2>4, <2>5, NoBytes
<1>8. CASE sp <= ep
  <2>1. old.buf[sp] \notin cset \cup {0} /\ sp < old.len
    <3>1. sp <= old.len /\ sp \in Nat
      BY <1>2, <1>8
    <3>2. old.buf[sp] \notin cset \cup {0}
      BY <3>1
    <3>3. sp # old.len
      BY <3>2
    <3>4. QED
      BY <1>2, <3>1, <3>2, <3>3
  <2>2. old.buf[ep] \notin cset \cup {0} /\ ep < old.len
    <3>1. old.buf[ep] \notin cset \cup {0}
      <4>1. CASE ep > 0
        BY <4>1
      <4>2. CASE ~ (ep > 0)
        <5>1. sp = ep
          BY <1>2, <1>8, <4>2
        <5>2. QED
          BY <2>1, <5>1
      <4>3. QED
        BY <4>1, <4>2
    <3>2. ep # old.len
      BY <3>1
    <3>3. QED
      BY <1>2, <3>1, <3>2
  <2>3. sp + 1 \in kept /\ ep + 1 \in kept
    <3>1. /\ sp + 1 \in 1 .. old.len /\ (sp + 1) - 1 = sp
          /\ ep + 1 \in 1 .. old.len /\ (ep + 1) - 1 = ep
      BY <1>2, <2>1, <2>2
    <3>2. QED
      BY <1>5, <2>1, <2>2, <3>1
  <2>4. \A k \in kept : sp + 1 <= k /\ k <= ep + 1
    <3> TAKE k \in kept
    <3>1. k \in 1 .. old.len /\ k - 1 \notin 0 .. sp - 1
          /\ k - 1 \notin ep + 1 .. old.len
      BY <1>5
    <3>2. QED
      BY <1>2, <3>1
  <2>5. kept \in SUBSET Int /\ kept # {}
    BY <1>3, <1>4, <2>3
  <2>6. PICK lo, hi : lo = sp + 1 /\ hi = ep + 1
    OBVIOUS
  <2>7. Min(kept) = lo /\ Max(kept) = hi
    <3>1. lo \in kept /\ hi \in kept /\ (\A k \in kept : lo <= k)
      BY <2>3, <2>4, <2>6
    <3>2. \A k \in kept : hi >= k
      BY <1>2, <2>4, <2>5, <2>6
    <3>3. QED
      BY <2>5, <3>1, <3>2, MinIs, MaxIs
  <2>8. n \in Nat /\ n > 0 /\ sp + n = hi /\ sp + n <= old.len /\ sp \in Nat
    BY <1>2, <1>8, <2>2, <2>6
  <2>9. StringOf(KeptHdr(old, sp, n)) = SubSeq(s, sp + 1, sp + n)
    BY <1>1, <2>8, KeptString, SMTT(30)
  <2>10. QED
    BY <1>1, <1>6, <2>5, <2>6, <2>7, <2>8, <2>9
<1>9. QED
  BY <1>2, <1>7, <1>8

-----------------------------------------------------------------------------
(* The calls make the strings ByteStrings says.                            *)

\* What the variables hold, as ByteStrings sees it.
Strs == [v \in Var |-> IF var[v] = NULL THEN NULL ELSE Text(v)]

LEMMA TextIsString == \A v \in Var : Text(v) = StringOf(Of(v))
BY DEF Text, StringOf, sdslen

LEMMA HeldString ==
  ASSUME IInv, NEW v \in Var, Holds(v)
  PROVE  /\ Strs[v] = StringOf(Of(v)) /\ StringOf(Of(v)) \in Seq(Byte)
         /\ v \in Abstract!Held
         /\ sdslen(v) = Of(v).len /\ Of(v).len \in Nat
         /\ Len(StringOf(Of(v))) = Of(v).len
<1>1. /\ sdslen(v) = Of(v).len /\ Of(v).len \in Nat /\ Typed(Of(v))
      /\ var[v] # NULL
  BY HeldIsSound DEF Sound, sdslen, Holds
<1>2. /\ StringOf(Of(v)) \in Seq(Byte)
      /\ Len(StringOf(Of(v))) = Of(v).len
  BY <1>1, StringOfTyped
<1>3. Strs[v] = StringOf(Of(v))
  BY <1>1, TextIsString DEF Strs
<1>4. Strs[v] # NULL
  BY <1>2, <1>3, SdsAssumption
<1>5. v \in Abstract!Held
  BY <1>4, Zenon DEF Abstract!Held, Strs
<1>6. QED
  BY <1>1, <1>2, <1>3, <1>5

\* A call that places a header gives its variable the string of it.
LEMMA PlacesString ==
  ASSUME IInv, NEW v \in Var, NEW b \in Addr, NEW h, Places(v, b, h)
  PROVE  Strs' = [Strs EXCEPT ![v] = StringOf(h)]
<1>1. /\ var'[v] = b /\ \A w \in Var \ {v} : var'[w] = var[w]
      /\ Held' = Held \cup {v} /\ Of(v)' = h
      /\ \A w \in Held' : w # v => Of(w)' = Of(w)
  BY PlacesOthers
<1>2. b # NULL
  BY SdsAssumption
<1>3. \A w \in Var : Text(w)' = StringOf(Of(w)')
  BY DEF Text, StringOf, sdslen, Of
<1>4. Strs' = [w \in Var |-> IF var'[w] = NULL THEN NULL ELSE Text(w)']
  BY DEF Strs
<1>5. Strs'[v] = StringOf(h)
  BY <1>1, <1>2, <1>3, <1>4
<1>6. ASSUME NEW w \in Var, w # v PROVE Strs'[w] = Strs[w]
  <2>1. var'[w] = var[w]
    BY <1>1, <1>6
  <2>2. CASE var[w] = NULL
    BY <1>4, <2>1, <2>2 DEF Strs
  <2>3. CASE var[w] # NULL
    <3>1. w \in Held' /\ Of(w)' = Of(w)
      BY <1>1, <1>6, <2>1, <2>3 DEF Held
    <3>2. Text(w)' = Text(w)
      BY <1>3, <3>1, TextIsString
    <3>3. QED
      BY <1>4, <2>1, <2>3, <3>2 DEF Strs
  <2>4. QED
    BY <2>2, <2>3
<1>7. Strs' = [w \in Var |-> Strs'[w]] /\ Strs = [w \in Var |-> Strs[w]]
  BY <1>4 DEF Strs
<1>8. QED
  BY <1>5, <1>6, <1>7

\* The same string in an equal variable: what New, Extend, ... ask for.
LEMMA CatIsExtend ==
  ASSUME IInv, NEW v \in Var, NEW b \in Addr, NEW t \in Literals,
         sdscatlen(v, b, t)
  PROVE  Abstract!Extend(v, t)
<1>1. Holds(v)
  BY DEF sdscatlen
<1>2. PICK old : old = Of(v)
  OBVIOUS
<1>3. /\ Sound(old) /\ Typed(old) /\ sdslen(v) = old.len
      /\ Strs[v] = StringOf(old)
  BY <1>1, <1>2, HeldIsSound, HeldString
<1>4. PICK newroom \in Nat :
        /\ old.len + Len(t) <= newroom
        /\ Places(v, b, WrittenHdr(old, newroom, old.len, t))
  BY <1>2, <1>3, CatPlaces
<1>5. StringOf(WrittenHdr(old, newroom, old.len, t)) = Strs[v] \o t
  BY <1>3, <1>4, LiteralsAreStrings, AppendedString
<1>6. Strs' = [Strs EXCEPT ![v] = Strs[v] \o t]
  BY <1>4, <1>5, PlacesString
<1>7. QED
  BY <1>6, Zenon DEF Abstract!Extend, Strs

LEMMA CpyIsCopy ==
  ASSUME IInv, NEW v \in Var, NEW b \in Addr, NEW t \in Literals,
         sdscpylen(v, b, t)
  PROVE  Abstract!Copy(v, t)
<1>1. Holds(v)
  BY DEF sdscpylen
<1>2. PICK old : old = Of(v)
  OBVIOUS
<1>3. Sound(old) /\ Typed(old)
  BY <1>1, <1>2, HeldIsSound
<1>4. PICK newroom \in Nat : /\ 0 + Len(t) <= newroom
                             /\ Places(v, b, WrittenHdr(old, newroom, 0, t))
  BY <1>2, CpyPlaces
<1>5. StringOf(WrittenHdr(old, newroom, 0, t)) = t
  BY <1>3, <1>4, LiteralsAreStrings, CopiedString
<1>6. Strs' = [Strs EXCEPT ![v] = t]
  BY <1>4, <1>5, PlacesString
<1>7. QED
  BY <1>6, Zenon DEF Abstract!Copy, Strs

\* Unless the string was just cleared, its terminator stops the scans.
LEMMA TrimIsTrim ==
  ASSUME IInv, ~ TrimCleared, NEW v \in Var, NEW cset, sdstrim(v, cset)
  PROVE  Abstract!Trim(v, cset)
<1>1. Holds(v) /\ Of(v).buf[sdslen(v)] = 0
  BY DEF sdstrim
<1>2. PICK old : old = Of(v)
  OBVIOUS
<1>3. /\ Sound(old) /\ Typed(old) /\ sdslen(v) = old.len
      /\ Strs[v] = StringOf(old) /\ var[v] \in Addr
  BY <1>1, <1>2, HeldIsSound, HeldString
<1>4. PICK sp \in 0 .. old.len + 1, ep \in 0 .. old.len :
        /\ TrimStops(v, cset, sp, ep)
        /\ LET n == IF sp > ep THEN 0 ELSE ep - sp + 1 IN
           Places(v, var[v], KeptHdr(old, sp, n))
  BY <1>2, <1>3, TrimPlaces
<1>5. PICK n : n = IF sp > ep THEN 0 ELSE ep - sp + 1
  OBVIOUS
<1>6. Places(v, var[v], KeptHdr(old, sp, n))
  BY <1>4, <1>5
<1>7. /\ \A i \in 0 .. sp - 1 : old.buf[i] \in cset \cup {0}
      /\ sp <= old.len => old.buf[sp] \notin cset \cup {0}
      /\ \A i \in ep + 1 .. old.len : old.buf[i] \in cset \cup {0}
      /\ ep > 0 => old.buf[ep] \notin cset \cup {0}
  BY <1>2, <1>3, <1>4 DEF TrimStops
<1>8. old.buf[old.len] = 0
  BY <1>1, <1>2, <1>3
<1>9. StringOf(KeptHdr(old, sp, n)) = Abstract!Trimmed(Strs[v], cset)
  <2>1. StringOf(KeptHdr(old, sp, n)) = Abstract!Trimmed(StringOf(old), cset)
    BY <1>3, <1>4, <1>5, <1>7, <1>8, TrimmedString
  <2>2. QED
    BY <1>3, <2>1
<1>10. Strs' = [Strs EXCEPT ![v] = Abstract!Trimmed(Strs[v], cset)]
  BY <1>3, <1>6, <1>9, PlacesString
<1>11. QED
  BY <1>10, Zenon DEF Abstract!Trim, Strs

LEMMA RangeIsSlice ==
  ASSUME IInv, NEW v \in Var, NEW start \in Int, NEW end \in Int,
         sdsrange(v, start, end)
  PROVE  Abstract!Slice(v, start, end)
<1>1. Holds(v)
  BY DEF sdsrange
<1>2. PICK old, s, e : /\ old = Of(v)
                       /\ s = BackIndex(v, start) /\ e = BackIndex(v, end)
  OBVIOUS
<1>3. /\ Sound(old) /\ Typed(old) /\ sdslen(v) = old.len /\ old.len \in Nat
      /\ Strs[v] = StringOf(old) /\ var[v] \in Addr
      /\ Len(StringOf(old)) = old.len
  BY <1>1, <1>2, HeldIsSound, HeldString
<1>4. PICK n : n = IF s > e THEN 0 ELSE e - s + 1
  OBVIOUS
<1>5. /\ s \in Nat /\ e \in Nat /\ e < old.len
      /\ Places(v, var[v], KeptHdr(old, s, n))
  BY <1>2, <1>3, <1>4, RangePlaces
<1>6. ASSUME NEW i \in Int PROVE Abstract!From(Strs[v], i) = BackIndex(v, i)
  <2>1. PICK l : l = old.len
    OBVIOUS
  <2>2. Abstract!From(Strs[v], i)
          = IF i >= 0 THEN i ELSE Abstract!Max({0, l + i})
    BY <1>3, <2>1 DEF Abstract!From
  <2>3. l + i >= 0 => Max({0, l + i}) = l + i
    BY <1>3, <2>1, MaxOfTwo
  <2>4. 0 >= l + i => Max({0, l + i}) = 0
    BY <1>3, <2>1, MaxOfTwo
  <2>5. Abstract!Max({0, l + i}) = Max({0, l + i})
    BY SameMinMax
  <2>6. BackIndex(v, i) = IF i >= 0 THEN i ELSE IF i + l < 0 THEN 0 ELSE i + l
    BY <1>3, <2>1 DEF BackIndex
  <2>7. QED
    BY <1>3, <2>1, <2>2, <2>3, <2>4, <2>5, <2>6
<1>7. Abstract!From(Strs[v], start) = s /\ Abstract!From(Strs[v], end) = e
  BY <1>2, <1>6
<1>8. Abstract!Min({Len(Strs[v]), e + 1}) = e + 1
  <2>1. PICK l, m : l = old.len /\ m = e + 1
    OBVIOUS
  <2>2. l \in Int /\ m \in Int /\ m <= l
    BY <1>3, <1>5, <2>1
  <2>3. Min({l, m}) = m
    BY <2>2, MinOfTwo
  <2>4. QED
    BY <1>3, <2>1, <2>3, SameMinMax
<1>9. StringOf(KeptHdr(old, s, n)) = SubSeq(Strs[v], s + 1, e + 1)
  <2>1. CASE s > e
    <3>1. KeptHdr(old, s, n).len = 0
      BY <1>4, <2>1 DEF KeptHdr
    <3>2. s + 1 \in Int /\ e + 1 \in Int /\ e + 1 < s + 1
      BY <1>5, <2>1
    <3>3. SubSeq(Strs[v], s + 1, e + 1) = <<>>
      BY <3>2, SubSeqEmpty
    <3>4. QED
      BY <3>1, <3>3, NoBytes
  <2>2. CASE s <= e
    <3>1. n \in Nat /\ n > 0 /\ s + n = e + 1 /\ s + n <= old.len
      BY <1>3, <1>4, <1>5, <2>2
    <3>2. StringOf(KeptHdr(old, s, n)) = SubSeq(Strs[v], s + 1, s + n)
      BY <1>3, <1>5, <3>1, KeptString
    <3>3. QED
      BY <3>1, <3>2
  <2>3. QED
    BY <1>5, <2>1, <2>2
<1>10. Strs' = [Strs EXCEPT ![v] = SubSeq(Strs[v], s + 1, e + 1)]
  BY <1>3, <1>5, <1>9, PlacesString
<1>11. Strs' = [Strs EXCEPT ![v] =
          SubSeq(Strs[v], Abstract!From(Strs[v], start) + 1,
                 Abstract!Min({Len(Strs[v]), Abstract!From(Strs[v], end) + 1}))]
  BY <1>7, <1>8, <1>10
<1>12. QED
  BY <1>11, Zenon DEF Abstract!Slice, Strs

LEMMA ClearIsClear ==
  ASSUME IInv, NEW v \in Var, sdsclear(v) PROVE Abstract!Clear(v)
<1>1. Places(v, var[v], ClearedHdr(Of(v))) /\ var[v] \in Addr
  BY ClearPlaces, HeldIsSound DEF sdsclear
<1>2. StringOf(ClearedHdr(Of(v))) = <<>>
  BY NoBytes DEF ClearedHdr
<1>3. Strs' = [Strs EXCEPT ![v] = <<>>]
  BY <1>1, <1>2, PlacesString
<1>4. QED
  BY <1>3, Zenon DEF Abstract!Clear, Strs

LEMMA CaseIsCase ==
  ASSUME IInv, NEW v \in Var, NEW change, ChangeCase(v, change)
  PROVE  Strs' = [Strs EXCEPT ![v] =
                    [i \in DOMAIN Strs[v] |-> change[Strs[v][i]]]]
<1>1. Holds(v)
  BY DEF ChangeCase
<1>2. PICK old : old = Of(v)
  OBVIOUS
<1>3. /\ Sound(old) /\ Typed(old) /\ Strs[v] = StringOf(old) /\ var[v] \in Addr
  BY <1>1, <1>2, HeldIsSound, HeldString
<1>4. Places(v, var[v], CasedHdr(old, change))
  BY <1>2, CasePlaces
<1>5. StringOf(CasedHdr(old, change))
        = [i \in DOMAIN Strs[v] |-> change[Strs[v][i]]]
  BY <1>3, CasedString
<1>6. QED
  BY <1>3, <1>4, <1>5, PlacesString

LEMMA LowerUpper ==
  ASSUME IInv, NEW v \in Var
  PROVE  /\ sdstolower(v) => Abstract!Lower(v)
         /\ sdstoupper(v) => Abstract!Upper(v)
<1>1. ASSUME Holds(v) PROVE \A i \in DOMAIN Strs[v] : Strs[v][i] \in Byte
  BY <1>1, HeldString, HeldIsSound, StringOfTyped
<1>2. ASSUME sdstolower(v) PROVE Abstract!Lower(v)
  <2>1. PICK s : s = Strs[v]
    OBVIOUS
  <2>2. \A i \in DOMAIN s : s[i] \in Byte
    BY <1>1, <1>2, <2>1 DEF sdstolower, ChangeCase
  <2>3. \A i \in DOMAIN s : tolower[s[i]] = Abstract!ToLower(s[i])
    BY <2>2 DEF tolower, Abstract!ToLower
  <2>4. Strs' = [Strs EXCEPT ![v] = [i \in DOMAIN s |-> tolower[s[i]]]]
    BY <1>2, <2>1, CaseIsCase DEF sdstolower
  <2>5. Strs' = [Strs EXCEPT ![v] =
                   [i \in DOMAIN Strs[v] |-> Abstract!ToLower(Strs[v][i])]]
    BY <2>1, <2>3, <2>4
  <2>6. QED
    BY <2>5, Zenon DEF Abstract!Lower, Strs
<1>3. ASSUME sdstoupper(v) PROVE Abstract!Upper(v)
  <2>1. PICK s : s = Strs[v]
    OBVIOUS
  <2>2. \A i \in DOMAIN s : s[i] \in Byte
    BY <1>1, <1>3, <2>1 DEF sdstoupper, ChangeCase
  <2>3. \A i \in DOMAIN s : toupper[s[i]] = Abstract!ToUpper(s[i])
    BY <2>2 DEF toupper, Abstract!ToUpper
  <2>4. Strs' = [Strs EXCEPT ![v] = [i \in DOMAIN s |-> toupper[s[i]]]]
    BY <1>3, <2>1, CaseIsCase DEF sdstoupper
  <2>5. Strs' = [Strs EXCEPT ![v] =
                   [i \in DOMAIN Strs[v] |-> Abstract!ToUpper(Strs[v][i])]]
    BY <2>1, <2>3, <2>4
  <2>6. QED
    BY <2>5, Zenon DEF Abstract!Upper, Strs
<1>4. QED
  BY <1>2, <1>3

LEMMA FreeIsFree ==
  ASSUME IInv, NEW v \in Var, sdsfree(v) PROVE Abstract!Free(v)
<1>1. /\ var' = [var EXCEPT ![v] = NULL]
      /\ sh' = [a \in Addr |-> IF a = var[v] THEN Blank ELSE sh[a]]
  BY DEF sdsfree
<1>2. \A w \in Var : Text(w)' = StringOf(Of(w)')
  BY DEF Text, StringOf, sdslen, Of
<1>3. Strs' = [w \in Var |-> IF var'[w] = NULL THEN NULL ELSE Text(w)']
  BY DEF Strs
<1>4. Strs'[v] = NULL
  BY <1>1, <1>3 DEF IInv, Shapes
<1>5. ASSUME NEW w \in Var, w # v PROVE Strs'[w] = Strs[w]
  <2>1. var'[w] = var[w]
    BY <1>1, <1>5 DEF IInv, Shapes
  <2>2. CASE var[w] = NULL
    BY <1>3, <2>1, <2>2 DEF Strs
  <2>3. CASE var[w] # NULL
    <3>1. var[w] \in Addr
      BY <2>3 DEF IInv, Shapes
    <3>2. var[w] # var[v]
      BY <1>5, <2>3, <3>1 DEF IInv, Owned, Held
    <3>3. Of(w)' = Of(w)
      BY <1>1, <2>1, <3>1, <3>2 DEF Of
    <3>4. Text(w)' = Text(w)
      BY <1>2, <3>3, TextIsString
    <3>5. QED
      BY <1>3, <2>1, <2>3, <3>4 DEF Strs
  <2>4. QED
    BY <2>2, <2>3
<1>6. Strs' = [w \in Var |-> Strs'[w]] /\ Strs = [w \in Var |-> Strs[w]]
  BY <1>3 DEF Strs
<1>7. Strs' = [Strs EXCEPT ![v] = NULL]
  BY <1>4, <1>5, <1>6
<1>8. QED
  BY <1>7, Zenon DEF Abstract!Free, Strs

\* A new string is in a variable that held none.
LEMMA NewIsNew ==
  ASSUME IInv, NEW v \in Var, NEW a \in Addr, NEW init, NEW n \in Nat,
         sdsnewlen(v, a, init, n),
         NEW s, s = StringOf(NewHdr(init, n))
  PROVE  /\ Strs' = [Strs EXCEPT ![v] = s] /\ v \notin Abstract!Held
         /\ Abstract!New(v, s)
<1>1. Places(v, a, NewHdr(init, n))
  BY NewPlaces
<1>2. Strs' = [Strs EXCEPT ![v] = s]
  BY <1>1, PlacesString
<1>3. Strs[v] = NULL
  BY DEF sdsnewlen, Strs
<1>4. v \notin Abstract!Held
  BY <1>3, Zenon DEF Abstract!Held, Strs
<1>5. QED
  <2>1. Abstract!New(v, s)
    BY <1>2, <1>4, Zenon DEF Abstract!New, Strs
  <2>2. QED
    BY <1>2, <1>4, <2>1

\* Each call makes the string its arguments ask for.
MakesItsString ==
  \A v \in Var :
    /\ \A a \in Addr, t \in Literals :
          /\ sdscatlen(v, a, t) => Abstract!Extend(v, t)
          /\ sdscpylen(v, a, t) => Abstract!Copy(v, t)
    /\ \A cset \in Csets : sdstrim(v, cset) => Abstract!Trim(v, cset)
    /\ \A start, end \in Indices :
          sdsrange(v, start, end) => Abstract!Slice(v, start, end)

LEMMA IInvMakes == ASSUME ~ TrimCleared, IInv PROVE MakesItsString
<1>1. \A start \in Indices : start \in Int
  BY SdsAssumption
<1>2. QED
  BY <1>1, CatIsExtend, CpyIsCopy, TrimIsTrim, RangeIsSlice DEF MakesItsString

\* A step that changes no variable and no string is a stutter of ByteStrings.
LEMMA StutterString ==
  ASSUME UNCHANGED <<sh, var>> PROVE Strs' = Strs
<1>1. \A w \in Var : Text(w)' = Text(w)
  BY DEF Text, sdslen, Of
<1>2. QED
  BY <1>1 DEF Strs

LEMMA NextImplements ==
  ASSUME ~ TrimCleared, IInv, [Next]_vars
  PROVE  Abstract!Next \/ Strs' = Strs
<1> DEFINE Strings == Literals \cup {<<>>} \cup {[i \in 1 .. n |-> 0] : n \in 1 .. MaxRoom}
<1>a. ASSUME NEW v \in Var, NEW s \in Strings, Abstract!New(v, s)
      PROVE  Abstract!Next
  BY <1>a DEF Abstract!Next
<1>b. ASSUME NEW v \in Var, NEW s \in Strings, Holds(v),
             Abstract!Extend(v, s) \/ Abstract!Copy(v, s)
      PROVE  Abstract!Next
  BY <1>b, HeldString DEF Abstract!Next
<1>c. ASSUME NEW v \in Var, NEW w \in Var, Holds(v), Abstract!Dup(v, w)
      PROVE  Abstract!Next
  BY <1>c, HeldString DEF Abstract!Next
<1>d. ASSUME NEW v \in Var, Holds(v),
             \/ Abstract!Clear(v) \/ Abstract!Lower(v) \/ Abstract!Upper(v)
             \/ Abstract!Free(v)
      PROVE  Abstract!Next
  BY <1>d, HeldString DEF Abstract!Next
<1>e. ASSUME NEW v \in Var, Holds(v), NEW cset \in Csets, Abstract!Trim(v, cset)
      PROVE  Abstract!Next
  BY <1>e, HeldString DEF Abstract!Next
<1>f. ASSUME NEW v \in Var, Holds(v), NEW start \in Indices, NEW end \in Indices,
             Abstract!Slice(v, start, end)
      PROVE  Abstract!Next
  BY <1>f, HeldString DEF Abstract!Next
<1> HIDE DEF Strings
<1>g. <<>> \in Strings /\ \A t \in Literals : t \in Strings
  BY DEF Strings
<1>h. \A n \in 1 .. MaxRoom : [i \in 1 .. n |-> 0] \in Strings
  BY Zenon DEF Strings
<1>i. <<>> \in Seq(Byte) /\ Len(<<>>) = 0
  BY EmptySeq
<1>1. ASSUME NEW v \in Var, NEW a \in Addr, NEW init \in Literals \cup {NULL},
             sdsnew(v, a, init)
      PROVE  Abstract!Next
  <2>1. CASE init = NULL
    <3>1. sdsnewlen(v, a, NULL, 0)
      BY <1>1, <2>1 DEF sdsnew
    <3>2. <<>> = StringOf(NewHdr(NULL, 0))
      BY NoBytes DEF NewHdr
    <3>3. Abstract!New(v, <<>>)
      BY <3>1, <3>2, NewIsNew
    <3>4. QED
      BY <1>a, <1>g, <3>3
  <2>2. CASE init # NULL
    <3>1. PICK n : n = Len(init)
      OBVIOUS
    <3>2. init \in Literals /\ init \in Seq(Byte) /\ n \in Nat
      BY <2>2, <3>1, LiteralsAreStrings
    <3>3. sdsnewlen(v, a, init, n)
      BY <1>1, <2>2, <3>1 DEF sdsnew
    <3>4. StringOf(NewHdr(init, n)) = init
      BY <3>1, <3>2, NewString
    <3>5. Abstract!New(v, init)
      BY <3>2, <3>3, <3>4, NewIsNew
    <3>6. QED
      BY <1>a, <1>g, <3>2, <3>5
  <2>3. QED
    BY <2>1, <2>2
<1>2. ASSUME NEW v \in Var, NEW a \in Addr, NEW n \in 0 .. MaxRoom,
             sdsnewlen(v, a, NULL, n)
      PROVE  Abstract!Next
  <2>1. n \in Nat
    BY SdsAssumption
  <2>2. PICK s : s = StringOf(NewHdr(NULL, n))
    OBVIOUS
  <2>3. Abstract!New(v, s)
    BY <1>2, <2>1, <2>2, NewIsNew
  <2>4. s \in Strings
    <3>1. CASE n = 0
      <4>1. s = <<>>
        BY <2>2, <3>1, NoBytes DEF NewHdr
      <4>2. QED
        BY <1>g, <4>1
    <3>2. CASE n # 0
      <4>1. n \in 1 .. MaxRoom
        BY <2>1, <3>2
      <4>2. s = [i \in 1 .. n |-> 0]
        BY <2>1, <2>2, ZerosString
      <4>3. QED
        BY <1>h, <4>1, <4>2
    <3>3. QED
      BY <3>1, <3>2
  <2>5. QED
    BY <1>a, <2>3, <2>4
<1>3. ASSUME NEW v \in Var, NEW a \in Addr, sdsempty(v, a)
      PROVE  Abstract!Next
  <2>1. sdsnewlen(v, a, <<>>, 0)
    BY <1>3 DEF sdsempty
  <2>2. StringOf(NewHdr(<<>>, 0)) = <<>>
    BY NoBytes DEF NewHdr
  <2>3. Abstract!New(v, <<>>)
    BY <2>1, <2>2, NewIsNew
  <2>4. QED
    BY <1>a, <1>g, <2>3
<1>4. ASSUME NEW v \in Var, NEW a \in Addr, NEW w \in Var, sdsdup(v, w, a)
      PROVE  Abstract!Next
  <2>1. PICK bytes, n : bytes = Text(v) /\ n = sdslen(v)
    OBVIOUS
  <2>2. Holds(v) /\ sdsnewlen(w, a, bytes, n)
    BY <1>4, <2>1 DEF sdsdup, Text
  <2>3. bytes = Strs[v] /\ bytes \in Seq(Byte) /\ Len(bytes) = n /\ n \in Nat
    BY <2>1, <2>2, HeldString, TextIsString
  <2>4. StringOf(NewHdr(bytes, n)) = bytes
    BY <2>3, NewString
  <2>5. Strs' = [Strs EXCEPT ![w] = bytes] /\ w \notin Abstract!Held
    BY <2>2, <2>3, <2>4, NewIsNew
  <2>6. Abstract!Dup(v, w)
    <3>1. Strs' = [Strs EXCEPT ![w] = Strs[v]]
      BY <2>3, <2>5
    <3>2. QED
      BY <2>5, <3>1, Zenon DEF Abstract!Dup, Abstract!New, Strs
  <2>7. QED
    BY <1>c, <2>2, <2>6
<1>5. ASSUME NEW v \in Var, NEW a \in Addr, NEW t \in Literals,
             sdscatlen(v, a, t) \/ sdscpylen(v, a, t)
      PROVE  Abstract!Next
  <2>1. Holds(v)
    BY <1>5 DEF sdscatlen, sdscpylen
  <2>2. QED
    BY <1>5, <2>1, <1>b, <1>g, CatIsExtend, CpyIsCopy
<1>6. ASSUME NEW v \in Var, sdsfree(v)
      PROVE  Abstract!Next \/ Strs' = Strs
  <2>1. Abstract!Free(v) /\ Running
    BY <1>6, FreeIsFree DEF sdsfree
  <2>2. CASE Holds(v)
    BY <2>1, <2>2, <1>d
  <2>3. CASE ~ Holds(v)
    <3>1. var[v] = NULL
      BY <2>1, <2>3 DEF Holds
    <3>2. Strs[v] = NULL
      BY <3>1 DEF Strs
    <3>3. Strs' = [Strs EXCEPT ![v] = NULL]
      BY <2>1, Zenon DEF Abstract!Free, Strs
    <3>4. Strs = [w \in Var |-> Strs[w]]
      BY DEF Strs
    <3>5. Strs' = Strs
      BY <3>2, <3>3, <3>4
    <3>6. QED
      BY <3>5
  <2>4. QED
    BY <2>2, <2>3
<1>7. ASSUME NEW v \in Var, sdsclear(v) \/ sdstolower(v) \/ sdstoupper(v)
      PROVE  Abstract!Next
  <2>1. Holds(v)
    BY <1>7 DEF sdsclear, sdstolower, sdstoupper, ChangeCase
  <2>2. QED
    BY <1>7, <2>1, <1>d, ClearIsClear, LowerUpper
<1>8. ASSUME NEW v \in Var, NEW cset \in Csets, sdstrim(v, cset)
      PROVE  Abstract!Next
  BY <1>8, <1>e, TrimIsTrim DEF sdstrim
<1>9. ASSUME NEW v \in Var, NEW start \in Indices, NEW end \in Indices,
             sdsrange(v, start, end)
      PROVE  Abstract!Next
  <2>1. start \in Int /\ end \in Int
    BY SdsAssumption
  <2>2. Holds(v)
    BY <1>9 DEF sdsrange
  <2>3. QED
    BY <1>9, <2>1, <2>2, <1>f, RangeIsSlice
<1>10. ASSUME OutOfMemory \/ UNCHANGED vars PROVE Strs' = Strs
  BY <1>10, StutterString DEF OutOfMemory, vars
<1>11. QED
  BY <1>1, <1>2, <1>3, <1>4, <1>5, <1>6, <1>7, <1>8, <1>9, <1>10 DEF Next

-----------------------------------------------------------------------------
\* No call of sds.cc reads or writes outside its block: room made by
\* sdsMakeRoomFor is enough for sdscatlen and sdscpylen, and the bytes sdstrim
\* and sdsrange keep are bytes there are, also after sdsclear.
THEOREM MemorySafe == Spec => []NeverUndefined
<1>1. IInv => NeverUndefined
  BY DEF IInv
<1>2. QED
  BY InitIInv, NextIInv, <1>1, PTL DEF Spec

\* Every block belongs to one variable and is as long as len, free and the
\* terminator say, wherever zremalloc moved it.
THEOREM Ownership == Spec => []HandlesOwnTheirBlocks
<1>1. IInv => HandlesOwnTheirBlocks
  BY OwnedIsOwnership DEF IInv
<1>2. QED
  BY InitIInv, NextIInv, <1>1, PTL DEF Spec

\* What callers read is what was written: every byte of a string was written,
\* a string that is not empty ends in its terminator, and sdscmp finds two
\* strings in the order of a dictionary, for strings of any lengths.
THEOREM Readable == Spec => []ReadAsStrings
<1>1. QED
  BY InitIInv, NextIInv, IInvReads, PTL DEF Spec

\* Appending, copying, trimming and cutting make the strings their arguments
\* ask for, whatever room and stale bytes earlier calls left.  Callers that trim
\* a string they have just cleared may get a string of bytes they had cleared.
THEOREM CallsAreRight == ASSUME ~ TrimCleared PROVE Spec => CallsMakeTheirStrings
<1>1. IInv /\ [Next]_vars => [MakesItsString]_vars
  BY IInvMakes
<1>2. QED
  BY InitIInv, NextIInv, <1>1, PTL DEF Spec, CallsMakeTheirStrings, MakesItsString

\* The strings implement ByteStrings: with blocks, room and terminators hidden,
\* every call is the one the interface promises, and running out of memory or
\* freeing NULL is no step of it.
THEOREM StringsImplemented == ASSUME ~ TrimCleared PROVE Spec => ImplementsStrings
<1>1. Init => Abstract!Init
  BY DEF Init, Abstract!Init
<1>2. IInv /\ [Next]_vars => Abstract!Next \/ Strs' = Strs
  BY NextImplements
<1>3. IInv /\ [Next]_vars =>
        [Abstract!Next]_([v \in Var |-> IF var[v] = NULL THEN NULL ELSE Text(v)])
  BY <1>2 DEF Strs
<1>4. QED
  BY InitIInv, NextIInv, <1>1, <1>3, PTL DEF Spec, ImplementsStrings, Abstract!Spec
=============================================================================

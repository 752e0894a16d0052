----------------------------- MODULE DictProofs -----------------------------
(***************************************************************************)
(* The dict, for all keys, values, hash functions, blocks and sizes, as    *)
(* long as callers keep from the calls the code is not ready for: memory   *)
(* safety, then that the chains are sound and a release frees everything.  *)
(*                                                                         *)
(* For memory safety the chains are not followed.  It is enough to know of *)
(* each pointer to an entry, be it a bucket that has still to be read, the *)
(* next of an entry, or the local variable of the release, that it is NULL *)
(* or an allocated entry, and that no two of them are the same entry.      *)
(*                                                                         *)
(* For the chains each entry has a rank, counted from the end of its       *)
(* chain, where nothing is ever added.                                     *)
(***************************************************************************)
EXTENDS Dict, Inductions

\* The loop of _dictNextPower, for the size a dict begins with.
LEMMA InitialSize == _dictNextPower(DICT_HT_INITIAL_SIZE) = 4
<1> DEFINE F(f) == [i \in Nat |-> IF i >= 4 THEN i ELSE f[2 * i]]
           w == [i \in Nat |-> IF i >= 4 THEN i ELSE IF i = 0 THEN 0
                               ELSE IF i = 1 THEN 4 ELSE 2 * i]
           double == CHOOSE f : f = F(f)
<1>1. w = F(w)
  <2>1. \A i \in Nat : w[i] = F(w)[i]
    OBVIOUS
  <2>2. QED
    BY <2>1
<1>2. double = F(double)
  <2>1. \E f : f = F(f)
    BY <1>1
  <2>2. QED
    BY <2>1, Zenon
<1>3. _dictNextPower(4) = IF 4 > LONG_MAX THEN LONG_MAX + 1 ELSE double[DICT_HT_INITIAL_SIZE]
  BY DEF _dictNextPower
<1> HIDE DEF double
<1>4. double[4] = 4
  BY <1>2
<1>5. DICT_HT_INITIAL_SIZE = 4 /\ ~(4 > LONG_MAX)
  <2>1. LONG_MAX \in Int
    BY DictAssumption DEF LONG_MAX
  <2>2. QED
    BY <2>1, DictAssumption DEF DICT_HT_INITIAL_SIZE
<1>6. QED
  BY <1>3, <1>4, <1>5

\* Doubles(double, size): the recursion of _dictNextPower(size).
Doubles(double, size) ==
  /\ \A i \in Nat : double[i] = IF i >= size THEN i ELSE double[2 * i]
  /\ _dictNextPower(size) = IF size > LONG_MAX THEN LONG_MAX + 1 ELSE double[4]

LEMMA DoublesExists ==
  ASSUME NEW size \in Nat
  PROVE  \E double : Doubles(double, size)
<1> DEFINE F(f) == [i \in Nat |-> IF i >= size THEN i ELSE f[2 * i]]
           double == CHOOSE f : f = F(f)
           \* Defined rightly for what is at most m below size.
           Good(g, m) == \A i \in Nat \ {0} :
                           i + m >= size => g[i] = IF i >= size THEN i ELSE g[2 * i]
           N == {m \in Nat : \E g : Good(g, m)}
<1>1. 0 \in N
  <2>1. Good([i \in Nat |-> i], 0)
    OBVIOUS
  <2>2. QED
    BY <2>1
<1>2. ASSUME NEW m \in Nat, m \in N PROVE m + 1 \in N
  <2>1. PICK g : Good(g, m)
    BY <1>2
  <2> DEFINE h == [i \in Nat |-> IF i >= size THEN i ELSE g[2 * i]]
  <2>2. ASSUME NEW i \in Nat \ {0}, i + (m + 1) >= size, ~(i >= size)
        PROVE  h[i] = h[2 * i]
    <3>1. PICK d \in Nat \ {0} : d = 2 * i /\ d + m >= size
      BY <2>2
    <3>2. h[i] = g[d] /\ h[d] = IF d >= size THEN d ELSE g[2 * d]
      BY <2>2, <3>1
    <3>3. g[d] = IF d >= size THEN d ELSE g[2 * d]
      BY <2>1, <3>1
    <3>4. QED
      BY <3>1, <3>2, <3>3
  <2>3. Good(h, m + 1)
    <3>1. \A i \in Nat : i >= size => h[i] = i
      OBVIOUS
    <3> HIDE DEF h
    <3>2. QED
      BY <2>2, <3>1
  <2>4. \E k : Good(k, m + 1)
    <3> HIDE DEF h, Good
    <3>1. QED
      BY <2>3, Zenon
  <2>5. QED
    BY <2>4
<1>3. size \in N
  <2>1. Nat \subseteq N
    <3> HIDE DEF N
    <3>1. QED
      BY <1>1, <1>2, NatSetInduction
  <2>2. QED
    BY <2>1
<1>4. \E f : f = F(f)
  <2>1. PICK g : Good(g, size)
    BY <1>3
  <2> DEFINE w == [i \in Nat |-> IF i = 0 THEN 0 ELSE g[i]]
  <2>2. \A i \in Nat : w[i] = IF i >= size THEN i ELSE w[2 * i]
    <3>1. ASSUME NEW i \in Nat \ {0}
          PROVE  w[i] = IF i >= size THEN i ELSE w[2 * i]
      <4>1. g[i] = IF i >= size THEN i ELSE g[2 * i]
        BY <2>1
      <4>2. PICK d \in Nat \ {0} : d = 2 * i
        OBVIOUS
      <4>3. w[i] = g[i] /\ w[d] = g[d]
        OBVIOUS
      <4>4. QED
        BY <4>1, <4>2, <4>3
    <3>2. w[0] = 0 /\ w[2 * 0] = 0
      OBVIOUS
    <3> HIDE DEF w
    <3>3. QED
      BY <3>1, <3>2
  <2>3. w = F(w)
    BY <2>2
  <2> HIDE DEF w, F
  <2>4. QED
    BY <2>3, Zenon
<1>5. double = F(double)
  <2> HIDE DEF F
  <2>1. QED
    BY <1>4, Zenon
<1>6. _dictNextPower(size) = IF size > LONG_MAX THEN LONG_MAX + 1 ELSE double[4]
  BY DEF _dictNextPower, DICT_HT_INITIAL_SIZE
<1> HIDE DEF double
<1>7. \A i \in Nat : double[i] = IF i >= size THEN i ELSE double[2 * i]
  BY <1>5
<1>8. QED
  BY <1>6, <1>7 DEF Doubles

\* The loop of _dictNextPower ends, for every size, and with a positive number.
LEMMA NextPower ==
  ASSUME NEW size \in Nat
  PROVE  _dictNextPower(size) \in Nat \ {0}
<1>6. PICK double : Doubles(double, size)
  BY DoublesExists
<1> DEFINE P == {m \in Nat : \A i \in Nat \ {0} : i + m >= size => double[i] \in Nat \ {0}}
<1>7. \A i \in Nat : double[i] = IF i >= size THEN i ELSE double[2 * i]
  BY <1>6 DEF Doubles
<1>8. 0 \in P
  BY <1>7
<1>9. ASSUME NEW m \in Nat, m \in P PROVE m + 1 \in P
  <2>1. ASSUME NEW i \in Nat \ {0}, i + (m + 1) >= size PROVE double[i] \in Nat \ {0}
    <3>1. CASE i >= size
      BY <1>7, <3>1
    <3>2. CASE ~(i >= size)
      <4>1. PICK d \in Nat \ {0} : d = 2 * i /\ d + m >= size
        BY <2>1
      <4>2. double[d] \in Nat \ {0}
        BY <1>9, <4>1
      <4>3. QED
        BY <1>7, <3>2, <4>1, <4>2
    <3>3. QED
      BY <3>1, <3>2
  <2>2. QED
    BY <2>1
<1>10. Nat \subseteq P
  <2> HIDE DEF P
  <2>1. QED
    BY <1>8, <1>9, NatSetInduction
<1>11. DICT_HT_INITIAL_SIZE = 4 /\ LONG_MAX \in Nat
  BY DictAssumption DEF LONG_MAX, DICT_HT_INITIAL_SIZE
<1>12. double[4] \in Nat \ {0}
  BY <1>10
<1>13. QED
  BY <1>6, <1>11, <1>12 DEF Doubles

LEMMA PowersUnfold ==
  /\ PowerOf2[0] = 1
  /\ \A p \in Nat : PowerOf2[p + 1] = 2 * PowerOf2[p]
<1> DEFINE F(f) == [p \in Nat |-> IF p = 0 THEN 1 ELSE 2 * f[p - 1]]
           \* Defined rightly up to m.
           Good(g, m) == \A p \in 0 .. m : g[p] = IF p = 0 THEN 1 ELSE 2 * g[p - 1]
           N == {m \in Nat : \E g : Good(g, m)}
           Same(g, h) == {m \in Nat : Good(g, m) /\ Good(h, m) => g[m] = h[m]}
<1>1. 0 \in N
  <2>1. Good([p \in Nat |-> 1], 0)
    OBVIOUS
  <2>2. QED
    BY <2>1
<1>2. ASSUME NEW m \in Nat, m \in N PROVE m + 1 \in N
  <2>1. PICK g : Good(g, m)
    BY <1>2
  <2> DEFINE h == [p \in Nat |-> IF p = m + 1 THEN 2 * g[m] ELSE g[p]]
  <2>2. Good(h, m + 1)
    <3>1. \A p \in 0 .. m : h[p] = g[p] /\ (p # 0 => h[p - 1] = g[p - 1])
      OBVIOUS
    <3>2. h[m + 1] = 2 * h[m]
      OBVIOUS
    <3> HIDE DEF h
    <3>3. \A p \in 0 .. m + 1 : p = m + 1 \/ p \in 0 .. m
      OBVIOUS
    <3>4. QED
      BY <2>1, <3>1, <3>2, <3>3
  <2> HIDE DEF h, Good
  <2>3. QED
    BY <2>2
<1>3. Nat \subseteq N
  <2> HIDE DEF N
  <2>1. QED
    BY <1>1, <1>2, NatSetInduction
<1>4. ASSUME NEW g, NEW h PROVE Nat \subseteq Same(g, h)
  <2>1. 0 \in Same(g, h)
    OBVIOUS
  <2>2. ASSUME NEW m \in Nat, m \in Same(g, h) PROVE m + 1 \in Same(g, h)
    <3>1. ASSUME NEW f, Good(f, m + 1) PROVE Good(f, m) /\ f[m + 1] = 2 * f[m]
      BY <3>1
    <3>2. QED
      BY <2>2, <3>1
  <2> HIDE DEF Same
  <2>3. QED
    BY <2>1, <2>2, NatSetInduction
<1> DEFINE at(m) == CHOOSE g : Good(g, m)
           w == [m \in Nat |-> at(m)[m]]
<1>5. \A m \in Nat : Good(at(m), m)
  <2> HIDE DEF Good
  <2>1. QED
    BY <1>3
<1>6. w = F(w)
  <2>1. w[0] = 1
    BY <1>5
  <2>2. ASSUME NEW m \in Nat PROVE w[m + 1] = 2 * w[m]
    <3> HIDE DEF Good, at
    <3>1. m + 1 \in Nat /\ Good(at(m + 1), m + 1) /\ Good(at(m), m)
      BY <1>5
    <3>2. Good(at(m + 1), m) /\ at(m + 1)[m + 1] = 2 * at(m + 1)[m]
      BY <3>1 DEF Good
    <3>3. at(m + 1)[m] = at(m)[m]
      BY <1>4, <3>1, <3>2
    <3>4. QED
      BY <3>1, <3>2, <3>3
  <2> HIDE DEF w
  <2>3. \A p \in Nat : w[p] = IF p = 0 THEN 1 ELSE 2 * w[p - 1]
    <3>1. \A p \in Nat : p # 0 => p - 1 \in Nat /\ p = (p - 1) + 1
      OBVIOUS
    <3>2. QED
      BY <2>1, <2>2, <3>1
  <2>4. DOMAIN w = Nat /\ w = [p \in Nat |-> w[p]]
    BY DEF w
  <2>5. QED
    BY <2>3, <2>4
<1>7. PowerOf2 = CHOOSE f : f = F(f)
  BY DEF PowerOf2
<1>8. PowerOf2 = F(PowerOf2)
  <2> HIDE DEF w, F
  <2>1. QED
    BY <1>6, <1>7, Zenon
<1>9. QED
  BY <1>8

\* The loop of _dictNextPower ends at the least power of 2, from 2^2 on, that is
\* no less than size.
LEMMA NextPowerIsLeast ==
  ASSUME NEW size \in Nat, size <= LONG_MAX
  PROVE  \E p \in 2 .. size + 2 :
           /\ _dictNextPower(size) = PowerOf2[p] /\ size <= PowerOf2[p]
           /\ \A q \in 2 .. p - 1 : PowerOf2[q] < size
<1> DEFINE Big == {p \in Nat : PowerOf2[p] \in Nat /\ PowerOf2[p] > p}
           S == {p \in Nat : p >= 2 /\ size <= PowerOf2[p]}
<1>1. Nat \subseteq Big
  <2>1. 0 \in Big
    BY PowersUnfold
  <2>2. ASSUME NEW m \in Nat, m \in Big PROVE m + 1 \in Big
    <3>1. PowerOf2[m + 1] = 2 * PowerOf2[m]
      BY PowersUnfold
    <3>2. QED
      BY <2>2, <3>1
  <2> HIDE DEF Big
  <2>3. QED
    BY <2>1, <2>2, NatSetInduction
<1>2. \A p \in Nat : PowerOf2[p] \in Nat /\ PowerOf2[p] > p
  BY <1>1
<1>3. size + 2 \in S /\ S \subseteq Nat
  BY <1>2
<1>4. PICK p \in S : \A q \in S : p <= q
  BY <1>3, LeastNatural
<1>5. p \in 2 .. size + 2 /\ size <= PowerOf2[p]
  BY <1>3, <1>4
<1>6. \A q \in 2 .. p - 1 : PowerOf2[q] < size
  BY <1>2, <1>4
<1>7. PICK double : Doubles(double, size)
  BY DoublesExists
<1> DEFINE M == {m \in Nat : m <= p - 2 => double[PowerOf2[p - m]] = PowerOf2[p]}
<1>8. 0 \in M
  BY <1>2, <1>5, <1>7 DEF Doubles
<1>9. ASSUME NEW m \in Nat, m \in M PROVE m + 1 \in M
  <2>1. ASSUME m + 1 <= p - 2 PROVE double[PowerOf2[p - (m + 1)]] = PowerOf2[p]
    <3>1. PICK q \in 2 .. p - 1 : q = p - (m + 1)
      BY <1>5, <2>1
    <3>2. PowerOf2[q] \in Nat /\ PowerOf2[q] < size
      BY <1>2, <1>6
    <3>3. double[PowerOf2[q]] = double[2 * PowerOf2[q]]
      BY <1>7, <3>2 DEF Doubles
    <3>4. 2 * PowerOf2[q] = PowerOf2[p - m]
      <4>1. q \in Nat /\ q + 1 = p - m
        BY <1>5, <3>1
      <4>2. QED
        BY <4>1, PowersUnfold
    <3>5. double[PowerOf2[p - m]] = PowerOf2[p]
      BY <1>9, <2>1, <1>5
    <3>6. QED
      BY <3>1, <3>3, <3>4, <3>5
  <2>2. QED
    BY <2>1
<1>10. Nat \subseteq M
  <2> HIDE DEF M
  <2>1. QED
    BY <1>8, <1>9, NatSetInduction
<1>11. double[4] = PowerOf2[p]
  <2>1. PowerOf2[1] = 2 /\ PowerOf2[2] = 4
    <3>1. PowerOf2[0 + 1] = 2 * PowerOf2[0] /\ PowerOf2[1 + 1] = 2 * PowerOf2[1]
      BY PowersUnfold
    <3>2. QED
      BY <3>1, PowersUnfold
  <2>2. p - 2 \in M /\ p - (p - 2) = 2
    BY <1>5, <1>10
  <2>3. QED
    BY <2>1, <2>2
<1>12. size \in Int /\ LONG_MAX \in Int
  BY DictAssumption DEF LONG_MAX
<1>13. _dictNextPower(size) = PowerOf2[p]
  BY <1>7, <1>11, <1>12 DEF Doubles
<1>14. QED
  BY <1>5, <1>6, <1>13

-----------------------------------------------------------------------------
(* The invariant of memory safety.                                         *)

Slots == 0 .. 3
Entries == Live(Entry)
First(i) == bucket[dict.ht[0].table][i]
After(e) == entry[e].next
Pointer(p) == p = NULL \/ p \in Entries

\* A dict as its callers have it.
Made == room[DictAddr] > 0 /\ call.op = "none"

\* The buckets that lead to entries.
Pending == {i \in Slots : Made \/ (call.op = "release" /\ call.h = 0 /\ i >= call.slot)}

Shapes ==
  /\ room \in [Blocks -> Nat]
  /\ DOMAIN dict = {"type", "privdata", "rehashidx", "ht"} /\ DOMAIN dict.ht = {0, 1}
  /\ dict.type \in Type \cup {NULL} /\ dict.privdata \in {NULL, PrivAddr}
  /\ DOMAIN bucket = Table /\ DOMAIN entry = Entry
  /\ \A e \in Entry : DOMAIN entry[e] = {"key", "value", "next"}
  /\ DOMAIN call = {"op", "h", "slot", "p", "kept"}
  /\ call.op \in {"none", "create", "release"} /\ call.h \in 0 .. 2 /\ call.slot \in Nat
  /\ last \in [Key -> Value \cup {NULL}]

\* ht[0] is made when the dict is, and only careless callers release ht[1].
Tables ==
  /\ call.op = "create" => /\ dict.ht[0].table = NULL /\ dict.ht[1] = NoTable
                           /\ last = [k \in Key |-> NULL] /\ call.p = NULL
  /\ Made \/ (call.op = "release" /\ call.h = 0) =>
       /\ dict.ht[0].table \in Table
       /\ dict.ht[0].size = 4 /\ dict.ht[0].sizemask = 3
       /\ DOMAIN bucket[dict.ht[0].table] = Slots
  /\ Made => room[dict.ht[0].table] > 0
  /\ Made /\ dict.ht[1].table = NULL => dict.ht[1] = NoTable
  /\ call.op = "release" => dict.ht[1] = NoTable

Pointers ==
  /\ Pointer(call.p)
  /\ \A i \in Pending : Pointer(First(i)) /\ (First(i) # NULL => First(i) # call.p)
  /\ \A i, j \in Pending : First(i) = First(j) /\ First(i) # NULL => i = j
  /\ \A e \in Entries : /\ Pointer(After(e))
                        /\ After(e) # NULL => /\ After(e) # call.p
                                              /\ \A i \in Pending : First(i) # After(e)
  /\ \A e, f \in Entries : After(e) = After(f) /\ After(e) # NULL => e = f

\* What was added is found: a bucket that got an entry is not empty again.
AddedIsThere ==
  Made => \A k \in Key : last[k] # NULL =>
            /\ dict.type # NULL
            /\ Hash[dict.type][k] % 4 \in Slots /\ First(Hash[dict.type][k] % 4) # NULL

IInv == Shapes /\ Tables /\ Pointers /\ AddedIsThere /\ NeverUndefined

LEMMA Addresses ==
  /\ NULL \notin Blocks /\ NULL \notin Value /\ Table \subseteq Blocks /\ Entry \subseteq Blocks
  /\ DictAddr \in Blocks /\ PrivAddr \in Blocks
  /\ Table \cap Entry = {} /\ DictAddr # PrivAddr
  /\ {DictAddr, PrivAddr} \cap (Table \cup Entry) = {}
  BY DictAssumption DEF Blocks

LEMMA SlotOfKey ==
  ASSUME NEW t \in Type, NEW k \in Key PROVE Hash[t][k] % 4 \in Slots
<1>1. Hash[t][k] \in Nat
  BY DictAssumption
<1>2. QED
  BY <1>1 DEF Slots

LEMMA InitIInv == Init => IInv
  BY Addresses DEF Init, Z!Init, IInv, Shapes, Tables, Pointers, AddedIsThere, NeverUndefined,
     Made, Pending, Pointer, Entries, Live, _dictReset, BlankEntry, NoCall, NoTable

\* zmalloc and zfree change the room of one block.
LEMMA Allocates ==
  ASSUME Shapes, NEW a \in Blocks, NEW n \in Sizes, Z!zmalloc(a, n)
  PROVE  /\ room[a] = 0 /\ room' \in [Blocks -> Nat]
         /\ room'[a] > 0 /\ \A b \in Blocks : b # a => room'[b] = room[b]
<1>1. n \in Nat /\ n + PREFIX_SIZE < SizeMod /\ PREFIX_SIZE \in Nat \ {0} /\ SizeMod \in Nat
  BY DictAssumption
<1>2. (n + PREFIX_SIZE) % SizeMod = n + PREFIX_SIZE
  BY <1>1
<1>3. room[a] = 0 /\ room' = [room EXCEPT ![a] = (n + PREFIX_SIZE) % SizeMod]
  BY DEF Z!zmalloc
<1>4. QED
  BY <1>1, <1>2, <1>3 DEF Shapes

LEMMA Frees ==
  ASSUME Shapes, NEW a, Z!zfree(a)
  PROVE  /\ a \in Blocks \cup {NULL} /\ room' \in [Blocks -> Nat]
         /\ a \in Blocks => room'[a] = 0
         /\ \A b \in Blocks : b # a => room'[b] = room[b]
  BY Addresses DEF Z!zfree, Z!Allocated, Z!vars, Shapes

LEMMA KnownSizes ==
  /\ {SizeofDict, SizeofEntry, SizeofPriv} \subseteq Sizes
  /\ TableBytes(DICT_HT_INITIAL_SIZE) \in Sizes
  /\ \A n \in ExpandSizes : TableBytes(n) \in Sizes
  BY DEF Sizes

-----------------------------------------------------------------------------
(* One lemma for each call.                                                *)

\* A step that changes nothing but blocks the dict does not know.
LEMMA Elsewhere ==
  ASSUME IInv, UNCHANGED <<dict, bucket, entry, last, call>>, ~undefined',
         room' \in [Blocks -> Nat],
         \A b \in Table \cup Entry \cup {DictAddr} : room'[b] = room[b]
  PROVE  IInv'
<1>1. Entries' = Entries
  BY DEF Entries, Live
<1>2. Made' = Made /\ Pending' = Pending
  BY DEF Made, Pending
<1>3. Shapes' /\ AddedIsThere' /\ NeverUndefined'
  BY <1>2 DEF IInv, Shapes, AddedIsThere, NeverUndefined, First
<1>4. Tables'
  BY <1>2 DEF IInv, Tables
<1>5. Pointers'
  BY <1>1, <1>2 DEF IInv, Pointers, Pointer, First, After
<1>6. QED
  BY <1>3, <1>4, <1>5 DEF IInv

LEMMA CreateIInv ==
  ASSUME IInv, NEW type \in Type \cup {NULL}, NEW p \in {NULL, PrivAddr}, dictCreate(type, p)
  PROVE  IInv'
<1>1. /\ call' = [NoCall EXCEPT !.op = "create"] /\ UNCHANGED <<bucket, entry, undefined>>
      /\ dict' = [_dictReset EXCEPT !.type = type, !.privdata = p]
      /\ last' = [k \in Key |-> NULL] /\ Z!zmalloc(DictAddr, SizeofDict)
  BY DEF dictCreate
<1>2. room' \in [Blocks -> Nat] /\ \A b \in Entry : room'[b] = room[b]
  BY <1>1, Allocates, KnownSizes, Addresses DEF IInv
<1>3. Entries' = Entries /\ ~Made' /\ Pending' = {}
  BY <1>1, <1>2 DEF Entries, Live, Made, Pending, NoCall
<1>4. Shapes'
  BY <1>1, <1>2, Addresses DEF IInv, Shapes, NoCall, _dictReset
<1>5. Tables'
  <2>1. call'.op = "create" /\ call'.p = NULL
    BY <1>1 DEF NoCall
  <2>2. dict'.ht = [h \in {0, 1} |-> NoTable]
    BY <1>1 DEF _dictReset
  <2>3. dict'.ht[0].table = NULL /\ dict'.ht[1] = NoTable
    BY <2>2 DEF NoTable
  <2>4. QED
    BY <1>1, <1>3, <2>1, <2>3 DEF Tables, NoTable
<1>6. Pointers'
  BY <1>1, <1>3 DEF IInv, Pointers, Pointer, After, NoCall
<1>7. QED
  BY <1>1, <1>3, <1>4, <1>5, <1>6 DEF IInv, AddedIsThere, NeverUndefined

LEMMA CreateTableIInv ==
  ASSUME IInv, NEW t \in Table, CreateTable(t) PROVE IInv'
<1> DEFINE n == [table |-> t, size |-> 4, sizemask |-> 3, used |-> 0]
<1>1. /\ call.op = "create" /\ call' = NoCall /\ UNCHANGED <<entry, last, undefined>>
      /\ Z!zmalloc(t, TableBytes(DICT_HT_INITIAL_SIZE))
      /\ bucket' = [bucket EXCEPT ![t] = [i \in 0 .. dict'.ht[0].size - 1 |-> NULL]]
  BY DEF CreateTable, NewTable
<1>2. dict' = [dict EXCEPT !.ht[0] = n]
  <2>1. dict.ht[0].table = NULL
    BY <1>1 DEF IInv, Tables
  <2>2. QED
    BY <2>1, InitialSize DEF CreateTable, NewTable
<1>3. /\ DOMAIN dict' = DOMAIN dict /\ dict'.type = dict.type /\ dict'.privdata = dict.privdata
      /\ DOMAIN dict'.ht = {0, 1} /\ dict'.ht[0] = n /\ dict'.ht[1] = dict.ht[1]
  BY <1>2 DEF IInv, Shapes
<1>4. bucket'[t] = [i \in Slots |-> NULL] /\ DOMAIN bucket' = Table
  BY <1>1, <1>3 DEF IInv, Shapes, Slots
<1>5. /\ room' \in [Blocks -> Nat] /\ room'[t] > 0
      /\ \A b \in Entry \cup {DictAddr} : room'[b] = room[b]
  BY <1>1, Allocates, KnownSizes, Addresses DEF IInv
<1>6. Entries' = Entries /\ Pending' \subseteq Slots
  BY <1>5 DEF Entries, Live, Pending
<1>7. \A i \in Slots : First(i)' = NULL
  BY <1>3, <1>4 DEF First
<1>8. Shapes'
  BY <1>1, <1>3, <1>4, <1>5 DEF IInv, Shapes, NoCall
<1>9. Tables'
  BY <1>1, <1>3, <1>4, <1>5, Addresses DEF IInv, Tables, NoCall
<1>10. Pointers'
  BY <1>1, <1>6, <1>7 DEF IInv, Pointers, Pointer, After, NoCall
<1>11. AddedIsThere'
  BY <1>1 DEF IInv, Tables, Shapes, AddedIsThere
<1>12. QED
  BY <1>1, <1>8, <1>9, <1>10, <1>11 DEF IInv, NeverUndefined

LEMMA SetTypeIInv ==
  ASSUME IInv, NEW type \in Type, SetType(type) PROVE IInv'
<1>1. /\ Made /\ Entries = {} /\ dict' = [dict EXCEPT !.type = type]
      /\ UNCHANGED <<heap, bucket, entry, last, call, undefined>>
  BY Addresses DEF SetType, Ready, Idle, Made, Entries, Live
<1>2. UNCHANGED room
  BY <1>1 DEF heap
<1>3. /\ DOMAIN dict' = DOMAIN dict /\ dict'.type = type /\ dict'.privdata = dict.privdata
      /\ dict'.ht = dict.ht
  BY <1>1 DEF IInv, Shapes
<1>4. Entries' = Entries /\ Made' = Made /\ Pending' = Pending
  BY <1>1, <1>2 DEF Entries, Live, Made, Pending
<1>5. Shapes'
  BY <1>1, <1>2, <1>3 DEF IInv, Shapes
<1>6. Tables'
  BY <1>1, <1>2, <1>3, <1>4 DEF IInv, Tables
<1>7. Pointers'
  BY <1>1, <1>3, <1>4 DEF IInv, Pointers, Pointer, First, After
<1>8. \A k \in Key : last[k] = NULL
  <2>1. \A i \in Slots : First(i) = NULL
    BY <1>1 DEF IInv, Pointers, Pointer, Pending
  <2>2. QED
    BY <1>1, <2>1 DEF IInv, AddedIsThere
<1>9. QED
  BY <1>1, <1>5, <1>6, <1>7, <1>8 DEF IInv, AddedIsThere, NeverUndefined

LEMMA AddIInv ==
  ASSUME IInv, NEW k \in Key, NEW v \in Value, NEW e \in Entry, dictAdd(k, v, e)
  PROVE  IInv'
<1> DEFINE t == dict.ht[0].table
<1>1. Made /\ dict.type \in Type /\ ~undefined
  BY DEF dictAdd, Ready, Running, Idle, Live, Made, IInv, Shapes
<1>2. /\ t \in Table /\ room[t] > 0 /\ dict.ht[0].sizemask = 3 /\ DOMAIN bucket[t] = Slots
      /\ {t} \subseteq Live(Blocks)
  BY <1>1, Addresses DEF IInv, Tables, Live
<1>3. PICK s \in Slots : s = Slot(k, 0) /\ s = Hash[dict.type][k] % 4
  BY <1>1, <1>2, SlotOfKey DEF Slot
<1>4. /\ Z!zmalloc(e, SizeofEntry) /\ UNCHANGED <<dict, call, undefined>>
      /\ entry' = [entry EXCEPT ![e] = [key |-> k, value |-> v, next |-> bucket[t][s]]]
      /\ bucket' = [bucket EXCEPT ![t][s] = e] /\ last' = [last EXCEPT ![k] = v]
  BY <1>2, <1>3 DEF dictAdd, Touching
<1>5. /\ room[e] = 0 /\ room' \in [Blocks -> Nat] /\ room'[e] > 0
      /\ \A b \in Blocks : b # e => room'[b] = room[b]
  BY <1>4, Allocates, KnownSizes, Addresses DEF IInv
<1>6. Entries' = Entries \cup {e} /\ e \notin Entries
  BY <1>5, Addresses DEF Entries, Live
<1>7. Made' /\ Pending = Slots /\ Pending' = Slots
  BY <1>1, <1>4, <1>5, Addresses DEF Made, Pending
<1>8. /\ DOMAIN bucket' = Table /\ DOMAIN bucket'[t] = Slots
      /\ First(s)' = e /\ \A i \in Slots \ {s} : First(i)' = First(i)
  BY <1>2, <1>3, <1>4 DEF IInv, Shapes, First
<1>9. /\ DOMAIN entry' = Entry /\ After(e)' = First(s)
      /\ \A f \in Entry \ {e} : After(f)' = After(f)
      /\ \A f \in Entry : DOMAIN entry'[f] = {"key", "value", "next"}
  BY <1>4 DEF IInv, Shapes, After, First
<1>10. Shapes'
  BY <1>4, <1>5, <1>8, <1>9 DEF IInv, Shapes
<1>11. Tables'
  BY <1>1, <1>2, <1>4, <1>5, <1>7, <1>8, Addresses DEF IInv, Tables, Made
<1>12. Pointers'
  <2>1. e # NULL /\ call'.p = call.p
    BY <1>4, Addresses
  <2>2. /\ Pointer(call.p) /\ call.p # e
        /\ \A i \in Slots : Pointer(First(i)) /\ First(i) # e
        /\ \A f \in Entries : Pointer(After(f)) /\ After(f) # e /\ f \in Entry
    BY <1>6, <1>7, <2>1 DEF IInv, Pointers, Pointer, Entries, Live
  <2>3. /\ \A i \in Slots : First(i) # NULL => First(i) # call.p
        /\ \A i, j \in Slots : First(i) = First(j) /\ First(i) # NULL => i = j
        /\ \A f \in Entries : After(f) # NULL =>
             After(f) # call.p /\ \A i \in Slots : First(i) # After(f)
        /\ \A f, g \in Entries : After(f) = After(g) /\ After(f) # NULL => f = g
    BY <1>7 DEF IInv, Pointers
  <2>4. Pointer(call.p)'
    BY <1>6, <2>1, <2>2 DEF Pointer
  <2>5. ASSUME NEW i \in Slots
        PROVE  Pointer(First(i))' /\ (First(i)' # NULL => First(i)' # call'.p)
    <3>1. CASE i = s
      BY <1>6, <1>8, <2>1, <2>2, <3>1 DEF Pointer
    <3>2. CASE i # s
      <4>1. First(i)' = First(i)
        BY <1>8, <3>2
      <4>2. QED
        BY <1>6, <2>1, <2>2, <2>3, <4>1 DEF Pointer
    <3>3. QED
      BY <3>1, <3>2
  <2>6. ASSUME NEW i \in Slots, NEW j \in Slots, First(i)' = First(j)', First(i)' # NULL
        PROVE  i = j
    <3>1. \A h \in Slots : First(h)' = IF h = s THEN e ELSE First(h)
      BY <1>8
    <3>2. QED
      BY <2>2, <2>3, <2>6, <3>1
  <2>7. ASSUME NEW f \in Entries'
        PROVE  /\ Pointer(After(f))'
               /\ After(f)' # NULL => /\ After(f)' # call'.p
                                      /\ \A i \in Slots : First(i)' # After(f)'
    <3>1. CASE f = e
      <4>1. After(f)' = First(s)
        BY <1>9, <3>1
      <4>2. \A i \in Slots : First(i)' = IF i = s THEN e ELSE First(i)
        BY <1>8
      <4>3. Pointer(After(f))'
        BY <1>3, <1>6, <2>2, <4>1 DEF Pointer
      <4>4. QED
        BY <1>3, <2>1, <2>2, <2>3, <4>1, <4>2, <4>3
    <3>2. CASE f # e
      <4>1. f \in Entries /\ After(f)' = After(f)
        BY <1>6, <1>9, <2>2, <3>2
      <4>2. QED
        <5>1. \A i \in Slots : First(i)' = IF i = s THEN e ELSE First(i)
          BY <1>8
        <5>2. Pointer(After(f))'
          BY <1>6, <2>2, <4>1 DEF Pointer
        <5>3. QED
          BY <2>1, <2>2, <2>3, <4>1, <5>1, <5>2
    <3>3. QED
      BY <3>1, <3>2
  <2>8. ASSUME NEW f \in Entries', NEW g \in Entries', After(f)' = After(g)', After(f)' # NULL
        PROVE  f = g
    <3>1. \A h \in Entries' : h = e \/ (h \in Entries /\ After(h)' = After(h))
      BY <1>6, <1>9, <2>2
    <3>2. QED
      BY <1>3, <1>9, <2>3, <2>8, <3>1
  <2>9. QED
    BY <1>7, <2>4, <2>5, <2>6, <2>7, <2>8 DEF Pointers
<1>13. AddedIsThere'
  <2>1. ASSUME NEW l \in Key, last'[l] # NULL
        PROVE  \E i \in Slots : /\ i = Hash[dict'.type][l] % 4 /\ dict'.type # NULL
                               /\ First(i)' # NULL
    <3>1. PICK i \in Slots : i = Hash[dict.type][l] % 4
      BY <1>1, SlotOfKey
    <3>2. l = k \/ last[l] # NULL
      BY <2>1, <1>4 DEF IInv, Shapes
    <3>3. i = s \/ First(i) # NULL
      BY <1>1, <1>3, <3>1, <3>2 DEF IInv, AddedIsThere
    <3>4. First(i)' # NULL
      BY <1>8, <3>3, Addresses
    <3>5. i = Hash[dict'.type][l] % 4 /\ dict'.type # NULL
      BY <1>4, <3>1 DEF dictAdd
    <3>6. QED
      BY <3>4, <3>5
  <2>2. QED
    BY <2>1 DEF AddedIsThere, First
<1>14. QED
  BY <1>1, <1>4, <1>10, <1>11, <1>12, <1>13 DEF IInv, NeverUndefined

LEMMA FindIInv ==
  ASSUME Liberties = {}, IInv, NEW k \in Key, dictFind(k) PROVE IInv'
<1>1. Made /\ dict.type \in Type /\ last[k] # NULL /\ ~undefined
  BY DEF dictFind, Ready, Running, Idle, Live, Made, IInv, Shapes
<1>2. PICK s \in Slots : s = Slot(k, 0) /\ s = Hash[dict.type][k] % 4
  BY <1>1, SlotOfKey DEF Slot, IInv, Tables
<1>3. First(s) # NULL /\ First(s) \in Entries
  BY <1>1, <1>2 DEF IInv, AddedIsThere, Pointers, Pointer, Pending
<1>4. getDictEntry(k) = First(s)
  BY <1>2, <1>3 DEF getDictEntry, First
<1>5. {getDictEntry(k)} \subseteq Live(Blocks)
  BY <1>3, <1>4, Addresses DEF Entries, Live
<1>6. UNCHANGED <<heap, structs, call, undefined>>
  BY <1>5 DEF dictFind, Touching
<1>7. QED
  BY <1>1, <1>6, Elsewhere, Addresses DEF heap, structs, IInv, Shapes

LEMMA ExpandIInv ==
  ASSUME Liberties = {}, IInv, NEW size \in ExpandSizes, NEW t \in Table, dictExpand(size, t)
  PROVE  IInv'
<1>1. /\ Made /\ ~undefined /\ dict.ht[0].table \in Table /\ room[dict.ht[0].table] > 0
      /\ dict.ht[0].table # NULL
  BY Addresses DEF dictExpand, Ready, Running, Idle, Live, Made, IInv, Tables
<1>2. CASE _dictNextPower(size) = dict.ht[0].size
  <2>1. UNCHANGED <<heap, dict, bucket, entry, last, call, undefined>>
    BY <1>2 DEF dictExpand
  <2>2. QED
    BY <1>1, <2>1, Elsewhere, Addresses DEF heap, IInv, Shapes
<1>3. CASE _dictNextPower(size) # dict.ht[0].size
  <2>1. PICK n : /\ n.table = t
                 /\ dict' = [dict EXCEPT !.ht[1] = n, !.rehashidx = 0]
    <3> DEFINE realsize == _dictNextPower(size)
               n == [table |-> t, size |-> realsize, sizemask |-> realsize - 1, used |-> 0]
    <3>1. n.table = t /\ dict' = [dict EXCEPT !.ht[1] = n, !.rehashidx = 0]
      BY <1>1, <1>3 DEF dictExpand, NewTable
    <3>2. QED
      BY <3>1
  <2>2. /\ Z!zmalloc(t, TableBytes(size)) /\ UNCHANGED <<entry, last, call, undefined>>
        /\ bucket' = [bucket EXCEPT ![t] = [i \in 0 .. _dictNextPower(size) - 1 |-> UNWRITTEN]]
    BY <1>3 DEF dictExpand, NewTable
  <2>3. /\ DOMAIN dict' = DOMAIN dict /\ dict'.type = dict.type /\ dict'.privdata = dict.privdata
        /\ DOMAIN dict'.ht = {0, 1} /\ dict'.ht[0] = dict.ht[0] /\ dict'.ht[1] = n
    BY <2>1 DEF IInv, Shapes
  <2>4. /\ room[t] = 0 /\ room' \in [Blocks -> Nat]
        /\ \A b \in Blocks : b # t => room'[b] = room[b]
    BY <2>2, Allocates, KnownSizes, Addresses DEF IInv
  <2>5. /\ t # dict.ht[0].table /\ DOMAIN bucket' = Table
        /\ bucket'[dict.ht[0].table] = bucket[dict.ht[0].table]
    BY <1>1, <2>2, <2>4 DEF IInv, Shapes
  <2>6. Entries' = Entries
    BY <2>4, Addresses DEF Entries, Live
  <2>7. Made' /\ Pending' = Pending
    BY <1>1, <2>2, <2>4, Addresses DEF Made, Pending
  <2>8. \A i : First(i)' = First(i)
    BY <2>3, <2>5 DEF First
  <2>9. Shapes'
    BY <2>2, <2>3, <2>4, <2>5 DEF IInv, Shapes
  <2>10. Tables'
    BY <1>1, <2>1, <2>2, <2>3, <2>4, <2>5, <2>7, Addresses DEF IInv, Tables, Made
  <2>11. Pointers'
    BY <2>2, <2>6, <2>7, <2>8 DEF IInv, Pointers, Pointer, After
  <2>12. AddedIsThere'
    BY <1>1, <2>2, <2>3, <2>5 DEF IInv, AddedIsThere, First
  <2>13. QED
    BY <1>1, <2>2, <2>9, <2>10, <2>11, <2>12 DEF IInv, NeverUndefined
<1>4. QED
  BY <1>2, <1>3

LEMMA ReleaseIInv ==
  ASSUME Liberties = {}, IInv, dictRelease PROVE IInv'
<1>1. /\ Made /\ ~undefined /\ dict.ht[1] = NoTable
      /\ Z!zfree(dict.privdata) /\ UNCHANGED <<structs, undefined>>
  BY DEF dictRelease, Ready, Running, Idle, Live, Made, IInv, Tables
<1>2. call' = [NoCall EXCEPT !.op = "release", !.kept = Live({PrivAddr}) \ {dict.privdata}]
  BY DEF dictRelease
<1>3. /\ call'.op = "release" /\ call'.h = 0 /\ call'.slot = 0 /\ call'.p = NULL
      /\ DOMAIN call' = {"op", "h", "slot", "p", "kept"}
  BY <1>2 DEF NoCall
<1>4. room' \in [Blocks -> Nat] /\ \A b \in Entry \cup {DictAddr} : room'[b] = room[b]
  BY <1>1, Frees, Addresses DEF IInv, Shapes
<1>5. Entries' = Entries /\ ~Made' /\ Pending' = Slots /\ Pending = Slots
  BY <1>1, <1>3, <1>4 DEF Entries, Live, Made, Pending, Slots
<1>6. UNCHANGED <<dict, bucket, entry, last>>
  BY <1>1 DEF structs
<1>7. Shapes'
  BY <1>3, <1>4, <1>6 DEF IInv, Shapes
<1>8. Tables'
  BY <1>1, <1>3, <1>5, <1>6 DEF IInv, Tables
<1>9. Pointers'
  BY <1>3, <1>5, <1>6 DEF IInv, Pointers, Pointer, First, After
<1>10. QED
  BY <1>1, <1>5, <1>7, <1>8, <1>9 DEF IInv, AddedIsThere, NeverUndefined

\* The entry that goes was pointed to by nothing else.
LEMMA ReleaseEntryIInv ==
  ASSUME IInv, ReleaseEntry PROVE IInv'
<1>1. call.op = "release" /\ call.p # NULL /\ ~undefined
  BY DEF ReleaseEntry, Running
<1>2. PICK e \in Entries : e = call.p
  BY <1>1 DEF IInv, Pointers, Pointer
<1>3. e \in Entry /\ e \in Blocks /\ {e} \subseteq Live(Blocks)
  BY <1>2, Addresses DEF Entries, Live
<1>4. /\ call' = [call EXCEPT !.p = After(e)] /\ entry' = [entry EXCEPT ![e] = BlankEntry]
      /\ Z!zfree(e) /\ UNCHANGED <<dict, bucket, last, undefined>>
  BY <1>2, <1>3 DEF ReleaseEntry, Touching, After
<1>5. /\ DOMAIN call' = DOMAIN call /\ call'.p = After(e) /\ call'.op = call.op
      /\ call'.h = call.h /\ call'.slot = call.slot
  BY <1>4 DEF IInv, Shapes
<1>6. /\ room' \in [Blocks -> Nat] /\ room'[e] = 0
      /\ \A b \in Blocks : b # e => room'[b] = room[b]
  BY <1>3, <1>4, Frees DEF IInv
<1>7. Entries' = Entries \ {e}
  BY <1>6, Addresses DEF Entries, Live
<1>8. ~Made /\ ~Made' /\ Pending' = Pending
  BY <1>1, <1>5 DEF Made, Pending
<1>9. /\ \A i : First(i)' = First(i)
      /\ \A f \in Entries' : After(f)' = After(f) /\ f \in Entries /\ f # e
      /\ DOMAIN entry' = Entry /\ \A f \in Entry : DOMAIN entry'[f] = {"key", "value", "next"}
  <2>1. \A f \in Entry \ {e} : entry'[f] = entry[f]
    BY <1>4 DEF IInv, Shapes
  <2>2. \A i : First(i)' = First(i)
    BY <1>4 DEF First
  <2>3. \A f \in Entries' : After(f)' = After(f) /\ f \in Entries /\ f # e
    BY <1>7, <2>1 DEF After, Entries, Live
  <2>4. DOMAIN entry' = Entry /\ \A f \in Entry : DOMAIN entry'[f] = {"key", "value", "next"}
    BY <1>3, <1>4, <2>1 DEF IInv, Shapes, BlankEntry
  <2>5. QED
    BY <2>2, <2>3, <2>4
<1>10. Shapes'
  BY <1>4, <1>5, <1>6, <1>9 DEF IInv, Shapes
<1>11. Tables'
  BY <1>1, <1>4, <1>5, <1>8 DEF IInv, Tables
<1>12. Pointers'
  <2>1. /\ Pointer(After(e)) /\ After(e) # e
        /\ \A i \in Pending : Pointer(First(i)) /\ First(i) # e
        /\ \A f \in Entries : Pointer(After(f)) /\ After(f) # e
    BY <1>1, <1>2 DEF IInv, Pointers, Pointer
  <2>2. /\ \A i, j \in Pending : First(i) = First(j) /\ First(i) # NULL => i = j
        /\ \A f \in Entries : After(f) # NULL => \A i \in Pending : First(i) # After(f)
        /\ \A f, g \in Entries : After(f) = After(g) /\ After(f) # NULL => f = g
    BY DEF IInv, Pointers
  <2>3. Pointer(call.p)'
    BY <1>5, <1>7, <2>1 DEF Pointer
  <2>4. \A i \in Pending : Pointer(First(i))' /\ (First(i)' # NULL => First(i)' # call'.p)
    BY <1>2, <1>5, <1>7, <1>9, <2>1, <2>2 DEF Pointer
  <2>5. \A f \in Entries' : /\ Pointer(After(f))'
                            /\ After(f)' # NULL => /\ After(f)' # call'.p
                                                   /\ \A i \in Pending : First(i)' # After(f)'
    BY <1>2, <1>5, <1>7, <1>9, <2>1, <2>2 DEF Pointer
  <2>6. \A f, g \in Entries' : After(f)' = After(g)' /\ After(f)' # NULL => f = g
    BY <1>9, <2>2
  <2>7. \A i, j \in Pending : First(i)' = First(j)' /\ First(i)' # NULL => i = j
    BY <1>9, <2>2
  <2>8. QED
    BY <1>8, <2>3, <2>4, <2>5, <2>6, <2>7 DEF Pointers
<1>13. QED
  BY <1>1, <1>4, <1>8, <1>10, <1>11, <1>12 DEF IInv, AddedIsThere, NeverUndefined

LEMMA NextSlotIInv ==
  ASSUME IInv, NextSlot PROVE IInv'
<1>1. /\ call.op = "release" /\ call.p = NULL /\ call.h < 2 /\ call.slot < dict.ht[call.h].size
      /\ ~undefined /\ UNCHANGED <<heap, structs, undefined>>
  BY DEF NextSlot, Running
<1>2. call.h = 0 /\ dict.ht[0].size = 4 /\ call.slot \in Slots
  <2>1. call.h \in {0, 1} /\ call.slot \in Nat
    BY <1>1 DEF IInv, Shapes
  <2>2. call.h # 1
    BY <1>1, <2>1 DEF IInv, Tables, NoTable
  <2>3. QED
    BY <1>1, <2>1, <2>2 DEF IInv, Tables, Slots
<1>3. PICK s \in Slots : s = call.slot /\ s \in Pending
  BY <1>1, <1>2 DEF Pending, Slots
<1>4. Pointer(First(s)) /\ First(s) # UNWRITTEN
  BY <1>3, Addresses, DictAssumption DEF IInv, Pointers, Pointer, Entries, Live
<1>5. call' = [call EXCEPT !.p = First(s), !.slot = @ + 1]
  BY <1>2, <1>3, <1>4 DEF NextSlot, First
<1>6. /\ DOMAIN call' = DOMAIN call /\ call'.p = First(s) /\ call'.slot = s + 1
      /\ call'.op = "release" /\ call'.h = 0
  BY <1>1, <1>2, <1>3, <1>5 DEF IInv, Shapes
<1>7. UNCHANGED <<room, dict, bucket, entry, last>>
  BY <1>1 DEF heap, structs
<1>8. Entries' = Entries /\ ~Made /\ ~Made'
  BY <1>1, <1>6, <1>7 DEF Entries, Live, Made
<1>9. Pending' = Pending \ {s}
  BY <1>1, <1>2, <1>3, <1>6, <1>8 DEF Pending, Slots
<1>10. Shapes'
  BY <1>3, <1>6, <1>7 DEF IInv, Shapes, Slots
<1>11. Tables'
  BY <1>1, <1>2, <1>6, <1>7, <1>8 DEF IInv, Tables
<1>12. Pointers'
  <2>1. Pending' \subseteq Pending /\ s \notin Pending'
    BY <1>9
  <2>2. /\ \A i : First(i)' = First(i)
        /\ \A e : After(e)' = After(e)
        /\ \A q : (q = NULL \/ q \in Entries') <=> Pointer(q)
    BY <1>7, <1>8 DEF First, After, Pointer
  <2>3. Pointer(call.p)'
    BY <1>4, <1>6, <1>8 DEF Pointer
  <2>4. \A i \in Pending' : Pointer(First(i))' /\ (First(i)' # NULL => First(i)' # call'.p)
    BY <1>3, <1>6, <2>1, <2>2 DEF IInv, Pointers, Pointer
  <2>5. \A e \in Entries' : /\ Pointer(After(e))'
                            /\ After(e)' # NULL => /\ After(e)' # call'.p
                                                   /\ \A i \in Pending' : First(i)' # After(e)'
    BY <1>3, <1>6, <1>8, <2>1, <2>2 DEF IInv, Pointers, Pointer
  <2>6. \A e, f \in Entries' : After(e)' = After(f)' /\ After(e)' # NULL => e = f
    BY <1>8, <2>2 DEF IInv, Pointers
  <2>7. \A i, j \in Pending' : First(i)' = First(j)' /\ First(i)' # NULL => i = j
    BY <2>1, <2>2 DEF IInv, Pointers
  <2>8. QED
    BY <2>3, <2>4, <2>5, <2>6, <2>7 DEF Pointers
<1>13. QED
  BY <1>1, <1>8, <1>10, <1>11, <1>12 DEF IInv, AddedIsThere, NeverUndefined

LEMMA ReleaseTableIInv ==
  ASSUME IInv, ReleaseTable PROVE IInv'
<1>1. /\ call.op = "release" /\ call.p = NULL /\ call.h \in {0, 1} /\ ~undefined
      /\ call' = [call EXCEPT !.h = @ + 1, !.slot = 0]
      /\ UNCHANGED <<dict, entry, last, undefined>>
  BY DEF ReleaseTable, Running, IInv, Shapes
<1>2. /\ DOMAIN call' = DOMAIN call /\ call'.op = "release" /\ call'.p = NULL
      /\ call'.h \in {1, 2} /\ call'.slot = 0
  BY <1>1 DEF IInv, Shapes
<1>3. DOMAIN bucket' = Table
  BY DEF ReleaseTable
<1>4. dict.ht[call.h].table \in Table \cup {NULL} /\ Z!zfree(dict.ht[call.h].table)
  BY <1>1 DEF ReleaseTable, IInv, Tables, NoTable
<1>5. room' \in [Blocks -> Nat] /\ \A b \in Entry : room'[b] = room[b]
  BY <1>4, Frees, Addresses DEF IInv
<1>6. Entries' = Entries /\ ~Made' /\ Pending' = {}
  BY <1>2, <1>5 DEF Entries, Live, Made, Pending
<1>7. Shapes'
  BY <1>1, <1>2, <1>3, <1>5 DEF IInv, Shapes
<1>8. Tables'
  BY <1>1, <1>2, <1>6 DEF IInv, Tables
<1>9. Pointers'
  BY <1>1, <1>2, <1>6 DEF IInv, Pointers, Pointer, After
<1>10. QED
  BY <1>1, <1>6, <1>7, <1>8, <1>9 DEF IInv, AddedIsThere, NeverUndefined

LEMMA ReleaseDictIInv ==
  ASSUME IInv, ReleaseDict PROVE IInv'
<1>1. /\ ~undefined /\ Z!zfree(DictAddr) /\ dict' = _dictReset /\ call' = NoCall
      /\ UNCHANGED <<bucket, entry, last, undefined>>
  BY DEF ReleaseDict, Running
<1>2. /\ room' \in [Blocks -> Nat] /\ room'[DictAddr] = 0
      /\ \A b \in Entry : room'[b] = room[b]
  BY <1>1, Frees, Addresses DEF IInv
<1>3. call'.op = "none" /\ call'.p = NULL
  BY <1>1 DEF NoCall
<1>4. Entries' = Entries /\ ~Made' /\ Pending' = {}
  BY <1>2, <1>3 DEF Entries, Live, Made, Pending
<1>5. Shapes'
  BY <1>1, <1>2 DEF IInv, Shapes, NoCall, _dictReset
<1>6. Tables'
  BY <1>3, <1>4 DEF Tables
<1>7. Pointers'
  BY <1>1, <1>3, <1>4 DEF IInv, Pointers, Pointer, After
<1>8. QED
  BY <1>1, <1>4, <1>5, <1>6, <1>7 DEF IInv, AddedIsThere, NeverUndefined

-----------------------------------------------------------------------------
(* Memory safety.                                                          *)

LEMMA NextIInv == Liberties = {} => (IInv /\ [Next]_vars => IInv')
<1> SUFFICES ASSUME Liberties = {}, IInv, [Next]_vars PROVE IInv'
  OBVIOUS
<1>1. CASE NewPrivdata
  <2>1. /\ ~undefined /\ Z!zmalloc(PrivAddr, SizeofPriv)
        /\ UNCHANGED <<structs, call, undefined>>
    BY <1>1 DEF NewPrivdata, Running
  <2>2. /\ room' \in [Blocks -> Nat]
        /\ \A b \in Table \cup Entry \cup {DictAddr} : room'[b] = room[b]
    BY <2>1, Allocates, KnownSizes, Addresses DEF IInv
  <2>3. QED
    BY <2>1, <2>2, Elsewhere DEF structs
<1>2. CASE OutOfMemory
  <2>1. ~undefined /\ UNCHANGED <<room, structs, call, undefined>>
    BY <1>2 DEF OutOfMemory, Z!zmalloc_oom, Z!heap
  <2>2. QED
    BY <2>1, Elsewhere DEF structs, IInv, Shapes
<1>3. CASE UNCHANGED vars
  BY <1>3, Elsewhere DEF vars, heap, structs, IInv, Shapes, NeverUndefined
<1>4. QED
  BY <1>1, <1>2, <1>3, CreateIInv, CreateTableIInv, SetTypeIInv, AddIInv, FindIInv,
     ExpandIInv, ReleaseIInv, ReleaseEntryIInv, NextSlotIInv, ReleaseTableIInv,
     ReleaseDictIInv DEF Next

\* As long as callers do not look up what is absent, expand twice or release an
\* expanded dict, no call follows a pointer that is NULL, freed or unwritten: a
\* release frees no entry twice, and a key that was added is found in a bucket
\* that is not empty.
THEOREM DictMemorySafe == ASSUME Liberties = {} PROVE Spec => []NeverUndefined
<1>1. IInv => NeverUndefined
  BY DEF IInv
<1>2. IInv /\ [Next]_vars => IInv'
  BY NextIInv
<1>3. QED
  BY InitIInv, <1>1, <1>2, PTL DEF Spec

-----------------------------------------------------------------------------
(* The invariant of the chains.                                           *)

\* The slot of an entry's key.
KeySlot(e) == Hash[dict.type][entry[e].key] % 4

\* A number for each entry, counted from the end of its chain: 0 for the last.
\* A slot has one entry of each rank, and none above that of the first one (of
\* the next to be released, in the slot whose chain is being freed).
Ranks(rank) ==
  /\ \A e \in Entries :
       /\ dict.type \in Type /\ entry[e].key \in Key
       /\ After(e) = NULL => rank[e] = 0
       /\ After(e) # NULL => rank[e] = rank[After(e)] + 1 /\ KeySlot(After(e)) = KeySlot(e)
       /\ KeySlot(e) \in Pending => /\ First(KeySlot(e)) # NULL
                                    /\ rank[e] <= rank[First(KeySlot(e))]
       /\ KeySlot(e) \notin Pending => /\ call.p # NULL /\ KeySlot(call.p) = KeySlot(e)
                                       /\ rank[e] <= rank[call.p]
  /\ \A i \in Pending : First(i) # NULL => KeySlot(First(i)) = i
  /\ call.p # NULL => KeySlot(call.p) \notin Pending
  /\ \A e, f \in Entries : KeySlot(e) = KeySlot(f) /\ rank[e] = rank[f] => e = f
Chained == \E rank \in [Entry -> Nat] : Ranks(rank)

\* The blocks there are: the tables of a dict that has not been released yet,
\* and what the caller keeps.
OnlyItsBlocks ==
  /\ call.op # "release" \/ call.h # 0 => call.p = NULL
  /\ call.op # "none" => room[DictAddr] > 0
  /\ \A t \in Table : room[t] > 0 =>
       /\ Made \/ (call.op = "release" /\ call.h = 0)
       /\ t \in {dict.ht[0].table, dict.ht[1].table}
  /\ call.op = "release" => call.kept = Live({PrivAddr})

\* The bytes of every table asked for are a number a size_t can hold: dictExpand
\* multiplies without a check, and a table whose size wrapped would be shorter
\* than its mask says.
TablesFit ==
  \A n \in ExpandSizes \cup {DICT_HT_INITIAL_SIZE} : _dictNextPower(n) * SizeofPointer < SizeMod

\* The part of TypeOK that the invariant above does not tell.
Words ==
  /\ dict.rehashidx \in {-1, 0} /\ dict.ht \in [{0, 1} -> Ht]
  /\ \A t \in Table : \A i \in DOMAIN bucket[t] :
        bucket[t][i] \in Entry \cup {NULL, UNWRITTEN}
  /\ entry \in [Entry -> [key : Key \cup {NULL}, value : Value \cup {NULL},
                         next : Entry \cup {NULL}]]
  /\ call \in [op : {"none", "create", "release"}, h : 0 .. 2, slot : Nat,
               p : Entry \cup {NULL, GARBAGE}, kept : SUBSET {PrivAddr}]
  /\ result \in Value \cup {NULL} /\ undefined \in BOOLEAN

ChainInv == Z!TypeOK /\ Words /\ TablesHoldTheirBuckets /\ OnlyItsBlocks /\ Chained

-----------------------------------------------------------------------------
(* From ranks to chains.                                                   *)

\* A chain, place by place.
LEMMA ChainFollows ==
  ASSUME IInv, TypeOK, Made, NEW i \in Slots, NEW N \in Nat, N = Cardinality(Entry)
  PROVE  \A n \in 1 .. N + 1 :
           Chain(i)[n] = IF n = 1 THEN First(i)
                         ELSE IF Chain(i)[n - 1] \in Entry THEN After(Chain(i)[n - 1]) ELSE NULL
<1> DEFINE G == [p \in Entry \cup {NULL} |-> IF p \in Entry THEN After(p) ELSE NULL]
           F(at) == [n \in 1 .. Cardinality(Entry) + 1 |->
                       IF n = 1 THEN bucket[dict.ht[0].table][i]
                       ELSE IF at[n - 1] \in Entry THEN entry[at[n - 1]].next ELSE NULL]
           c == CHOOSE at : at = F(at)
<1>1. PICK f : Iterates(f, First(i), G, N + 1)
  <2>1. PICK M \in Nat : M = N + 1
    OBVIOUS
  <2> HIDE DEF G
  <2>2. \E f : Iterates(f, First(i), G, M)
    BY IterateExists
  <2>3. QED
    BY <2>1, <2>2
<1>2. \A n \in 1 .. N + 1 : f[n] = IF n = 1 THEN First(i) ELSE G[f[n - 1]]
  BY <1>1 DEF Iterates
<1>3. First(i) \in Entry \cup {NULL}
  BY DEF IInv, Pointers, Pointer, Pending, Entries, Live
<1>4. \A p \in Entry \cup {NULL} : G[p] \in Entry \cup {NULL}
  BY DEF TypeOK, After
<1>5. \A n \in 1 .. N + 1 : f[n] \in Entry \cup {NULL}
  <2> DEFINE S == {n \in Nat : n + 1 <= N + 1 => f[n + 1] \in Entry \cup {NULL}}
  <2> HIDE DEF G
  <2>1. 0 \in S
    BY <1>2, <1>3
  <2>2. ASSUME NEW n \in Nat, n \in S PROVE n + 1 \in S
    <3>1. PICK m \in Nat \ {0, 1} : m = (n + 1) + 1
      OBVIOUS
    <3>2. m <= N + 1 => f[m] = G[f[m - 1]] /\ f[m - 1] \in Entry \cup {NULL}
      BY <1>2, <2>2, <3>1
    <3>3. QED
      BY <1>4, <3>1, <3>2
  <2>3. Nat \subseteq S
    <3> HIDE DEF S
    <3>1. QED
      BY <2>1, <2>2, NatSetInduction
  <2>4. ASSUME NEW n \in 1 .. N + 1 PROVE f[n] \in Entry \cup {NULL}
    <3>1. n - 1 \in S /\ (n - 1) + 1 = n
      BY <2>3
    <3>2. QED
      BY <3>1
  <2>5. QED
    BY <2>4
<1>6. f = F(f)
  <2>1. ASSUME NEW n \in 1 .. N + 1
        PROVE  f[n] = IF n = 1 THEN First(i)
                      ELSE IF f[n - 1] \in Entry THEN After(f[n - 1]) ELSE NULL
    <3>1. CASE n # 1
      <4>1. f[n - 1] \in Entry \cup {NULL}
        BY <1>5, <3>1
      <4>2. f[n] = G[f[n - 1]]
        BY <1>2, <3>1
      <4>3. QED
        BY <3>1, <4>1, <4>2
    <3>2. QED
      BY <1>2, <3>1
  <2>2. f = [n \in 1 .. N + 1 |-> IF n = 1 THEN First(i)
                                  ELSE IF f[n - 1] \in Entry THEN After(f[n - 1]) ELSE NULL]
    <3>1. f = [n \in 1 .. N + 1 |-> IF n = 1 THEN First(i) ELSE G[f[n - 1]]]
      BY <1>1 DEF Iterates
    <3> HIDE DEF G
    <3>2. QED
      BY <2>1, <3>1
  <2>3. QED
    BY <2>2 DEF First, After
<1>7. c = F(c)
  <2> HIDE DEF F
  <2>1. QED
    BY <1>6, Zenon
<1>8. Chain(i) = c
  BY Zenon DEF Chain
<1>9. QED
  <2> HIDE DEF c
  <2>1. Chain(i) = F(Chain(i))
    BY <1>7, <1>8, Zenon
  <2>2. PICK d : d = Chain(i)
    OBVIOUS
  <2>3. d = F(d)
    BY <2>1, <2>2, Zenon
  <2>4. \A n \in 1 .. N + 1 : d[n] = IF n = 1 THEN First(i)
                         ELSE IF d[n - 1] \in Entry THEN After(d[n - 1]) ELSE NULL
    BY <2>3 DEF First, After
  <2>5. QED
    BY <2>2, <2>4

\* What is in each place: the ranks go down to 0, and the rest is empty.
LEMMA ChainPlaces ==
  ASSUME IInv, TypeOK, Made, NEW rank \in [Entry -> Nat], Ranks(rank), NEW i \in Slots,
         NEW N \in Nat, N = Cardinality(Entry)
  PROVE  \A n \in 1 .. N + 1 :
           IF First(i) # NULL /\ n <= rank[First(i)] + 1
             THEN /\ Chain(i)[n] \in Entries /\ KeySlot(Chain(i)[n]) = i
                  /\ rank[Chain(i)[n]] = rank[First(i)] + 1 - n
             ELSE Chain(i)[n] = NULL
<1>1. PICK d : d = Chain(i)
  OBVIOUS
<1>2. \A n \in 1 .. N + 1 : d[n] = IF n = 1 THEN First(i)
                                   ELSE IF d[n - 1] \in Entry THEN After(d[n - 1]) ELSE NULL
  BY <1>1, ChainFollows
<1> DEFINE Place(n) == IF First(i) # NULL /\ n <= rank[First(i)] + 1
                       THEN /\ d[n] \in Entries /\ KeySlot(d[n]) = i
                            /\ rank[d[n]] = rank[First(i)] + 1 - n
                       ELSE d[n] = NULL
           S == {n \in Nat : n + 1 <= N + 1 => Place(n + 1)}
<1>3. i \in Pending /\ Pointer(First(i)) /\ Entries \subseteq Entry /\ NULL \notin Entry
  BY Addresses DEF Pending, IInv, Pointers, Entries, Live
<1>4. First(i) # NULL => First(i) \in Entries /\ KeySlot(First(i)) = i
  BY <1>3 DEF Ranks, Pointer
<1>5. 0 \in S
  <2>1. d[1] = First(i)
    BY <1>2
  <2>2. First(i) # NULL => rank[First(i)] \in Nat /\ rank[First(i)] = rank[First(i)] + 1 - 1
    BY <1>3, <1>4
  <2>3. Place(1)
    BY <1>4, <2>1, <2>2
  <2>4. 0 + 1 = 1
    OBVIOUS
  <2> HIDE DEF Place
  <2>5. QED
    BY <2>3, <2>4
<1>6. ASSUME NEW n \in Nat, n \in S PROVE n + 1 \in S
  <2>1. PICK k \in Nat \ {0} : k = n + 1
    OBVIOUS
  <2>2. PICK m \in Nat \ {0, 1} : m = k + 1 /\ m - 1 = k
    OBVIOUS
  <2>3. ASSUME m <= N + 1 PROVE Place(m)
    <3>1. Place(k)
      <4> HIDE DEF Place
      <4>1. QED
        BY <1>6, <2>1, <2>2, <2>3
    <3>2. d[m] = IF d[k] \in Entry THEN After(d[k]) ELSE NULL
      BY <1>2, <2>2, <2>3
    <3>3. CASE First(i) # NULL /\ k <= rank[First(i)] + 1
      <4>1. PICK e \in Entries : e = d[k] /\ KeySlot(e) = i
        BY <3>1, <3>3
      <4>2. PICK R \in Nat, r \in Nat : R = rank[First(i)] /\ r = rank[e] /\ r = R + 1 - k
        BY <1>3, <1>4, <3>1, <3>3, <4>1
      <4>3. d[m] = After(e) /\ Pointer(After(e))
        BY <1>3, <3>2, <4>1 DEF IInv, Pointers
      <4>4. After(e) = NULL => r = 0
        BY <4>1, <4>2 DEF Ranks
      <4>5. After(e) # NULL => /\ After(e) \in Entries /\ KeySlot(After(e)) = i
                               /\ rank[After(e)] \in Nat /\ r = rank[After(e)] + 1
        BY <1>3, <4>1, <4>2, <4>3 DEF Ranks, Pointer
      <4>6. CASE After(e) = NULL
        BY <2>2, <4>2, <4>3, <4>4, <4>6
      <4>7. CASE After(e) # NULL
        BY <2>2, <3>3, <4>2, <4>3, <4>5, <4>7
      <4>8. QED
        BY <4>6, <4>7
    <3>4. CASE ~(First(i) # NULL /\ k <= rank[First(i)] + 1)
      <4>1. d[k] = NULL
        BY <3>1, <3>4
      <4>2. d[m] = NULL
        BY <1>3, <3>2, <4>1
      <4>3. ~(First(i) # NULL /\ m <= rank[First(i)] + 1)
        BY <1>3, <1>4, <2>2, <3>4
      <4>4. QED
        BY <4>2, <4>3
    <3>5. QED
      BY <3>3, <3>4
  <2> HIDE DEF Place
  <2>4. QED
    BY <2>1, <2>2, <2>3
<1>7. Nat \subseteq S
  <2> HIDE DEF S
  <2>1. QED
    BY <1>5, <1>6, NatSetInduction
<1>8. ASSUME NEW n \in 1 .. N + 1 PROVE Place(n)
  <2> HIDE DEF Place
  <2>1. n - 1 \in S /\ (n - 1) + 1 = n
    BY <1>7
  <2>2. QED
    BY <2>1
<1>9. QED
  BY <1>1, <1>8

\* A chain is no longer than there are entries.
LEMMA ChainLength ==
  ASSUME IInv, TypeOK, Made, NEW rank \in [Entry -> Nat], Ranks(rank), NEW i \in Slots,
         NEW N \in Nat, N = Cardinality(Entry), First(i) # NULL
  PROVE  First(i) \in Entries /\ rank[First(i)] \in Nat /\ rank[First(i)] + 1 <= N
<1>1. First(i) \in Entries /\ First(i) \in Entry
  BY DEF Pending, IInv, Pointers, Pointer, Entries, Live
<1>2. PICK R \in Nat : R = rank[First(i)]
  BY <1>1
<1>3. SUFFICES ASSUME ~(R + 1 <= N) PROVE FALSE
  BY <1>1, <1>2
<1> DEFINE f == [n \in 1 .. N + 1 |-> Chain(i)[n]]
<1>4. \A n \in 1 .. N + 1 : Chain(i)[n] \in Entries /\ rank[Chain(i)[n]] = R + 1 - n
  BY <1>2, <1>3, ChainPlaces
<1>5. \A n \in 1 .. N + 1 : f[n] \in Entry /\ rank[f[n]] = R + 1 - n
  BY <1>4 DEF Entries, Live
<1>6. f \in [1 .. N + 1 -> Entry]
  BY <1>5
<1>7. \A m, n \in 1 .. N + 1 : f[m] = f[n] => m = n
  <2> HIDE DEF f
  <2>1. QED
    BY <1>5
<1>8. N + 1 <= N
  <2> HIDE DEF f
  <2>1. IsFiniteSet(Entry) /\ N + 1 \in Nat
    BY DictAssumption
  <2>2. QED
    BY <1>6, <1>7, <2>1, NumberedElements
<1>9. QED
  BY <1>8

\* The ranks and places of a slot count the same entries from either end.
LEMMA ChainsShareTheEntries ==
  ASSUME IInv, TypeOK, Chained
  PROVE  EntriesAreChained
<1>1. SUFFICES ASSUME DictAddr \in Live(Blocks), Idle PROVE EntriesAreChained
  BY DEF EntriesAreChained
<1>2. Made /\ dict.ht[0].sizemask = 3 /\ Pending = Slots /\ 0 .. dict.ht[0].sizemask = Slots
  BY <1>1 DEF Live, Idle, Made, IInv, Tables, Pending, Slots
<1>3. PICK rank \in [Entry -> Nat] : Ranks(rank)
  BY DEF Chained
<1>4. PICK N \in Nat : N = Cardinality(Entry)
  BY DictAssumption, FS_CardinalityType
<1> DEFINE At(q) == Chain(q[1])[q[2]]
           places == {q \in Slots \X (1 .. N) : At(q) # NULL}
<1>5. ASSUME NEW i \in Slots, NEW n \in 1 .. N + 1, Chain(i)[n] # NULL
      PROVE  /\ Chain(i)[n] \in Entries /\ KeySlot(Chain(i)[n]) = i
             /\ rank[Chain(i)[n]] = rank[First(i)] + 1 - n
             /\ First(i) \in Entries /\ rank[First(i)] \in Nat
  BY <1>2, <1>3, <1>4, <1>5, ChainPlaces, ChainLength
<1>6. ASSUME NEW q \in places
      PROVE  /\ At(q) \in Entries /\ q[1] \in Slots /\ KeySlot(At(q)) = q[1] /\ q[2] \in 1 .. N
             /\ rank[At(q)] = rank[First(q[1])] + 1 - q[2] /\ rank[First(q[1])] \in Nat
  <2>1. PICK i \in Slots, n \in 1 .. N + 1 : q = <<i, n>> /\ n \in 1 .. N
    OBVIOUS
  <2>2. Chain(i)[n] # NULL /\ q[1] = i /\ q[2] = n
    BY <2>1
  <2>3. QED
    BY <1>5, <2>1, <2>2
<1>7. ASSUME NEW e \in Entries PROVE \E q \in places : At(q) = e
  <2>1. PICK i \in Slots : i = KeySlot(e)
    BY <1>3, SlotOfKey DEF Ranks, KeySlot
  <2>2. First(i) # NULL /\ rank[e] <= rank[First(i)] /\ e \in Entry
    BY <1>2, <1>3, <2>1 DEF Ranks, Entries, Live
  <2>3. First(i) \in Entries /\ rank[First(i)] \in Nat /\ rank[First(i)] + 1 <= N
    BY <1>2, <1>3, <1>4, <2>2, ChainLength
  <2>4. PICK n \in 1 .. N : n = rank[First(i)] + 1 - rank[e] /\ n <= rank[First(i)] + 1
    BY <2>2, <2>3
  <2>5. PICK g : g = Chain(i)[n]
    OBVIOUS
  <2>6. g \in Entries /\ KeySlot(g) = i /\ rank[g] = rank[First(i)] + 1 - n
    BY <1>2, <1>3, <1>4, <2>2, <2>4, <2>5, ChainPlaces
  <2>7. rank[g] = rank[e]
    BY <2>2, <2>3, <2>4, <2>6
  <2>8. g = e
    BY <1>3, <2>1, <2>6, <2>7 DEF Ranks
  <2>9. <<i, n>> \in places
    BY <2>5, <2>6, Addresses DEF Entries, Live
  <2>10. QED
    BY <2>5, <2>8, <2>9
<1>8. ASSUME NEW q \in places, NEW r \in places, At(q) = At(r) PROVE q = r
  <2> HIDE DEF At
  <2>1. q[1] = r[1]
    BY <1>6, <1>8
  <2>2. q[2] = r[2]
    BY <1>6, <1>8, <2>1
  <2>3. QED
    BY <2>1, <2>2
<1>9. ASSUME NEW q \in places PROVE Slot(entry[At(q)].key, 0) = q[1]
  <2>1. KeySlot(At(q)) = q[1]
    BY <1>6
  <2>2. QED
    BY <1>2, <2>1 DEF Slot, KeySlot
<1>10. ASSUME NEW i \in Slots PROVE Chain(i)[N + 1] = NULL
  <2>1. First(i) # NULL => ~(N + 1 <= rank[First(i)] + 1)
    BY <1>2, <1>3, <1>4, ChainLength
  <2>2. QED
    BY <1>2, <1>3, <1>4, <2>1, ChainPlaces
<1>11. {At(q) : q \in places} = Live(Entry)
  <2> HIDE DEF At, places
  <2>1. QED
    BY <1>6, <1>7 DEF Entries
<1>12. QED
  <2>1. places = {q \in (0 .. dict.ht[0].sizemask) \X (1 .. Cardinality(Entry)) : At(q) # NULL}
    BY <1>2, <1>4
  <2> HIDE DEF places
  <2>2. QED
    BY <1>2, <1>4, <1>8, <1>9, <1>10, <1>11, <2>1 DEF EntriesAreChained

-----------------------------------------------------------------------------
(* Types and blocks.                                                       *)

LEMMA TypesOfWords == ASSUME IInv PROVE TypeOK <=> Z!TypeOK /\ Words
  BY DEF IInv, Shapes, NeverUndefined, TypeOK, Words

\* What dictExpand asks zmalloc for is what the table needs.
LEMMA ResultOfPower ==
  ASSUME TablesFit, NEW n \in ExpandSizes \cup {DICT_HT_INITIAL_SIZE}
  PROVE  _dictNextPower(n) \in Nat \ {0} /\ TableBytes(n) = _dictNextPower(n) * SizeofPointer
<1>1. n \in Nat
  BY DictAssumption DEF DICT_HT_INITIAL_SIZE
<1>2. PICK r \in Nat \ {0} : r = _dictNextPower(n)
  <2>1. _dictNextPower(n) \in Nat \ {0}
    BY <1>1, NextPower, Zenon
  <2>2. QED
    BY <2>1
<1>3. r * SizeofPointer \in Nat /\ r * SizeofPointer < SizeMod /\ SizeMod \in Nat
  BY <1>2, DictAssumption DEF TablesFit
<1>4. PICK b \in Nat : b = r * SizeofPointer
  BY <1>3
<1>5. b % SizeMod = b
  BY <1>3, <1>4
<1>6. QED
  BY <1>2, <1>4, <1>5 DEF TableBytes

LEMMA AllocatesHeader ==
  ASSUME Z!TypeOK, NEW a \in Blocks, NEW n \in Sizes, Z!zmalloc(a, n)
  PROVE  /\ Z!TypeOK' /\ header'[a] = n
         /\ \A b \in Blocks : b # a => header'[b] = header[b]
<1>1. n \in Nat /\ n + PREFIX_SIZE < SizeMod /\ PREFIX_SIZE \in Nat \ {0} /\ SizeMod \in Nat \ {0}
  BY DictAssumption
<1>2. PICK s \in 0 .. SizeMod - 1 : s = n + PREFIX_SIZE
  BY <1>1
<1>3. s % SizeMod = s
  BY <1>1, <1>2
<1>4. /\ room' = [room EXCEPT ![a] = s] /\ header' = [header EXCEPT ![a] = n]
      /\ used_memory' = (used_memory + s) % SizeMod /\ status' = status
  BY <1>2, <1>3 DEF Z!zmalloc, Z!increment_used_memory
<1>5. used_memory' \in 0 .. SizeMod - 1
  <2>1. PICK u \in Int : u = used_memory + s
    BY <1>2 DEF Z!TypeOK
  <2>2. u % SizeMod \in 0 .. SizeMod - 1
    BY <1>1
  <2>3. QED
    BY <1>4, <2>1, <2>2
<1>6. QED
  BY <1>1, <1>2, <1>4, <1>5 DEF Z!TypeOK

LEMMA FreesHeader ==
  ASSUME Z!TypeOK, NEW a, Z!zfree(a)
  PROVE  Z!TypeOK' /\ \A b \in Blocks : b # a => header'[b] = header[b]
<1>1. PREFIX_SIZE \in Nat \ {0} /\ SizeMod \in Nat \ {0}
  BY DictAssumption DEF LONG_MAX, DICT_HT_INITIAL_SIZE
<1>2. CASE UNCHANGED Z!vars
  BY <1>2 DEF Z!vars, Z!TypeOK
<1>3. CASE /\ a \in Blocks
           /\ used_memory' = Z!decrement_used_memory(used_memory, header[a] + PREFIX_SIZE)
           /\ room' = [room EXCEPT ![a] = 0] /\ header' = [header EXCEPT ![a] = 0]
           /\ UNCHANGED status
  <2>1. used_memory' \in 0 .. SizeMod - 1
    <3>1. PICK u \in Int : u = used_memory - (header[a] + PREFIX_SIZE)
      BY <1>1, <1>3 DEF Z!TypeOK
    <3>2. u % SizeMod \in 0 .. SizeMod - 1
      BY <1>1
    <3>3. QED
      BY <1>3, <3>1, <3>2 DEF Z!decrement_used_memory
  <2>2. QED
    BY <1>1, <1>3, <2>1 DEF Z!TypeOK
<1>4. QED
  BY <1>2, <1>3 DEF Z!zfree, Z!Allocated

-----------------------------------------------------------------------------
(* What does not touch the chains.                                         *)

LEMMA HoldsElsewhere ==
  ASSUME Words, TablesHoldTheirBuckets, dict'.ht = dict.ht,
         \A t \in Table : room'[t] > 0 => room[t] > 0 /\ header'[t] = header[t]
  PROVE  TablesHoldTheirBuckets'
<1>1. \A h \in {0, 1} : dict.ht[h].table \in Table \cup {NULL}
  BY DEF Words, Ht
<1>2. QED
  BY <1>1, Addresses DEF TablesHoldTheirBuckets, Live, Z!zsizeof

LEMMA ChainsElsewhere ==
  ASSUME Chained, Entries' = Entries, Pending' = Pending, \A i \in Pending : First(i)' = First(i),
         UNCHANGED entry, dict'.type = dict.type, call'.p = call.p
  PROVE  Chained'
<1>1. PICK rank \in [Entry -> Nat] : Ranks(rank)
  BY DEF Chained
<1>2. \A e : After(e)' = After(e) /\ KeySlot(e)' = KeySlot(e)
  BY DEF After, KeySlot
<1>3. Ranks(rank)'
  BY <1>1, <1>2 DEF Ranks
<1>4. QED
  BY <1>3 DEF Chained

LEMMA ChainsOfNone ==
  ASSUME Pointers', Entries' = {}
  PROVE  Chained'
<1>1. call'.p = NULL /\ \A i \in Pending' : First(i)' = NULL
  BY DEF Pointers, Pointer
<1>2. [e \in Entry |-> 0] \in [Entry -> Nat]
  OBVIOUS
<1>3. \A r : Ranks(r)'
  BY <1>1 DEF Ranks
<1>4. QED
  BY <1>2, <1>3 DEF Chained

\* When nothing leads to entries, there are none.
LEMMA NoneLeft ==
  ASSUME Chained, Pending = {}, call.p = NULL
  PROVE  Entries = {}
  BY DEF Chained, Ranks

LEMMA KeepsChainInv ==
  ASSUME IInv, ChainInv, UNCHANGED <<dict, bucket, entry, last, call, undefined>>,
         result' \in Value \cup {NULL}, Z!TypeOK',
         \A b \in Table \cup Entry \cup {DictAddr} : room'[b] = room[b] /\ header'[b] = header[b],
         room'[PrivAddr] = room[PrivAddr] \/ call.op # "release"
  PROVE  ChainInv'
<1>1. Entries' = Entries
  BY DEF Entries, Live
<1>2. Made' = Made /\ Pending' = Pending
  BY DEF Made, Pending
<1>3. Words'
  BY DEF ChainInv, Words
<1>4. TablesHoldTheirBuckets'
  BY HoldsElsewhere DEF ChainInv
<1>5. OnlyItsBlocks'
  BY <1>2 DEF ChainInv, OnlyItsBlocks, Live
<1>6. Chained'
  BY <1>1, <1>2, ChainsElsewhere DEF ChainInv, First
<1>7. QED
  BY <1>3, <1>4, <1>5, <1>6 DEF ChainInv

\* A dict is made only when there is none, and then there are no entries.
LEMMA CreateChainInv ==
  ASSUME IInv, IInv', ChainInv, NEW type \in Type \cup {NULL}, NEW p \in {NULL, PrivAddr},
         dictCreate(type, p)
  PROVE  ChainInv'
<1>1. /\ call.op = "none" /\ call' = [NoCall EXCEPT !.op = "create"]
      /\ UNCHANGED <<bucket, entry, undefined>> /\ result' = NULL
      /\ dict' = [_dictReset EXCEPT !.type = type, !.privdata = p]
      /\ Z!zmalloc(DictAddr, SizeofDict)
  BY DEF dictCreate, Idle
<1>2. /\ room[DictAddr] = 0 /\ room' \in [Blocks -> Nat]
      /\ \A b \in Table \cup Entry : room'[b] = room[b]
  BY <1>1, Allocates, KnownSizes, Addresses DEF IInv
<1>3. Z!TypeOK'
  BY <1>1, AllocatesHeader, KnownSizes, Addresses DEF ChainInv
<1>4. ~Made /\ Pending = {} /\ call.p = NULL
  BY <1>1, <1>2 DEF Made, Pending, ChainInv, OnlyItsBlocks
<1>5. Entries' = {}
  BY <1>2, <1>4, NoneLeft DEF ChainInv, Entries, Live
<1>6. Chained'
  BY <1>5, ChainsOfNone DEF IInv
<1>7. \A t \in Table : room'[t] = 0
  BY <1>1, <1>2, <1>4, Addresses DEF ChainInv, OnlyItsBlocks, IInv, Shapes
<1>8. call'.op = "create" /\ call'.p = NULL
  BY <1>1 DEF NoCall
<1>9. OnlyItsBlocks'
  <2>1. room'[DictAddr] > 0
    BY <1>1, Allocates, KnownSizes, Addresses DEF IInv
  <2>2. QED
    BY <1>7, <1>8, <2>1 DEF OnlyItsBlocks
<1>10. dict'.ht = [h \in {0, 1} |-> NoTable] /\ dict'.rehashidx = -1
  BY <1>1 DEF _dictReset
<1>11. TablesHoldTheirBuckets'
  BY <1>10, Addresses DEF TablesHoldTheirBuckets, NoTable, Live
<1>12. Words'
  <2>1. dict'.ht \in [{0, 1} -> Ht]
    BY <1>10 DEF NoTable, Ht
  <2>2. call' \in [op : {"none", "create", "release"}, h : 0 .. 2, slot : Nat,
                   p : Entry \cup {NULL, GARBAGE}, kept : SUBSET {PrivAddr}]
    BY <1>1 DEF NoCall
  <2>3. QED
    BY <1>1, <1>10, <2>1, <2>2 DEF ChainInv, Words
<1>13. QED
  BY <1>3, <1>6, <1>9, <1>11, <1>12 DEF ChainInv

LEMMA CreateTableChainInv ==
  ASSUME TablesFit, IInv, IInv', ChainInv, NEW t \in Table, CreateTable(t)
  PROVE  ChainInv'
<1> DEFINE n == [table |-> t, size |-> 4, sizemask |-> 3, used |-> 0]
<1>1. /\ call.op = "create" /\ call' = NoCall /\ UNCHANGED <<entry, last, result, undefined>>
      /\ Z!zmalloc(t, TableBytes(DICT_HT_INITIAL_SIZE))
      /\ bucket' = [bucket EXCEPT ![t] = [i \in 0 .. dict'.ht[0].size - 1 |-> NULL]]
  BY DEF CreateTable, NewTable
<1>2. dict' = [dict EXCEPT !.ht[0] = n]
  <2>1. dict.ht[0].table = NULL
    BY <1>1 DEF IInv, Tables
  <2>2. QED
    BY <2>1, InitialSize DEF CreateTable, NewTable
<1>3. /\ dict'.rehashidx = dict.rehashidx /\ dict'.ht = [dict.ht EXCEPT ![0] = n]
      /\ dict'.ht[0] = n /\ dict'.ht[1] = NoTable
  BY <1>1, <1>2 DEF IInv, Shapes, Tables
<1>4. /\ room' \in [Blocks -> Nat] /\ \A b \in Blocks : b # t => room'[b] = room[b]
  BY <1>1, Allocates, KnownSizes, Addresses DEF IInv
<1>5. Z!TypeOK' /\ header'[t] = TableBytes(DICT_HT_INITIAL_SIZE)
  BY <1>1, AllocatesHeader, KnownSizes, Addresses DEF ChainInv
<1>6. ~Made /\ Pending = {} /\ call.p = NULL
  BY <1>1 DEF Made, Pending, ChainInv, OnlyItsBlocks
<1>7. Entries' = {}
  BY <1>4, <1>6, NoneLeft, Addresses DEF ChainInv, Entries, Live
<1>8. Chained'
  BY <1>7, ChainsOfNone DEF IInv
<1>9. Made'
  BY <1>1, <1>4, Addresses DEF ChainInv, OnlyItsBlocks, Made, NoCall
<1>10. OnlyItsBlocks'
  <2>1. call'.op = "none" /\ call'.p = NULL
    BY <1>1 DEF NoCall
  <2>2. \A u \in Table : u # t => room'[u] = room[u] /\ ~(room[u] > 0)
    BY <1>1, <1>4, <1>6, Addresses DEF ChainInv, OnlyItsBlocks
  <2>3. QED
    BY <1>3, <1>9, <2>1, <2>2 DEF OnlyItsBlocks
<1>11. TablesHoldTheirBuckets'
  <2>1. TableBytes(DICT_HT_INITIAL_SIZE) = 4 * SizeofPointer
    BY InitialSize, ResultOfPower, Zenon
  <2>2. 4 * SizeofPointer \in Nat
    BY DictAssumption
  <2>3. QED
    BY <1>3, <1>5, <2>1, <2>2, Addresses DEF TablesHoldTheirBuckets, Z!zsizeof, NoTable, Live
<1>12. Words'
  <2>1. dict'.ht \in [{0, 1} -> Ht]
    BY <1>3, Addresses DEF ChainInv, Words, Ht, NoTable
  <2>2. call' \in [op : {"none", "create", "release"}, h : 0 .. 2, slot : Nat,
                   p : Entry \cup {NULL, GARBAGE}, kept : SUBSET {PrivAddr}]
    BY <1>1 DEF NoCall
  <2>3. \A u \in Table : \A i \in DOMAIN bucket'[u] :
          bucket'[u][i] \in Entry \cup {NULL, UNWRITTEN}
    BY <1>1 DEF ChainInv, Words, IInv, Shapes
  <2>4. QED
    BY <1>1, <1>3, <2>1, <2>2, <2>3 DEF ChainInv, Words
<1>13. QED
  BY <1>5, <1>8, <1>10, <1>11, <1>12 DEF ChainInv

LEMMA SetTypeChainInv ==
  ASSUME IInv, IInv', ChainInv, NEW type \in Type, SetType(type)
  PROVE  ChainInv'
<1>1. /\ Made /\ Entries = {} /\ dict' = [dict EXCEPT !.type = type] /\ result' = NULL
      /\ UNCHANGED <<heap, bucket, entry, last, call, undefined>>
  BY Addresses DEF SetType, Ready, Idle, Made, Entries, Live
<1>2. UNCHANGED <<room, header, used_memory, status>>
  BY <1>1 DEF heap
<1>3. dict'.rehashidx = dict.rehashidx /\ dict'.ht = dict.ht
  BY <1>1 DEF IInv, Shapes
<1>4. Entries' = {} /\ Made'
  BY <1>1, <1>2 DEF Entries, Live, Made
<1>5. Chained'
  BY <1>4, ChainsOfNone DEF IInv
<1>6. Z!TypeOK'
  BY <1>2 DEF ChainInv, Z!TypeOK
<1>7. TablesHoldTheirBuckets'
  BY <1>2, <1>3, HoldsElsewhere DEF ChainInv
<1>8. OnlyItsBlocks'
  BY <1>1, <1>2, <1>3, <1>4 DEF ChainInv, OnlyItsBlocks, Live
<1>9. Words'
  BY <1>1, <1>3 DEF ChainInv, Words
<1>10. QED
  BY <1>5, <1>6, <1>7, <1>8, <1>9 DEF ChainInv

\* ht[1] gets a table; lookups and chains go by ht[0].
LEMMA ExpandChainInv ==
  ASSUME TablesFit, Liberties = {}, IInv, IInv', ChainInv, NEW size \in ExpandSizes,
         NEW t \in Table, dictExpand(size, t)
  PROVE  ChainInv'
<1>1. /\ Made /\ dict.ht[0].table \in Table /\ room[dict.ht[0].table] > 0
      /\ dict.ht[0].table # NULL /\ dict.ht[1].table = NULL /\ result' = NULL
  BY Addresses DEF dictExpand, Ready, Running, Idle, Live, Made, IInv, Tables
<1>2. CASE _dictNextPower(size) = dict.ht[0].size
  <2>1. UNCHANGED <<heap, dict, bucket, entry, last, call, undefined>>
    BY <1>2 DEF dictExpand
  <2>2. QED
    BY <1>1, <2>1, KeepsChainInv DEF heap, ChainInv, Z!TypeOK
<1>3. CASE _dictNextPower(size) # dict.ht[0].size
  <2>1. PICK r \in Nat \ {0} : r = _dictNextPower(size) /\ TableBytes(size) = r * SizeofPointer
    <3>1. size \in ExpandSizes \cup {DICT_HT_INITIAL_SIZE}
      OBVIOUS
    <3>2. /\ _dictNextPower(size) \in Nat \ {0}
          /\ TableBytes(size) = _dictNextPower(size) * SizeofPointer
      BY <3>1, ResultOfPower, Zenon
    <3>3. QED
      BY <3>2
  <2> DEFINE n == [table |-> t, size |-> r, sizemask |-> r - 1, used |-> 0]
  <2>2. /\ Z!zmalloc(t, TableBytes(size)) /\ UNCHANGED <<entry, last, call, undefined>>
        /\ bucket' = [bucket EXCEPT ![t] = [i \in 0 .. r - 1 |-> UNWRITTEN]]
        /\ dict' = [dict EXCEPT !.ht[1] = n, !.rehashidx = 0]
    BY <1>1, <1>3, <2>1 DEF dictExpand, NewTable
  <2>3. /\ dict'.type = dict.type /\ dict'.ht = [dict.ht EXCEPT ![1] = n] /\ dict'.rehashidx = 0
        /\ dict'.ht[0] = dict.ht[0] /\ dict'.ht[1] = n
    BY <2>2 DEF IInv, Shapes
  <2>4. /\ room[t] = 0 /\ room' \in [Blocks -> Nat]
        /\ \A b \in Blocks : b # t => room'[b] = room[b]
    BY <2>2, Allocates, KnownSizes, Addresses DEF IInv
  <2>5. /\ Z!TypeOK' /\ header'[t] = r * SizeofPointer
        /\ \A b \in Blocks : b # t => header'[b] = header[b]
    BY <2>1, <2>2, AllocatesHeader, KnownSizes, Addresses DEF ChainInv
  <2>6. /\ t # dict.ht[0].table /\ bucket'[dict.ht[0].table] = bucket[dict.ht[0].table]
    BY <1>1, <2>2, <2>4 DEF IInv, Shapes
  <2>7. Entries' = Entries
    BY <2>4, Addresses DEF Entries, Live
  <2>8. Made' /\ Pending' = Pending
    BY <1>1, <2>2, <2>4, Addresses DEF Made, Pending
  <2>9. Chained'
    BY <2>2, <2>3, <2>6, <2>7, <2>8, ChainsElsewhere DEF ChainInv, First
  <2>10. OnlyItsBlocks'
    <3>1. \A u \in Table : u # t => room'[u] = room[u]
      BY <2>4, Addresses
    <3>2. \A u \in Table : room[u] > 0 => u = dict.ht[0].table
      BY <1>1, Addresses DEF ChainInv, OnlyItsBlocks
    <3>3. call'.op = "none" /\ call'.p = NULL
      BY <1>1, <2>2 DEF Made, ChainInv, OnlyItsBlocks
    <3>4. \A u \in Table : room'[u] > 0 => u \in {dict'.ht[0].table, dict'.ht[1].table}
      BY <2>3, <3>1, <3>2
    <3>5. QED
      BY <2>8, <3>3, <3>4 DEF OnlyItsBlocks
  <2>11. TablesHoldTheirBuckets'
    <3>1. dict.ht[0].table \in Blocks /\ header'[dict.ht[0].table] = header[dict.ht[0].table]
      BY <1>1, <2>5, <2>6, Addresses
    <3>2. dict.ht[0].sizemask = dict.ht[0].size - 1
          /\ dict.ht[0].size * SizeofPointer <= header[dict.ht[0].table]
      BY <1>1, <3>1 DEF ChainInv, TablesHoldTheirBuckets, Live, Z!zsizeof
    <3>3. r * SizeofPointer \in Nat
      BY <2>1, DictAssumption
    <3>4. /\ dict'.ht[0].sizemask = dict'.ht[0].size - 1
          /\ dict'.ht[0].size * SizeofPointer <= header'[dict'.ht[0].table]
      BY <2>3, <3>1, <3>2
    <3>5. /\ dict'.ht[1].sizemask = dict'.ht[1].size - 1
          /\ dict'.ht[1].size * SizeofPointer <= header'[dict'.ht[1].table]
      BY <2>3, <2>5, <3>3
    <3>6. QED
      BY <3>4, <3>5 DEF TablesHoldTheirBuckets, Z!zsizeof
  <2>12. Words'
    <3>1. dict'.ht \in [{0, 1} -> Ht]
      BY <2>1, <2>3 DEF ChainInv, Words, Ht
    <3>2. \A u \in Table : \A i \in DOMAIN bucket'[u] :
            bucket'[u][i] \in Entry \cup {NULL, UNWRITTEN}
      BY <2>2 DEF ChainInv, Words, IInv, Shapes
    <3>3. QED
      BY <1>1, <2>2, <2>3, <3>1, <3>2 DEF ChainInv, Words
  <2>13. QED
    BY <2>5, <2>9, <2>10, <2>11, <2>12 DEF ChainInv
<1>4. QED
  BY <1>2, <1>3

\* The new entry has the rank after that of the one it comes before.
LEMMA AddChainInv ==
  ASSUME IInv, IInv', ChainInv, NEW k \in Key, NEW v \in Value, NEW e \in Entry, dictAdd(k, v, e)
  PROVE  ChainInv'
<1> DEFINE t == dict.ht[0].table
<1>1. Made /\ dict.type \in Type /\ call.op = "none" /\ call.p = NULL
  BY DEF dictAdd, Ready, Running, Idle, Live, Made, IInv, Shapes, ChainInv, OnlyItsBlocks
<1>2. /\ t \in Table /\ room[t] > 0 /\ dict.ht[0].sizemask = 3 /\ DOMAIN bucket[t] = Slots
      /\ {t} \subseteq Live(Blocks)
  BY <1>1, Addresses DEF IInv, Tables, Live
<1>3. PICK s \in Slots : s = Slot(k, 0) /\ s = Hash[dict.type][k] % 4
  BY <1>1, <1>2, SlotOfKey DEF Slot
<1>4. /\ Z!zmalloc(e, SizeofEntry) /\ UNCHANGED <<dict, call, undefined>> /\ result' = NULL
      /\ entry' = [entry EXCEPT ![e] = [key |-> k, value |-> v, next |-> bucket[t][s]]]
      /\ bucket' = [bucket EXCEPT ![t][s] = e]
  BY <1>2, <1>3 DEF dictAdd, Touching
<1>5. /\ room[e] = 0 /\ room' \in [Blocks -> Nat] /\ room'[e] > 0
      /\ \A b \in Blocks : b # e => room'[b] = room[b]
  BY <1>4, Allocates, KnownSizes, Addresses DEF IInv
<1>6. Z!TypeOK' /\ \A b \in Blocks : b # e => header'[b] = header[b]
  BY <1>4, AllocatesHeader, KnownSizes, Addresses DEF ChainInv
<1>7. Entries' = Entries \cup {e} /\ e \notin Entries
  BY <1>5, Addresses DEF Entries, Live
<1>8. Made' /\ Pending = Slots /\ Pending' = Slots
  BY <1>1, <1>4, <1>5, Addresses DEF Made, Pending
<1>9. First(s)' = e /\ \A i \in Slots \ {s} : First(i)' = First(i)
  BY <1>2, <1>3, <1>4 DEF IInv, Shapes, First
<1>10. /\ After(e)' = First(s) /\ entry'[e].key = k
       /\ \A f \in Entry \ {e} : entry'[f] = entry[f]
  BY <1>4 DEF IInv, Shapes, After, First
<1>11. /\ KeySlot(e)' = s
       /\ \A f \in Entry \ {e} : After(f)' = After(f) /\ KeySlot(f)' = KeySlot(f)
  BY <1>3, <1>4, <1>10 DEF After, KeySlot
<1>12. OnlyItsBlocks'
  <2>1. \A u \in Table : room'[u] = room[u]
    BY <1>5, Addresses
  <2>2. QED
    BY <1>1, <1>4, <1>8, <2>1 DEF ChainInv, OnlyItsBlocks
<1>13. TablesHoldTheirBuckets'
  <2>1. \A u \in Table : room'[u] = room[u] /\ header'[u] = header[u]
    BY <1>5, <1>6, Addresses
  <2>2. QED
    BY <1>4, <2>1, HoldsElsewhere DEF ChainInv
<1>14. Words'
  <2>1. bucket[t][s] \in Entry \cup {NULL}
    BY <1>8 DEF IInv, Pointers, Pointer, First, Entries, Live
  <2>2. \A u \in Table : \A i \in DOMAIN bucket'[u] :
          bucket'[u][i] \in Entry \cup {NULL, UNWRITTEN}
    BY <1>2, <1>3, <1>4 DEF ChainInv, Words, IInv, Shapes
  <2>3. QED
    BY <1>4, <2>1, <2>2 DEF ChainInv, Words
<1>15. Chained'
  <2>1. PICK rank \in [Entry -> Nat] : Ranks(rank)
    BY DEF ChainInv, Chained
  <2>2. First(s) = NULL \/ First(s) \in Entries
    BY <1>8 DEF IInv, Pointers, Pointer
  <2>3. PICK R \in Nat : R = IF First(s) = NULL THEN 0 ELSE rank[First(s)] + 1
    BY <2>1, <2>2 DEF Entries, Live
  <2>4. PICK rnew \in [Entry -> Nat] : rnew[e] = R /\ \A f \in Entry \ {e} : rnew[f] = rank[f]
    <3>1. [rank EXCEPT ![e] = R] \in [Entry -> Nat]
      BY <2>1, <2>3
    <3>2. QED
      BY <2>1, <3>1
  <2>5. \A f \in Entries : f \in Entry \ {e} /\ rnew[f] = rank[f] /\ rank[f] \in Nat
    BY <1>7, <2>1, <2>4 DEF Entries, Live
  <2>6. /\ \A f \in Entries : KeySlot(f) = s => First(s) # NULL /\ rank[f] <= rank[First(s)]
        /\ First(s) # NULL => KeySlot(First(s)) = s
    BY <1>8, <2>1 DEF Ranks
  <2>7. \A f \in Entries : KeySlot(f) = s => rank[f] < R
    BY <2>2, <2>3, <2>5, <2>6
  <2>8. ASSUME NEW f \in Entries'
        PROVE  /\ dict'.type \in Type /\ entry'[f].key \in Key /\ KeySlot(f)' \in Slots
               /\ After(f)' = NULL => rnew[f] = 0
               /\ After(f)' # NULL => /\ rnew[f] = rnew[After(f)'] + 1
                                      /\ KeySlot(After(f))' = KeySlot(f)'
    <3>1. CASE f = e
      <4>1. PICK g : g = First(s)
        OBVIOUS
      <4>2. After(f)' = g /\ KeySlot(f)' = s /\ rnew[f] = R
        BY <1>10, <1>11, <2>4, <3>1, <4>1
      <4>3. g # NULL => KeySlot(g)' = s /\ rnew[g] = rank[g]
        BY <1>11, <2>2, <2>5, <2>6, <4>1
      <4>4. After(f)' # NULL => KeySlot(After(f))' = s /\ rnew[After(f)'] = rank[g]
        BY <4>2, <4>3 DEF KeySlot
      <4>5. QED
        BY <1>1, <1>4, <1>10, <2>3, <3>1, <4>1, <4>2, <4>4
    <3>2. CASE f # e
      <4>1. f \in Entries /\ f \in Entry \ {e}
        BY <1>7, <2>5, <3>2
      <4>2. /\ dict.type \in Type /\ entry[f].key \in Key
            /\ After(f) = NULL => rank[f] = 0
            /\ After(f) # NULL => rank[f] = rank[After(f)] + 1 /\ KeySlot(After(f)) = KeySlot(f)
        BY <2>1, <4>1 DEF Ranks
      <4>3. After(f) # NULL => After(f) \in Entries
        BY <4>1 DEF IInv, Pointers, Pointer
      <4>4. After(f)' = After(f) /\ KeySlot(f)' = KeySlot(f) /\ entry'[f].key = entry[f].key
        BY <1>10, <1>11, <4>1
      <4>5. After(f) # NULL => KeySlot(After(f))' = KeySlot(After(f))
        <5>1. \A g \in Entries : KeySlot(g)' = KeySlot(g)
          BY <1>11, <2>5
        <5>2. After(f) # NULL => KeySlot(After(f)') = KeySlot(After(f))
          BY <4>4
        <5>3. PICK g : g = After(f)
          OBVIOUS
        <5>4. After(f) # NULL => Hash[dict'.type][entry'[g].key] % 4 = KeySlot(g)
          BY <4>3, <5>1, <5>3 DEF KeySlot
        <5>5. QED
          BY <4>4, <5>3, <5>4 DEF KeySlot
      <4>6. KeySlot(f) \in Slots
        BY <4>2, SlotOfKey DEF KeySlot
      <4>7. QED
        BY <1>4, <2>5, <4>1, <4>2, <4>3, <4>4, <4>5, <4>6
    <3>3. QED
      BY <3>1, <3>2
  <2>9. ASSUME NEW f \in Entries'
        PROVE  First(KeySlot(f))' # NULL /\ rnew[f] <= rnew[First(KeySlot(f))']
    <3>1. PICK i \in Slots : i = KeySlot(f)'
      BY <2>8
    <3>2. First(KeySlot(f))' = First(i)'
      BY <3>1 DEF First
    <3>3. e # NULL
      BY Addresses
    <3>4. CASE i = s
      <4>1. rnew[f] <= R
        <5>1. CASE f = e
          BY <2>4, <5>1
        <5>2. CASE f # e
          <6>1. f \in Entries /\ KeySlot(f) = s
            BY <1>7, <1>11, <2>5, <3>1, <3>4, <5>2
          <6>2. QED
            BY <2>5, <2>7, <6>1
        <5>3. QED
          BY <5>1, <5>2
      <4>2. QED
        BY <1>9, <2>4, <3>2, <3>3, <3>4, <4>1
    <3>5. CASE i # s
      <4>1. f # e /\ f \in Entries /\ KeySlot(f) = i
        BY <1>7, <1>11, <2>5, <3>1, <3>5
      <4>2. First(i) # NULL /\ rank[f] <= rank[First(i)] /\ First(i)' = First(i)
        BY <1>8, <1>9, <2>1, <3>5, <4>1 DEF Ranks
      <4>3. First(i) \in Entries
        BY <1>8, <4>2 DEF IInv, Pointers, Pointer
      <4>4. QED
        BY <2>5, <3>2, <4>1, <4>2, <4>3
    <3>6. QED
      BY <3>4, <3>5
  <2>10. ASSUME NEW i \in Slots, First(i)' # NULL PROVE KeySlot(First(i))' = i
    <3>1. CASE i = s
      BY <1>9, <1>11, <3>1 DEF KeySlot
    <3>2. CASE i # s
      <4>1. First(i)' = First(i) /\ First(i) \in Entries /\ KeySlot(First(i)) = i
        BY <1>8, <1>9, <2>1, <2>10, <3>2 DEF IInv, Pointers, Pointer, Ranks
      <4>2. PICK g \in Entries : g = First(i)
        BY <4>1
      <4>3. Hash[dict'.type][entry'[g].key] % 4 = i
        BY <1>11, <2>5, <4>1, <4>2 DEF KeySlot
      <4>4. QED
        BY <4>1, <4>2, <4>3 DEF KeySlot
    <3>3. QED
      BY <3>1, <3>2
  <2>11. ASSUME NEW f \in Entries', NEW g \in Entries', KeySlot(f)' = KeySlot(g)',
                rnew[f] = rnew[g]
         PROVE  f = g
    <3>1. \A h \in Entries' : IF h = e THEN KeySlot(h)' = s /\ rnew[h] = R
                              ELSE /\ h \in Entries /\ KeySlot(h)' = KeySlot(h)
                                   /\ rnew[h] = rank[h] /\ rank[h] \in Nat
      BY <1>7, <1>11, <2>4, <2>5
    <3>2. \A h \in Entries : KeySlot(h) = s => rank[h] # R
      BY <2>5, <2>7
    <3>3. CASE f = e \/ g = e
      BY <2>11, <3>1, <3>2, <3>3
    <3>4. CASE f # e /\ g # e
      BY <2>1, <2>11, <3>1, <3>4 DEF Ranks
    <3>5. QED
      BY <3>3, <3>4
  <2>12. Ranks(rnew)'
    BY <1>1, <1>4, <1>8, <2>8, <2>9, <2>10, <2>11 DEF Ranks
  <2>13. QED
    BY <2>12 DEF Chained
<1>16. QED
  BY <1>6, <1>12, <1>13, <1>14, <1>15 DEF ChainInv

LEMMA FindChainInv ==
  ASSUME Liberties = {}, IInv, IInv', ChainInv, NEW k \in Key, dictFind(k)
  PROVE  ChainInv'
<1>1. Made /\ dict.type \in Type /\ last[k] # NULL /\ ~undefined
  BY DEF dictFind, Ready, Running, Idle, Live, Made, IInv, Shapes
<1>2. PICK s \in Slots : s = Slot(k, 0) /\ s = Hash[dict.type][k] % 4
  BY <1>1, SlotOfKey DEF Slot, IInv, Tables
<1>3. First(s) # NULL /\ First(s) \in Entries
  BY <1>1, <1>2 DEF IInv, AddedIsThere, Pointers, Pointer, Pending
<1>4. getDictEntry(k) = First(s)
  BY <1>2, <1>3 DEF getDictEntry, First
<1>5. PICK e \in Entry : e = getDictEntry(k) /\ {e} \subseteq Live(Blocks)
  BY <1>3, <1>4, Addresses DEF Entries, Live
<1>6. UNCHANGED <<heap, structs, call, undefined>> /\ result' = entry[e].value
  BY <1>5 DEF dictFind, Touching
<1>7. result' \in Value \cup {NULL}
  BY <1>6 DEF ChainInv, Words
<1>8. UNCHANGED <<room, header, used_memory, status, dict, bucket, entry, last, call, undefined>>
  BY <1>6 DEF heap, structs
<1>9. Z!TypeOK'
  BY <1>8 DEF ChainInv, Z!TypeOK
<1>10. QED
  BY <1>7, <1>8, <1>9, KeepsChainInv

LEMMA ReleaseChainInv ==
  ASSUME Liberties = {}, IInv, IInv', ChainInv, dictRelease
  PROVE  ChainInv'
<1>1. /\ Made /\ call.op = "none" /\ call.p = NULL /\ dict.ht[1] = NoTable /\ result' = NULL
      /\ Z!zfree(dict.privdata) /\ UNCHANGED <<structs, undefined>>
  BY DEF dictRelease, Ready, Running, Idle, Live, Made, IInv, Tables, ChainInv, OnlyItsBlocks
<1>2. call' = [NoCall EXCEPT !.op = "release", !.kept = Live({PrivAddr}) \ {dict.privdata}]
  BY DEF dictRelease
<1>3. /\ call'.op = "release" /\ call'.h = 0 /\ call'.slot = 0 /\ call'.p = NULL
      /\ call'.kept = Live({PrivAddr}) \ {dict.privdata}
  BY <1>2 DEF NoCall
<1>4. /\ room' \in [Blocks -> Nat] /\ dict.privdata \in {NULL, PrivAddr}
      /\ dict.privdata \in Blocks => room'[dict.privdata] = 0
      /\ \A b \in Blocks : b # dict.privdata => room'[b] = room[b]
  BY <1>1, Frees DEF IInv, Shapes
<1>5. Z!TypeOK' /\ \A b \in Blocks : b # dict.privdata => header'[b] = header[b]
  BY <1>1, FreesHeader DEF ChainInv
<1>6. \A b \in Table \cup Entry \cup {DictAddr} : room'[b] = room[b] /\ header'[b] = header[b]
  BY <1>4, <1>5, Addresses
<1>7. Entries' = Entries /\ Pending' = Slots /\ Pending = Slots
  BY <1>1, <1>3, <1>6 DEF Entries, Live, Made, Pending, Slots
<1>8. UNCHANGED <<dict, bucket, entry, last>>
  BY <1>1 DEF structs
<1>9. Chained'
  BY <1>1, <1>3, <1>7, <1>8, ChainsElsewhere DEF ChainInv, First
<1>10. TablesHoldTheirBuckets'
  BY <1>6, <1>8, HoldsElsewhere DEF ChainInv
<1>11. OnlyItsBlocks'
  <2>1. call'.kept = Live({PrivAddr})'
    <3>1. CASE dict.privdata = NULL
      BY <1>3, <1>4, <3>1, Addresses DEF Live
    <3>2. CASE dict.privdata = PrivAddr
      BY <1>3, <1>4, <3>2, Addresses DEF Live
    <3>3. QED
      BY <1>4, <3>1, <3>2
  <2>2. room'[DictAddr] > 0
    BY <1>1, <1>6 DEF Made
  <2>3. QED
    BY <1>1, <1>3, <1>6, <1>8, <2>1, <2>2 DEF ChainInv, OnlyItsBlocks
<1>12. Words'
  <2>1. call' \in [op : {"none", "create", "release"}, h : 0 .. 2, slot : Nat,
                   p : Entry \cup {NULL, GARBAGE}, kept : SUBSET {PrivAddr}]
    <3>1. PICK kept \in SUBSET {PrivAddr} : kept = Live({PrivAddr}) \ {dict.privdata}
      BY DEF Live
    <3>2. call' = [op |-> "release", h |-> 0, slot |-> 0, p |-> NULL, kept |-> kept]
      BY <1>2, <3>1 DEF NoCall
    <3>3. QED
      BY <3>2
  <2>2. QED
    BY <1>1, <1>8, <2>1 DEF ChainInv, Words
<1>13. QED
  BY <1>5, <1>9, <1>10, <1>11, <1>12 DEF ChainInv

\* The entry freed has the highest rank that is left in its slot.
LEMMA ReleaseEntryChainInv ==
  ASSUME IInv, IInv', ChainInv, ReleaseEntry
  PROVE  ChainInv'
<1>1. call.op = "release" /\ call.p # NULL /\ call.h = 0
  BY DEF ReleaseEntry, ChainInv, OnlyItsBlocks
<1>2. PICK e \in Entries : e = call.p
  BY <1>1 DEF IInv, Pointers, Pointer
<1>3. e \in Entry /\ e \in Blocks /\ {e} \subseteq Live(Blocks)
  BY <1>2, Addresses DEF Entries, Live
<1>4. /\ call' = [call EXCEPT !.p = After(e)] /\ entry' = [entry EXCEPT ![e] = BlankEntry]
      /\ Z!zfree(e) /\ UNCHANGED <<dict, bucket, last, result, undefined>>
  BY <1>2, <1>3 DEF ReleaseEntry, Touching, After
<1>5. /\ call'.p = After(e) /\ call'.op = "release" /\ call'.h = 0 /\ call'.slot = call.slot
      /\ call'.kept = call.kept
  BY <1>1, <1>4 DEF IInv, Shapes
<1>6. /\ room' \in [Blocks -> Nat] /\ room'[e] = 0
      /\ \A b \in Blocks : b # e => room'[b] = room[b]
  BY <1>3, <1>4, Frees DEF IInv
<1>7. Z!TypeOK' /\ \A b \in Blocks : b # e => header'[b] = header[b]
  BY <1>4, FreesHeader DEF ChainInv
<1>8. \A b \in Table \cup {DictAddr, PrivAddr} : room'[b] = room[b] /\ header'[b] = header[b]
  BY <1>3, <1>6, <1>7, Addresses
<1>9. Entries' = Entries \ {e} /\ Pending' = Pending
  BY <1>1, <1>5, <1>6, Addresses DEF Entries, Live, Pending, Made
<1>10. TablesHoldTheirBuckets'
  BY <1>4, <1>8, HoldsElsewhere DEF ChainInv
<1>11. OnlyItsBlocks'
  BY <1>1, <1>4, <1>5, <1>8 DEF ChainInv, OnlyItsBlocks, Live
<1>12. Words'
  BY <1>3, <1>4, Addresses DEF ChainInv, Words, BlankEntry, After
<1>13. Chained'
  <2>1. PICK rank \in [Entry -> Nat] : Ranks(rank)
    BY DEF ChainInv, Chained
  <2>2. PICK p : p = After(e) /\ (p = NULL \/ p \in Entries)
    BY DEF IInv, Pointers, Pointer
  <2>3. p # e
    BY <1>2, <2>2, Addresses DEF IInv, Pointers, Entries, Live
  <2>4. \A f \in Entries \ {e} : /\ f \in Entry \ {e} /\ rank[f] \in Nat /\ entry'[f] = entry[f]
    BY <1>4, <2>1 DEF Entries, Live, IInv, Shapes
  <2>5. \A f \in Entries \ {e} : After(f)' = After(f) /\ KeySlot(f)' = KeySlot(f)
    BY <1>4, <2>4 DEF After, KeySlot
  <2>6. \A i : First(i)' = First(i)
    BY <1>4 DEF First
  <2>7. PICK c : c = KeySlot(e) /\ c \notin Pending
    BY <1>1, <1>2, <2>1 DEF Ranks
  <2>8. /\ p = NULL => rank[e] = 0
        /\ p # NULL => rank[e] = rank[p] + 1 /\ KeySlot(p) = c /\ rank[p] \in Nat
    BY <1>2, <2>1, <2>2, <2>3, <2>4, <2>7 DEF Ranks
  <2>9. \A f \in Entries \ {e} : KeySlot(f) \notin Pending =>
           KeySlot(f) = c /\ rank[f] <= rank[e] /\ rank[f] # rank[e]
    BY <1>2, <2>1, <2>7 DEF Ranks
  <2>10. p # NULL => KeySlot(p)' = c
    BY <2>2, <2>3, <2>5, <2>8
  <2>11. ASSUME NEW f \in Entries \ {e}
         PROVE  /\ dict'.type \in Type /\ entry'[f].key \in Key
                /\ After(f)' = NULL => rank[f] = 0
                /\ After(f)' # NULL => /\ rank[f] = rank[After(f)'] + 1
                                       /\ KeySlot(After(f))' = KeySlot(f)'
    <3>1. /\ dict.type \in Type /\ entry[f].key \in Key
          /\ After(f) = NULL => rank[f] = 0
          /\ After(f) # NULL => rank[f] = rank[After(f)] + 1 /\ KeySlot(After(f)) = KeySlot(f)
      BY <2>1, <2>11 DEF Ranks
    <3>2. PICK g : g = After(f)
      OBVIOUS
    <3>3. g # NULL => g \in Entries \ {e}
      BY <1>2, <1>1, <2>11, <3>2 DEF IInv, Pointers, Pointer
    <3>4. g # NULL => Hash[dict'.type][entry'[g].key] % 4 = KeySlot(f)
      BY <2>5, <3>1, <3>2, <3>3 DEF KeySlot
    <3>5. After(f)' = g /\ KeySlot(f)' = KeySlot(f) /\ entry'[f].key = entry[f].key
      BY <2>4, <2>5, <2>11, <3>2
    <3>6. After(f)' # NULL => KeySlot(After(f))' = KeySlot(f)'
      BY <3>4, <3>5 DEF KeySlot
    <3>7. QED
      BY <1>4, <3>1, <3>2, <3>5, <3>6
  <2>12. ASSUME NEW f \in Entries \ {e}
         PROVE  /\ KeySlot(f)' \in Pending => /\ First(KeySlot(f))' # NULL
                                              /\ rank[f] <= rank[First(KeySlot(f))']
                /\ KeySlot(f)' \notin Pending => /\ p # NULL /\ c = KeySlot(f)'
                                                 /\ rank[f] <= rank[p]
    <3>1. PICK i : i = KeySlot(f) /\ i = KeySlot(f)'
      BY <2>5, <2>12
    <3>2. i \in Pending => First(i) # NULL /\ rank[f] <= rank[First(i)]
      BY <2>1, <2>12, <3>1 DEF Ranks
    <3>3. First(KeySlot(f))' = First(i)
      BY <2>6, <3>1 DEF First
    <3>4. i \notin Pending => i = c /\ rank[f] <= rank[e] /\ rank[f] # rank[e]
      BY <2>9, <2>12, <3>1
    <3>5. rank[e] \in Nat /\ rank[f] \in Nat
      BY <1>3, <2>1, <2>4, <2>12
    <3>6. i \notin Pending => p # NULL /\ rank[f] <= rank[p]
      BY <2>8, <3>4, <3>5
    <3>7. QED
      BY <3>1, <3>2, <3>3, <3>4, <3>6
  <2>13. ASSUME NEW i \in Pending, First(i)' # NULL PROVE KeySlot(First(i))' = i
    <3>1. PICK g \in Entries \ {e} : g = First(i) /\ g = First(i)'
      BY <1>1, <1>2, <2>6, <2>13 DEF IInv, Pointers, Pointer
    <3>2. KeySlot(g)' = i
      BY <2>1, <2>5, <2>13, <3>1, Addresses DEF Ranks, Entries, Live
    <3>3. QED
      BY <3>1, <3>2 DEF KeySlot
  <2>14. ASSUME NEW f \in Entries \ {e}, NEW g \in Entries \ {e}, KeySlot(f)' = KeySlot(g)',
                rank[f] = rank[g]
         PROVE  f = g
    BY <2>1, <2>5, <2>14 DEF Ranks
  <2>15. call'.p # NULL => KeySlot(call.p)' = c
    BY <1>5, <2>2, <2>10 DEF KeySlot
  <2>16. Ranks(rank)'
    BY <1>5, <1>9, <2>2, <2>7, <2>11, <2>12, <2>13, <2>14, <2>15 DEF Ranks
  <2>17. QED
    BY <2>16 DEF Chained
<1>14. QED
  BY <1>7, <1>10, <1>11, <1>12, <1>13 DEF ChainInv

\* The chain of the slot turns from pending into the one in hand.
LEMMA NextSlotChainInv ==
  ASSUME IInv, IInv', ChainInv, NextSlot
  PROVE  ChainInv'
<1>1. /\ call.op = "release" /\ call.p = NULL /\ call.h < 2 /\ call.slot < dict.ht[call.h].size
      /\ UNCHANGED <<heap, structs, result, undefined>>
  BY DEF NextSlot
<1>2. call.h = 0 /\ dict.ht[0].size = 4 /\ call.slot \in Slots
  <2>1. call.h \in {0, 1} /\ call.slot \in Nat
    BY <1>1 DEF IInv, Shapes
  <2>2. call.h # 1
    BY <1>1, <2>1 DEF IInv, Tables, NoTable
  <2>3. QED
    BY <1>1, <2>1, <2>2 DEF IInv, Tables, Slots
<1>3. PICK s \in Slots : s = call.slot /\ s \in Pending
  BY <1>1, <1>2 DEF Pending, Slots
<1>4. PICK p : p = First(s) /\ (p = NULL \/ p \in Entries) /\ p # UNWRITTEN
  BY <1>3, Addresses, DictAssumption DEF IInv, Pointers, Pointer, Entries, Live
<1>5. call' = [call EXCEPT !.p = p, !.slot = s + 1]
  BY <1>2, <1>3, <1>4 DEF NextSlot, First
<1>6. /\ call'.p = p /\ call'.slot = s + 1 /\ call'.op = "release" /\ call'.h = 0
      /\ call'.kept = call.kept
  BY <1>1, <1>2, <1>3, <1>5 DEF IInv, Shapes
<1>7. UNCHANGED <<room, header, used_memory, status, dict, bucket, entry, last>>
  BY <1>1 DEF heap, structs
<1>8. Entries' = Entries
  BY <1>7 DEF Entries, Live
<1>9. Pending' = Pending \ {s}
  BY <1>1, <1>2, <1>3, <1>6 DEF Pending, Slots, Made
<1>10. Z!TypeOK'
  BY <1>7 DEF ChainInv, Z!TypeOK
<1>11. TablesHoldTheirBuckets'
  BY <1>7, HoldsElsewhere DEF ChainInv
<1>12. OnlyItsBlocks'
  BY <1>1, <1>2, <1>6, <1>7 DEF ChainInv, OnlyItsBlocks, Live
<1>13. Words'
  <2>1. p \in Entry \cup {NULL} /\ s + 1 \in Nat
    BY <1>4 DEF Entries, Live, Slots
  <2>2. call' \in [op : {"none", "create", "release"}, h : 0 .. 2, slot : Nat,
                   p : Entry \cup {NULL, GARBAGE}, kept : SUBSET {PrivAddr}]
    BY <1>5, <2>1 DEF ChainInv, Words
  <2>3. QED
    BY <1>1, <1>7, <2>2 DEF ChainInv, Words
<1>14. Chained'
  <2>1. PICK rank \in [Entry -> Nat] : Ranks(rank)
    BY DEF ChainInv, Chained
  <2>2. \A i : First(i)' = First(i) /\ After(i)' = After(i) /\ KeySlot(i)' = KeySlot(i)
    BY <1>7 DEF First, After, KeySlot
  <2>3. p # NULL => KeySlot(p) = s
    BY <1>3, <1>4, <2>1 DEF Ranks
  <2>4. call'.p # NULL => KeySlot(call.p)' = s
    BY <1>6, <1>7, <2>3 DEF KeySlot
  <2>5. ASSUME NEW f \in Entries
        PROVE  /\ KeySlot(f)' \in Pending' => /\ First(KeySlot(f))' # NULL
                                              /\ rank[f] <= rank[First(KeySlot(f))']
               /\ KeySlot(f)' \notin Pending' => /\ p # NULL /\ s = KeySlot(f)'
                                                 /\ rank[f] <= rank[p]
    <3>1. PICK i : i = KeySlot(f) /\ i = KeySlot(f)'
      BY <2>2
    <3>2. i \in Pending /\ First(i) # NULL /\ rank[f] <= rank[First(i)]
      BY <1>1, <2>1, <3>1 DEF Ranks
    <3>3. First(KeySlot(f))' = First(i)
      BY <1>7, <3>1 DEF First
    <3>4. QED
      BY <1>4, <1>9, <3>1, <3>2, <3>3
  <2>6. ASSUME NEW f \in Entries
        PROVE  /\ dict'.type \in Type /\ entry'[f].key \in Key
               /\ After(f)' = NULL => rank[f] = 0
               /\ After(f)' # NULL => /\ rank[f] = rank[After(f)'] + 1
                                      /\ KeySlot(After(f))' = KeySlot(f)'
    BY <1>7, <2>1 DEF Ranks, After, KeySlot
  <2>7. ASSUME NEW i \in Pending', First(i)' # NULL PROVE KeySlot(First(i))' = i
    BY <1>7, <1>9, <2>1, <2>7 DEF Ranks, First, KeySlot
  <2>8. ASSUME NEW f \in Entries, NEW g \in Entries, KeySlot(f)' = KeySlot(g)', rank[f] = rank[g]
        PROVE  f = g
    BY <2>1, <2>2, <2>8 DEF Ranks
  <2>9. s \notin Pending'
    BY <1>9
  <2>10. Ranks(rank)'
    BY <1>6, <1>8, <2>4, <2>5, <2>6, <2>7, <2>8, <2>9 DEF Ranks
  <2>11. QED
    BY <2>10 DEF Chained
<1>15. QED
  BY <1>10, <1>11, <1>12, <1>13, <1>14 DEF ChainInv

LEMMA ReleaseTableChainInv ==
  ASSUME IInv, IInv', ChainInv, ReleaseTable
  PROVE  ChainInv'
<1>1. /\ call.op = "release" /\ call.p = NULL /\ call.h \in {0, 1}
      /\ call.slot = dict.ht[call.h].size
      /\ call' = [call EXCEPT !.h = @ + 1, !.slot = 0]
      /\ bucket' = [t \in Table |-> IF t = dict.ht[call.h].table THEN <<>> ELSE bucket[t]]
      /\ UNCHANGED <<dict, entry, last, result, undefined>>
  BY DEF ReleaseTable, IInv, Shapes
<1>2. /\ call'.op = "release" /\ call'.p = NULL /\ call'.h \in {1, 2} /\ call'.slot = 0
      /\ call'.kept = call.kept
  BY <1>1 DEF IInv, Shapes
<1>3. PICK t : /\ t = dict.ht[call.h].table /\ t \in Table \cup {NULL} /\ Z!zfree(t)
               /\ (call.h = 0 => t = dict.ht[0].table /\ t \in Table)
  BY <1>1 DEF ReleaseTable, IInv, Tables, NoTable
<1>4. /\ room' \in [Blocks -> Nat] /\ \A b \in Blocks : b # t => room'[b] = room[b]
      /\ t \in Blocks => room'[t] = 0
  BY <1>3, Frees DEF IInv
<1>5. Z!TypeOK' /\ \A b \in Blocks : b # t => header'[b] = header[b]
  BY <1>3, FreesHeader DEF ChainInv
<1>6. /\ \A b \in Entry \cup {DictAddr, PrivAddr} : room'[b] = room[b]
      /\ \A b \in Table : room'[b] > 0 =>
           room[b] > 0 /\ room'[b] = room[b] /\ header'[b] = header[b]
  BY <1>3, <1>4, <1>5, Addresses
<1>7. Entries' = Entries /\ Pending' = {} /\ Pending = {}
  BY <1>1, <1>2, <1>6 DEF Entries, Live, Made, Pending, Slots, IInv, Tables
<1>8. Chained'
  BY <1>1, <1>2, <1>7, ChainsElsewhere DEF ChainInv
<1>9. TablesHoldTheirBuckets'
  BY <1>1, <1>6, HoldsElsewhere DEF ChainInv
<1>10. OnlyItsBlocks'
  <2>1. \A b \in Table : ~(room'[b] > 0)
    <3>1. SUFFICES ASSUME NEW b \in Table, room'[b] > 0 PROVE FALSE
      OBVIOUS
    <3>2. room[b] > 0 /\ b # NULL
      BY <1>6, <3>1, Addresses
    <3>3. call.h = 0 /\ b = dict.ht[0].table
      BY <1>1, <3>2 DEF ChainInv, OnlyItsBlocks, Made, IInv, Tables, NoTable
    <3>4. QED
      BY <1>3, <1>4, <3>1, <3>3, Addresses
  <2>2. QED
    BY <1>1, <1>2, <1>6, <2>1 DEF ChainInv, OnlyItsBlocks, Live
<1>11. Words'
  <2>1. call' \in [op : {"none", "create", "release"}, h : 0 .. 2, slot : Nat,
                   p : Entry \cup {NULL, GARBAGE}, kept : SUBSET {PrivAddr}]
    <3>1. PICK h \in {1, 2} : h = call.h + 1
      BY <1>1
    <3>2. call' = [call EXCEPT !.h = h, !.slot = 0]
      BY <1>1, <3>1
    <3>3. h \in 0 .. 2
      OBVIOUS
    <3>4. QED
      BY <3>2, <3>3 DEF ChainInv, Words
  <2>2. \A u \in Table : \A i \in DOMAIN bucket'[u] :
          bucket'[u][i] \in Entry \cup {NULL, UNWRITTEN}
    BY <1>1 DEF ChainInv, Words
  <2>3. QED
    BY <1>1, <2>1, <2>2 DEF ChainInv, Words
<1>12. QED
  BY <1>5, <1>8, <1>9, <1>10, <1>11 DEF ChainInv

\* By now there is neither an entry nor a table left.
LEMMA AtTheEndOfRelease ==
  ASSUME IInv, ChainInv, call.op = "release", call.h = 2
  PROVE  /\ Pending = {} /\ Entries = {} /\ call.p = NULL /\ \A t \in Table : ~(room[t] > 0)
         /\ call.kept = Live({PrivAddr})
<1>1. Pending = {} /\ call.p = NULL
  BY DEF Pending, Made, ChainInv, OnlyItsBlocks
<1>2. Entries = {}
  BY <1>1, NoneLeft DEF ChainInv
<1>3. \A t \in Table : ~(room[t] > 0)
  BY DEF ChainInv, OnlyItsBlocks, Made
<1>4. QED
  BY <1>1, <1>2, <1>3 DEF ChainInv, OnlyItsBlocks

LEMMA ReleaseDictChainInv ==
  ASSUME IInv, IInv', ChainInv, ReleaseDict
  PROVE  ChainInv'
<1>1. /\ call.op = "release" /\ call.h = 2 /\ Z!zfree(DictAddr) /\ dict' = _dictReset
      /\ call' = NoCall /\ UNCHANGED <<bucket, entry, last, result, undefined>>
  BY DEF ReleaseDict
<1>2. /\ room' \in [Blocks -> Nat] /\ room'[DictAddr] = 0
      /\ \A b \in Entry \cup Table : room'[b] = room[b]
  BY <1>1, Frees, Addresses DEF IInv
<1>3. Z!TypeOK'
  BY <1>1, FreesHeader DEF ChainInv
<1>4. Entries' = {} /\ \A t \in Table : ~(room'[t] > 0)
  BY <1>1, <1>2, AtTheEndOfRelease DEF Entries, Live
<1>5. Chained'
  BY <1>4, ChainsOfNone DEF IInv
<1>6. call'.op = "none" /\ call'.p = NULL
  BY <1>1 DEF NoCall
<1>7. OnlyItsBlocks'
  BY <1>4, <1>6 DEF OnlyItsBlocks
<1>8. dict'.ht = [h \in {0, 1} |-> NoTable] /\ dict'.rehashidx = -1
  BY <1>1 DEF _dictReset
<1>9. TablesHoldTheirBuckets'
  BY <1>8, Addresses DEF TablesHoldTheirBuckets, NoTable, Live
<1>10. Words'
  <2>1. dict'.ht \in [{0, 1} -> Ht]
    BY <1>8 DEF NoTable, Ht
  <2>2. call' \in [op : {"none", "create", "release"}, h : 0 .. 2, slot : Nat,
                   p : Entry \cup {NULL, GARBAGE}, kept : SUBSET {PrivAddr}]
    BY <1>1 DEF NoCall
  <2>3. QED
    BY <1>1, <1>8, <2>1, <2>2 DEF ChainInv, Words
<1>11. QED
  BY <1>3, <1>5, <1>7, <1>9, <1>10 DEF ChainInv

LEMMA InitChainInv == Init => ChainInv
<1> SUFFICES ASSUME Init PROVE ChainInv
  OBVIOUS
<1>1. /\ Z!Init /\ dict = _dictReset /\ bucket = [t \in Table |-> <<>>]
      /\ entry = [e \in Entry |-> BlankEntry] /\ call = NoCall /\ result = NULL
      /\ undefined = FALSE
  BY DEF Init
<1>2. Z!TypeOK
  BY <1>1, DictAssumption DEF Z!Init, Z!TypeOK, LONG_MAX, DICT_HT_INITIAL_SIZE
<1>3. \A b \in Blocks : room[b] = 0
  BY <1>1 DEF Z!Init
<1>4. dict.ht = [h \in {0, 1} |-> NoTable] /\ dict.rehashidx = -1
  BY <1>1 DEF _dictReset
<1>5. Words
  <2>1. dict.ht \in [{0, 1} -> Ht]
    BY <1>4 DEF NoTable, Ht
  <2>2. call \in [op : {"none", "create", "release"}, h : 0 .. 2, slot : Nat,
                   p : Entry \cup {NULL, GARBAGE}, kept : SUBSET {PrivAddr}]
    BY <1>1 DEF NoCall
  <2>3. entry \in [Entry -> [key : Key \cup {NULL}, value : Value \cup {NULL},
                             next : Entry \cup {NULL}]]
    BY <1>1 DEF BlankEntry
  <2>4. QED
    <3>1. \A t \in Table : \A i \in DOMAIN bucket[t] : FALSE
      BY <1>1
    <3>2. QED
      BY <1>1, <1>4, <2>1, <2>2, <2>3, <3>1 DEF Words
<1>6. TablesHoldTheirBuckets
  BY <1>4, Addresses DEF TablesHoldTheirBuckets, NoTable, Live
<1>7. call.op = "none" /\ call.p = NULL
  BY <1>1 DEF NoCall
<1>8. OnlyItsBlocks
  BY <1>3, <1>7, Addresses DEF OnlyItsBlocks
<1>9. Chained
  <2>1. Entries = {} /\ Pending = {}
    BY <1>3, <1>7, Addresses DEF Entries, Live, Pending, Made
  <2>2. [e \in Entry |-> 0] \in [Entry -> Nat]
    OBVIOUS
  <2>3. \A r : Ranks(r)
    BY <1>7, <2>1 DEF Ranks
  <2>4. QED
    BY <2>2, <2>3 DEF Chained
<1>10. QED
  BY <1>2, <1>5, <1>6, <1>8, <1>9 DEF ChainInv

LEMMA NextChainInv ==
  ASSUME TablesFit, Liberties = {}, IInv, IInv', ChainInv, [Next]_vars
  PROVE  ChainInv'
<1>1. CASE NewPrivdata
  <2>1. /\ call.op = "none" /\ Z!zmalloc(PrivAddr, SizeofPriv)
        /\ UNCHANGED <<structs, call, undefined, result>>
    BY <1>1 DEF NewPrivdata, Idle
  <2>2. \A b \in Table \cup Entry \cup {DictAddr} : room'[b] = room[b]
    BY <2>1, Allocates, KnownSizes, Addresses DEF IInv
  <2>3. Z!TypeOK' /\ \A b \in Table \cup Entry \cup {DictAddr} : header'[b] = header[b]
    BY <2>1, AllocatesHeader, KnownSizes, Addresses DEF ChainInv
  <2>4. QED
    BY <2>1, <2>2, <2>3, KeepsChainInv DEF structs, ChainInv, Words
<1>2. CASE OutOfMemory
  <2>1. UNCHANGED <<room, header, used_memory, structs, call, result, undefined>>
        /\ status' = "aborted"
    BY <1>2 DEF OutOfMemory, Z!zmalloc_oom, Z!heap
  <2>2. Z!TypeOK'
    BY <2>1 DEF ChainInv, Z!TypeOK
  <2>3. QED
    BY <2>1, <2>2, KeepsChainInv DEF structs, ChainInv, Words
<1>3. CASE UNCHANGED vars
  <2>1. UNCHANGED <<room, header, used_memory, status, structs, call, result, undefined>>
    BY <1>3 DEF vars, heap
  <2>2. Z!TypeOK'
    BY <2>1 DEF ChainInv, Z!TypeOK
  <2>3. QED
    BY <2>1, <2>2, KeepsChainInv DEF structs, ChainInv, Words
<1>4. QED
  BY <1>1, <1>2, <1>3, CreateChainInv, CreateTableChainInv, SetTypeChainInv, AddChainInv,
     FindChainInv, ExpandChainInv, ReleaseChainInv, ReleaseEntryChainInv, NextSlotChainInv, ReleaseTableChainInv,
     ReleaseDictChainInv DEF Next

\* Only its last step ends a release.
LEMMA ReleaseEnds ==
  ASSUME IInv, ChainInv, [Next]_vars, call.op = "release", Idle'
  PROVE  Live(Blocks)' = call.kept
<1>1. ReleaseDict
  <2>1. call'.op # call.op
    BY DEF Idle
  <2>2. DOMAIN call = {"op", "h", "slot", "p", "kept"}
    BY DEF IInv, Shapes
  <2>3. CASE ReleaseEntry
    BY <2>1, <2>2, <2>3 DEF ReleaseEntry, Touching
  <2>4. CASE NextSlot
    BY <2>1, <2>2, <2>4 DEF NextSlot
  <2>5. CASE ReleaseTable
    BY <2>1, <2>2, <2>5 DEF ReleaseTable
  <2>6. QED
    BY <2>1, <2>3, <2>4, <2>5 DEF Next, vars, NewPrivdata, dictCreate, CreateTable, SetType,
       dictAdd, dictFind, dictExpand, dictRelease, OutOfMemory, Ready, Idle
<1>2. call.h = 2 /\ Z!zfree(DictAddr)
  BY <1>1 DEF ReleaseDict
<1>3. room'[DictAddr] = 0 /\ \A b \in Blocks : b # DictAddr => room'[b] = room[b]
  BY <1>2, Frees, Addresses DEF IInv
<1>4. /\ Entries = {} /\ (\A t \in Table : ~(room[t] > 0)) /\ call.kept = Live({PrivAddr})
  BY <1>2, AtTheEndOfRelease
<1>5. \A b \in Blocks : room'[b] > 0 <=> b = PrivAddr /\ room[b] > 0
  BY <1>3, <1>4, Addresses DEF Blocks, Entries, Live
<1>6. QED
  BY <1>4, <1>5, Addresses DEF Live

\* Between calls the chains share the entries out among the slots of their
\* keys, each in one place, and each table has the block it promises: no entry
\* is lost by what dictAdd does in front of a chain, whatever keys collide.
THEOREM TablesSound ==
  ASSUME Liberties = {}, TablesFit PROVE Spec => []TablesAreSound
<1>1. IInv /\ ChainInv => TablesAreSound
  BY TypesOfWords, ChainsShareTheEntries DEF TablesAreSound, ChainInv
<1>2. IInv /\ ChainInv /\ [Next]_vars => IInv' /\ ChainInv'
  BY NextIInv, NextChainInv
<1>3. QED
  BY InitIInv, InitChainInv, <1>1, <1>2, PTL DEF Spec

\* When a release is over, nothing of the dict is left allocated, and of the
\* caller's blocks just what was not handed to the dict.
THEOREM ReleaseFrees ==
  ASSUME Liberties = {}, TablesFit PROVE Spec => ReleaseFreesAll
<1>1. IInv /\ ChainInv /\ [Next]_vars =>
        [call.op = "release" /\ Idle' => Live(Blocks)' = call.kept]_vars
  BY ReleaseEnds
<1>2. IInv /\ ChainInv /\ [Next]_vars => IInv' /\ ChainInv'
  BY NextIInv, NextChainInv
<1>3. QED
  BY InitIInv, InitChainInv, <1>1, <1>2, PTL DEF Spec, ReleaseFreesAll

-----------------------------------------------------------------------------
(* Expanding.                                                              *)

\* A dict has two dicthts at all times.
TwoTables == "ht" \in DOMAIN dict /\ DOMAIN dict.ht = {0, 1}

LEMMA TwoTablesAlways == Spec => []TwoTables
<1>1. Init => TwoTables
  BY DEF Init, TwoTables, _dictReset
<1>2. TwoTables /\ [Next]_vars => TwoTables'
  <2> SUFFICES ASSUME TwoTables, [Next]_vars PROVE TwoTables'
    OBVIOUS
  <2>1. ASSUME UNCHANGED dict PROVE TwoTables'
    BY <2>1 DEF TwoTables
  <2>2. ASSUME NEW type, NEW p, dictCreate(type, p) PROVE TwoTables'
    BY <2>2 DEF dictCreate, _dictReset, TwoTables
  <2>3. ASSUME NEW n, NEW t, NewTable(n, t) PROVE TwoTables'
    BY <2>3 DEF NewTable, TwoTables
  <2>4. ASSUME NEW t, CreateTable(t) PROVE TwoTables'
    BY <2>3, <2>4 DEF CreateTable
  <2>5. ASSUME NEW n, NEW t, dictExpand(n, t) PROVE TwoTables'
    BY <2>1, <2>3, <2>5 DEF dictExpand
  <2>6. ASSUME NEW type, SetType(type) PROVE TwoTables'
    BY <2>6 DEF SetType, TwoTables
  <2>7. ASSUME NEW k, NEW v, NEW e, dictAdd(k, v, e) PROVE TwoTables'
    BY <2>1, <2>7 DEF dictAdd, Touching, structs
  <2>8. ASSUME NEW k, dictFind(k) PROVE TwoTables'
    BY <2>1, <2>8 DEF dictFind, Touching, structs
  <2>9. ASSUME dictRelease \/ ReleaseEntry \/ NextSlot \/ ReleaseTable PROVE TwoTables'
    BY <2>1, <2>9 DEF dictRelease, ReleaseEntry, NextSlot, ReleaseTable, structs, Touching
  <2>10. ASSUME ReleaseDict PROVE TwoTables'
    BY <2>10 DEF ReleaseDict, _dictReset, TwoTables
  <2>11. ASSUME NewPrivdata \/ OutOfMemory \/ UNCHANGED vars PROVE TwoTables'
    BY <2>1, <2>11 DEF NewPrivdata, OutOfMemory, vars, structs
  <2>12. QED
    BY <2>2, <2>4, <2>5, <2>6, <2>7, <2>8, <2>9, <2>10, <2>11 DEF Next
<1>3. QED
  BY <1>1, <1>2, PTL DEF Spec

\* dictExpand makes the table of ht[0] or of ht[1] as large as the least power of
\* 2 that holds the size asked for, at least 4, or LONG_MAX + 1 for a size that is
\* no long, whatever callers do and whatever sizes they ask for.
THEOREM ExpandsRightly == Spec => ExpandsToTheLeastPower
<1> DEFINE Right(n) ==
      \E h \in {0, 1} :
        LET size == dict'.ht[h].size
        IN IF n > LONG_MAX THEN size = LONG_MAX + 1
           ELSE \E p \in 2 .. n + 2 :
                  /\ size = PowerOf2[p] /\ n <= size
                  /\ \A q \in 2 .. p - 1 : PowerOf2[q] < n
<1>1. ASSUME TwoTables, NEW n \in ExpandSizes, NEW t \in Table, dictExpand(n, t)
      PROVE  Right(n)
  <2>1. \E h \in {0, 1} : dict'.ht[h].size = _dictNextPower(n)
    <3>1. CASE UNCHANGED dict /\ _dictNextPower(n) = dict.ht[0].size
      BY <3>1
    <3>2. CASE NewTable(n, t)
      BY <1>1, <3>2 DEF NewTable, TwoTables
    <3>3. QED
      BY <1>1, <3>1, <3>2 DEF dictExpand
  <2>2. n \in Nat /\ LONG_MAX \in Int
    BY DictAssumption DEF LONG_MAX
  <2>3. CASE n > LONG_MAX
    BY <2>1, <2>3 DEF _dictNextPower
  <2>4. CASE ~(n > LONG_MAX)
    <3>1. \E p \in 2 .. n + 2 :
            /\ _dictNextPower(n) = PowerOf2[p] /\ n <= PowerOf2[p]
            /\ \A q \in 2 .. p - 1 : PowerOf2[q] < n
      BY <2>2, <2>4, NextPowerIsLeast
    <3>2. PICK h \in {0, 1} : dict'.ht[h].size = _dictNextPower(n)
      BY <2>1
    <3>3. QED
      BY <2>4, <3>1, <3>2
  <2> HIDE DEF Right
  <2>5. QED
    BY <2>3, <2>4
<1>2. TwoTables /\ [Next]_vars =>
        [\A n \in ExpandSizes, t \in Table : dictExpand(n, t) => Right(n)]_vars
  BY <1>1
<1>3. QED
  BY <1>2, TwoTablesAlways, PTL DEF Spec, ExpandsToTheLeastPower
=============================================================================

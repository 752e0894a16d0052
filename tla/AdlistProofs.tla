---------------------------- MODULE AdlistProofs ----------------------------
(***************************************************************************)
(* The list, for all lists, nodes, iterators and values.  First its types, *)
(* memory safety, the iterators, the paths and the accounts (Adlist), then *)
(* the calls that loop (AdlistCalls): memory safety, soundness when they   *)
(* have returned, what they return, and that the lists are sequences of    *)
(* values, ListSeq, to their callers.                                      *)
(*                                                                         *)
(* The nodes of a list are not counted along next, which would need        *)
(* induction.  Each node has a place, a number, such that next is the node *)
(* with the place above and prev the one with the place below; a node      *)
(* added in front gets a lower place than all, one added behind a higher   *)
(* one, and deletion changes no place.                                     *)
(*                                                                         *)
(* With the calls the places stay.  While listRelease runs, the list it    *)
(* takes apart is not one any more: Drains says what is left of it.        *)
(* Searches, Indexes, Copies and Agrees say how far the other loops are.   *)
(***************************************************************************)
EXTENDS AdlistCalls, Inductions, SequenceTheorems

\* q comes right behind n in S, and p right before it; NULL at the ends.
Follows(S, at, n, q) ==
  \/ q = NULL /\ \A m \in S : at[m] <= at[n]
  \/ q \in S /\ at[n] < at[q] /\ \A m \in S : at[m] <= at[n] \/ at[q] <= at[m]
Precedes(S, at, n, p) ==
  \/ p = NULL /\ \A m \in S : at[n] <= at[m]
  \/ p \in S /\ at[p] < at[n] /\ \A m \in S : at[m] <= at[p] \/ at[n] <= at[m]

\* The list as its struct and its nodes tell it.
Sorted(l, at) ==
  LET S == NodesOf(l)
      h == list[l].head
      t == list[l].tail
  IN /\ list[l].len = Cardinality(S)
     /\ \A m, n \in S : at[m] = at[n] => m = n
     /\ h = NULL => S = {}
     /\ t = NULL => S = {}
     /\ h # NULL => h \in S /\ \A m \in S : at[h] <= at[m]
     /\ t # NULL => t \in S /\ \A m \in S : at[m] <= at[t]
     /\ \A n \in S : Follows(S, at, n, node[n].next) /\ Precedes(S, at, n, node[n].prev)

\* An iterator has what it returned on one side, and what it has to return on
\* the other.
Walks(i, at) ==
  LET q == iter[i].next
      S == NodesOf(walk[i].on)
  IN /\ walk[i].on \in Live(List) /\ walk[i].seen \subseteq S /\ walk[i].todo \subseteq S
     /\ q = NULL => walk[i].todo = {}
     /\ q # NULL => /\ q \in S
                    /\ iter[i].direction = FORWARD =>
                         /\ \A m \in walk[i].seen : at[m] < at[q]
                         /\ \A m \in walk[i].todo : at[q] <= at[m]
                    /\ iter[i].direction = BACKWARD =>
                         /\ \A m \in walk[i].seen : at[q] < at[m]
                         /\ \A m \in walk[i].todo : at[m] <= at[q]

Ordered(at) ==
  /\ \A l \in Live(List) : Sorted(l, at)
  /\ \A i \in Live(Iter) : Walks(i, at)

\* What is in a list is allocated, and so is what it holds.
Kept ==
  \A n \in Node : owner[n] # NULL =>
    room[n] > 0 /\ owner[n] \in Live(List) /\ node[n].value \in values \cup {NULL}

IInv == /\ TypeOK /\ NeverUndefined /\ Kept /\ Exclusive
        /\ \E at \in [Node -> Int] : Ordered(at)

-----------------------------------------------------------------------------
(* Blocks, and what a step leaves alone.                                   *)

LEMMA Addresses ==
  /\ NULL \notin List /\ NULL \notin Node /\ NULL \notin Iter /\ NULL \notin Value
  /\ List \subseteq Blocks /\ Node \subseteq Blocks /\ Iter \subseteq Blocks
  /\ List \cap Node = {} /\ List \cap Iter = {} /\ Node \cap Iter = {}
  /\ Blocks \cap Value = {} /\ FORWARD # BACKWARD
  BY AdlistAssumption DEF Blocks, FORWARD, BACKWARD

LEMMA Allocates ==
  ASSUME Z!TypeOK, NEW a \in Blocks, NEW n \in Sizes, Z!zmalloc(a, n)
  PROVE  /\ Z!TypeOK' /\ room[a] = 0 /\ room'[a] > 0
         /\ \A b \in Blocks : b # a => room'[b] = room[b]
<1>1. /\ n \in Nat /\ n + PREFIX_SIZE < SizeMod /\ PREFIX_SIZE \in Nat \ {0}
      /\ SizeMod \in Nat \ {0}
  BY AdlistAssumption
<1>2. (n + PREFIX_SIZE) % SizeMod = n + PREFIX_SIZE
  BY <1>1
<1>3. used_memory \in Int
  BY <1>1 DEF Z!TypeOK
<1>4. (used_memory + (n + PREFIX_SIZE)) % SizeMod \in 0 .. SizeMod - 1
  BY <1>1, <1>3
<1>5. QED
  BY <1>1, <1>2, <1>4 DEF Z!zmalloc, Z!TypeOK, Z!increment_used_memory

LEMMA Frees ==
  ASSUME Z!TypeOK, NEW a \in Blocks, Z!zfree(a)
  PROVE  /\ Z!TypeOK' /\ room'[a] = 0
         /\ \A b \in Blocks : b # a => room'[b] = room[b]
<1>1. PREFIX_SIZE \in Nat /\ SizeMod \in Nat \ {0} /\ a # NULL
  BY AdlistAssumption
<1>2. used_memory \in Int /\ header[a] \in Nat
  BY <1>1 DEF Z!TypeOK
<1>3. (used_memory - (header[a] + PREFIX_SIZE)) % SizeMod \in 0 .. SizeMod - 1
  BY <1>1, <1>2
<1>4. QED
  BY <1>1, <1>3 DEF Z!zfree, Z!TypeOK, Z!decrement_used_memory, Z!Allocated

\* A list that has changed, put together from what is known of it.
LEMMA NowSorted ==
  ASSUME NEW l, NEW at, NEW T, NodesOf(l)' = T, NEW h, NEW t, NEW len,
         list'[l].head = h, list'[l].tail = t, list'[l].len = len,
         len = Cardinality(T),
         \A m, n \in T : at[m] = at[n] => m = n,
         h = NULL \/ t = NULL => T = {},
         h # NULL => h \in T /\ \A m \in T : at[h] <= at[m],
         t # NULL => t \in T /\ \A m \in T : at[m] <= at[t],
         \A n \in T : Follows(T, at, n, node'[n].next) /\ Precedes(T, at, n, node'[n].prev)
  PROVE  Sorted(l, at)'
<1>1. \A n \in NodesOf(l)' : /\ Follows(NodesOf(l)', at, n, node'[n].next)
                             /\ Precedes(NodesOf(l)', at, n, node'[n].prev)
  OBVIOUS
<1>2. list'[l].len = Cardinality(NodesOf(l)')
  OBVIOUS
<1>3. QED
  BY <1>1, <1>2 DEF Sorted

\* A list whose struct, nodes and places are as before.
LEMMA SameList ==
  ASSUME NEW l, NEW at, NEW b, Sorted(l, at), NodesOf(l)' = NodesOf(l),
         list'[l].head = list[l].head, list'[l].tail = list[l].tail, list'[l].len = list[l].len,
         \A n \in NodesOf(l) : /\ node'[n].next = node[n].next /\ node'[n].prev = node[n].prev
                               /\ b[n] = at[n]
  PROVE  Sorted(l, b)'
<1>1. \A n \in NodesOf(l) : /\ Follows(NodesOf(l), b, n, node'[n].next)
                            /\ Precedes(NodesOf(l), b, n, node'[n].prev)
  BY DEF Sorted, Follows, Precedes
<1>2. QED
  BY <1>1 DEF Sorted

\* An iterator on a list that lost nothing.
LEMMA SameWalk ==
  ASSUME NEW i, NEW at, NEW b, Walks(i, at), iter'[i] = iter[i], walk'[i] = walk[i],
         walk[i].on \in Live(List)', NodesOf(walk[i].on) \subseteq NodesOf(walk[i].on)',
         \A n \in NodesOf(walk[i].on) : b[n] = at[n]
  PROVE  Walks(i, b)'
<1>1. PICK l : l = walk[i].on /\ l = walk'[i].on
  OBVIOUS
<1>2. NodesOf(l) \subseteq NodesOf(l)'
  BY <1>1 DEF NodesOf
<1>3. QED
  BY <1>1, <1>2 DEF Walks

-----------------------------------------------------------------------------
(* One lemma for each call.                                                *)

LEMMA InitIInv == Init => IInv
<1> SUFFICES ASSUME Init PROVE IInv
  OBVIOUS
<1> USE DEF Init
<1>1. TypeOK
  <2>1. Z!TypeOK
    BY AdlistAssumption DEF Z!Init, Z!TypeOK
  <2>2. /\ EmptyList \in [head : Node \cup {NULL}, tail : Node \cup {NULL}, len : Nat,
                          dup : BOOLEAN, free : BOOLEAN, match : BOOLEAN]
        /\ BlankNode \in [prev : Node \cup {NULL}, next : Node \cup {NULL},
                          value : Value \cup {NULL}]
    BY DEF EmptyList, BlankNode
  <2>3. /\ BlankIter \in [next : Node \cup {NULL}, direction : {FORWARD, BACKWARD}]
        /\ BlankWalk \in [on : List \cup {NULL}, todo : SUBSET Node, seen : SUBSET Node]
    BY DEF BlankIter, BlankWalk
  <2>4. QED
    BY <2>1, <2>2, <2>3 DEF TypeOK
<1>2. Kept /\ Exclusive /\ NeverUndefined
  BY DEF Kept, Exclusive, NeverUndefined
<1>3. Live(List) = {} /\ Live(Iter) = {}
  BY Addresses DEF Live, Z!Init
<1>4. [n \in Node |-> 0] \in [Node -> Int]
  OBVIOUS
<1>5. QED
  BY <1>1, <1>2, <1>3, <1>4 DEF IInv, Ordered

\* A new list, with no nodes: listCreate, and listDup before it copies.
LEMMA CreatesIInv ==
  ASSUME IInv, NEW l \in List, Z!zmalloc(l, SizeofList),
         NEW r \in [head : Node \cup {NULL}, tail : Node \cup {NULL}, len : Nat,
                    dup : BOOLEAN, free : BOOLEAN, match : BOOLEAN],
         r.head = NULL, r.tail = NULL, r.len = 0, list' = [list EXCEPT ![l] = r],
         UNCHANGED <<node, iter, values, undefined, owner, walk>>
  PROVE  /\ IInv' /\ room[l] = 0
         /\ Live(List)' = Live(List) \cup {l} /\ l \notin Live(List)
         /\ Live(Node)' = Live(Node) /\ Live(Iter)' = Live(Iter)
<1>1. PICK at \in [Node -> Int] : Ordered(at)
  BY DEF IInv
<1>2. /\ Z!TypeOK' /\ room[l] = 0 /\ room'[l] > 0 /\ \A b \in Blocks : b # l => room'[b] = room[b]
  BY Allocates, Addresses DEF IInv, TypeOK, Sizes
<1>3. /\ Live(List)' = Live(List) \cup {l} /\ l \notin Live(List) /\ Live(Iter)' = Live(Iter)
      /\ Live(Node)' = Live(Node) /\ \A n \in Node : room'[n] = room[n]
  BY <1>2, Addresses DEF Live
<1>4. /\ \A k : NodesOf(k)' = NodesOf(k)
      /\ NodesOf(l) = {}
  BY <1>3, Addresses DEF NodesOf, IInv, Kept
<1>5. /\ list'[l] = r /\ \A k \in List : k # l => list'[k] = list[k]
  BY DEF IInv, TypeOK
<1>6. TypeOK'
  BY <1>2 DEF IInv, TypeOK
<1>7. Kept'
  BY <1>3 DEF IInv, Kept
<1>8. Exclusive'
  BY <1>3, <1>5 DEF IInv, Kept, Exclusive, Live
<1>9. ASSUME NEW k \in Live(List)' PROVE Sorted(k, at)'
  <2>1. CASE k = l
    BY <1>4, <1>5, <2>1, FS_EmptySet DEF Sorted
  <2>2. CASE k # l
    BY <1>1, <1>3, <1>4, <1>5, <2>2, SameList DEF Ordered, Live
  <2>3. QED
    BY <2>1, <2>2
<1>10. ASSUME NEW i \in Live(Iter)' PROVE Walks(i, at)'
  BY <1>1, <1>3, <1>4, SameWalk DEF Ordered, Walks
<1>11. QED
  BY <1>2, <1>3, <1>6, <1>7, <1>8, <1>9, <1>10 DEF IInv, Ordered, NeverUndefined

LEMMA CreateIInv ==
  ASSUME IInv, NEW l \in List, listCreate(l) PROVE IInv'
<1>1. /\ Z!zmalloc(l, SizeofList) /\ list' = [list EXCEPT ![l] = EmptyList]
      /\ UNCHANGED <<node, iter, values, undefined, owner, walk>>
  BY DEF listCreate
<1>2. PICK r : r = EmptyList
  OBVIOUS
<1>3. /\ r \in [head : Node \cup {NULL}, tail : Node \cup {NULL}, len : Nat,
                dup : BOOLEAN, free : BOOLEAN, match : BOOLEAN]
      /\ r.head = NULL /\ r.tail = NULL /\ r.len = 0
  BY <1>2 DEF EmptyList
<1>4. QED
  BY <1>1, <1>2, <1>3, CreatesIInv

LEMMA NewValueIInv ==
  ASSUME IInv, NEW v \in Value, NewValue(v) PROVE IInv'
<1>1. PICK at \in [Node -> Int] : Ordered(at)
  BY DEF IInv
<1>2. /\ values' = values \cup {v}
      /\ UNCHANGED <<heap, list, node, iter, undefined, owner, walk>>
  BY DEF NewValue
<1>3. TypeOK'
  BY <1>2 DEF IInv, TypeOK, Z!TypeOK, heap
<1>4. Kept' /\ Exclusive' /\ NeverUndefined'
  BY <1>2 DEF IInv, Kept, Exclusive, NeverUndefined, Live, heap
<1>5. Live(List)' = Live(List) /\ Live(Iter)' = Live(Iter) /\ \A k : NodesOf(k)' = NodesOf(k)
  BY <1>2 DEF Live, NodesOf, heap
<1>6. ASSUME NEW k \in Live(List)' PROVE Sorted(k, at)'
  BY <1>1, <1>2, <1>5, SameList DEF Ordered
<1>7. ASSUME NEW i \in Live(Iter)' PROVE Walks(i, at)'
  BY <1>1, <1>2, <1>5, SameWalk DEF Ordered, Walks
<1>8. QED
  BY <1>3, <1>4, <1>6, <1>7 DEF IInv, Ordered

LEMMA SetMethodsIInv ==
  ASSUME IInv, NEW l \in List, NEW d \in BOOLEAN, NEW f \in BOOLEAN, NEW m \in BOOLEAN,
         SetMethods(l, d, f, m)
  PROVE  IInv'
<1>1. PICK at \in [Node -> Int] : Ordered(at)
  BY DEF IInv
<1>2. /\ list' = [list EXCEPT ![l].dup = d, ![l].free = f, ![l].match = m]
      /\ UNCHANGED <<heap, node, iter, values, owner, walk, undefined>>
      /\ Exclusive'
  BY Addresses DEF SetMethods, Touching, Live
<1>3. TypeOK'
  <2>1. list' \in [List -> [head : Node \cup {NULL}, tail : Node \cup {NULL}, len : Nat,
                           dup : BOOLEAN, free : BOOLEAN, match : BOOLEAN]]
    <3>1. \A k \in List : list'[k] = IF k = l
                                     THEN [list[l] EXCEPT !.dup = d, !.free = f, !.match = m]
                                     ELSE list[k]
      BY <1>2 DEF IInv, TypeOK
    <3>2. DOMAIN list' = List /\ list' = [k \in List |-> list'[k]]
      BY <1>2 DEF IInv, TypeOK
    <3>3. ASSUME NEW k \in List
          PROVE  list'[k] \in [head : Node \cup {NULL}, tail : Node \cup {NULL}, len : Nat,
                               dup : BOOLEAN, free : BOOLEAN, match : BOOLEAN]
      <4>1. PICK r : r = list[k]
        OBVIOUS
      <4>2. r \in [head : Node \cup {NULL}, tail : Node \cup {NULL}, len : Nat,
                   dup : BOOLEAN, free : BOOLEAN, match : BOOLEAN]
        BY <4>1 DEF IInv, TypeOK
      <4>3. list'[k] = r \/ list'[k] = [r EXCEPT !.dup = d, !.free = f, !.match = m]
        BY <3>1, <4>1
      <4>4. QED
        BY <4>2, <4>3
    <3>4. QED
      BY <3>2, <3>3
  <2>2. Z!TypeOK'
    BY <1>2 DEF IInv, TypeOK, Z!TypeOK, heap
  <2>3. QED
    BY <1>2, <2>1, <2>2 DEF IInv, TypeOK
<1>4. Kept' /\ NeverUndefined'
  BY <1>2 DEF IInv, Kept, NeverUndefined, Live, heap
<1>5. \A k \in List : /\ list'[k].head = list[k].head /\ list'[k].tail = list[k].tail
                      /\ list'[k].len = list[k].len
  BY <1>2 DEF IInv, TypeOK
<1>6. Live(List)' = Live(List) /\ Live(Iter)' = Live(Iter) /\ \A k : NodesOf(k)' = NodesOf(k)
  BY <1>2 DEF Live, NodesOf, heap
<1>7. ASSUME NEW k \in Live(List)' PROVE Sorted(k, at)'
  BY <1>1, <1>2, <1>5, <1>6, SameList DEF Ordered, Live
<1>8. ASSUME NEW i \in Live(Iter)' PROVE Walks(i, at)'
  BY <1>1, <1>2, <1>6, SameWalk DEF Ordered, Walks
<1>9. QED
  BY <1>2, <1>3, <1>4, <1>7, <1>8 DEF IInv, Ordered

\* Nodes put in front of all others, and behind all others.
LEMMA InFront ==
  ASSUME NEW S \in SUBSET Node, NEW n \in Node, NEW at \in [Node -> Int], NEW b \in [Node -> Int],
         \A m \in S : b[m] = at[m] /\ b[n] < at[m],
         NEW m \in S, NEW q
  PROVE  /\ Follows(S, at, m, q) => Follows(S \cup {n}, b, m, q)
         /\ (\A k \in S : at[q] <= at[k]) /\ q \in S => Follows(S \cup {n}, b, n, q)
         /\ Precedes(S \cup {n}, b, n, NULL)
         /\ (\A k \in S : at[m] <= at[k]) => Precedes(S \cup {n}, b, m, n)
         /\ q \in S /\ Precedes(S, at, m, q) => Precedes(S \cup {n}, b, m, q)
<1>1. b[n] \in Int /\ \A k \in S : at[k] \in Int /\ b[k] \in Int
  OBVIOUS
<1>2. Follows(S, at, m, q) => Follows(S \cup {n}, b, m, q)
  BY <1>1 DEF Follows
<1>3. (\A k \in S : at[q] <= at[k]) /\ q \in S => Follows(S \cup {n}, b, n, q)
  BY <1>1 DEF Follows
<1>4. Precedes(S \cup {n}, b, n, NULL)
  BY <1>1 DEF Precedes
<1>5. (\A k \in S : at[m] <= at[k]) => Precedes(S \cup {n}, b, m, n)
  BY <1>1 DEF Precedes
<1>6. q \in S /\ Precedes(S, at, m, q) => Precedes(S \cup {n}, b, m, q)
  BY <1>1, Addresses DEF Precedes
<1>7. QED
  BY <1>2, <1>3, <1>4, <1>5, <1>6

LEMMA Behind ==
  ASSUME NEW S \in SUBSET Node, NEW n \in Node, NEW at \in [Node -> Int], NEW b \in [Node -> Int],
         \A m \in S : b[m] = at[m] /\ at[m] < b[n],
         NEW m \in S, NEW p
  PROVE  /\ Precedes(S, at, m, p) => Precedes(S \cup {n}, b, m, p)
         /\ (\A k \in S : at[k] <= at[p]) /\ p \in S => Precedes(S \cup {n}, b, n, p)
         /\ Follows(S \cup {n}, b, n, NULL)
         /\ (\A k \in S : at[k] <= at[m]) => Follows(S \cup {n}, b, m, n)
         /\ p \in S /\ Follows(S, at, m, p) => Follows(S \cup {n}, b, m, p)
<1>1. b[n] \in Int /\ \A k \in S : at[k] \in Int /\ b[k] \in Int
  OBVIOUS
<1>2. Precedes(S, at, m, p) => Precedes(S \cup {n}, b, m, p)
  BY <1>1 DEF Precedes
<1>3. (\A k \in S : at[k] <= at[p]) /\ p \in S => Precedes(S \cup {n}, b, n, p)
  BY <1>1 DEF Precedes
<1>4. Follows(S \cup {n}, b, n, NULL)
  BY <1>1 DEF Follows
<1>5. (\A k \in S : at[k] <= at[m]) => Follows(S \cup {n}, b, m, n)
  BY <1>1 DEF Follows
<1>6. p \in S /\ Follows(S, at, m, p) => Follows(S \cup {n}, b, m, p)
  BY <1>1, Addresses DEF Follows
<1>7. QED
  BY <1>2, <1>3, <1>4, <1>5, <1>6

\* The place of a node that is in no list may be any.
LEMMA PlacesOfNodes ==
  ASSUME IInv, NEW at \in [Node -> Int], Ordered(at), NEW n \in Node, owner[n] = NULL,
         NEW b \in [Node -> Int], \A m \in Node : m # n => b[m] = at[m]
  PROVE  Ordered(b)
<1>1. ASSUME NEW l \in Live(List) PROVE Sorted(l, b)
  <2>1. PICK S \in SUBSET Node : S = NodesOf(l) /\ n \notin S
    <3>1. l # NULL
      BY Addresses DEF Live
    <3>2. NodesOf(l) \in SUBSET Node /\ n \notin NodesOf(l)
      BY <3>1 DEF NodesOf
    <3>3. QED
      BY <3>2
  <2>2. \A m \in S : b[m] = at[m]
    BY <2>1
  <2>3. Sorted(l, at)
    BY DEF Ordered
  <2>4. \A m \in S : /\ Follows(S, b, m, node[m].next)
                     /\ Precedes(S, b, m, node[m].prev)
    BY <2>1, <2>2, <2>3 DEF Sorted, Follows, Precedes
  <2>5. QED
    BY <2>1, <2>2, <2>3, <2>4 DEF Sorted
<1>2. ASSUME NEW i \in Live(Iter) PROVE Walks(i, b)
  <2>1. Walks(i, at)
    BY DEF Ordered
  <2>2. PICK S \in SUBSET Node : S = NodesOf(walk[i].on) /\ n \notin S
    BY <2>1, Addresses, ZenonT(60) DEF NodesOf, Live, Walks
  <2>3. \A m \in S : b[m] = at[m]
    BY <2>2
  <2>4. QED
    BY <2>1, <2>2, <2>3 DEF Walks
<1>3. QED
  BY <1>1, <1>2 DEF Ordered

\* The node n, with the value v, gets into the list l, which is in order by b
\* then: what both ways to add a node have in common.
Adds(l, n, v, b) ==
  /\ Z!zmalloc(n, SizeofNode)
  /\ node' \in [Node -> [prev : Node \cup {NULL}, next : Node \cup {NULL},
                         value : Value \cup {NULL}]]
  /\ node'[n].value = v
  /\ \A m \in Node : m # n => node'[m].value = node[m].value
  /\ \A m \in Node : m # n /\ owner[m] # l => node'[m] = node[m]
  /\ list' \in [List -> [head : Node \cup {NULL}, tail : Node \cup {NULL}, len : Nat,
                        dup : BOOLEAN, free : BOOLEAN, match : BOOLEAN]]
  /\ \A k \in List : k # l => list'[k] = list[k]
  /\ list'[l].len = list[l].len + 1 /\ list'[l].dup = list[l].dup
  /\ list'[l].free = list[l].free /\ list'[l].match = list[l].match
  /\ owner' = [owner EXCEPT ![n] = l] /\ owner[n] = NULL
  /\ Sorted(l, b)'

LEMMA AddsToOne ==
  ASSUME IInv, NEW b \in [Node -> Int], NEW l \in Live(List), NEW n \in Node, NEW v,
         Adds(l, n, v, b)
  PROVE  /\ Z!TypeOK' /\ room[n] = 0 /\ room'[n] > 0
         /\ \A a \in Blocks : a # n => room'[a] = room[a]
         /\ Live(List)' = Live(List) /\ Live(Iter)' = Live(Iter) /\ l \in List /\ l # NULL
         /\ \A k : /\ k # l /\ k # NULL => NodesOf(k)' = NodesOf(k)
                   /\ k # NULL => NodesOf(k) \subseteq NodesOf(k)'
         /\ NodesOf(l)' = NodesOf(l) \cup {n}
<1>1. /\ Z!TypeOK' /\ room[n] = 0 /\ room'[n] > 0 /\ \A a \in Blocks : a # n => room'[a] = room[a]
  BY Allocates, Addresses DEF IInv, TypeOK, Sizes, Adds
<1>2. /\ Live(List)' = Live(List) /\ Live(Iter)' = Live(Iter) /\ l \in List /\ l # NULL
  BY <1>1, Addresses DEF Live
<1>3. owner[n] = NULL /\ owner' = [owner EXCEPT ![n] = l] /\ owner \in [Node -> List \cup {NULL}]
  BY DEF Adds, IInv, TypeOK
<1>4. \A k : /\ k # l /\ k # NULL => NodesOf(k)' = NodesOf(k)
             /\ k # NULL => NodesOf(k) \subseteq NodesOf(k)'
  BY <1>3 DEF NodesOf
<1>5. NodesOf(l)' = NodesOf(l) \cup {n}
  BY <1>3 DEF NodesOf
<1>6. QED
  BY <1>1, <1>2, <1>4, <1>5

LEMMA AddKeeps ==
  ASSUME IInv, NEW b \in [Node -> Int], Ordered(b),
         NEW l \in Live(List), NEW n \in Node, NEW v, Adds(l, n, v, b),
         values \subseteq values', values' \subseteq Value, v \in values' \cup {NULL},
         iter' \in [Iter -> [next : Node \cup {NULL}, direction : {FORWARD, BACKWARD}]],
         walk' \in [Iter -> [on : List \cup {NULL}, todo : SUBSET Node, seen : SUBSET Node]],
         UNCHANGED undefined,
         Exclusive', \A i \in Live(Iter)' : Walks(i, b)'
  PROVE  IInv' /\ Ordered(b)'
<1>1. /\ Z!TypeOK' /\ room[n] = 0 /\ room'[n] > 0 /\ \A a \in Blocks : a # n => room'[a] = room[a]
      /\ Live(List)' = Live(List) /\ Live(Iter)' = Live(Iter) /\ l \in List /\ l # NULL
  BY AddsToOne
<1>2. \A m \in Node : m # n => room'[m] = room[m]
  BY <1>1, Addresses
<1>3. owner[n] = NULL /\ owner' = [owner EXCEPT ![n] = l] /\ owner' \in [Node -> List \cup {NULL}]
  BY <1>1 DEF Adds, IInv, TypeOK
<1>4. \A k : k # l /\ k # NULL => NodesOf(k)' = NodesOf(k)
  BY AddsToOne
<1>5. TypeOK'
  BY <1>1, <1>3 DEF IInv, TypeOK, Adds
<1>6. Kept'
  <2>1. SUFFICES ASSUME NEW m \in Node, owner'[m] # NULL
                 PROVE  /\ room'[m] > 0 /\ owner'[m] \in Live(List)'
                        /\ node'[m].value \in values' \cup {NULL}
    BY DEF Kept
  <2>2. CASE m = n
    BY <1>1, <1>3, <2>2 DEF Adds, IInv, TypeOK
  <2>3. CASE m # n
    <3>1. /\ owner'[m] = owner[m] /\ room'[m] = room[m] /\ node'[m].value = node[m].value
      BY <1>2, <1>3, <2>3 DEF Adds, IInv, TypeOK
    <3>2. /\ room[m] > 0 /\ owner[m] \in Live(List)
          /\ node[m].value \in values \cup {NULL}
      BY <2>1, <3>1 DEF IInv, Kept
    <3>3. QED
      BY <1>1, <3>1, <3>2
  <2>4. QED
    BY <2>2, <2>3
<1>7. ASSUME NEW k \in Live(List)' PROVE Sorted(k, b)'
  <2>1. CASE k = l
    BY <2>1 DEF Adds
  <2>2. CASE k # l
    <3>1. k \in List /\ k # NULL /\ Sorted(k, b) /\ list'[k] = list[k]
      BY <1>1, <2>2, Addresses DEF Ordered, Live, Adds
    <3>2. \A m \in NodesOf(k) : m \in Node /\ m # n /\ node'[m] = node[m]
      BY <1>3, <3>1, <2>2 DEF NodesOf, Adds
    <3>3. QED
      BY <1>4, <3>1, <3>2, <2>2, SameList
  <2>3. QED
    BY <2>1, <2>2
<1>8. Ordered(b)'
  BY <1>7 DEF Ordered
<1>9. NeverUndefined'
  BY DEF IInv, NeverUndefined
<1>10. QED
  BY <1>5, <1>6, <1>8, <1>9 DEF IInv

\* An iterator does not notice a node that is added.
LEMMA AddWalks ==
  ASSUME IInv, NEW b \in [Node -> Int], Ordered(b),
         NEW l \in Live(List), NEW n \in Node, NEW v, Adds(l, n, v, b),
         NEW i \in Live(Iter), iter'[i] = iter[i], walk'[i] = walk[i]
  PROVE  Walks(i, b)'
<1>1. Walks(i, b) /\ walk[i].on \in Live(List) /\ walk[i].on # NULL
  BY Addresses DEF Ordered, Walks, Live
<1>2. NodesOf(walk[i].on) \subseteq NodesOf(walk[i].on)' /\ walk[i].on \in Live(List)'
  BY <1>1, AddsToOne
<1>3. QED
  BY <1>1, <1>2, SameWalk

LEMMA AddHeadDoes ==
  ASSUME IInv, NEW l \in Live(List), NEW n \in Node, NEW v \in Value \cup {NULL},
         listAddNodeHead(l, n, v)
  PROVE  /\ \E b \in [Node -> Int] : /\ Ordered(b) /\ Adds(l, n, v, b)
                                  /\ \A m \in NodesOf(l) : b[n] < b[m]
         /\ UNCHANGED <<iter, values, walk, undefined>>
<1>1. PICK at \in [Node -> Int] : Ordered(at)
  BY DEF IInv
<1>2. PICK h : h = list[l].head
  OBVIOUS
<1>3. PICK S \in SUBSET Node : S = NodesOf(l)
  BY DEF NodesOf
<1>4. l \in List /\ l \in Blocks /\ room[l] > 0 /\ l # NULL
  BY Addresses DEF Live
<1>5. h # NULL => h \in Live(Blocks) /\ h \in S /\ \A m \in S : at[h] <= at[m]
  BY <1>1, <1>2, <1>3, <1>4, Addresses DEF Ordered, Sorted, NodesOf, IInv, Kept, Live
<1>6. /\ Z!zmalloc(n, SizeofNode)
      /\ node' = [m \in Node |->
                    IF m = n THEN [prev |-> NULL, next |-> h, value |-> v]
                    ELSE IF m = h THEN [node[m] EXCEPT !.prev = n]
                    ELSE node[m]]
      /\ list' = [list EXCEPT ![l].head = n, ![l].len = @ + 1,
                              ![l].tail = IF h = NULL THEN n ELSE @]
      /\ owner' = [owner EXCEPT ![n] = l]
      /\ UNCHANGED <<iter, values, walk, undefined>>
  BY <1>2, <1>4, <1>5 DEF listAddNodeHead, Touching, Live
<1>7. room[n] = 0 /\ owner[n] = NULL
  BY <1>6, Allocates, Addresses DEF IInv, TypeOK, Sizes, Kept
<1>8. n \notin S /\ S \subseteq Node /\ NodesOf(l)' = S \cup {n}
  BY <1>3, <1>4, <1>6, <1>7 DEF NodesOf, IInv, TypeOK
<1>9. PICK c \in Int : \A m \in S : c < at[m]
  <2>1. CASE h = NULL
    BY <1>1, <1>2, <1>3, <2>1 DEF Ordered, Sorted
  <2>2. CASE h # NULL
    <3>1. h \in Node /\ at[h] \in Int /\ \A m \in S : at[m] \in Int /\ at[h] <= at[m]
      BY <1>5, <2>2
    <3>2. at[h] - 1 \in Int /\ \A m \in S : at[h] - 1 < at[m]
      BY <3>1
    <3>3. QED
      BY <3>2
  <2>3. QED
    BY <2>1, <2>2
<1>10. PICK b \in [Node -> Int] : b[n] = c /\ \A m \in Node : m # n => b[m] = at[m]
  <2>1. [at EXCEPT ![n] = c] \in [Node -> Int]
    OBVIOUS
  <2>2. QED
    BY <2>1
<1>11. \A m \in S : b[m] = at[m] /\ b[n] < at[m]
  BY <1>8, <1>9, <1>10
<1>12. /\ list'[l].head = n /\ list'[l].len = list[l].len + 1
       /\ list'[l].tail = IF h = NULL THEN n ELSE list[l].tail
       /\ \A k \in List : k # l => list'[k] = list[k]
       /\ list' \in [List -> [head : Node \cup {NULL}, tail : Node \cup {NULL}, len : Nat,
                             dup : BOOLEAN, free : BOOLEAN, match : BOOLEAN]]
  <2>1. \A k \in List : list'[k] = IF k = l
                                   THEN [list[l] EXCEPT !.head = n, !.len = @ + 1,
                                           !.tail = IF h = NULL THEN n ELSE @]
                                   ELSE list[k]
    BY <1>6 DEF IInv, TypeOK
  <2>2. /\ list'[l].head = n /\ list'[l].len = list[l].len + 1
        /\ list'[l].tail = IF h = NULL THEN n ELSE list[l].tail
        /\ \A k \in List : k # l => list'[k] = list[k]
    BY <1>4, <2>1 DEF IInv, TypeOK
  <2>3. list[l].len + 1 \in Nat
    BY <1>4 DEF IInv, TypeOK
  <2>4. ASSUME NEW k \in List
        PROVE  list'[k] \in [head : Node \cup {NULL}, tail : Node \cup {NULL}, len : Nat,
                             dup : BOOLEAN, free : BOOLEAN, match : BOOLEAN]
    <3>1. list[k] \in [head : Node \cup {NULL}, tail : Node \cup {NULL}, len : Nat,
                       dup : BOOLEAN, free : BOOLEAN, match : BOOLEAN]
      BY DEF IInv, TypeOK
    <3>2. CASE k = l
      <4>1. PICK r : r = list[l]
        OBVIOUS
      <4>2. PICK t \in Node \cup {NULL} : t = IF h = NULL THEN n ELSE r.tail
        BY <3>1, <3>2, <4>1
      <4>3. list'[l] = [r EXCEPT !.head = n, !.len = r.len + 1, !.tail = t]
        BY <1>4, <2>1, <4>1, <4>2
      <4>4. QED
        BY <2>3, <3>1, <3>2, <4>1, <4>3
    <3>3. QED
      BY <2>1, <3>1, <3>2
  <2>5. DOMAIN list' = List /\ list' = [k \in List |-> list'[k]]
    BY <1>6 DEF IInv, TypeOK
  <2>6. QED
    BY <2>2, <2>4, <2>5
<1>13. /\ node'[n].prev = NULL /\ node'[n].next = h /\ node'[n].value = v
       /\ \A m \in Node : m # n => /\ node'[m].next = node[m].next /\ node'[m].value = node[m].value
                                    /\ node'[m].prev = IF m = h THEN n ELSE node[m].prev
       /\ \A m \in Node : m # n /\ m # h => node'[m] = node[m]
  BY <1>6 DEF IInv, TypeOK
<1>14. node' \in [Node -> [prev : Node \cup {NULL}, next : Node \cup {NULL},
                          value : Value \cup {NULL}]]
  <2>1. /\ h \in Node \cup {NULL} /\ v \in Value \cup {NULL}
        /\ node \in [Node -> [prev : Node \cup {NULL}, next : Node \cup {NULL},
                             value : Value \cup {NULL}]]
    BY <1>2, <1>4 DEF IInv, TypeOK
  <2>2. \A m \in Node : node'[m] = IF m = n THEN [prev |-> NULL, next |-> h, value |-> v]
                                   ELSE IF m = h THEN [node[m] EXCEPT !.prev = n] ELSE node[m]
    BY <1>6
  <2>3. ASSUME NEW m \in Node
        PROVE  node'[m] \in [prev : Node \cup {NULL}, next : Node \cup {NULL},
                             value : Value \cup {NULL}]
    <3>1. CASE m = n
      <4>1. PICK r : r = [prev |-> NULL, next |-> h, value |-> v]
        OBVIOUS
      <4>2. r \in [prev : Node \cup {NULL}, next : Node \cup {NULL}, value : Value \cup {NULL}]
        BY <2>1, <4>1
      <4>3. node'[m] = r
        BY <2>2, <3>1, <4>1
      <4>4. QED
        BY <4>2, <4>3
    <3>2. CASE m # n
      <4>1. PICK r \in [prev : Node \cup {NULL}, next : Node \cup {NULL},
                        value : Value \cup {NULL}] : r = node[m]
        BY <2>1
      <4>2. node'[m] = [r EXCEPT !.prev = n] \/ node'[m] = r
        BY <2>2, <3>2, <4>1
      <4>3. QED
        BY <4>1, <4>2
    <3>3. QED
      BY <3>1, <3>2
  <2>4. DOMAIN node' = Node /\ node' = [m \in Node |-> node'[m]]
    BY <1>6
  <2>5. QED
    BY <2>3, <2>4
<1>15. Sorted(l, b)'
  <2>1. ASSUME NEW m \in S \cup {n}
        PROVE  Follows(S \cup {n}, b, m, node'[m].next) /\ Precedes(S \cup {n}, b, m, node'[m].prev)
    <3>1. CASE m = n
      <4>1. CASE h = NULL
        <5>1. S = {}
          BY <1>1, <1>2, <1>3, <4>1 DEF Ordered, Sorted
        <5>2. QED
          BY <1>10, <1>13, <3>1, <4>1, <5>1 DEF Follows, Precedes
      <4>2. CASE h # NULL
        BY <1>1, <1>5, <1>8, <1>11, <1>13, <3>1, <4>2, InFront
      <4>3. QED
        BY <4>1, <4>2
    <3>2. CASE m # n
      <4>1. /\ m \in S /\ m \in Node
            /\ Follows(S, at, m, node[m].next) /\ Precedes(S, at, m, node[m].prev)
        BY <1>1, <1>3, <3>2 DEF Ordered, Sorted
      <4>2. h # NULL /\ h \in S /\ \A k \in S : at[h] <= at[k]
        BY <1>1, <1>2, <1>3, <1>5, <4>1 DEF Ordered, Sorted
      <4>3. Follows(S \cup {n}, b, m, node'[m].next)
        <5>1. Follows(S \cup {n}, b, m, node[m].next)
          BY <1>11, <4>1, InFront
        <5>2. node'[m].next = node[m].next
          BY <1>13, <3>2, <4>1
        <5>3. QED
          BY <5>1, <5>2
      <4>4. Precedes(S \cup {n}, b, m, node'[m].prev)
        <5>1. CASE m = h
          <6>1. Precedes(S \cup {n}, b, h, n)
            BY <1>11, <4>2, InFront
          <6>2. node'[m].prev = n
            BY <1>13, <3>2, <4>1, <5>1
          <6>3. QED
            BY <5>1, <6>1, <6>2
        <5>2. CASE m # h
          <6>1. ~\A k \in S : at[m] <= at[k]
            <7>1. \A k \in S : at[k] \in Int
              BY <1>1
            <7>2. at[h] = at[m] => m = h
              BY <1>1, <1>3, <4>1, <4>2 DEF Ordered, Sorted
            <7>3. QED
              BY <4>1, <4>2, <5>2, <7>1, <7>2
          <6>2. node[m].prev \in S
            BY <4>1, <6>1 DEF Precedes
          <6>3. Precedes(S \cup {n}, b, m, node[m].prev)
            BY <1>11, <4>1, <6>2, InFront
          <6>4. node'[m].prev = node[m].prev
            BY <1>13, <3>2, <4>1, <5>2
          <6>5. QED
            BY <6>3, <6>4
        <5>3. QED
          BY <5>1, <5>2
      <4>5. QED
        BY <4>3, <4>4
    <3>3. QED
      BY <3>1, <3>2
  <2>2. list'[l].len = Cardinality(S \cup {n})
    <3>1. IsFiniteSet(S) /\ n \notin S
      BY <1>8, FS_Subset, AdlistAssumption
    <3>2. Cardinality(S \cup {n}) = Cardinality(S) + 1
      BY <3>1, FS_AddElement
    <3>3. list[l].len = Cardinality(S)
      BY <1>1, <1>3 DEF Ordered, Sorted
    <3>4. list'[l].len = list[l].len + 1
      BY <1>12
    <3>5. QED
      BY <3>2, <3>3, <3>4
  <2>3. \A m, k \in S \cup {n} : b[m] = b[k] => m = k
    <3>1. \A m, k \in S : at[m] = at[k] => m = k
      BY <1>1, <1>3 DEF Ordered, Sorted
    <3>2. b[n] \in Int /\ \A m \in S : at[m] \in Int
      BY <1>1, <1>10
    <3>3. QED
      BY <1>11, <3>1, <3>2
  <2>4. \A m \in S \cup {n} : b[n] <= b[m]
    BY <1>1, <1>10, <1>11
  <2>5. /\ list'[l].tail # NULL /\ list'[l].tail \in S \cup {n}
        /\ \A m \in S \cup {n} : b[m] <= b[list'[l].tail]
    <3>1. CASE h = NULL
      <4>1. S = {}
        BY <1>1, <1>2, <1>3, <3>1 DEF Ordered, Sorted
      <4>2. QED
        BY <1>10, <1>12, <3>1, <4>1, Addresses
    <3>2. CASE h # NULL
      <4>1. PICK t \in S : t = list[l].tail /\ \A m \in S : at[m] <= at[t]
        BY <1>1, <1>3, <1>5, <3>2 DEF Ordered, Sorted
      <4>2. t # NULL /\ list'[l].tail = t
        BY <1>12, <3>2, <4>1, Addresses
      <4>3. b[n] \in Int /\ \A m \in S : at[m] \in Int
        BY <1>1, <1>10
      <4>4. \A m \in S \cup {n} : b[m] <= b[t]
        BY <1>11, <4>1, <4>3
      <4>5. QED
        BY <4>2, <4>4
    <3>3. QED
      BY <3>1, <3>2
  <2>6. PICK T : T = NodesOf(l)' /\ T = S \cup {n}
    BY <1>8
  <2>7. n # NULL /\ n \in T
    BY <2>6, Addresses
  <2>8. /\ list'[l].len = Cardinality(T)
        /\ \A m \in T : Follows(T, b, m, node'[m].next) /\ Precedes(T, b, m, node'[m].prev)
    BY <2>1, <2>2, <2>6, Zenon
  <2>9. NodesOf(l)' = T
    BY <2>6, Zenon
  <2>10. /\ \A m, k \in T : b[m] = b[k] => m = k
         /\ \A m \in T : b[n] <= b[m]
         /\ list'[l].tail # NULL /\ list'[l].tail \in T
         /\ \A m \in T : b[m] <= b[list'[l].tail]
    BY <2>3, <2>4, <2>5, <2>6
  <2>11. QED
    BY <1>12, <2>7, <2>8, <2>9, <2>10, NowSorted
<1>16. \A m \in Node : m # n /\ owner[m] # l => node'[m] = node[m]
  BY <1>3, <1>4, <1>5, <1>13, Addresses DEF NodesOf
<1>17. /\ list'[l].len = list[l].len + 1 /\ list'[l].dup = list[l].dup
       /\ list'[l].free = list[l].free /\ list'[l].match = list[l].match
  BY <1>4, <1>6 DEF IInv, TypeOK
<1>18. Adds(l, n, v, b)
  BY <1>6, <1>7, <1>12, <1>13, <1>14, <1>15, <1>16, <1>17 DEF Adds
<1>19. Ordered(b)
  BY <1>1, <1>7, <1>10, PlacesOfNodes
<1>20. \A m \in NodesOf(l) : b[n] < b[m]
  BY <1>3, <1>11
<1>21. QED
  BY <1>6, <1>18, <1>19, <1>20

LEMMA AddHeadIInv ==
  ASSUME IInv, NEW l \in Live(List), NEW n \in Node, NEW v \in values \cup {NULL},
         listAddNodeHead(l, n, v), Exclusive'
  PROVE  IInv'
<1>1. v \in Value \cup {NULL} /\ values \subseteq Value
  BY DEF IInv, TypeOK
<1>2. UNCHANGED <<iter, values, walk, undefined>>
  BY <1>1, AddHeadDoes
<1>3. PICK b \in [Node -> Int] : Ordered(b) /\ Adds(l, n, v, b)
  BY <1>1, AddHeadDoes
<1>4. \A i \in Live(Iter)' : Walks(i, b)'
  <2>1. Live(Iter)' = Live(Iter)
    BY <1>3, AddsToOne
  <2>2. QED
    BY <1>2, <1>3, <2>1, AddWalks
<1>5. /\ iter' \in [Iter -> [next : Node \cup {NULL}, direction : {FORWARD, BACKWARD}]]
      /\ walk' \in [Iter -> [on : List \cup {NULL}, todo : SUBSET Node, seen : SUBSET Node]]
  BY <1>2 DEF IInv, TypeOK
<1>6. QED
  BY <1>1, <1>2, <1>3, <1>4, <1>5, AddKeeps

LEMMA AddTailDoes ==
  ASSUME IInv, NEW l \in Live(List), NEW n \in Node, NEW v \in Value \cup {NULL},
         LinkTail(l, n, v)
  PROVE  /\ \E b \in [Node -> Int] : /\ Ordered(b) /\ Adds(l, n, v, b)
                                  /\ \A m \in NodesOf(l) : b[m] < b[n]
<1>1. PICK at \in [Node -> Int] : Ordered(at)
  BY DEF IInv
<1>2. PICK t : t = list[l].tail
  OBVIOUS
<1>3. PICK S \in SUBSET Node : S = NodesOf(l)
  BY DEF NodesOf
<1>4. l \in List /\ l \in Blocks /\ room[l] > 0 /\ l # NULL
  BY Addresses DEF Live
<1>5. t # NULL => t \in Live(Blocks) /\ t \in S /\ \A m \in S : at[m] <= at[t]
  BY <1>1, <1>2, <1>3, <1>4, Addresses DEF Ordered, Sorted, NodesOf, IInv, Kept, Live
<1>6. /\ Z!zmalloc(n, SizeofNode)
      /\ node' = [m \in Node |->
                    IF m = n THEN [prev |-> t, next |-> NULL, value |-> v]
                    ELSE IF m = t THEN [node[m] EXCEPT !.next = n]
                    ELSE node[m]]
      /\ list' = [list EXCEPT ![l].tail = n, ![l].len = @ + 1,
                              ![l].head = IF t = NULL THEN n ELSE @]
      /\ owner' = [owner EXCEPT ![n] = l]
  BY <1>2 DEF LinkTail
<1>7. room[n] = 0 /\ owner[n] = NULL
  BY <1>6, Allocates, Addresses DEF IInv, TypeOK, Sizes, Kept
<1>8. n \notin S /\ S \subseteq Node /\ NodesOf(l)' = S \cup {n}
  BY <1>3, <1>4, <1>6, <1>7 DEF NodesOf, IInv, TypeOK
<1>9. PICK c \in Int : \A m \in S : at[m] < c
  <2>1. CASE t = NULL
    BY <1>1, <1>2, <1>3, <2>1 DEF Ordered, Sorted
  <2>2. CASE t # NULL
    <3>1. t \in Node /\ at[t] \in Int /\ \A m \in S : at[m] \in Int /\ at[m] <= at[t]
      BY <1>5, <2>2
    <3>2. at[t] + 1 \in Int /\ \A m \in S : at[m] < at[t] + 1
      BY <3>1
    <3>3. QED
      BY <3>2
  <2>3. QED
    BY <2>1, <2>2
<1>10. PICK b \in [Node -> Int] : b[n] = c /\ \A m \in Node : m # n => b[m] = at[m]
  <2>1. [at EXCEPT ![n] = c] \in [Node -> Int]
    OBVIOUS
  <2>2. QED
    BY <2>1
<1>11. \A m \in S : b[m] = at[m] /\ at[m] < b[n]
  BY <1>8, <1>9, <1>10
<1>12. /\ list'[l].tail = n /\ list'[l].len = list[l].len + 1
       /\ list'[l].head = IF t = NULL THEN n ELSE list[l].head
       /\ \A k \in List : k # l => list'[k] = list[k]
       /\ list' \in [List -> [head : Node \cup {NULL}, tail : Node \cup {NULL}, len : Nat,
                             dup : BOOLEAN, free : BOOLEAN, match : BOOLEAN]]
  <2>1. \A k \in List : list'[k] = IF k = l
                                   THEN [list[l] EXCEPT !.tail = n, !.len = @ + 1,
                                           !.head = IF t = NULL THEN n ELSE @]
                                   ELSE list[k]
    BY <1>6 DEF IInv, TypeOK
  <2>2. /\ list'[l].tail = n /\ list'[l].len = list[l].len + 1
        /\ list'[l].head = IF t = NULL THEN n ELSE list[l].head
        /\ \A k \in List : k # l => list'[k] = list[k]
    BY <1>4, <2>1 DEF IInv, TypeOK
  <2>3. list[l].len + 1 \in Nat
    BY <1>4 DEF IInv, TypeOK
  <2>4. ASSUME NEW k \in List
        PROVE  list'[k] \in [head : Node \cup {NULL}, tail : Node \cup {NULL}, len : Nat,
                             dup : BOOLEAN, free : BOOLEAN, match : BOOLEAN]
    <3>1. list[k] \in [head : Node \cup {NULL}, tail : Node \cup {NULL}, len : Nat,
                       dup : BOOLEAN, free : BOOLEAN, match : BOOLEAN]
      BY DEF IInv, TypeOK
    <3>2. CASE k = l
      <4>1. PICK r : r = list[l]
        OBVIOUS
      <4>2. PICK h \in Node \cup {NULL} : h = IF t = NULL THEN n ELSE r.head
        BY <3>1, <3>2, <4>1
      <4>3. list'[l] = [r EXCEPT !.tail = n, !.len = r.len + 1, !.head = h]
        BY <1>4, <2>1, <4>1, <4>2
      <4>4. QED
        BY <2>3, <3>1, <3>2, <4>1, <4>3
    <3>3. QED
      BY <2>1, <3>1, <3>2
  <2>5. DOMAIN list' = List /\ list' = [k \in List |-> list'[k]]
    BY <1>6 DEF IInv, TypeOK
  <2>6. QED
    BY <2>2, <2>4, <2>5
<1>13. /\ node'[n].next = NULL /\ node'[n].prev = t /\ node'[n].value = v
       /\ \A m \in Node : m # n => /\ node'[m].prev = node[m].prev /\ node'[m].value = node[m].value
                                    /\ node'[m].next = IF m = t THEN n ELSE node[m].next
       /\ \A m \in Node : m # n /\ m # t => node'[m] = node[m]
  BY <1>6 DEF IInv, TypeOK
<1>14. node' \in [Node -> [prev : Node \cup {NULL}, next : Node \cup {NULL},
                          value : Value \cup {NULL}]]
  <2>1. /\ t \in Node \cup {NULL} /\ v \in Value \cup {NULL}
        /\ node \in [Node -> [prev : Node \cup {NULL}, next : Node \cup {NULL},
                             value : Value \cup {NULL}]]
    BY <1>2, <1>4 DEF IInv, TypeOK
  <2>2. \A m \in Node : node'[m] = IF m = n THEN [prev |-> t, next |-> NULL, value |-> v]
                                   ELSE IF m = t THEN [node[m] EXCEPT !.next = n] ELSE node[m]
    BY <1>6
  <2>3. ASSUME NEW m \in Node
        PROVE  node'[m] \in [prev : Node \cup {NULL}, next : Node \cup {NULL},
                             value : Value \cup {NULL}]
    <3>1. CASE m = n
      <4>1. PICK r : r = [prev |-> t, next |-> NULL, value |-> v]
        OBVIOUS
      <4>2. r \in [prev : Node \cup {NULL}, next : Node \cup {NULL}, value : Value \cup {NULL}]
        BY <2>1, <4>1
      <4>3. node'[m] = r
        BY <2>2, <3>1, <4>1
      <4>4. QED
        BY <4>2, <4>3
    <3>2. CASE m # n
      <4>1. PICK r \in [prev : Node \cup {NULL}, next : Node \cup {NULL},
                        value : Value \cup {NULL}] : r = node[m]
        BY <2>1
      <4>2. node'[m] = [r EXCEPT !.next = n] \/ node'[m] = r
        BY <2>2, <3>2, <4>1
      <4>3. QED
        BY <4>1, <4>2
    <3>3. QED
      BY <3>1, <3>2
  <2>4. DOMAIN node' = Node /\ node' = [m \in Node |-> node'[m]]
    BY <1>6
  <2>5. QED
    BY <2>3, <2>4
<1>15. Sorted(l, b)'
  <2>1. ASSUME NEW m \in S \cup {n}
        PROVE  Precedes(S \cup {n}, b, m, node'[m].prev) /\ Follows(S \cup {n}, b, m, node'[m].next)
    <3>1. CASE m = n
      <4>1. CASE t = NULL
        <5>1. S = {}
          BY <1>1, <1>2, <1>3, <4>1 DEF Ordered, Sorted
        <5>2. QED
          BY <1>10, <1>13, <3>1, <4>1, <5>1 DEF Follows, Precedes
      <4>2. CASE t # NULL
        BY <1>1, <1>5, <1>8, <1>11, <1>13, <3>1, <4>2, Behind
      <4>3. QED
        BY <4>1, <4>2
    <3>2. CASE m # n
      <4>1. /\ m \in S /\ m \in Node
            /\ Precedes(S, at, m, node[m].prev) /\ Follows(S, at, m, node[m].next)
        BY <1>1, <1>3, <3>2 DEF Ordered, Sorted
      <4>2. t # NULL /\ t \in S /\ \A k \in S : at[k] <= at[t]
        BY <1>1, <1>2, <1>3, <1>5, <4>1 DEF Ordered, Sorted
      <4>3. Precedes(S \cup {n}, b, m, node'[m].prev)
        <5>1. Precedes(S \cup {n}, b, m, node[m].prev)
          BY <1>11, <4>1, Behind
        <5>2. node'[m].prev = node[m].prev
          BY <1>13, <3>2, <4>1
        <5>3. QED
          BY <5>1, <5>2
      <4>4. Follows(S \cup {n}, b, m, node'[m].next)
        <5>1. CASE m = t
          <6>1. Follows(S \cup {n}, b, t, n)
            BY <1>11, <4>2, Behind
          <6>2. node'[m].next = n
            BY <1>13, <3>2, <4>1, <5>1
          <6>3. QED
            BY <5>1, <6>1, <6>2
        <5>2. CASE m # t
          <6>1. ~\A k \in S : at[k] <= at[m]
            <7>1. \A k \in S : at[k] \in Int
              BY <1>1
            <7>2. at[t] = at[m] => m = t
              BY <1>1, <1>3, <4>1, <4>2 DEF Ordered, Sorted
            <7>3. QED
              BY <4>1, <4>2, <5>2, <7>1, <7>2
          <6>2. node[m].next \in S
            BY <4>1, <6>1 DEF Follows
          <6>3. Follows(S \cup {n}, b, m, node[m].next)
            BY <1>11, <4>1, <6>2, Behind
          <6>4. node'[m].next = node[m].next
            BY <1>13, <3>2, <4>1, <5>2
          <6>5. QED
            BY <6>3, <6>4
        <5>3. QED
          BY <5>1, <5>2
      <4>5. QED
        BY <4>3, <4>4
    <3>3. QED
      BY <3>1, <3>2
  <2>2. list'[l].len = Cardinality(S \cup {n})
    <3>1. IsFiniteSet(S) /\ n \notin S
      BY <1>8, FS_Subset, AdlistAssumption
    <3>2. Cardinality(S \cup {n}) = Cardinality(S) + 1
      BY <3>1, FS_AddElement
    <3>3. list[l].len = Cardinality(S)
      BY <1>1, <1>3 DEF Ordered, Sorted
    <3>4. list'[l].len = list[l].len + 1
      BY <1>12
    <3>5. QED
      BY <3>2, <3>3, <3>4
  <2>3. \A m, k \in S \cup {n} : b[m] = b[k] => m = k
    <3>1. \A m, k \in S : at[m] = at[k] => m = k
      BY <1>1, <1>3 DEF Ordered, Sorted
    <3>2. b[n] \in Int /\ \A m \in S : at[m] \in Int
      BY <1>1, <1>10
    <3>3. QED
      BY <1>11, <3>1, <3>2
  <2>4. \A m \in S \cup {n} : b[m] <= b[n]
    BY <1>1, <1>10, <1>11
  <2>5. /\ list'[l].head # NULL /\ list'[l].head \in S \cup {n}
        /\ \A m \in S \cup {n} : b[list'[l].head] <= b[m]
    <3>1. CASE t = NULL
      <4>1. S = {}
        BY <1>1, <1>2, <1>3, <3>1 DEF Ordered, Sorted
      <4>2. QED
        BY <1>10, <1>12, <3>1, <4>1, Addresses
    <3>2. CASE t # NULL
      <4>1. PICK h \in S : h = list[l].head /\ \A m \in S : at[h] <= at[m]
        BY <1>1, <1>3, <1>5, <3>2 DEF Ordered, Sorted
      <4>2. h # NULL /\ list'[l].head = h
        BY <1>12, <3>2, <4>1, Addresses
      <4>3. b[n] \in Int /\ \A m \in S : at[m] \in Int
        BY <1>1, <1>10
      <4>4. \A m \in S \cup {n} : b[h] <= b[m]
        BY <1>11, <4>1, <4>3
      <4>5. QED
        BY <4>2, <4>4
    <3>3. QED
      BY <3>1, <3>2
  <2>6. PICK T : T = NodesOf(l)' /\ T = S \cup {n}
    BY <1>8
  <2>7. n # NULL /\ n \in T
    BY <2>6, Addresses
  <2>8. /\ list'[l].len = Cardinality(T)
        /\ \A m \in T : Precedes(T, b, m, node'[m].prev) /\ Follows(T, b, m, node'[m].next)
    BY <2>1, <2>2, <2>6, Zenon
  <2>9. NodesOf(l)' = T
    BY <2>6, Zenon
  <2>10. /\ \A m, k \in T : b[m] = b[k] => m = k
         /\ \A m \in T : b[m] <= b[n]
         /\ list'[l].head # NULL /\ list'[l].head \in T
         /\ \A m \in T : b[list'[l].head] <= b[m]
    BY <2>3, <2>4, <2>5, <2>6
  <2>11. QED
    BY <1>12, <2>7, <2>8, <2>9, <2>10, NowSorted
<1>16. \A m \in Node : m # n /\ owner[m] # l => node'[m] = node[m]
  BY <1>3, <1>4, <1>5, <1>13, Addresses DEF NodesOf
<1>17. /\ list'[l].len = list[l].len + 1 /\ list'[l].dup = list[l].dup
       /\ list'[l].free = list[l].free /\ list'[l].match = list[l].match
  BY <1>4, <1>6 DEF IInv, TypeOK
<1>18. Adds(l, n, v, b)
  BY <1>6, <1>7, <1>12, <1>13, <1>14, <1>15, <1>16, <1>17 DEF Adds
<1>19. Ordered(b)
  BY <1>1, <1>7, <1>10, PlacesOfNodes
<1>20. \A m \in NodesOf(l) : b[m] < b[n]
  BY <1>3, <1>11
<1>21. QED
  BY <1>6, <1>18, <1>19, <1>20

LEMMA AddTailIInv ==
  ASSUME IInv, NEW l \in Live(List), NEW n \in Node, NEW v \in values \cup {NULL},
         listAddNodeTail(l, n, v), Exclusive'
  PROVE  IInv'
<1>1. v \in Value \cup {NULL} /\ values \subseteq Value
  BY DEF IInv, TypeOK
<1>2. UNCHANGED <<iter, values, walk, undefined>> /\ LinkTail(l, n, v)
  <2>1. l \in Live(Blocks)
    BY Addresses DEF Live
  <2>2. list[l].tail # NULL => list[l].tail \in Live(Blocks)
    BY Addresses, ZenonT(60) DEF IInv, Ordered, Sorted, NodesOf, Kept, Live
  <2>3. QED
    BY <2>1, <2>2 DEF listAddNodeTail, Touching
<1>3. PICK b \in [Node -> Int] : Ordered(b) /\ Adds(l, n, v, b)
  BY <1>1, <1>2, AddTailDoes
<1>4. \A i \in Live(Iter)' : Walks(i, b)'
  <2>1. Live(Iter)' = Live(Iter)
    BY <1>3, AddsToOne
  <2>2. QED
    BY <1>2, <1>3, <2>1, AddWalks
<1>5. /\ iter' \in [Iter -> [next : Node \cup {NULL}, direction : {FORWARD, BACKWARD}]]
      /\ walk' \in [Iter -> [on : List \cup {NULL}, todo : SUBSET Node, seen : SUBSET Node]]
  BY <1>2 DEF IInv, TypeOK
<1>6. QED
  BY <1>1, <1>2, <1>3, <1>4, <1>5, AddKeeps

\* n between p and q, one of them NULL at an end: what comes behind a node, and
\* what in front of it, once n is taken out.
LEMMA ClosesNext ==
  ASSUME NEW S \in SUBSET Node, NEW at \in [Node -> Int], NEW n \in S, NEW p, NEW q,
         \A k, m \in S : at[k] = at[m] => k = m,
         Follows(S, at, n, q), Precedes(S, at, n, p),
         NEW T, T = S \ {n}, NEW m \in T, NEW f, NEW g,
         Follows(S, at, m, f), g = IF m = p THEN q ELSE f
  PROVE  Follows(T, at, m, g)
<1>1. NULL \notin S /\ \A k \in S : at[k] \in Int
  BY Addresses
<1>2. CASE m = p
  <2>1. CASE q = NULL
    BY <1>1, <1>2, <2>1 DEF Follows, Precedes
  <2>2. CASE q # NULL
    BY <1>1, <1>2, <2>2 DEF Follows, Precedes
  <2>3. QED
    BY <2>1, <2>2
<1>3. CASE m # p
  <2>1. f # n
    BY <1>1, <1>3 DEF Follows, Precedes
  <2>2. QED
    BY <1>1, <1>3, <2>1 DEF Follows
<1>4. QED
  BY <1>2, <1>3

LEMMA ClosesPrev ==
  ASSUME NEW S \in SUBSET Node, NEW at \in [Node -> Int], NEW n \in S, NEW p, NEW q,
         \A k, m \in S : at[k] = at[m] => k = m,
         Follows(S, at, n, q), Precedes(S, at, n, p),
         NEW T, T = S \ {n}, NEW m \in T, NEW f, NEW g,
         Precedes(S, at, m, f), g = IF m = q THEN p ELSE f
  PROVE  Precedes(T, at, m, g)
<1>1. NULL \notin S /\ \A k \in S : at[k] \in Int
  BY Addresses
<1>2. CASE m = q
  <2>1. CASE p = NULL
    BY <1>1, <1>2, <2>1 DEF Follows, Precedes
  <2>2. CASE p # NULL
    BY <1>1, <1>2, <2>2 DEF Follows, Precedes
  <2>3. QED
    BY <2>1, <2>2
<1>3. CASE m # q
  <2>1. f # n
    BY <1>1, <1>3 DEF Follows, Precedes
  <2>2. QED
    BY <1>1, <1>3, <2>1 DEF Precedes
<1>4. QED
  BY <1>2, <1>3

\* The ends of a list tell where a node is.
LEMMA Ends ==
  ASSUME IInv, NEW at \in [Node -> Int], Ordered(at), NEW l \in Live(List), NEW n \in Node,
         owner[n] = l
  PROVE  /\ list[l].head \in NodesOf(l) /\ list[l].tail \in NodesOf(l)
         /\ list[l].head = n <=> node[n].prev = NULL
         /\ list[l].tail = n <=> node[n].next = NULL
         /\ (list[l].len = 1 /\ list[l].head = n) <=> (node[n].prev = NULL /\ node[n].next = NULL)
         /\ node[n].prev \in (NodesOf(l) \cup {NULL}) \ {n}
         /\ node[n].next \in (NodesOf(l) \cup {NULL}) \ {n}
<1>1. PICK S \in SUBSET Node : S = NodesOf(l) /\ n \in S
  BY DEF NodesOf
<1>2. PICK h : h = list[l].head
  OBVIOUS
<1>3. PICK t : t = list[l].tail
  OBVIOUS
<1>4. PICK p : p = node[n].prev
  OBVIOUS
<1>5. PICK q : q = node[n].next
  OBVIOUS
<1>6. /\ Follows(S, at, n, q) /\ Precedes(S, at, n, p)
      /\ \A k, m \in S : at[k] = at[m] => k = m
      /\ h # NULL /\ h \in S /\ \A m \in S : at[h] <= at[m]
      /\ t # NULL /\ t \in S /\ \A m \in S : at[m] <= at[t]
      /\ list[l].len = Cardinality(S)
  BY <1>1, <1>2, <1>3, <1>4, <1>5 DEF Ordered, Sorted
<1>7. NULL \notin S /\ \A k \in S : at[k] \in Int
  BY Addresses
<1>8. h = n <=> p = NULL
  BY <1>1, <1>6, <1>7 DEF Precedes
<1>9. t = n <=> q = NULL
  BY <1>1, <1>6, <1>7 DEF Follows
<1>10. p \in (S \cup {NULL}) \ {n} /\ q \in (S \cup {NULL}) \ {n}
  BY <1>1, <1>6, <1>7 DEF Follows, Precedes
<1>11. (list[l].len = 1 /\ h = n) <=> (p = NULL /\ q = NULL)
  <2>1. IsFiniteSet(S)
    BY AdlistAssumption, FS_Subset
  <2>2. ASSUME list[l].len = 1, h = n PROVE p = NULL /\ q = NULL
    <3>1. PICK x : S = {x}
      BY <1>6, <2>1, <2>2, FS_Singleton
    <3>2. S = {n}
      BY <1>1, <3>1
    <3>3. QED
      BY <1>10, <3>2
  <2>3. ASSUME p = NULL, q = NULL PROVE list[l].len = 1 /\ h = n
    <3>1. \A m \in S : at[m] <= at[n] /\ at[n] <= at[m]
      BY <1>6, <1>7, <2>3 DEF Follows, Precedes
    <3>2. S = {n}
      BY <1>1, <1>6, <1>7, <3>1
    <3>3. QED
      BY <1>6, <1>8, <2>3, <3>2, FS_Singleton
  <2>4. QED
    BY <2>2, <2>3
<1>12. QED
  BY <1>1, <1>2, <1>3, <1>4, <1>5, <1>6, <1>8, <1>9, <1>10, <1>11

\* listDelNode's cases come to this: n's neighbours p and q are linked to each
\* other, and the list to n's neighbour where n was an end.
Deletes(l, n, p, q) ==
  /\ owner[n] = l
  /\ list'[l].head = IF p = NULL THEN q ELSE list[l].head
  /\ list'[l].tail = IF q = NULL THEN p ELSE list[l].tail
  /\ list'[l].len = list[l].len - 1 /\ list[l].len # 0
  /\ \A k \in List : list'[k].free = list[k].free /\ (k # l => list'[k] = list[k])
  /\ list' \in [List -> [head : Node \cup {NULL}, tail : Node \cup {NULL}, len : Nat,
                        dup : BOOLEAN, free : BOOLEAN, match : BOOLEAN]]
  /\ \A m \in Node : m # n =>
        /\ node'[m].next = IF m = p THEN q ELSE node[m].next
        /\ node'[m].prev = IF m = q THEN p ELSE node[m].prev
        /\ node'[m].value = node[m].value
        /\ m # p /\ m # q => node'[m] = node[m]
  /\ node' \in [Node -> [prev : Node \cup {NULL}, next : Node \cup {NULL},
                        value : Value \cup {NULL}]]
  /\ values' = values \ Freed(l, node[n].value)
  /\ Z!zfree(n)
  /\ owner' = [owner EXCEPT ![n] = NULL]
  /\ walk' = [i \in Iter |-> [walk[i] EXCEPT !.seen = @ \ {n}, !.todo = @ \ {n}]]
  /\ UNCHANGED <<iter, undefined>>

LEMMA DelNodeDoes ==
  ASSUME IInv, NEW at \in [Node -> Int], Ordered(at), NEW l \in Live(List), NEW n \in Node,
         listDelNode(l, n),
         NEW p, p = node[n].prev, NEW q, q = node[n].next
  PROVE  Deletes(l, n, p, q)
<1>1. /\ owner[n] = l /\ list[l].len # 0
  BY DEF listDelNode, MayDelete
<1>2. PICK S \in SUBSET Node : S = NodesOf(l)
  BY DEF NodesOf
<1>3. /\ list[l].head = n <=> p = NULL
      /\ list[l].tail = n <=> q = NULL
      /\ (list[l].len = 1 /\ list[l].head = n) <=> (p = NULL /\ q = NULL)
      /\ p \in (S \cup {NULL}) \ {n} /\ q \in (S \cup {NULL}) \ {n}
  BY <1>1, <1>2, Ends
<1>4. /\ l \in List /\ l \in Blocks /\ room[l] > 0 /\ l # NULL
      /\ \A m \in S : m \in Blocks /\ room[m] > 0
      /\ n \in S /\ node[n].value \in values \cup {NULL}
  BY <1>1, <1>2, Addresses DEF NodesOf, IInv, Kept, Live
<1>5. Neighbours(l, n) = {p, q} \ {NULL}
  BY <1>3 DEF Neighbours
<1>6. /\ list' = Unlinked(l, n).list
      /\ node' = [Unlinked(l, n).node EXCEPT ![n] = BlankNode]
      /\ values' = values \ Freed(l, node[n].value)
      /\ Z!zfree(n)
      /\ owner' = [owner EXCEPT ![n] = NULL]
      /\ walk' = [i \in Iter |-> [walk[i] EXCEPT !.seen = @ \ {n}, !.todo = @ \ {n}]]
      /\ UNCHANGED <<iter, undefined>>
  <2>1. {l, n} \cup Neighbours(l, n) \cup Freed(l, node[n].value) \subseteq Live(Blocks) \cup values
    BY <1>3, <1>4, <1>5 DEF Live, Freed
  <2>2. QED
    BY <2>1 DEF listDelNode, Touching
<1>7. /\ DOMAIN list' = List /\ list' = [k \in List |-> list'[k]]
      /\ \A k \in List : k # l => list'[k] = list[k]
      /\ list'[l].head = IF p = NULL THEN q ELSE list[l].head
      /\ list'[l].tail = IF q = NULL THEN p ELSE list[l].tail
      /\ list'[l].len = list[l].len - 1
      /\ list'[l].free = list[l].free
      /\ list'[l] \in [head : Node \cup {NULL}, tail : Node \cup {NULL}, len : Nat,
                       dup : BOOLEAN, free : BOOLEAN, match : BOOLEAN]
  <2>1. PICK h : h = IF list[l].len = 1 /\ n = list[l].head THEN NULL
                     ELSE IF n = list[l].head THEN q ELSE list[l].head
    OBVIOUS
  <2>2. PICK t : t = IF list[l].len = 1 /\ n = list[l].head THEN NULL
                     ELSE IF n = list[l].tail /\ ~(n = list[l].head) THEN p ELSE list[l].tail
    OBVIOUS
  <2>3. /\ h = IF p = NULL THEN q ELSE list[l].head
        /\ t = IF q = NULL THEN p ELSE list[l].tail
    BY <1>3, <2>1, <2>2
  <2>4. list' = [list EXCEPT ![l].len = @ - 1, ![l].head = h, ![l].tail = t]
    BY <1>6, <2>1, <2>2 DEF Unlinked
  <2>5. PICK r : r = list[l] /\ r \in [head : Node \cup {NULL}, tail : Node \cup {NULL}, len : Nat,
                                     dup : BOOLEAN, free : BOOLEAN, match : BOOLEAN]
    BY <1>4 DEF IInv, TypeOK
  <2>6. /\ DOMAIN list' = List /\ list' = [k \in List |-> list'[k]]
        /\ \A k \in List : k # l => list'[k] = list[k]
        /\ list'[l] = [r EXCEPT !.len = r.len - 1, !.head = h, !.tail = t]
    BY <1>4, <2>4, <2>5 DEF IInv, TypeOK
  <2>7. h \in Node \cup {NULL} /\ t \in Node \cup {NULL} /\ r.len - 1 \in Nat
    BY <1>1, <1>3, <2>3, <2>5
  <2>8. list'[l] \in [head : Node \cup {NULL}, tail : Node \cup {NULL}, len : Nat,
                     dup : BOOLEAN, free : BOOLEAN, match : BOOLEAN]
    BY <2>5, <2>6, <2>7
  <2>9. list'[l].len = list[l].len - 1 /\ list'[l].head = h /\ list'[l].tail = t
        /\ list'[l].free = list[l].free
    BY <2>5, <2>6
  <2>10. QED
    BY <2>3, <2>6, <2>8, <2>9
<1>8. list' \in [List -> [head : Node \cup {NULL}, tail : Node \cup {NULL}, len : Nat,
                         dup : BOOLEAN, free : BOOLEAN, match : BOOLEAN]]
  <2>1. \A k \in List : k # l => list'[k] \in
          [head : Node \cup {NULL}, tail : Node \cup {NULL}, len : Nat,
           dup : BOOLEAN, free : BOOLEAN, match : BOOLEAN]
    BY <1>7 DEF IInv, TypeOK
  <2>2. QED
    BY <1>7, <2>1
<1>9. \A m \in Node : m # n =>
        node'[m] = IF m \notin {p, q} \ {NULL} THEN node[m]
                   ELSE [prev |-> IF m = q THEN IF n = list[l].head THEN NULL ELSE p
                                  ELSE node[m].prev,
                         next |-> IF m = p THEN IF n = list[l].tail THEN NULL ELSE q
                                  ELSE node[m].next,
                         value |-> node[m].value]
  BY <1>5, <1>6 DEF Unlinked
<1>10. \A m \in Node : m # n =>
         /\ node'[m].next = IF m = p THEN q ELSE node[m].next
         /\ node'[m].prev = IF m = q THEN p ELSE node[m].prev
         /\ node'[m].value = node[m].value
         /\ m # p /\ m # q => node'[m] = node[m]
  <2>1. SUFFICES ASSUME NEW m \in Node, m # n
                 PROVE  /\ node'[m].next = IF m = p THEN q ELSE node[m].next
                        /\ node'[m].prev = IF m = q THEN p ELSE node[m].prev
                        /\ node'[m].value = node[m].value
                        /\ m # p /\ m # q => node'[m] = node[m]
    OBVIOUS
  <2>2. CASE m \in {p, q}
    <3>1. m # NULL
      BY Addresses
    <3>2. node'[m] = [prev |-> IF m = q THEN IF n = list[l].head THEN NULL ELSE p
                               ELSE node[m].prev,
                      next |-> IF m = p THEN IF n = list[l].tail THEN NULL ELSE q
                               ELSE node[m].next,
                      value |-> node[m].value]
      BY <1>9, <2>1, <2>2, <3>1
    <3>3. QED
      BY <1>3, <2>2, <3>2
  <2>3. CASE m \notin {p, q}
    BY <1>9, <2>1, <2>3
  <2>4. QED
    BY <2>2, <2>3
<1>11. node' \in [Node -> [prev : Node \cup {NULL}, next : Node \cup {NULL},
                          value : Value \cup {NULL}]]
  <2>1. p \in Node \cup {NULL} /\ q \in Node \cup {NULL}
    BY <1>3
  <2>2. node'[n] = BlankNode /\ DOMAIN node' = Node /\ node' = [m \in Node |-> node'[m]]
    BY <1>6 DEF Unlinked
  <2>3. \A m \in Node : node[m] \in [prev : Node \cup {NULL}, next : Node \cup {NULL},
                                     value : Value \cup {NULL}]
    BY DEF IInv, TypeOK
  <2>4. \A m \in Node : node'[m] \in [prev : Node \cup {NULL}, next : Node \cup {NULL},
                                      value : Value \cup {NULL}]
    BY <1>9, <2>1, <2>2, <2>3 DEF BlankNode
  <2>5. QED
    BY <2>2, <2>4
<1>12. \A k \in List : list'[k].free = list[k].free /\ (k # l => list'[k] = list[k])
  BY <1>7
<1>13. QED
  BY <1>1, <1>6, <1>7, <1>8, <1>10, <1>11, <1>12 DEF Deletes

LEMMA DelNodeKeeps ==
  ASSUME IInv, NEW at \in [Node -> Int], Ordered(at), NEW l \in Live(List), NEW n \in Node,
         listDelNode(l, n)
  PROVE  IInv' /\ Ordered(at)'
<1>1. Ordered(at)
  OBVIOUS
<1>2. PICK p : p = node[n].prev
  OBVIOUS
<1>3. PICK q : q = node[n].next
  OBVIOUS
<1> Deletes(l, n, p, q)
  BY <1>1, <1>2, <1>3, DelNodeDoes
<1>4. /\ owner[n] = l
      /\ list'[l].head = IF p = NULL THEN q ELSE list[l].head
      /\ list'[l].tail = IF q = NULL THEN p ELSE list[l].tail
      /\ list'[l].len = list[l].len - 1 /\ list[l].len # 0
      /\ \A k \in List : list'[k].free = list[k].free /\ (k # l => list'[k] = list[k])
      /\ list' \in [List -> [head : Node \cup {NULL}, tail : Node \cup {NULL}, len : Nat,
                            dup : BOOLEAN, free : BOOLEAN, match : BOOLEAN]]
  BY DEF Deletes
<1>5. /\ \A m \in Node : m # n =>
            /\ node'[m].next = IF m = p THEN q ELSE node[m].next
            /\ node'[m].prev = IF m = q THEN p ELSE node[m].prev
            /\ node'[m].value = node[m].value
            /\ m # p /\ m # q => node'[m] = node[m]
      /\ node' \in [Node -> [prev : Node \cup {NULL}, next : Node \cup {NULL},
                            value : Value \cup {NULL}]]
  BY DEF Deletes
<1>6. /\ values' = values \ Freed(l, node[n].value)
      /\ Z!zfree(n)
      /\ owner' = [owner EXCEPT ![n] = NULL]
      /\ walk' = [i \in Iter |-> [walk[i] EXCEPT !.seen = @ \ {n}, !.todo = @ \ {n}]]
      /\ UNCHANGED <<iter, undefined>>
  BY DEF Deletes
<1>7. PICK S \in SUBSET Node : S = NodesOf(l) /\ n \in S
  BY <1>4 DEF NodesOf
<1>8. /\ Z!TypeOK' /\ \A a \in Blocks : a # n => room'[a] = room[a]
      /\ Live(List)' = Live(List) /\ Live(Iter)' = Live(Iter) /\ l \in List /\ l # NULL
  <2>1. Z!TypeOK' /\ \A a \in Blocks : a # n => room'[a] = room[a]
    <3>1. Z!TypeOK /\ n \in Blocks /\ Z!zfree(n)
      BY <1>6, Addresses DEF IInv, TypeOK
    <3>2. QED
      BY <3>1, Frees
  <2>2. QED
    BY <2>1, Addresses DEF Live
<1>9. /\ \A k : k # l /\ k # NULL => NodesOf(k)' = NodesOf(k)
      /\ NodesOf(l)' = S \ {n}
      /\ \A m \in Node : m # n => owner'[m] = owner[m]
      /\ owner'[n] = NULL
  BY <1>4, <1>6, <1>7, <1>8 DEF NodesOf, IInv, TypeOK
<1>10. TypeOK'
  <2>1. ASSUME NEW i \in Iter
        PROVE  [walk[i] EXCEPT !.seen = @ \ {n}, !.todo = @ \ {n}] \in
                 [on : List \cup {NULL}, todo : SUBSET Node, seen : SUBSET Node]
    BY DEF IInv, TypeOK
  <2>2. walk' \in [Iter -> [on : List \cup {NULL}, todo : SUBSET Node, seen : SUBSET Node]]
    BY <1>6, <2>1
  <2>3. owner' \in [Node -> List \cup {NULL}]
    BY <1>6 DEF IInv, TypeOK
  <2>4. QED
    BY <1>4, <1>5, <1>6, <1>8, <2>2, <2>3 DEF IInv, TypeOK
<1>11. Kept'
  <2>1. SUFFICES ASSUME NEW m \in Node, owner'[m] # NULL
                 PROVE  /\ room'[m] > 0 /\ owner'[m] \in Live(List)'
                        /\ node'[m].value \in values' \cup {NULL}
    BY DEF Kept
  <2>2. m # n /\ owner'[m] = owner[m]
    BY <1>9, <2>1
  <2>3. /\ room[m] > 0 /\ owner[m] \in Live(List) /\ node[m].value \in values \cup {NULL}
    BY <2>1, <2>2 DEF IInv, Kept
  <2>4. node'[m].value = node[m].value
    BY <1>5, <2>2
  <2>5. node[m].value # NULL => node[m].value \notin Freed(l, node[n].value)
    BY <1>4, <1>8, <2>1, <2>2 DEF IInv, Exclusive, Freed
  <2>6. QED
    BY <1>6, <1>8, <2>2, <2>3, <2>4, <2>5, Addresses
<1>12. Exclusive'
  <2>1. SUFFICES ASSUME NEW k \in Node, NEW m \in Node, m # k, owner'[m] # NULL, owner'[k] # NULL,
                        node'[m].value = node'[k].value, node'[k].value # NULL
                 PROVE  ~list'[owner'[m]].free /\ ~list'[owner'[k]].free
    BY DEF Exclusive
  <2>2. m # n /\ k # n /\ owner'[m] = owner[m] /\ owner'[k] = owner[k]
    BY <1>9, <2>1
  <2>3. node'[m].value = node[m].value /\ node'[k].value = node[k].value
    BY <1>5, <2>2
  <2>4. owner[m] \in List /\ owner[k] \in List
    BY <2>1, <2>2 DEF IInv, TypeOK
  <2>5. ~list[owner[m]].free /\ ~list[owner[k]].free
    BY <2>1, <2>2, <2>3 DEF IInv, Exclusive
  <2>6. QED
    BY <1>4, <2>2, <2>4, <2>5
<1>13. ASSUME NEW k \in Live(List)' PROVE Sorted(k, at)'
  <2>1. CASE k = l
    <3>1. /\ Follows(S, at, n, q) /\ Precedes(S, at, n, p)
          /\ \A i, m \in S : at[i] = at[m] => i = m
          /\ list[l].head # NULL /\ list[l].head \in S /\ \A m \in S : at[list[l].head] <= at[m]
          /\ list[l].tail # NULL /\ list[l].tail \in S /\ \A m \in S : at[m] <= at[list[l].tail]
          /\ list[l].len = Cardinality(S)
          /\ \A m \in S : Follows(S, at, m, node[m].next) /\ Precedes(S, at, m, node[m].prev)
      BY <1>1, <1>2, <1>3, <1>7 DEF Ordered, Sorted
    <3>2. PICK T : T = S \ {n}
      OBVIOUS
    <3>3. NodesOf(l)' = T
      BY <1>9, <3>2, Zenon
    <3>4. list'[l].len = Cardinality(S \ {n})
      <4>1. IsFiniteSet(S)
        BY AdlistAssumption, FS_Subset
      <4>2. Cardinality(S \ {n}) = Cardinality(S) - 1
        BY <1>7, <4>1, FS_RemoveElement
      <4>3. list'[l].len = list[l].len - 1 /\ list[l].len = Cardinality(S)
        BY <1>4, <3>1
      <4>4. QED
        BY <4>2, <4>3
    <3>5. list'[l].len = Cardinality(T)
      BY <3>2, <3>4, Zenon
    <3>6. /\ at \in [Node -> Int] /\ S \in SUBSET Node /\ n \in S /\ T = S \ {n}
          /\ \A i, j \in S : at[i] = at[j] => i = j
          /\ Follows(S, at, n, q) /\ Precedes(S, at, n, p)
      BY <1>1, <1>7, <3>1, <3>2
    <3>7. ASSUME NEW m \in T
          PROVE  Follows(T, at, m, node'[m].next) /\ Precedes(T, at, m, node'[m].prev)
      <4>1. /\ node'[m].next = IF m = p THEN q ELSE node[m].next
            /\ node'[m].prev = IF m = q THEN p ELSE node[m].prev
        BY <1>5, <3>6
      <4>2. Follows(S, at, m, node[m].next) /\ Precedes(S, at, m, node[m].prev)
        BY <3>1, <3>6
      <4>3. Follows(T, at, m, node'[m].next)
        BY <3>6, <4>1, <4>2, ClosesNext
      <4>4. Precedes(T, at, m, node'[m].prev)
        BY <3>6, <4>1, <4>2, ClosesPrev
      <4>5. QED
        BY <4>3, <4>4
    <3>8. NULL \notin S /\ \A m \in S : at[m] \in Int
      BY Addresses
    <3>9. \A m, i \in T : at[m] = at[i] => m = i
      BY <3>1, <3>2
    <3>10. PICK h : h = list'[l].head
      OBVIOUS
    <3>11. PICK t : t = list'[l].tail
      OBVIOUS
    <3>12. /\ h = NULL => T = {}
           /\ h # NULL => h \in T /\ \A m \in T : at[h] <= at[m]
      <4>1. CASE p = NULL
        <5>1. h = q /\ \A m \in S : at[n] <= at[m]
          BY <1>4, <3>1, <3>8, <3>10, <4>1 DEF Precedes
        <5>2. QED
          BY <1>7, <3>1, <3>2, <3>8, <5>1 DEF Follows
      <4>2. CASE p # NULL
        <5>1. h = list[l].head /\ p \in S /\ at[p] < at[n]
          BY <1>4, <3>1, <3>10, <4>2 DEF Precedes
        <5>2. h # n
          BY <1>7, <3>1, <3>8, <5>1
        <5>3. QED
          BY <3>1, <3>2, <5>1, <5>2
      <4>3. QED
        BY <4>1, <4>2
    <3>13. /\ t = NULL => T = {}
           /\ t # NULL => t \in T /\ \A m \in T : at[m] <= at[t]
      <4>1. CASE q = NULL
        <5>1. t = p /\ \A m \in S : at[m] <= at[n]
          BY <1>4, <3>1, <3>8, <3>11, <4>1 DEF Follows
        <5>2. QED
          BY <1>7, <3>1, <3>2, <3>8, <5>1 DEF Precedes
      <4>2. CASE q # NULL
        <5>1. t = list[l].tail /\ q \in S /\ at[n] < at[q]
          BY <1>4, <3>1, <3>11, <4>2 DEF Follows
        <5>2. t # n
          BY <1>7, <3>1, <3>8, <5>1
        <5>3. QED
          BY <3>1, <3>2, <5>1, <5>2
      <4>3. QED
        BY <4>1, <4>2
    <3>14. Sorted(l, at)'
      BY <3>3, <3>5, <3>7, <3>9, <3>10, <3>11, <3>12, <3>13, NowSorted
    <3>15. QED
      BY <2>1, <3>14
  <2>2. CASE k # l
    <3>1. k \in List /\ k # NULL /\ Sorted(k, at) /\ list'[k] = list[k]
      BY <1>1, <1>4, <1>8, <2>2, Addresses DEF Ordered, Live
    <3>2. p \in S \cup {NULL} /\ q \in S \cup {NULL}
      BY <1>1, <1>2, <1>3, <1>4, <1>7, Ends
    <3>3. \A m \in NodesOf(k) : m \in Node /\ m # n /\ m # p /\ m # q
      BY <1>4, <1>7, <2>2, <3>1, <3>2, Addresses DEF NodesOf
    <3>4. \A m \in NodesOf(k) : node'[m].next = node[m].next /\ node'[m].prev = node[m].prev
      BY <1>5, <3>3
    <3>5. QED
      BY <1>9, <3>1, <3>4, <2>2, SameList
  <2>3. QED
    BY <2>1, <2>2
<1>14. ASSUME NEW i \in Live(Iter)' PROVE Walks(i, at)'
  <2>1. i \in Live(Iter) /\ i \in Iter /\ Walks(i, at)
    BY <1>1, <1>8 DEF Ordered, Live
  <2>2. PICK k : k = walk[i].on
    OBVIOUS
  <2>3. k \in Live(List) /\ k # NULL
    BY <2>1, <2>2, Addresses DEF Walks, Live
  <2>4. PICK X \in SUBSET Node : X = NodesOf(k)
    BY DEF NodesOf
  <2>5. NodesOf(k)' = X \ {n}
    BY <1>4, <1>6, <1>8, <2>3, <2>4 DEF NodesOf, IInv, TypeOK
  <2>6. /\ walk'[i].on = k /\ walk'[i].seen = walk[i].seen \ {n}
        /\ walk'[i].todo = walk[i].todo \ {n} /\ iter'[i] = iter[i]
    BY <1>6, <2>1, <2>2 DEF IInv, TypeOK
  <2>7. iter[i].next # n
    <3>1. SUFFICES ASSUME iter[i].next = n PROVE FALSE
      OBVIOUS
    <3>2. n # NULL /\ n \in X
      BY <2>1, <2>2, <2>4, <3>1, Addresses DEF Walks
    <3>3. k = l
      BY <1>4, <2>4, <3>2 DEF NodesOf
    <3>4. n \in walk[i].seen
      BY <2>1, <2>2, <3>1, <3>2, <3>3 DEF listDelNode, MayDelete
    <3>5. iter[i].direction \in {FORWARD, BACKWARD} /\ at[n] \in Int
      BY <2>1 DEF IInv, TypeOK
    <3>6. QED
      BY <2>1, <2>2, <2>4, <3>1, <3>2, <3>4, <3>5 DEF Walks
  <2>8. QED
    BY <1>8, <2>1, <2>2, <2>3, <2>4, <2>5, <2>6, <2>7 DEF Walks
<1>15. QED
  BY <1>6, <1>10, <1>11, <1>12, <1>13, <1>14 DEF IInv, Ordered, NeverUndefined

LEMMA DelNodeIInv ==
  ASSUME IInv, NEW l \in Live(List), NEW n \in Node, listDelNode(l, n) PROVE IInv'
<1>1. PICK at \in [Node -> Int] : Ordered(at)
  BY DEF IInv
<1>2. QED
  BY <1>1, DelNodeKeeps

\* Steps that change only an iterator: its block, its struct and its walk.
LEMMA IterIInv ==
  ASSUME IInv, NEW at \in [Node -> Int], Ordered(at), NEW i \in Iter, Z!TypeOK',
         \A a \in Blocks : a # i => room'[a] = room[a],
         NEW r \in [next : Node \cup {NULL}, direction : {FORWARD, BACKWARD}],
         iter' = [iter EXCEPT ![i] = r],
         NEW w \in [on : List \cup {NULL}, todo : SUBSET Node, seen : SUBSET Node],
         walk' = [walk EXCEPT ![i] = w],
         UNCHANGED <<list, node, values, owner, undefined>>,
         room'[i] > 0 => Walks(i, at)'
  PROVE  IInv'
<1>1. Live(List)' = Live(List) /\ \A k : NodesOf(k)' = NodesOf(k)
  BY Addresses DEF Live, NodesOf
<1>2. TypeOK' /\ NeverUndefined'
  BY DEF IInv, TypeOK, NeverUndefined
<1>3. Kept' /\ Exclusive'
  BY <1>1, Addresses DEF IInv, Kept, Exclusive
<1>4. ASSUME NEW k \in Live(List)' PROVE Sorted(k, at)'
  BY <1>1, SameList DEF Ordered
<1>5. ASSUME NEW j \in Live(Iter)' PROVE Walks(j, at)'
  <2>1. CASE j = i
    BY <1>5, <2>1 DEF Live
  <2>2. CASE j # i
    <3>1. j \in Iter /\ j \in Live(Iter) /\ Walks(j, at)
      BY <1>5, <2>2, Addresses DEF Live, Ordered
    <3>2. iter'[j] = iter[j] /\ walk'[j] = walk[j]
      BY <2>2, <3>1 DEF IInv, TypeOK
    <3>3. walk[j].on \in Live(List)'
      BY <1>1, <3>1 DEF Walks
    <3>4. QED
      BY <1>1, <3>1, <3>2, <3>3, SameWalk
  <2>3. QED
    BY <2>1, <2>2
<1>6. QED
  BY <1>2, <1>3, <1>4, <1>5 DEF IInv, Ordered

\* A walk begins at the end its direction comes from.
LEMMA StartsAtEnd ==
  ASSUME IInv, NEW at \in [Node -> Int], Ordered(at), NEW l \in Live(List), NEW i \in Iter,
         NEW d \in {FORWARD, BACKWARD},
         iter' = [iter EXCEPT ![i] = [next |-> EndOf(l, d), direction |-> d]],
         Start(i, l), Live(List)' = Live(List), UNCHANGED owner
  PROVE  /\ EndOf(l, d) \in Node \cup {NULL}
         /\ NodesOf(l) \in SUBSET Node
         /\ Walks(i, at)'
<1>1. PICK S \in SUBSET Node : S = NodesOf(l) /\ NodesOf(l)' = S
  BY DEF NodesOf
<1>2. PICK q : q = EndOf(l, d)
  OBVIOUS
<1>3. /\ d = FORWARD => q = list[l].head
      /\ d = BACKWARD => q = list[l].tail
  BY <1>2, Addresses DEF EndOf
<1>4. /\ q = NULL => S = {}
      /\ q # NULL => q \in S
      /\ q # NULL /\ d = FORWARD => \A m \in S : at[q] <= at[m]
      /\ q # NULL /\ d = BACKWARD => \A m \in S : at[m] <= at[q]
  BY <1>1, <1>3 DEF Ordered, Sorted
<1>5. /\ iter'[i].next = q /\ iter'[i].direction = d
      /\ walk'[i].on = l /\ walk'[i].todo = S /\ walk'[i].seen = {}
  BY <1>1, <1>2 DEF Start, IInv, TypeOK
<1>6. Walks(i, at)'
  BY <1>1, <1>4, <1>5 DEF Walks
<1>7. QED
  BY <1>1, <1>2, <1>4, <1>6

LEMMA GetIteratorIInv ==
  ASSUME IInv, NEW l \in Live(List), NEW i \in Iter, NEW d \in {FORWARD, BACKWARD},
         listGetIterator(l, i, d)
  PROVE  IInv'
<1>1. PICK at \in [Node -> Int] : Ordered(at)
  BY DEF IInv
<1>2. /\ Z!zmalloc(i, SizeofIter)
      /\ iter' = [iter EXCEPT ![i] = [next |-> EndOf(l, d), direction |-> d]]
      /\ Start(i, l)
      /\ UNCHANGED <<list, node, values, owner, undefined>>
  BY Addresses DEF listGetIterator, Touching, Live
<1>3. Z!TypeOK' /\ \A a \in Blocks : a # i => room'[a] = room[a]
  <2>1. Z!TypeOK /\ i \in Blocks /\ SizeofIter \in Sizes /\ Z!zmalloc(i, SizeofIter)
    BY <1>2, Addresses DEF IInv, TypeOK, Sizes
  <2>2. QED
    BY <2>1, Allocates
<1>4. Live(List)' = Live(List)
  BY <1>3, Addresses DEF Live
<1>5. /\ EndOf(l, d) \in Node \cup {NULL} /\ NodesOf(l) \in SUBSET Node /\ Walks(i, at)'
  BY <1>1, <1>2, <1>4, StartsAtEnd
<1>6. PICK r \in [next : Node \cup {NULL}, direction : {FORWARD, BACKWARD}] :
         iter' = [iter EXCEPT ![i] = r]
  BY <1>2, <1>5
<1>7. PICK w \in [on : List \cup {NULL}, todo : SUBSET Node, seen : SUBSET Node] :
         walk' = [walk EXCEPT ![i] = w]
  <2>1. [on |-> l, todo |-> NodesOf(l), seen |-> {}] \in
          [on : List \cup {NULL}, todo : SUBSET Node, seen : SUBSET Node]
    BY <1>5 DEF Live
  <2>2. QED
    BY <1>2, <2>1 DEF Start
<1>8. QED
  BY <1>1, <1>2, <1>3, <1>5, <1>6, <1>7, IterIInv

LEMMA RewindIInv ==
  ASSUME IInv, NEW l \in Live(List), NEW i \in Iter, NEW d \in {FORWARD, BACKWARD},
         Rewind(l, i, d)
  PROVE  IInv'
<1>1. PICK at \in [Node -> Int] : Ordered(at)
  BY DEF IInv
<1>2. /\ iter' = [iter EXCEPT ![i] = [next |-> EndOf(l, d), direction |-> d]]
      /\ Start(i, l)
      /\ UNCHANGED <<heap, list, node, values, owner, undefined>>
  BY Addresses DEF Rewind, Touching, Live
<1>3. Z!TypeOK' /\ \A a \in Blocks : a # i => room'[a] = room[a]
  BY <1>2 DEF IInv, TypeOK, Z!TypeOK, heap
<1>4. Live(List)' = Live(List)
  BY <1>2 DEF Live, heap
<1>5. /\ EndOf(l, d) \in Node \cup {NULL} /\ NodesOf(l) \in SUBSET Node /\ Walks(i, at)'
  BY <1>1, <1>2, <1>4, StartsAtEnd
<1>6. PICK r \in [next : Node \cup {NULL}, direction : {FORWARD, BACKWARD}] :
         iter' = [iter EXCEPT ![i] = r]
  BY <1>2, <1>5
<1>7. PICK w \in [on : List \cup {NULL}, todo : SUBSET Node, seen : SUBSET Node] :
         walk' = [walk EXCEPT ![i] = w]
  <2>1. [on |-> l, todo |-> NodesOf(l), seen |-> {}] \in
          [on : List \cup {NULL}, todo : SUBSET Node, seen : SUBSET Node]
    BY <1>5 DEF Live
  <2>2. QED
    BY <1>2, <2>1 DEF Start
<1>8. QED
  BY <1>1, <1>2, <1>3, <1>5, <1>6, <1>7, IterIInv

\* An iterator that has returned n goes on to the node behind it.
LEMMA WalkGoesOn ==
  ASSUME NEW at \in [Node -> Int], NEW i, NEW n, NEW q, NEW l, NEW S \in SUBSET Node,
         Walks(i, at), l = walk[i].on, S = NodesOf(l), n = iter[i].next, n # NULL,
         iter[i].direction \in {FORWARD, BACKWARD},
         \A k, m \in S : at[k] = at[m] => k = m,
         Follows(S, at, n, node[n].next), Precedes(S, at, n, node[n].prev),
         q = IF iter[i].direction = FORWARD THEN node[n].next ELSE node[n].prev,
         iter'[i].next = q, iter'[i].direction = iter[i].direction,
         walk'[i].on = l, walk'[i].todo = walk[i].todo \ {n},
         walk'[i].seen = walk[i].seen \cup {n},
         NodesOf(l)' = S, l \in Live(List)'
  PROVE  Walks(i, at)'
<1>1. n \in S /\ NULL \notin S /\ \A m \in S : at[m] \in Int
  BY Addresses DEF Walks
<1>2. /\ walk[i].seen \subseteq S /\ walk[i].todo \subseteq S
      /\ iter[i].direction = FORWARD =>
           /\ \A m \in walk[i].seen : at[m] < at[n]
           /\ \A m \in walk[i].todo : at[n] <= at[m]
      /\ iter[i].direction = BACKWARD =>
           /\ \A m \in walk[i].seen : at[n] < at[m]
           /\ \A m \in walk[i].todo : at[m] <= at[n]
  BY DEF Walks
<1>3. CASE iter[i].direction = FORWARD
  <2>1. Follows(S, at, n, q) /\ FORWARD # BACKWARD
    BY <1>3, Addresses
  <2>2. q = NULL => walk[i].todo \ {n} = {}
    <3>1. q = NULL => \A m \in S : at[m] <= at[n]
      BY <1>1, <2>1 DEF Follows
    <3>2. QED
      BY <1>1, <1>2, <1>3, <3>1
  <2>3. q # NULL => /\ q \in S
                    /\ \A m \in walk[i].seen \cup {n} : at[m] < at[q]
                    /\ \A m \in walk[i].todo \ {n} : at[q] <= at[m]
    <3>1. q # NULL => q \in S /\ at[n] < at[q] /\ \A m \in S : at[m] <= at[n] \/ at[q] <= at[m]
      BY <2>1 DEF Follows
    <3>2. QED
      BY <1>1, <1>2, <1>3, <3>1
  <2>4. QED
    BY <1>1, <1>2, <1>3, <2>1, <2>2, <2>3 DEF Walks
<1>4. CASE iter[i].direction = BACKWARD
  <2>1. Precedes(S, at, n, q) /\ FORWARD # BACKWARD
    BY <1>4, Addresses
  <2>2. q = NULL => walk[i].todo \ {n} = {}
    <3>1. q = NULL => \A m \in S : at[n] <= at[m]
      BY <1>1, <2>1 DEF Precedes
    <3>2. QED
      BY <1>1, <1>2, <1>4, <3>1
  <2>3. q # NULL => /\ q \in S
                    /\ \A m \in walk[i].seen \cup {n} : at[q] < at[m]
                    /\ \A m \in walk[i].todo \ {n} : at[m] <= at[q]
    <3>1. q # NULL => q \in S /\ at[q] < at[n] /\ \A m \in S : at[m] <= at[q] \/ at[n] <= at[m]
      BY <2>1 DEF Precedes
    <3>2. QED
      BY <1>1, <1>2, <1>4, <3>1
  <2>4. QED
    BY <1>1, <1>2, <1>4, <2>1, <2>2, <2>3 DEF Walks
<1>5. QED
  BY <1>3, <1>4

LEMMA NextNodeIInv ==
  ASSUME IInv, NEW i \in Iter, listNext(i) PROVE IInv'
<1>1. PICK at \in [Node -> Int] : Ordered(at)
  BY DEF IInv
<1>2. PICK n : n = iter[i].next
  OBVIOUS
<1>3. PICK l : l = walk[i].on
  OBVIOUS
<1>4. PICK S \in SUBSET Node : S = NodesOf(l)
  BY DEF NodesOf
<1>5. i \in Live(Iter) /\ n # NULL /\ Walks(i, at) /\ n \in S /\ l \in Live(List)
  BY <1>1, <1>2, <1>3, <1>4 DEF listNext, Ordered, Walks
<1>6. n \in Node /\ n \in Live(Blocks) /\ i \in Live(Blocks)
  BY <1>4, <1>5, Addresses DEF NodesOf, IInv, Kept, Live
<1>7. PICK q : q = IF iter[i].direction = FORWARD THEN node[n].next ELSE node[n].prev
  OBVIOUS
<1>8. /\ iter' = [iter EXCEPT ![i].next = q]
      /\ walk' = [walk EXCEPT ![i].todo = @ \ {n}, ![i].seen = @ \cup {n}]
      /\ UNCHANGED <<heap, list, node, values, owner, undefined>>
  BY <1>2, <1>6, <1>7 DEF listNext, Touching
<1>9. Z!TypeOK' /\ (\A a \in Blocks : a # i => room'[a] = room[a]) /\ Live(List)' = Live(List)
  BY <1>8 DEF IInv, TypeOK, Z!TypeOK, heap, Live
<1>10. q \in Node \cup {NULL} /\ iter[i].direction \in {FORWARD, BACKWARD}
  BY <1>6, <1>7 DEF IInv, TypeOK
<1>11. PICK r \in [next : Node \cup {NULL}, direction : {FORWARD, BACKWARD}] :
          iter' = [iter EXCEPT ![i] = r] /\ r.next = q /\ r.direction = iter[i].direction
  <2>1. PICK r : r = [iter[i] EXCEPT !.next = q]
    OBVIOUS
  <2>2. iter[i] \in [next : Node \cup {NULL}, direction : {FORWARD, BACKWARD}]
    BY DEF IInv, TypeOK
  <2>3. /\ r \in [next : Node \cup {NULL}, direction : {FORWARD, BACKWARD}]
        /\ r.next = q /\ r.direction = iter[i].direction
    BY <1>10, <2>1, <2>2
  <2>4. iter' = [iter EXCEPT ![i] = r]
    BY <1>8, <2>1
  <2>5. QED
    BY <2>3, <2>4
<1>12. PICK w \in [on : List \cup {NULL}, todo : SUBSET Node, seen : SUBSET Node] :
          /\ walk' = [walk EXCEPT ![i] = w]
          /\ w.on = l /\ w.todo = walk[i].todo \ {n} /\ w.seen = walk[i].seen \cup {n}
  <2>1. PICK w : w = [walk[i] EXCEPT !.todo = walk[i].todo \ {n}, !.seen = walk[i].seen \cup {n}]
    OBVIOUS
  <2>2. walk[i] \in [on : List \cup {NULL}, todo : SUBSET Node, seen : SUBSET Node]
    BY DEF IInv, TypeOK
  <2>3. /\ w \in [on : List \cup {NULL}, todo : SUBSET Node, seen : SUBSET Node]
        /\ w.on = l /\ w.todo = walk[i].todo \ {n} /\ w.seen = walk[i].seen \cup {n}
    BY <1>3, <1>6, <2>1, <2>2
  <2>4. walk' = [walk EXCEPT ![i] = w]
    BY <1>8, <2>1, <2>2 DEF IInv, TypeOK
  <2>5. QED
    BY <2>3, <2>4
<1>13. Walks(i, at)'
  <2>1. /\ iter'[i].next = q /\ iter'[i].direction = iter[i].direction
        /\ walk'[i].on = l /\ walk'[i].todo = walk[i].todo \ {n}
        /\ walk'[i].seen = walk[i].seen \cup {n} /\ NodesOf(l)' = S
    BY <1>4, <1>8, <1>11, <1>12 DEF IInv, TypeOK, NodesOf
  <2>2. /\ Follows(S, at, n, node[n].next) /\ Precedes(S, at, n, node[n].prev)
        /\ \A k, m \in S : at[k] = at[m] => k = m
    BY <1>1, <1>4, <1>5 DEF Ordered, Sorted
  <2>3. l \in Live(List)'
    BY <1>5, <1>9
  <2>4. QED
    BY <1>2, <1>3, <1>4, <1>5, <1>7, <1>10, <2>1, <2>2, <2>3, WalkGoesOn
<1>14. QED
  BY <1>1, <1>8, <1>9, <1>11, <1>12, <1>13, IterIInv

LEMMA ReleaseIterIInv ==
  ASSUME IInv, NEW i \in Iter, listReleaseIter(i) PROVE IInv'
<1>1. PICK at \in [Node -> Int] : Ordered(at)
  BY DEF IInv
<1>2. /\ Z!zfree(i)
      /\ iter' = [iter EXCEPT ![i] = BlankIter]
      /\ walk' = [walk EXCEPT ![i] = BlankWalk]
      /\ UNCHANGED <<list, node, values, owner, undefined>>
  BY Addresses DEF listReleaseIter, Touching, Live
<1>3. Z!TypeOK' /\ room'[i] = 0 /\ \A a \in Blocks : a # i => room'[a] = room[a]
  <2>1. Z!TypeOK /\ i \in Blocks /\ Z!zfree(i)
    BY <1>2, Addresses DEF IInv, TypeOK
  <2>2. QED
    BY <2>1, Frees
<1>4. /\ BlankIter \in [next : Node \cup {NULL}, direction : {FORWARD, BACKWARD}]
      /\ BlankWalk \in [on : List \cup {NULL}, todo : SUBSET Node, seen : SUBSET Node]
  BY DEF BlankIter, BlankWalk
<1>5. ~(room'[i] > 0)
  BY <1>3
<1>6. QED
  BY <1>1, <1>2, <1>3, <1>4, <1>5, IterIInv

\* Nothing but the allocator's status changes, as when memory runs out.
LEMMA NothingChanges ==
  ASSUME IInv, Z!TypeOK', UNCHANGED <<room, list, node, iter, values, undefined, owner, walk>>
  PROVE  IInv'
<1>1. PICK at \in [Node -> Int] : Ordered(at)
  BY DEF IInv
<1>2. TypeOK' /\ NeverUndefined' /\ Kept' /\ Exclusive'
  BY DEF IInv, TypeOK, NeverUndefined, Kept, Exclusive, Live
<1>3. Live(List)' = Live(List) /\ Live(Iter)' = Live(Iter) /\ \A k : NodesOf(k)' = NodesOf(k)
  BY DEF Live, NodesOf
<1>4. ASSUME NEW k \in Live(List)' PROVE Sorted(k, at)'
  BY <1>1, <1>3, SameList DEF Ordered
<1>5. ASSUME NEW i \in Live(Iter)' PROVE Walks(i, at)'
  BY <1>1, <1>3, SameWalk DEF Ordered, Walks
<1>6. QED
  BY <1>2, <1>4, <1>5 DEF IInv, Ordered

LEMMA NextIInv == IInv /\ [Next]_vars => IInv'
<1> SUFFICES ASSUME IInv, [Next]_vars PROVE IInv'
  OBVIOUS
<1>1. CASE OutOfMemory
  <2>1. Z!TypeOK' /\ UNCHANGED <<room, list, node, iter, values, undefined, owner, walk>>
    BY <1>1 DEF OutOfMemory, Z!zmalloc_oom, Z!heap, IInv, TypeOK, Z!TypeOK
  <2>2. QED
    BY <2>1, NothingChanges
<1>2. CASE UNCHANGED vars
  <2>1. Z!TypeOK' /\ UNCHANGED <<room, list, node, iter, values, undefined, owner, walk>>
    BY <1>2 DEF vars, heap, IInv, TypeOK, Z!TypeOK
  <2>2. QED
    BY <2>1, NothingChanges
<1>3. CASE \E l \in Live(List), n \in Node, v \in values \cup {NULL} : AddNode(l, n, v)
  BY <1>3, AddHeadIInv, AddTailIInv DEF AddNode
<1>4. CASE \E l \in Live(List), i \in Iter : listRewind(l, i) \/ listRewindTail(l, i)
  BY <1>4, RewindIInv DEF listRewind, listRewindTail
<1>5. QED
  BY <1>1, <1>2, <1>3, <1>4, CreateIInv, NewValueIInv, SetMethodsIInv, DelNodeIInv, GetIteratorIInv,
     NextNodeIInv, ReleaseIterIInv DEF Next

LEMMA AlwaysIInv == Spec => []IInv
<1>1. IInv /\ [Next]_vars => IInv'
  BY NextIInv
<1>2. QED
  BY InitIInv, <1>1, PTL DEF Spec

-----------------------------------------------------------------------------
(* From places to paths.                                                   *)

\* The neighbours of a node are the entries before and behind it.
LEMMA NextOnPath ==
  ASSUME NEW S, IsFiniteSet(S), NULL \notin S, NEW at, \A x \in S : at[x] \in Int,
         NEW f, Lists(f, S, at), NEW N, N = Cardinality(S), NEW k \in 1 .. N, NEW q,
         Follows(S, at, f[k], q)
  PROVE  q = IF k < N THEN f[k + 1] ELSE NULL
<1>1. /\ N \in Nat /\ f \in [1 .. N -> S] /\ \A i, j \in 1 .. N : i < j => at[f[i]] < at[f[j]]
      /\ \A x \in S : \E i \in 1 .. N : f[i] = x
  BY FS_CardinalityType, ListIsOnto DEF Lists
<1>2. f[k] \in S /\ at[f[k]] \in Int
  BY <1>1
<1>3. CASE q = NULL
  <2>1. \A m \in S : at[m] <= at[f[k]]
    BY <1>3 DEF Follows
  <2>2. ASSUME k < N PROVE FALSE
    <3>1. k + 1 \in 1 .. N
      BY <1>1, <2>2
    <3>2. f[k + 1] \in S /\ at[f[k + 1]] \in Int /\ at[f[k]] < at[f[k + 1]]
      BY <1>1, <3>1
    <3>3. QED
      BY <1>2, <2>1, <3>2
  <2>3. QED
    BY <1>3, <2>2
<1>4. CASE q \in S
  <2>1. at[f[k]] < at[q] /\ \A m \in S : at[m] <= at[f[k]] \/ at[q] <= at[m]
    BY <1>4 DEF Follows
  <2>2. PICK j \in 1 .. N : f[j] = q
    BY <1>1, <1>4
  <2>3. ~(j < k) /\ j # k /\ at[q] \in Int
    BY <1>1, <1>2, <1>4, <2>1, <2>2
  <2>4. k < j /\ k + 1 \in 1 .. N
    BY <1>1, <2>2, <2>3
  <2>5. f[k + 1] \in S /\ at[f[k + 1]] \in Int /\ at[f[k]] < at[f[k + 1]]
    BY <1>1, <2>4
  <2>6. ~(k + 1 < j)
    <3>1. at[q] <= at[f[k + 1]]
      BY <1>2, <2>1, <2>5
    <3>2. QED
      BY <1>1, <2>2, <2>3, <2>4, <2>5, <3>1
  <2>7. j = k + 1
    BY <2>4, <2>6
  <2>8. QED
    BY <1>1, <2>2, <2>4, <2>7
<1>5. QED
  BY <1>3, <1>4 DEF Follows

LEMMA PrevOnPath ==
  ASSUME NEW S, IsFiniteSet(S), NULL \notin S, NEW at, \A x \in S : at[x] \in Int,
         NEW f, Lists(f, S, at), NEW N, N = Cardinality(S), NEW k \in 1 .. N, NEW p,
         Precedes(S, at, f[k], p)
  PROVE  p = IF k > 1 THEN f[k - 1] ELSE NULL
<1>1. /\ N \in Nat /\ f \in [1 .. N -> S] /\ \A i, j \in 1 .. N : i < j => at[f[i]] < at[f[j]]
      /\ \A x \in S : \E i \in 1 .. N : f[i] = x
  BY FS_CardinalityType, ListIsOnto DEF Lists
<1>2. f[k] \in S /\ at[f[k]] \in Int
  BY <1>1
<1>3. CASE p = NULL
  <2>1. \A m \in S : at[f[k]] <= at[m]
    BY <1>3 DEF Precedes
  <2>2. ASSUME k > 1 PROVE FALSE
    <3>1. k - 1 \in 1 .. N /\ k - 1 < k
      BY <1>1, <2>2
    <3>2. f[k - 1] \in S /\ at[f[k - 1]] \in Int /\ at[f[k - 1]] < at[f[k]]
      BY <1>1, <3>1
    <3>3. QED
      BY <1>2, <2>1, <3>2
  <2>3. QED
    BY <1>3, <2>2
<1>4. CASE p \in S
  <2>1. at[p] < at[f[k]] /\ \A m \in S : at[m] <= at[p] \/ at[f[k]] <= at[m]
    BY <1>4 DEF Precedes
  <2>2. PICK j \in 1 .. N : f[j] = p
    BY <1>1, <1>4
  <2>3. ~(k < j) /\ j # k /\ at[p] \in Int
    BY <1>1, <1>2, <1>4, <2>1, <2>2
  <2>4. j < k /\ k - 1 \in 1 .. N /\ k - 1 < k
    BY <1>1, <2>2, <2>3
  <2>5. f[k - 1] \in S /\ at[f[k - 1]] \in Int /\ at[f[k - 1]] < at[f[k]]
    BY <1>1, <2>4
  <2>6. ~(j < k - 1)
    <3>1. at[f[k - 1]] <= at[p]
      BY <1>2, <2>1, <2>5
    <3>2. QED
      BY <1>1, <2>2, <2>3, <2>4, <2>5, <3>1
  <2>7. j = k - 1
    BY <2>4, <2>6
  <2>8. QED
    BY <1>1, <2>2, <2>4, <2>7
<1>5. QED
  BY <1>3, <1>4 DEF Precedes

\* What a node's links lead to, and where the list begins and ends.
OnPath(l, f) ==
  LET len == list[l].len IN
  /\ len \in Nat /\ len = Cardinality(NodesOf(l)) /\ f \in [1 .. len -> NodesOf(l)]
  /\ \A n \in NodesOf(l) : \E k \in 1 .. len : f[k] = n
  /\ \A j, k \in 1 .. len : f[j] = f[k] => j = k
  /\ \A k \in 1 .. len : /\ node[f[k]].next = IF k < len THEN f[k + 1] ELSE NULL
                         /\ node[f[k]].prev = IF k > 1 THEN f[k - 1] ELSE NULL
  /\ list[l].head = IF len > 0 THEN f[1] ELSE NULL
  /\ list[l].tail = IF len > 0 THEN f[len] ELSE NULL

LEMMA SortedIsPath ==
  ASSUME NEW l, NEW at \in [Node -> Int], Sorted(l, at)
  PROVE  /\ \E f : Lists(f, NodesOf(l), at)
         /\ \A f : Lists(f, NodesOf(l), at) => OnPath(l, f)
<1>1. PICK S \in SUBSET Node : S = NodesOf(l)
  BY DEF NodesOf
<1>2. IsFiniteSet(S) /\ NULL \notin S /\ \A x \in S : at[x] \in Int
  BY AdlistAssumption, FS_Subset, Addresses
<1>3. PICK N : N = Cardinality(S)
  OBVIOUS
<1>4. PICK h, t : h = list[l].head /\ t = list[l].tail
  OBVIOUS
<1>5. /\ N \in Nat /\ list[l].len = N /\ \A m, n \in S : at[m] = at[n] => m = n
      /\ h = NULL \/ t = NULL => S = {}
      /\ h # NULL => h \in S /\ \A m \in S : at[h] <= at[m]
      /\ t # NULL => t \in S /\ \A m \in S : at[m] <= at[t]
      /\ \A n \in S : Follows(S, at, n, node[n].next) /\ Precedes(S, at, n, node[n].prev)
  BY <1>1, <1>2, <1>3, <1>4, FS_CardinalityType DEF Sorted
<1>6. ASSUME NEW f, Lists(f, S, at) PROVE OnPath(l, f)
  <2>1. /\ f \in [1 .. N -> S] /\ \A i, j \in 1 .. N : i < j => at[f[i]] < at[f[j]]
        /\ \A x \in S : \E i \in 1 .. N : f[i] = x
        /\ \A j, k \in 1 .. N : f[j] = f[k] => j = k
    <3>1. /\ f \in [1 .. Cardinality(S) -> S]
          /\ \A i, j \in 1 .. Cardinality(S) : i < j => at[f[i]] < at[f[j]]
      BY <1>6 DEF Lists
    <3>2. /\ \A j, k \in 1 .. Cardinality(S) : f[j] = f[k] => j = k
          /\ \A x \in S : \E k \in 1 .. Cardinality(S) : f[k] = x
      BY <1>2, <1>6, ListIsOnto
    <3>3. QED
      BY <1>3, <3>1, <3>2
  <2>2. ASSUME NEW k \in 1 .. N
        PROVE  /\ node[f[k]].next = IF k < N THEN f[k + 1] ELSE NULL
               /\ node[f[k]].prev = IF k > 1 THEN f[k - 1] ELSE NULL
    <3>1. PICK p, q : p = node[f[k]].prev /\ q = node[f[k]].next
      OBVIOUS
    <3>2. f[k] \in S
      BY <2>1
    <3>3. Follows(S, at, f[k], q) /\ Precedes(S, at, f[k], p)
      BY <1>5, <3>1, <3>2
    <3>4. q = IF k < N THEN f[k + 1] ELSE NULL
      BY <1>2, <1>3, <1>6, <3>3, NextOnPath
    <3>5. p = IF k > 1 THEN f[k - 1] ELSE NULL
      BY <1>2, <1>3, <1>6, <3>3, PrevOnPath
    <3>6. QED
      BY <3>1, <3>4, <3>5
  <2>3. N = 0 <=> S = {}
    BY <1>2, <1>3, FS_EmptySet
  <2>4. h = IF N > 0 THEN f[1] ELSE NULL
    <3>1. CASE h = NULL
      BY <1>5, <2>3, <3>1
    <3>2. CASE h # NULL
      <4>1. PICK j \in 1 .. N : f[j] = h
        BY <1>5, <2>1, <3>2
      <4>2. 1 \in 1 .. N /\ f[1] \in S /\ at[f[1]] \in Int /\ at[h] \in Int /\ at[h] <= at[f[1]]
        BY <1>2, <1>5, <2>1, <3>2, <4>1
      <4>3. ~(1 < j)
        BY <2>1, <4>1, <4>2
      <4>4. QED
        BY <1>5, <4>1, <4>2, <4>3
    <3>3. QED
      BY <3>1, <3>2
  <2>5. t = IF N > 0 THEN f[N] ELSE NULL
    <3>1. CASE t = NULL
      BY <1>5, <2>3, <3>1
    <3>2. CASE t # NULL
      <4>1. PICK j \in 1 .. N : f[j] = t
        BY <1>5, <2>1, <3>2
      <4>2. N \in 1 .. N /\ f[N] \in S /\ at[f[N]] \in Int /\ at[t] \in Int /\ at[f[N]] <= at[t]
        BY <1>2, <1>5, <2>1, <3>2, <4>1
      <4>3. ~(j < N)
        BY <2>1, <4>1, <4>2
      <4>4. QED
        BY <1>5, <4>1, <4>2, <4>3
    <3>3. QED
      BY <3>1, <3>2
  <2>6. QED
    BY <1>1, <1>3, <1>4, <1>5, <2>1, <2>2, <2>4, <2>5 DEF OnPath
<1>7. \E f : Lists(f, S, at)
  BY <1>2, <1>5, ListExists
<1>8. QED
  BY <1>1, <1>6, <1>7

\* Two solutions of the recursion of Along are equal when one of them meets no
\* NULL on the way.
Links(c, first, G, N) ==
  \A k \in 1 .. N : /\ k = 1 => c[k] = first
                    /\ k # 1 /\ c[k - 1] \in Node => c[k] = G[c[k - 1]]

LEMMA OnePath ==
  ASSUME NEW N \in Nat, NEW first, NEW G, NEW f \in [1 .. N -> Node], NEW c,
         Links(f, first, G, N), Links(c, first, G, N), c = [k \in 1 .. N |-> c[k]]
  PROVE  c = f
<1> DEFINE Bad == {k \in 1 .. N : f[k] # c[k]}
<1>1. CASE Bad = {}
  <2>1. \A k \in 1 .. N : f[k] = c[k]
    BY <1>1
  <2>2. f = [k \in 1 .. N |-> f[k]]
    OBVIOUS
  <2>3. QED
    BY <2>1, <2>2
<1>2. CASE Bad # {}
  <2>1. PICK k \in Bad : \A m \in Bad : k <= m
    <3>1. Bad \subseteq Nat
      OBVIOUS
    <3> HIDE DEF Bad
    <3>2. QED
      BY <1>2, <3>1, LeastNatural
  <2>2. k \in 1 .. N /\ f[k] # c[k] /\ \A m \in 1 .. N : m < k => f[m] = c[m]
    BY <2>1
  <2>3. \A m \in 1 .. N : f[m] \in Node /\ f[m] # NULL
    BY Addresses
  <2>4. k # 1
    BY <2>2 DEF Links
  <2>5. k - 1 \in 1 .. N /\ k - 1 < k
    BY <2>2, <2>4
  <2>6. f[k] = G[f[k - 1]]
    BY <2>2, <2>3, <2>4, <2>5 DEF Links
  <2>7. c[k] = G[c[k - 1]]
    BY <2>2, <2>3, <2>4, <2>5 DEF Links
  <2>8. QED
    BY <2>2, <2>5, <2>6, <2>7
<1>3. QED
  BY <1>1, <1>2

\* Along, forward and backward, is the path.
LEMMA ForwardIsPath ==
  ASSUME NEW l, NEW f, OnPath(l, f) PROVE Forward(l) = f
<1> DEFINE F(c) == [k \in 1 .. list[l].len |->
                      IF k = 1 THEN list[l].head
                      ELSE IF c[k - 1] = NULL THEN NULL ELSE node[c[k - 1]].next]
           c == CHOOSE d : d = F(d)
           G == [n \in Node |-> node[n].next]
<1>1. PICK N \in Nat, h \in {list[l].head} : N = list[l].len
  BY DEF OnPath
<1>2. f \in [1 .. N -> Node] /\ NULL \notin Node
  BY <1>1, Addresses DEF OnPath, NodesOf
<1>3. \A k \in 1 .. N : f[k] = IF k = 1 THEN h ELSE G[f[k - 1]]
  <2>1. ASSUME NEW k \in 1 .. N, k # 1 PROVE f[k] = G[f[k - 1]]
    <3>1. PICK j \in 1 .. N : j = k - 1 /\ k = j + 1 /\ j < N
      BY <2>1
    <3>2. node[f[j]].next = f[j + 1]
      BY <1>1, <3>1 DEF OnPath
    <3>3. f[j] \in Node
      BY <1>2
    <3>4. QED
      BY <3>1, <3>2, <3>3
  <2>2. 1 \in 1 .. N => f[1] = h
    BY <1>1 DEF OnPath
  <2> HIDE DEF G
  <2>3. QED
    BY <2>1, <2>2
<1>4. f = F(f)
  <2>1. \A k \in 1 .. N : k # 1 => k - 1 \in 1 .. N /\ f[k - 1] \in Node
    BY <1>2
  <2>2. \A k \in 1 .. N : f[k] = IF k = 1 THEN list[l].head
                                ELSE IF f[k - 1] = NULL THEN NULL ELSE node[f[k - 1]].next
    BY <1>1, <1>2, <1>3, <2>1
  <2>3. f = [k \in 1 .. N |-> f[k]]
    BY <1>2
  <2>4. QED
    BY <1>1, <2>2, <2>3
<1>5. c = F(c)
  <2> HIDE DEF F
  <2>1. QED
    BY <1>4, Zenon
<1>6. Forward(l) = c
  BY Zenon DEF Forward, Along
<1>7. PICK d : d = Forward(l)
  OBVIOUS
<1>8. d = F(d)
  <2> HIDE DEF c, F
  <2>1. QED
    BY <1>5, <1>6, <1>7, Zenon
<1>9. d = f
  <2>1. d = [k \in 1 .. N |-> IF k = 1 THEN list[l].head
                              ELSE IF d[k - 1] = NULL THEN NULL ELSE node[d[k - 1]].next]
    BY <1>1, <1>8, Zenon
  <2>2. d = [k \in 1 .. N |-> d[k]]
    BY <2>1
  <2>3. PICK H : H = G
    OBVIOUS
  <2>4. \A n \in Node : H[n] = node[n].next
    BY <2>3
  <2>5. Links(d, h, H, N)
    <3>1. \A k \in 1 .. N : d[k] = IF k = 1 THEN h
                             ELSE IF d[k - 1] = NULL THEN NULL ELSE node[d[k - 1]].next
      BY <1>1, <2>1
    <3>2. QED
      BY <1>2, <2>4, <3>1 DEF Links
  <2>6. Links(f, h, H, N)
    <3> HIDE DEF G
    <3>1. QED
      BY <1>3, <2>3 DEF Links
  <2>7. QED
    BY <1>2, <2>2, <2>5, <2>6, OnePath
<1>10. QED
  BY <1>7, <1>9, Zenon

LEMMA BackwardIsPath ==
  ASSUME NEW l, NEW f, OnPath(l, f)
  PROVE  Backward(l) = [k \in 1 .. list[l].len |-> f[list[l].len + 1 - k]]
<1> DEFINE F(c) == [k \in 1 .. list[l].len |->
                      IF k = 1 THEN list[l].tail
                      ELSE IF c[k - 1] = NULL THEN NULL ELSE node[c[k - 1]].prev]
           c == CHOOSE d : d = F(d)
           G == [n \in Node |-> node[n].prev]
<1>1. PICK N \in Nat, h \in {list[l].tail} : N = list[l].len
  BY DEF OnPath
<1>2. f \in [1 .. N -> Node] /\ NULL \notin Node
  BY <1>1, Addresses DEF OnPath, NodesOf
<1>3. PICK g : g = [k \in 1 .. N |-> f[N + 1 - k]]
  OBVIOUS
<1>4. g \in [1 .. N -> Node]
  BY <1>2, <1>3
<1>5. \A k \in 1 .. N : g[k] = IF k = 1 THEN h ELSE G[g[k - 1]]
  <2>1. ASSUME NEW k \in 1 .. N, k # 1 PROVE g[k] = G[g[k - 1]]
    <3>1. PICK j \in 1 .. N : j = N + 1 - (k - 1) /\ j - 1 = N + 1 - k /\ j > 1
      BY <2>1
    <3>2. node[f[j]].prev = f[j - 1]
      BY <1>1, <3>1 DEF OnPath
    <3>3. f[j] \in Node /\ k - 1 \in 1 .. N
      BY <1>2, <2>1
    <3>4. g[k - 1] = f[j] /\ g[k] = f[j - 1]
      BY <1>3, <3>1, <3>3
    <3>5. QED
      BY <3>2, <3>3, <3>4
  <2>2. 1 \in 1 .. N => g[1] = h
    BY <1>1, <1>3 DEF OnPath
  <2> HIDE DEF G
  <2>3. QED
    BY <2>1, <2>2
<1>6. g = F(g)
  <2>1. \A k \in 1 .. N : k # 1 => k - 1 \in 1 .. N /\ g[k - 1] \in Node
    BY <1>4
  <2>2. \A k \in 1 .. N : g[k] = IF k = 1 THEN list[l].tail
                                ELSE IF g[k - 1] = NULL THEN NULL ELSE node[g[k - 1]].prev
    <3>1. ASSUME NEW k \in 1 .. N
          PROVE  g[k] = IF k = 1 THEN list[l].tail
                        ELSE IF g[k - 1] = NULL THEN NULL ELSE node[g[k - 1]].prev
      <4>1. CASE k = 1
        BY <1>1, <1>5, <4>1
      <4>2. CASE k # 1
        <5>1. g[k - 1] \in Node /\ g[k - 1] # NULL
          BY <1>2, <2>1, <4>2
        <5>2. g[k] = node[g[k - 1]].prev
          BY <1>5, <4>2, <5>1
        <5>3. QED
          BY <4>2, <5>1, <5>2
      <4>3. QED
        BY <4>1, <4>2
    <3>2. QED
      BY <3>1
  <2>3. g = [k \in 1 .. N |-> g[k]]
    BY <1>4
  <2>4. QED
    BY <1>1, <2>2, <2>3
<1>7. c = F(c)
  <2> HIDE DEF F
  <2>1. QED
    BY <1>6, Zenon
<1>8. Backward(l) = c
  BY Zenon DEF Backward, Along
<1>9. PICK d : d = Backward(l)
  OBVIOUS
<1>10. d = F(d)
  <2> HIDE DEF c, F
  <2>1. QED
    BY <1>7, <1>8, <1>9, Zenon
<1>11. d = g
  <2>1. d = [k \in 1 .. N |-> IF k = 1 THEN list[l].tail
                              ELSE IF d[k - 1] = NULL THEN NULL ELSE node[d[k - 1]].prev]
    BY <1>1, <1>10, Zenon
  <2>2. d = [k \in 1 .. N |-> d[k]]
    BY <2>1
  <2>3. PICK H : H = G
    OBVIOUS
  <2>4. \A n \in Node : H[n] = node[n].prev
    BY <2>3
  <2>5. Links(d, h, H, N)
    <3>1. \A k \in 1 .. N : d[k] = IF k = 1 THEN h
                             ELSE IF d[k - 1] = NULL THEN NULL ELSE node[d[k - 1]].prev
      BY <1>1, <2>1
    <3>2. QED
      BY <1>2, <2>4, <3>1 DEF Links
  <2>6. Links(g, h, H, N)
    <3> HIDE DEF G
    <3>1. QED
      BY <1>5, <2>3 DEF Links
  <2>7. QED
    BY <1>4, <2>2, <2>5, <2>6, OnePath
<1>12. QED
  BY <1>1, <1>3, <1>9, <1>11, Zenon

\* In every state of the invariant the lists are well formed.
LEMMA SoundLists == IInv => WellFormed
<1> SUFFICES ASSUME IInv, NEW l \in Live(List)
             PROVE  LET path == Forward(l)
                        len == list[l].len
                    IN /\ {path[k] : k \in 1 .. len} = NodesOf(l)
                       /\ len = Cardinality(NodesOf(l))
                       /\ Backward(l) = [k \in 1 .. len |-> path[len + 1 - k]]
                       /\ len = 0 => list[l].head = NULL /\ list[l].tail = NULL
                       /\ len > 0 => /\ node[list[l].tail].next = NULL
                                     /\ node[list[l].head].prev = NULL
                       /\ NodesOf(l) \subseteq Live(Node)
  BY DEF WellFormed
<1>1. PICK at \in [Node -> Int] : Sorted(l, at)
  BY DEF IInv, Ordered
<1>2. PICK f : OnPath(l, f)
  BY <1>1, SortedIsPath
<1>3. PICK g : g = Forward(l) /\ g = f
  BY <1>2, ForwardIsPath
<1>4. PICK N \in Nat, S \in {NodesOf(l)}, h \in {list[l].head}, t \in {list[l].tail} :
         N = list[l].len
  BY <1>2 DEF OnPath
<1>5. /\ N = Cardinality(S) /\ f \in [1 .. N -> S] /\ \A n \in S : \E k \in 1 .. N : f[k] = n
      /\ h = IF N > 0 THEN f[1] ELSE NULL
      /\ t = IF N > 0 THEN f[N] ELSE NULL
      /\ N > 0 => node[f[N]].next = NULL /\ node[f[1]].prev = NULL
  <2>1. OnPath(l, f)
    BY <1>2
  <2>2. /\ N = Cardinality(S) /\ f \in [1 .. N -> S]
        /\ \A n \in S : \E k \in 1 .. N : f[k] = n
    BY <1>4, <2>1 DEF OnPath
  <2>3. h = IF N > 0 THEN f[1] ELSE NULL
    BY <1>4, <2>1 DEF OnPath
  <2>4. t = IF N > 0 THEN f[N] ELSE NULL
    BY <1>4, <2>1 DEF OnPath
  <2>5. ASSUME N > 0 PROVE node[f[N]].next = NULL /\ node[f[1]].prev = NULL
    <3>1. \A k \in 1 .. N : /\ node[f[k]].next = IF k < N THEN f[k + 1] ELSE NULL
                            /\ node[f[k]].prev = IF k > 1 THEN f[k - 1] ELSE NULL
      BY <1>4, <2>1 DEF OnPath
    <3>2. 1 \in 1 .. N /\ N \in 1 .. N
      BY <2>5
    <3>3. node[f[N]].next = NULL
      BY <3>1, <3>2
    <3>4. node[f[1]].prev = NULL
      BY <3>1, <3>2
    <3>5. QED
      BY <3>3, <3>4
  <2>6. QED
    BY <2>2, <2>3, <2>4, <2>5
<1>6. {f[k] : k \in 1 .. N} = S
  BY <1>5
<1>7. Backward(l) = [k \in 1 .. N |-> f[N + 1 - k]]
  BY <1>2, <1>4, BackwardIsPath
<1>8. N > 0 => node[list[l].tail].next = NULL /\ node[list[l].head].prev = NULL
  BY <1>4, <1>5
<1>9. NodesOf(l) \subseteq Live(Node)
  BY Addresses DEF IInv, Kept, NodesOf, Live
<1>10. N = 0 => list[l].head = NULL /\ list[l].tail = NULL
  BY <1>4, <1>5
<1>11. QED
  BY <1>3, <1>4, <1>5, <1>6, <1>7, <1>8, <1>9, <1>10

-----------------------------------------------------------------------------
(* The allocator's counter.                                                *)

\* The bytes of so many lists, nodes and iterators, each with its prefix.
Bytes(lists, nodes, iters) ==
  lists * (SizeofList + PREFIX_SIZE) + nodes * (SizeofNode + PREFIX_SIZE)
    + iters * (SizeofIter + PREFIX_SIZE)

\* What a block of each sort is asked for.
SizeOf(a) == IF a \in List THEN SizeofList ELSE IF a \in Node THEN SizeofNode ELSE SizeofIter

\* The counter is what is allocated, and every node that is allocated is in a
\* list: none is lost.
Counted ==
  /\ IsFiniteSet(Live(List)) /\ IsFiniteSet(Live(Iter))
  /\ \A a \in Live(Blocks) : header[a] = SizeOf(a)
  /\ used_memory = Bytes(Cardinality(Live(List)), Cardinality(Live(Node)),
                         Cardinality(Live(Iter))) % SizeMod
Accounts ==
  /\ Counted
  /\ \A n \in Node : room[n] > 0 => owner[n] # NULL

LEMMA SizesAreNat ==
  /\ SizeofList \in Nat /\ SizeofNode \in Nat /\ SizeofIter \in Nat
  /\ PREFIX_SIZE \in Nat /\ SizeMod \in Nat \ {0}
  /\ \A a \in Blocks : SizeOf(a) \in Nat /\ SizeOf(a) \in Sizes
  BY AdlistAssumption DEF Sizes, SizeOf

LEMMA BytesOfMore ==
  ASSUME NEW x \in Nat, NEW y \in Nat, NEW z \in Nat
  PROVE  /\ Bytes(x, y, z) \in Nat
         /\ Bytes(x + 1, y, z) = Bytes(x, y, z) + (SizeofList + PREFIX_SIZE)
         /\ Bytes(x, y + 1, z) = Bytes(x, y, z) + (SizeofNode + PREFIX_SIZE)
         /\ Bytes(x, y, z + 1) = Bytes(x, y, z) + (SizeofIter + PREFIX_SIZE)
<1>1. PICK a \in Nat, b \in Nat, c \in Nat :
         /\ a = SizeofList + PREFIX_SIZE /\ b = SizeofNode + PREFIX_SIZE
         /\ c = SizeofIter + PREFIX_SIZE
  BY SizesAreNat
<1>2. x * a \in Nat /\ y * b \in Nat /\ z * c \in Nat
  OBVIOUS
<1>3. (x + 1) * a = x * a + a /\ (y + 1) * b = y * b + b /\ (z + 1) * c = z * c + c
  OBVIOUS
<1>4. QED
  BY <1>1, <1>2, <1>3 DEF Bytes

LEMMA LiveCards ==
  ASSUME Counted
  PROVE  /\ IsFiniteSet(Live(Node)) /\ Cardinality(Live(Node)) \in Nat
         /\ Cardinality(Live(List)) \in Nat /\ Cardinality(Live(Iter)) \in Nat
<1>1. IsFiniteSet(Live(Node))
  BY AdlistAssumption, FS_Subset DEF Live
<1>2. QED
  BY <1>1, FS_CardinalityType DEF Counted

\* The sets of live blocks after one is allocated or freed.
LEMMA OneLiveMore ==
  ASSUME NEW a \in Blocks, room[a] = 0, room'[a] > 0,
         \A b \in Blocks : b # a => room'[b] = room[b], NEW S, S \subseteq Blocks,
         IsFiniteSet(Live(S))
  PROVE  /\ IsFiniteSet(Live(S)')
         /\ a \in S => Cardinality(Live(S)') = Cardinality(Live(S)) + 1
         /\ a \notin S => Live(S)' = Live(S)
<1>1. a \in S => Live(S)' = Live(S) \cup {a} /\ a \notin Live(S)
  BY DEF Live
<1>2. a \notin S => Live(S)' = Live(S)
  BY DEF Live
<1>3. a \in S => Cardinality(Live(S) \cup {a}) = Cardinality(Live(S)) + 1 /\ IsFiniteSet(Live(S) \cup {a})
  BY <1>1, FS_AddElement
<1>4. QED
  BY <1>1, <1>2, <1>3

LEMMA OneLiveLess ==
  ASSUME NEW a \in Blocks, room[a] > 0, room'[a] = 0,
         \A b \in Blocks : b # a => room'[b] = room[b], NEW S, S \subseteq Blocks,
         IsFiniteSet(Live(S))
  PROVE  /\ IsFiniteSet(Live(S)')
         /\ a \in S => Cardinality(Live(S)) = Cardinality(Live(S)') + 1
         /\ a \notin S => Live(S)' = Live(S)
<1>1. a \in S => Live(S)' = Live(S) \ {a} /\ a \in Live(S)
  BY DEF Live
<1>2. a \notin S => Live(S)' = Live(S)
  BY DEF Live
<1>3. a \in S => /\ IsFiniteSet(Live(S) \ {a})
                 /\ Cardinality(Live(S) \ {a}) = Cardinality(Live(S)) - 1
                 /\ Cardinality(Live(S)) \in Nat
  BY <1>1, FS_RemoveElement, FS_CardinalityType
<1>4. QED
  BY <1>1, <1>2, <1>3

LEMMA AllocCounted ==
  ASSUME Z!TypeOK, Counted, NEW a \in Blocks, Z!zmalloc(a, SizeOf(a))
  PROVE  Counted'
<1>1. PICK s \in Nat : s = SizeOf(a)
  BY SizesAreNat
<1>2. room[a] = 0 /\ room'[a] > 0 /\ \A b \in Blocks : b # a => room'[b] = room[b]
  BY Allocates, SizesAreNat
<1>3. /\ header' = [header EXCEPT ![a] = s]
      /\ used_memory' = (used_memory + (s + PREFIX_SIZE)) % SizeMod
      /\ header \in [Blocks -> Nat]
  BY <1>1 DEF Z!zmalloc, Z!increment_used_memory, Z!TypeOK
<1>4. \A b \in Live(Blocks)' : header'[b] = SizeOf(b)
  BY <1>1, <1>2, <1>3 DEF Counted, Live
<1>5. PICK x, y, z : /\ x = Cardinality(Live(List)) /\ y = Cardinality(Live(Node))
                     /\ z = Cardinality(Live(Iter))
  OBVIOUS
<1>6. x \in Nat /\ y \in Nat /\ z \in Nat
  BY <1>5, LiveCards
<1>7. PICK t \in Nat : t = Bytes(x, y, z) /\ used_memory = t % SizeMod
  BY <1>5, <1>6, BytesOfMore DEF Counted
<1>8. used_memory' = (t + (s + PREFIX_SIZE)) % SizeMod
  <2>1. PICK k \in Int : k = s + PREFIX_SIZE
    BY SizesAreNat
  <2>2. ((t % SizeMod) + k) % SizeMod = (t + k) % SizeMod
    <3>1. PICK M \in Nat \ {0}, v \in Int : M = SizeMod /\ v = t
      BY SizesAreNat
    <3>2. ((v % M) + k) % M = (v + k) % M
      BY <3>1, ModAdd, Zenon
    <3>3. QED
      BY <3>1, <3>2, Zenon
  <2>3. QED
    BY <1>3, <1>7, <2>1, <2>2
<1>9. /\ \A S \in {List, Node, Iter} :
           /\ IsFiniteSet(Live(S)')
           /\ a \in S => Cardinality(Live(S)') = Cardinality(Live(S)) + 1
           /\ a \notin S => Live(S)' = Live(S)
  BY <1>2, Addresses, OneLiveMore, LiveCards DEF Counted
<1>10. PICK X, Y, W : /\ X = Cardinality(Live(List)') /\ Y = Cardinality(Live(Node)')
                      /\ W = Cardinality(Live(Iter)')
  OBVIOUS
<1>11. \/ a \in List /\ s = SizeofList /\ X = x + 1 /\ Y = y /\ W = z
       \/ a \in Node /\ s = SizeofNode /\ X = x /\ Y = y + 1 /\ W = z
       \/ a \in Iter /\ s = SizeofIter /\ X = x /\ Y = y /\ W = z + 1
  BY <1>1, <1>5, <1>9, <1>10, Addresses DEF SizeOf, Blocks
<1>12. Bytes(X, Y, W) = t + (s + PREFIX_SIZE)
  <2>1. /\ Bytes(x + 1, y, z) = Bytes(x, y, z) + (SizeofList + PREFIX_SIZE)
        /\ Bytes(x, y + 1, z) = Bytes(x, y, z) + (SizeofNode + PREFIX_SIZE)
        /\ Bytes(x, y, z + 1) = Bytes(x, y, z) + (SizeofIter + PREFIX_SIZE)
    BY <1>6, BytesOfMore
  <2>2. QED
    BY <1>7, <1>11, <2>1, Zenon
<1>13. QED
  BY <1>4, <1>8, <1>9, <1>10, <1>12 DEF Counted

LEMMA FreeCounted ==
  ASSUME Z!TypeOK, Counted, NEW a \in Blocks, room[a] > 0, Z!zfree(a)
  PROVE  Counted'
<1>1. PICK s \in Nat : s = SizeOf(a)
  BY SizesAreNat
<1>2. room'[a] = 0 /\ \A b \in Blocks : b # a => room'[b] = room[b]
  BY Frees
<1>3. a # NULL /\ header[a] = s
  BY <1>1, Addresses, AdlistAssumption DEF Counted, Live
<1>4. /\ header' = [header EXCEPT ![a] = 0]
      /\ used_memory' = (used_memory - (s + PREFIX_SIZE)) % SizeMod
      /\ header \in [Blocks -> Nat]
  BY <1>3 DEF Z!zfree, Z!decrement_used_memory, Z!TypeOK
<1>5. \A b \in Live(Blocks)' : header'[b] = SizeOf(b)
  BY <1>1, <1>2, <1>4 DEF Counted, Live
<1>6. PICK x, y, z : /\ x = Cardinality(Live(List)) /\ y = Cardinality(Live(Node))
                     /\ z = Cardinality(Live(Iter))
  OBVIOUS
<1>7. x \in Nat /\ y \in Nat /\ z \in Nat
  BY <1>6, LiveCards
<1>8. PICK t \in Nat : t = Bytes(x, y, z) /\ used_memory = t % SizeMod
  BY <1>6, <1>7, BytesOfMore DEF Counted
<1>9. \A S \in {List, Node, Iter} :
           /\ IsFiniteSet(Live(S)')
           /\ a \in S => Cardinality(Live(S)) = Cardinality(Live(S)') + 1
           /\ a \notin S => Live(S)' = Live(S)
  BY <1>2, Addresses, OneLiveLess, LiveCards DEF Counted
<1>10. PICK X, Y, W : /\ X = Cardinality(Live(List)') /\ Y = Cardinality(Live(Node)')
                      /\ W = Cardinality(Live(Iter)')
  OBVIOUS
<1>11. X \in Nat /\ Y \in Nat /\ W \in Nat
  BY <1>9, <1>10, FS_CardinalityType
<1>12. \/ a \in List /\ s = SizeofList /\ x = X + 1 /\ Y = y /\ W = z
       \/ a \in Node /\ s = SizeofNode /\ X = x /\ y = Y + 1 /\ W = z
       \/ a \in Iter /\ s = SizeofIter /\ X = x /\ Y = y /\ z = W + 1
  BY <1>1, <1>6, <1>9, <1>10, Addresses DEF SizeOf, Blocks
<1>13. PICK T \in Nat : T = Bytes(X, Y, W)
  BY <1>11, BytesOfMore
<1>14. t = T + (s + PREFIX_SIZE)
  <2>1. /\ Bytes(X + 1, Y, W) = Bytes(X, Y, W) + (SizeofList + PREFIX_SIZE)
        /\ Bytes(X, Y + 1, W) = Bytes(X, Y, W) + (SizeofNode + PREFIX_SIZE)
        /\ Bytes(X, Y, W + 1) = Bytes(X, Y, W) + (SizeofIter + PREFIX_SIZE)
    <3>1. X \in Nat /\ Y \in Nat /\ W \in Nat
      BY <1>11
    <3>2. Bytes(X + 1, Y, W) = Bytes(X, Y, W) + (SizeofList + PREFIX_SIZE)
      BY <3>1, BytesOfMore, ZenonT(60)
    <3>3. Bytes(X, Y + 1, W) = Bytes(X, Y, W) + (SizeofNode + PREFIX_SIZE)
      BY <3>1, BytesOfMore, ZenonT(60)
    <3>4. Bytes(X, Y, W + 1) = Bytes(X, Y, W) + (SizeofIter + PREFIX_SIZE)
      BY <3>1, BytesOfMore, ZenonT(60)
    <3>5. QED
      BY <3>2, <3>3, <3>4, Zenon
  <2>2. QED
    BY <1>8, <1>12, <1>13, <2>1, Zenon
<1>15. used_memory' = T % SizeMod
  <2>1. PICK k \in Int : k = 0 - (s + PREFIX_SIZE)
    BY SizesAreNat
  <2>2. ((t % SizeMod) + k) % SizeMod = (t + k) % SizeMod
    <3>1. PICK M \in Nat \ {0}, v \in Int : M = SizeMod /\ v = t
      BY SizesAreNat
    <3>2. ((v % M) + k) % M = (v + k) % M
      BY <3>1, ModAdd, Zenon
    <3>3. QED
      BY <3>1, <3>2, Zenon
  <2>3. PICK u \in Int : u = t % SizeMod
    BY SizesAreNat
  <2>4. u - (s + PREFIX_SIZE) = u + k /\ t + k = T
    BY <1>14, <2>1, <2>3, SizesAreNat
  <2>5. QED
    BY <1>4, <1>8, <2>2, <2>3, <2>4
<1>16. QED
  BY <1>5, <1>9, <1>10, <1>13, <1>15 DEF Counted

LEMMA AccountsStay ==
  ASSUME Accounts, UNCHANGED <<room, header, used_memory, owner>> PROVE Accounts'
<1>1. Live(List)' = Live(List) /\ Live(Node)' = Live(Node) /\ Live(Iter)' = Live(Iter)
      /\ Live(Blocks)' = Live(Blocks)
  BY DEF Live
<1>2. QED
  BY <1>1 DEF Accounts, Counted

LEMMA AllocAccounts ==
  ASSUME Z!TypeOK, Accounts, NEW a \in Blocks, a \notin Node, Z!zmalloc(a, SizeOf(a)),
         UNCHANGED owner
  PROVE  Accounts'
<1>1. \A b \in Blocks : b # a => room'[b] = room[b]
  BY Allocates, SizesAreNat
<1>2. \A n \in Node : room'[n] = room[n]
  BY <1>1, Addresses
<1>3. QED
  BY <1>2, AllocCounted DEF Accounts

LEMMA FreeAccounts ==
  ASSUME Z!TypeOK, Accounts, NEW a \in Blocks, a \notin Node, room[a] > 0, Z!zfree(a),
         UNCHANGED owner
  PROVE  Accounts'
<1>1. \A b \in Blocks : b # a => room'[b] = room[b]
  BY Frees
<1>2. \A n \in Node : room'[n] = room[n]
  BY <1>1, Addresses
<1>3. QED
  BY <1>2, FreeCounted DEF Accounts

LEMMA NodeSize == \A n \in Node : n \in Blocks /\ SizeOf(n) = SizeofNode /\ n \notin List
  BY Addresses DEF SizeOf

LEMMA AddAccounts ==
  ASSUME TypeOK, Accounts, NEW n \in Node, Z!zmalloc(n, SizeofNode), NEW l, l # NULL,
         owner' = [owner EXCEPT ![n] = l]
  PROVE  Accounts'
<1>1. Z!TypeOK /\ n \in Blocks /\ Z!zmalloc(n, SizeOf(n))
  BY NodeSize DEF TypeOK
<1>2. \A b \in Blocks : b # n => room'[b] = room[b]
  BY <1>1, Allocates, SizesAreNat
<1>3. \A m \in Node : m # n => room'[m] = room[m] /\ owner'[m] = owner[m]
  BY <1>2, Addresses DEF TypeOK
<1>4. owner'[n] = l
  BY DEF TypeOK
<1>5. Counted'
  BY <1>1, AllocCounted DEF Accounts
<1>6. QED
  BY <1>3, <1>4, <1>5 DEF Accounts

LEMMA DelAccounts ==
  ASSUME TypeOK, Accounts, NEW n \in Node, room[n] > 0, Z!zfree(n),
         owner' = [owner EXCEPT ![n] = NULL]
  PROVE  Accounts'
<1>1. Z!TypeOK /\ n \in Blocks
  BY NodeSize DEF TypeOK
<1>2. room'[n] = 0 /\ \A b \in Blocks : b # n => room'[b] = room[b]
  BY <1>1, Frees
<1>3. \A m \in Node : m # n => room'[m] = room[m] /\ owner'[m] = owner[m]
  BY <1>2, Addresses DEF TypeOK
<1>4. Counted'
  BY <1>1, FreeCounted DEF Accounts
<1>5. ~(room'[n] > 0)
  BY <1>2
<1>6. QED
  BY <1>3, <1>4, <1>5 DEF Accounts

LEMMA InitAccounts == Init => Accounts
<1> SUFFICES ASSUME Init PROVE Accounts
  OBVIOUS
<1>1. Live(List) = {} /\ Live(Node) = {} /\ Live(Iter) = {} /\ Live(Blocks) = {}
      /\ used_memory = 0
  BY Addresses DEF Init, Z!Init, Live
<1>2. IsFiniteSet({}) /\ Cardinality({}) = 0
  BY FS_EmptySet
<1>3. Bytes(0, 0, 0) = 0 /\ 0 % SizeMod = 0
  BY SizesAreNat DEF Bytes
<1>4. Counted
  BY <1>1, <1>2, <1>3 DEF Counted
<1>5. \A n \in Node : ~(room[n] > 0)
  BY <1>1 DEF Live
<1>6. QED
  BY <1>4, <1>5 DEF Accounts

\* One lemma for the calls that allocate or free, as in IInv.
LEMMA CreateAccounts ==
  ASSUME TypeOK, Accounts, NEW l \in List, listCreate(l) PROVE Accounts'
<1>1. Z!zmalloc(l, SizeofList) /\ UNCHANGED owner
  BY DEF listCreate
<1>2. l \in Blocks /\ l \notin Node /\ SizeOf(l) = SizeofList /\ Z!TypeOK
  BY Addresses DEF SizeOf, TypeOK
<1>3. QED
  BY <1>1, <1>2, AllocAccounts

LEMMA AddNodeAccounts ==
  ASSUME TypeOK, Accounts, NEW l \in Live(List), NEW n \in Node, NEW v,
         listAddNodeHead(l, n, v) \/ listAddNodeTail(l, n, v)
  PROVE  Accounts'
<1>1. l # NULL
  BY Addresses DEF Live
<1>2. CASE UNCHANGED <<heap, owner>>
  BY <1>2, AccountsStay DEF heap
<1>3. CASE Z!zmalloc(n, SizeofNode) /\ owner' = [owner EXCEPT ![n] = l]
  BY <1>1, <1>3, AddAccounts
<1>4. QED
  BY <1>2, <1>3 DEF listAddNodeHead, listAddNodeTail, LinkTail, Touching

LEMMA DelNodeAccounts ==
  ASSUME IInv, Accounts, NEW l \in Live(List), NEW n \in Node, listDelNode(l, n)
  PROVE  Accounts'
<1>1. CASE UNCHANGED <<heap, owner>>
  BY <1>1, AccountsStay DEF heap
<1>2. CASE Z!zfree(n) /\ owner' = [owner EXCEPT ![n] = NULL]
  <2>1. owner[n] # NULL
    BY Addresses DEF listDelNode, MayDelete, Live
  <2>2. room[n] > 0 /\ TypeOK
    BY <2>1 DEF IInv, Kept
  <2>3. QED
    BY <1>2, <2>2, DelAccounts
<1>3. QED
  BY <1>1, <1>2 DEF listDelNode, Touching

LEMMA IterAccounts ==
  ASSUME TypeOK, Accounts, NEW i \in Iter
  PROVE  /\ Z!zmalloc(i, SizeofIter) /\ UNCHANGED owner => Accounts'
         /\ room[i] > 0 /\ Z!zfree(i) /\ UNCHANGED owner => Accounts'
<1>1. i \in Blocks /\ i \notin Node /\ SizeOf(i) = SizeofIter /\ Z!TypeOK
  BY Addresses DEF SizeOf, TypeOK
<1>2. QED
  BY <1>1, AllocAccounts, FreeAccounts

LEMMA GetIteratorAccounts ==
  ASSUME TypeOK, Accounts, NEW l, NEW i \in Iter, NEW d, listGetIterator(l, i, d)
  PROVE  Accounts'
<1>1. CASE UNCHANGED <<heap, owner>>
  BY <1>1, AccountsStay DEF heap
<1>2. CASE Z!zmalloc(i, SizeofIter) /\ UNCHANGED owner
  BY <1>2, IterAccounts
<1>3. QED
  BY <1>1, <1>2 DEF listGetIterator, Touching

LEMMA ReleaseIterAccounts ==
  ASSUME TypeOK, Accounts, NEW i \in Iter, listReleaseIter(i) PROVE Accounts'
<1>1. CASE UNCHANGED <<heap, owner>>
  BY <1>1, AccountsStay DEF heap
<1>2. CASE Z!zfree(i) /\ UNCHANGED owner
  <2>1. room[i] > 0
    BY DEF listReleaseIter, Live
  <2>2. QED
    BY <1>2, <2>1, IterAccounts
<1>3. QED
  BY <1>1, <1>2 DEF listReleaseIter, Touching

LEMMA NextAccounts == IInv /\ Accounts /\ [Next]_vars => Accounts'
<1> SUFFICES ASSUME IInv, Accounts, [Next]_vars PROVE Accounts'
  OBVIOUS
<1>1. TypeOK
  BY DEF IInv
<1>2. CASE UNCHANGED <<room, header, used_memory, owner>>
  BY <1>2, AccountsStay
<1>3. CASE \E l \in List : listCreate(l)
  BY <1>1, <1>3, CreateAccounts
<1>4. CASE \E l \in Live(List), n \in Node, v \in values \cup {NULL} : AddNode(l, n, v)
  BY <1>1, <1>4, AddNodeAccounts DEF AddNode
<1>5. CASE \E l \in Live(List), n \in Node : listDelNode(l, n)
  BY <1>5, DelNodeAccounts
<1>6. CASE \E l \in Live(List), i \in Iter, d \in {FORWARD, BACKWARD} : listGetIterator(l, i, d)
  BY <1>1, <1>6, GetIteratorAccounts
<1>7. CASE \E i \in Iter : listReleaseIter(i)
  BY <1>1, <1>7, ReleaseIterAccounts
<1>8. ASSUME NEW v \in Value, NewValue(v) PROVE Accounts'
  BY <1>2, <1>8 DEF NewValue, heap
<1>9. ASSUME NEW l \in List, NEW d, NEW f, NEW m, SetMethods(l, d, f, m) PROVE Accounts'
  BY <1>2, <1>9 DEF SetMethods, Touching, heap
<1>10. ASSUME NEW l \in Live(List), NEW i \in Iter, listRewind(l, i) \/ listRewindTail(l, i)
       PROVE  Accounts'
  BY <1>2, <1>10 DEF listRewind, listRewindTail, Rewind, Touching, heap
<1>11. ASSUME NEW i \in Iter, listNext(i) PROVE Accounts'
  BY <1>2, <1>11 DEF listNext, Touching, heap
<1>12. CASE OutOfMemory \/ UNCHANGED vars
  BY <1>2, <1>12 DEF OutOfMemory, Z!zmalloc_oom, Z!heap, vars, heap
<1>13. QED
  BY <1>3, <1>4, <1>5, <1>6, <1>7, <1>8, <1>9, <1>10, <1>11, <1>12 DEF Next

\* The nodes on the paths are those that are allocated.
LEMMA CounterIsReachable == IInv /\ Accounts => UsedMemoryIsReachable
<1> SUFFICES ASSUME IInv, Accounts PROVE UsedMemoryIsReachable
  OBVIOUS
<1>1. \A l \in Live(List) : {Forward(l)[k] : k \in 1 .. list[l].len} = NodesOf(l)
  BY SoundLists, Zenon DEF WellFormed
<1>2. UNION {{Forward(l)[k] : k \in 1 .. list[l].len} : l \in Live(List)} = Live(Node)
  <2>1. {{Forward(l)[k] : k \in 1 .. list[l].len} : l \in Live(List)}
          = {NodesOf(l) : l \in Live(List)}
    BY <1>1, Zenon
  <2>2. UNION {NodesOf(l) : l \in Live(List)} = Live(Node)
    BY Addresses DEF NodesOf, Live, IInv, Kept, Accounts
  <2>3. QED
    BY <2>1, <2>2, Zenon
<1>3. PICK x, y, z : /\ x = Cardinality(Live(List)) /\ y = Cardinality(Live(Node))
                     /\ z = Cardinality(Live(Iter))
  OBVIOUS
<1>4. used_memory = Bytes(x, y, z) % SizeMod
  BY <1>3, Zenon DEF Accounts, Counted
<1>5. QED
  BY <1>2, <1>3, <1>4, Zenon DEF UsedMemoryIsReachable, Bytes

LEMMA AlwaysAccounts == Spec => [](IInv /\ Accounts)
<1>1. Init => IInv /\ Accounts
  BY InitIInv, InitAccounts
<1>2. (IInv /\ Accounts) /\ [Next]_vars => (IInv /\ Accounts)'
  BY NextIInv, NextAccounts
<1>3. QED
  BY <1>1, <1>2, PTL DEF Spec

-----------------------------------------------------------------------------
(* The theorems.                                                           *)

\* The structs hold what their types allow, and no length falls below zero.
THEOREM TypeCorrect == Spec => []TypeOK
<1>1. IInv => TypeOK
  BY DEF IInv
<1>2. QED
  BY AlwaysIInv, <1>1, PTL

\* No call of adlist.cc that does not loop follows a NULL or dangling pointer or
\* frees a value twice, whatever calls came before it.
THEOREM MemorySafe == Spec => []NeverUndefined
<1>1. IInv => NeverUndefined
  BY DEF IInv
<1>2. QED
  BY AlwaysIInv, <1>1, PTL

\* What listNext returns next is in the list the iterator was started on and was
\* not returned before, and at its end nothing was left out, though nodes are
\* added at both ends and returned ones are deleted on the way.
THEOREM IteratorsCorrect == Spec => []IteratorsKeepTheirPlace
<1>1. IInv => IteratorsKeepTheirPlace
  <2>1. SUFFICES ASSUME IInv, NEW i \in Live(Iter)
                 PROVE  IF iter[i].next = NULL THEN walk[i].todo = {}
                        ELSE /\ owner[iter[i].next] = walk[i].on
                             /\ iter[i].next \notin walk[i].seen
    BY DEF IteratorsKeepTheirPlace
  <2>2. PICK at \in [Node -> Int] : Walks(i, at)
    BY <2>1 DEF IInv, Ordered
  <2>3. PICK q : q = iter[i].next
    OBVIOUS
  <2>4. iter[i].direction \in {FORWARD, BACKWARD}
    BY <2>1 DEF IInv, TypeOK, Live
  <2>5. CASE q = NULL
    BY <2>2, <2>3, <2>5 DEF Walks
  <2>6. CASE q # NULL
    <3>1. q \in NodesOf(walk[i].on) /\ at[q] \in Int
      BY <2>2, <2>3, <2>6 DEF Walks, NodesOf
    <3>2. q \notin walk[i].seen
      BY <2>2, <2>3, <2>4, <2>6, <3>1 DEF Walks
    <3>3. QED
      BY <2>3, <2>6, <3>1, <3>2 DEF NodesOf
  <2>7. QED
    BY <2>3, <2>5, <2>6
<1>2. QED
  BY AlwaysIInv, <1>1, PTL

\* Whatever calls are made, following next from head meets every node of a list
\* once, in the opposite order of prev from tail, and then NULL: the paths are
\* finite, whole and do not run into another list.
THEOREM ListsWellFormed == Spec => []WellFormed
<1>1. QED
  BY AlwaysIInv, SoundLists, PTL

\* The allocator's counter is what callers can reach, iterators included: the
\* calls that do not loop leak nothing.
THEOREM NothingLeaks == Spec => []UsedMemoryIsReachable
<1>1. QED
  BY AlwaysAccounts, CounterIsReachable, PTL

-----------------------------------------------------------------------------
(* The calls that loop.                                                    *)

\* The list being released: curr is the first of the nodes that are left, and
\* count their number; the links back are not looked at any more.
Drains(l, at) ==
  LET S == NodesOf(l)
      c == call.curr
  IN /\ call.count = Cardinality(S)
     /\ \A m, n \in S : at[m] = at[n] => m = n
     /\ c = NULL => S = {}
     /\ c # NULL => c \in S /\ \A m \in S : at[c] <= at[m]
     /\ \A n \in S : Follows(S, at, n, node[n].next)

InRelease(l) == call.op = "release" /\ call.l = l
COrdered(at) ==
  /\ \A l \in Live(List) : IF InRelease(l) THEN Drains(l, at) ELSE Sorted(l, at)
  /\ \A i \in Live(Iter) : Walks(i, at)

\* What the local variables of each call hold.
Locals ==
  /\ DOMAIN call = {"op", "l", "curr", "count", "i", "key", "copy", "had"}
  /\ call.op \in {"none", "release", "search", "index", "dup"}
  /\ ~Idle => call.l \in Live(List)
  /\ call.op \in {"none", "release", "index"} => Live(Iter) = {}
  /\ call.op = "search" => call.i \in Iter /\ Live(Iter) = {call.i}
  /\ call.op = "dup" => call.i \in Iter \cup {NULL} /\ Live(Iter) = {call.i} \ {NULL}
  /\ \A i \in Live(Iter) : walk[i].on = call.l /\ iter[i].direction = FORWARD
  /\ call.op = "index" => call.curr \in NodesOf(call.l) \cup {NULL}
  /\ call.op \in {"none", "search", "index"} => call.copy = NULL
  /\ call.op = "release" => call.copy \in {NULL, call.l}
  /\ call.op = "dup" => /\ call.copy \in Live(List) /\ call.copy # call.l
                        /\ list[call.copy].dup = list[call.l].dup
                        /\ list[call.copy].free = list[call.l].free
                        /\ MayDup(call.l)

MInv == /\ TypeOK /\ NeverUndefined /\ Kept /\ Exclusive /\ Locals
        /\ \E at \in [Node -> Int] : COrdered(at)

\* Outside of a release the invariant is that of Adlist.
LEMMA WithoutRelease ==
  ASSUME call.op # "release"
  PROVE  MInv <=> IInv /\ Locals
<1>1. \A at : COrdered(at) <=> Ordered(at)
  BY DEF COrdered, Ordered, InRelease
<1>2. QED
  BY <1>1, Zenon DEF MInv, IInv

LEMMA WithoutReleaseNext ==
  ASSUME call'.op # "release", IInv', Locals'
  PROVE  MInv'
<1>1. \A at : COrdered(at)' <=> Ordered(at)'
  BY DEF COrdered, Ordered, InRelease
<1>2. QED
  BY <1>1, Zenon DEF MInv, IInv

LEMMA InitMInv == CInit => MInv
<1> SUFFICES ASSUME CInit PROVE MInv
  OBVIOUS
<1>1. call = NoCall /\ IInv
  BY InitIInv DEF CInit
<1>2. Live(Iter) = {}
  BY Addresses DEF Live, Z!Init, Init, CInit
<1>3. Locals
  BY <1>1, <1>2 DEF Locals, NoCall, Idle
<1>4. call.op # "release"
  BY <1>1 DEF NoCall
<1>5. QED
  BY <1>1, <1>3, <1>4, WithoutRelease

\* Which blocks an action of Adlist allocates or frees.
LEMMA OneStepBlocks ==
  ASSUME IInv
  PROVE  /\ \A l \in List : listCreate(l) => Live(Iter)' = Live(Iter)
         /\ \A v \in Value : NewValue(v) => Live(Iter)' = Live(Iter)
         /\ \A l \in List : \A d, f, m \in BOOLEAN :
              SetMethods(l, d, f, m) => Live(Iter)' = Live(Iter)
         /\ \A l \in Live(List), n \in Node, v \in values \cup {NULL} :
              AddNode(l, n, v) => Live(Iter)' = Live(Iter)
         /\ \A l \in Live(List), n \in Node : listDelNode(l, n) => Live(Iter)' = Live(Iter)
<1>1. ASSUME NEW l \in List, listCreate(l) PROVE Live(Iter)' = Live(Iter)
  <2>1. \A b \in Blocks : b # l => room'[b] = room[b]
    BY <1>1, Allocates, Addresses DEF listCreate, IInv, TypeOK, Sizes
  <2>2. QED
    BY <2>1, Addresses DEF Live
<1>2. ASSUME NEW v \in Value, NewValue(v) PROVE Live(Iter)' = Live(Iter)
  BY <1>2 DEF NewValue, heap, Live
<1>3. ASSUME NEW l \in List, NEW d \in BOOLEAN, NEW f \in BOOLEAN, NEW m \in BOOLEAN,
             SetMethods(l, d, f, m)
      PROVE  Live(Iter)' = Live(Iter)
  BY <1>3 DEF SetMethods, Touching, heap, Live
<1>4. ASSUME NEW l \in Live(List), NEW n \in Node, NEW v \in values \cup {NULL}, AddNode(l, n, v)
      PROVE  Live(Iter)' = Live(Iter)
  <2>1. Z!zmalloc(n, SizeofNode) \/ UNCHANGED heap
    BY <1>4 DEF AddNode, listAddNodeHead, listAddNodeTail, LinkTail, Touching
  <2>2. CASE UNCHANGED heap
    BY <2>2 DEF heap, Live
  <2>3. CASE Z!zmalloc(n, SizeofNode)
    <3>1. \A b \in Blocks : b # n => room'[b] = room[b]
      BY <2>3, Allocates, Addresses DEF IInv, TypeOK, Sizes
    <3>2. QED
      BY <3>1, Addresses DEF Live
  <2>4. QED
    BY <2>1, <2>2, <2>3
<1>5. ASSUME NEW l \in Live(List), NEW n \in Node, listDelNode(l, n)
      PROVE  Live(Iter)' = Live(Iter)
  <2>1. Z!zfree(n) \/ UNCHANGED heap
    BY <1>5 DEF listDelNode, Touching
  <2>2. CASE UNCHANGED heap
    BY <2>2 DEF heap, Live
  <2>3. CASE Z!zfree(n)
    <3>1. \A b \in Blocks : b # n => room'[b] = room[b]
      BY <2>3, Frees, Addresses DEF IInv, TypeOK
    <3>2. QED
      BY <3>1, Addresses DEF Live
  <2>4. QED
    BY <2>1, <2>2, <2>3
<1>6. QED
  BY <1>1, <1>2, <1>3, <1>4, <1>5

LEMMA OneStepMInv ==
  ASSUME MInv, OneStepCall PROVE MInv'
<1>1. call.op = "none" /\ call' = call
  BY DEF OneStepCall, Idle
<1>2. IInv /\ Locals
  BY <1>1, WithoutRelease
<1>3. Methods \subseteq BOOLEAN \X BOOLEAN \X BOOLEAN
  BY CallsAssumption
<1>4. \A m \in Methods : m[1] \in BOOLEAN /\ m[2] \in BOOLEAN /\ m[3] \in BOOLEAN
  BY <1>3
<1>5. IInv' /\ Live(Iter)' = Live(Iter)
  <2>1. CASE \E l \in List : listCreate(l)
    BY <1>2, <2>1, CreateIInv, OneStepBlocks
  <2>2. CASE \E v \in Value : NewValue(v)
    BY <1>2, <2>2, NewValueIInv, OneStepBlocks
  <2>3. CASE \E l \in List, m \in Methods : SetMethods(l, m[1], m[2], m[3])
    BY <1>2, <1>4, <2>3, SetMethodsIInv, OneStepBlocks
  <2>4. CASE \E l \in Live(List), n \in Node, v \in values \cup {NULL} : AddNode(l, n, v)
    BY <1>2, <2>4, AddHeadIInv, AddTailIInv, OneStepBlocks DEF AddNode
  <2>5. CASE \E l \in Live(List), n \in Node : listDelNode(l, n)
    BY <1>2, <2>5, DelNodeIInv, OneStepBlocks
  <2>6. QED
    BY <2>1, <2>2, <2>3, <2>4, <2>5 DEF OneStepCall
<1>6. Locals'
  BY <1>1, <1>2, <1>5 DEF Locals, Idle
<1>7. call'.op # "release"
  BY <1>1
<1>8. QED
  BY <1>5, <1>6, <1>7, WithoutReleaseNext

\* A list whose release begins.
LEMMA StartsToDrain ==
  ASSUME IInv', Locals', call'.op = "release",
         call'.curr = list'[call'.l].head, call'.count = list'[call'.l].len
  PROVE  MInv'
<1>1. PICK at \in [Node -> Int] : Ordered(at)'
  BY DEF IInv
<1>2. PICK l : l = call'.l
  OBVIOUS
<1>3. l \in Live(List)'
  BY <1>2 DEF Locals, Idle
<1>4. Sorted(l, at)'
  BY <1>1, <1>3 DEF Ordered
<1>5. Drains(l, at)'
  BY <1>2, <1>4 DEF Drains, Sorted
<1>6. COrdered(at)'
  BY <1>1, <1>2, <1>5 DEF COrdered, InRelease, Ordered
<1>7. QED
  BY <1>6 DEF MInv, IInv

-----------------------------------------------------------------------------
(* listRelease.                                                            *)

LEMMA ReleaseMInv ==
  ASSUME MInv, NEW l \in Live(List), listRelease(l) PROVE MInv'
<1>1. call.op = "none"
  BY Addresses DEF listRelease, Step, Touching, Begin, Idle, Live
<1>2. /\ call' = [NoCall EXCEPT !.op = "release", !.l = l, !.curr = list[l].head,
                                !.count = list[l].len]
      /\ UNCHANGED structs /\ UNCHANGED undefined
  BY Addresses DEF listRelease, Step, Touching, Begin, Live
<1>3. IInv /\ Locals
  BY <1>1, WithoutRelease
<1>4. IInv'
  BY <1>2, <1>3, NothingChanges DEF structs, heap, IInv, TypeOK, Z!TypeOK
<1>5. /\ call'.op = "release" /\ call'.l = l /\ call'.curr = list[l].head
      /\ call'.count = list[l].len /\ call'.copy = NULL
      /\ DOMAIN call' = {"op", "l", "curr", "count", "i", "key", "copy", "had"}
  BY <1>2 DEF NoCall
<1>6. Live(List)' = Live(List) /\ Live(Iter)' = Live(Iter) /\ Live(Iter) = {} /\ list' = list
  BY <1>1, <1>2, <1>3 DEF structs, heap, Live, Locals
<1>7. Locals'
  BY <1>5, <1>6 DEF Locals, Idle
<1>8. QED
  BY <1>4, <1>5, <1>6, <1>7, StartsToDrain

\* What one pass of the loop of listRelease finds and does.
LEMMA ReleaseNodeDoes ==
  ASSUME MInv, NEW at \in [Node -> Int], COrdered(at), ReleaseNode,
         NEW l, l = call.l, NEW n, n = call.curr
  PROVE  /\ l \in Live(List) /\ l \in List /\ l # NULL /\ n \in NodesOf(l) /\ n \in Node
         /\ owner[n] = l /\ call.op = "release" /\ Drains(l, at)
         /\ call' = [call EXCEPT !.curr = node[n].next, !.count = call.count - 1]
         /\ values' = values \ Freed(l, node[n].value)
         /\ Z!zfree(n)
         /\ node' = [node EXCEPT ![n] = BlankNode]
         /\ owner' = [owner EXCEPT ![n] = NULL]
         /\ UNCHANGED <<list, iter, walk, undefined, result>>
<1>1. call.op = "release" /\ call.count > 0 /\ l \in Live(List)
  BY DEF ReleaseNode, During, MInv, Locals, Idle
<1>2. Drains(l, at) /\ l \in List /\ l # NULL /\ l \in Live(Blocks)
  BY <1>1, Addresses DEF COrdered, InRelease, Live
<1>3. n # NULL
  <2>1. SUFFICES ASSUME n = NULL PROVE FALSE
    OBVIOUS
  <2>2. NodesOf(l) = {}
    BY <1>2, <2>1 DEF Drains
  <2>3. QED
    BY <1>1, <1>2, <2>2, FS_EmptySet DEF Drains
<1>4. n \in NodesOf(l) /\ n \in Node /\ owner[n] = l
  BY <1>2, <1>3 DEF Drains, NodesOf
<1>5. n \in Live(Blocks) /\ node[n].value \in values \cup {NULL}
  BY <1>2, <1>4, Addresses DEF MInv, Kept, Live
<1>6. {l, n} \cup Freed(l, node[n].value) \subseteq Live(Blocks) \cup values
  BY <1>2, <1>5 DEF Freed
<1>7. /\ Pass([call EXCEPT !.curr = node[n].next, !.count = @ - 1])
      /\ values' = values \ Freed(l, node[n].value)
      /\ Z!zfree(n)
      /\ node' = [node EXCEPT ![n] = BlankNode]
      /\ owner' = [owner EXCEPT ![n] = NULL]
      /\ UNCHANGED <<list, iter, walk, undefined>>
  BY <1>3, <1>6 DEF ReleaseNode, Step, Touching
<1>8. QED
  BY <1>1, <1>2, <1>4, <1>7 DEF Pass

\* A value that is freed is not held by another node.
LEMMA FreedOnce ==
  ASSUME Exclusive, NEW l, l # NULL, NEW n \in Node, owner[n] = l,
         NEW m \in Node, m # n, owner[m] # NULL, node[m].value # NULL
  PROVE  node[m].value \notin Freed(l, node[n].value)
  BY DEF Exclusive, Freed

LEMMA ReleaseNodeMInv ==
  ASSUME MInv, ReleaseNode PROVE MInv'
<1>1. PICK at \in [Node -> Int] : COrdered(at)
  BY DEF MInv
<1>2. PICK l : l = call.l
  OBVIOUS
<1>3. PICK n : n = call.curr
  OBVIOUS
<1>4. PICK q : q = node[n].next
  OBVIOUS
<1>5. /\ l \in Live(List) /\ l \in List /\ l # NULL /\ n \in NodesOf(l) /\ n \in Node
      /\ owner[n] = l /\ call.op = "release" /\ Drains(l, at)
      /\ call' = [call EXCEPT !.curr = q, !.count = call.count - 1]
      /\ values' = values \ Freed(l, node[n].value)
      /\ Z!zfree(n)
      /\ node' = [node EXCEPT ![n] = BlankNode]
      /\ owner' = [owner EXCEPT ![n] = NULL]
      /\ UNCHANGED <<list, iter, walk, undefined>>
  BY <1>1, <1>2, <1>3, <1>4, ReleaseNodeDoes
<1>6. PICK S \in SUBSET Node : S = NodesOf(l)
  BY DEF NodesOf
<1>7. /\ Z!TypeOK' /\ \A a \in Blocks : a # n => room'[a] = room[a]
      /\ Live(List)' = Live(List) /\ Live(Iter)' = Live(Iter)
  <2>1. Z!TypeOK' /\ \A a \in Blocks : a # n => room'[a] = room[a]
    <3>1. Z!TypeOK /\ n \in Blocks /\ Z!zfree(n)
      BY <1>5, Addresses DEF MInv, TypeOK
    <3>2. QED
      BY <3>1, Frees
  <2>2. QED
    BY <1>5, <2>1, Addresses DEF Live
<1>8. /\ \A k : k # l /\ k # NULL => NodesOf(k)' = NodesOf(k)
      /\ NodesOf(l)' = S \ {n}
      /\ \A m \in Node : m # n => owner'[m] = owner[m]
      /\ owner'[n] = NULL
  BY <1>5, <1>6 DEF NodesOf, MInv, TypeOK
<1>9. /\ DOMAIN call' = DOMAIN call /\ call'.op = "release" /\ call'.l = l /\ call'.curr = q
      /\ call'.count = call.count - 1 /\ call'.i = call.i /\ call'.copy = call.copy
  BY <1>2, <1>5 DEF MInv, Locals
<1>10. \A m \in Node : m # n => node'[m] = node[m]
  BY <1>5 DEF MInv, TypeOK
<1>11. TypeOK'
  <2>1. BlankNode \in [prev : Node \cup {NULL}, next : Node \cup {NULL}, value : Value \cup {NULL}]
    BY DEF BlankNode
  <2>2. node' \in [Node -> [prev : Node \cup {NULL}, next : Node \cup {NULL},
                            value : Value \cup {NULL}]]
    BY <1>5, <2>1 DEF MInv, TypeOK
  <2>3. owner' \in [Node -> List \cup {NULL}]
    BY <1>5 DEF MInv, TypeOK
  <2>4. QED
    BY <1>5, <1>7, <2>2, <2>3 DEF MInv, TypeOK
<1>12. Kept'
  <2>1. SUFFICES ASSUME NEW m \in Node, owner'[m] # NULL
                 PROVE  /\ room'[m] > 0 /\ owner'[m] \in Live(List)'
                        /\ node'[m].value \in values' \cup {NULL}
    BY DEF Kept
  <2>2. m # n /\ owner'[m] = owner[m] /\ node'[m] = node[m]
    BY <1>8, <1>10, <2>1
  <2>3. /\ room[m] > 0 /\ owner[m] \in Live(List) /\ node[m].value \in values \cup {NULL}
    BY <2>1, <2>2 DEF MInv, Kept
  <2>4. node[m].value # NULL => node[m].value \notin Freed(l, node[n].value)
    BY <1>5, <2>1, <2>2, FreedOnce DEF MInv
  <2>5. QED
    BY <1>5, <1>7, <2>2, <2>3, <2>4, Addresses
<1>13. Exclusive'
  <2>1. SUFFICES ASSUME NEW k \in Node, NEW m \in Node, m # k, owner'[m] # NULL, owner'[k] # NULL,
                        node'[m].value = node'[k].value, node'[k].value # NULL
                 PROVE  ~list'[owner'[m]].free /\ ~list'[owner'[k]].free
    BY DEF Exclusive
  <2>2. m # n /\ k # n /\ owner'[m] = owner[m] /\ owner'[k] = owner[k]
    BY <1>8, <2>1
  <2>3. node'[m] = node[m] /\ node'[k] = node[k]
    BY <1>10, <2>2
  <2>4. ~list[owner[m]].free /\ ~list[owner[k]].free
    BY <2>1, <2>2, <2>3 DEF MInv, Exclusive
  <2>5. QED
    BY <1>5, <2>2, <2>4
<1>14. ASSUME NEW k \in Live(List)', k # l PROVE Sorted(k, at)'
  <2>1. k \in Live(List) /\ k # NULL /\ ~InRelease(k)
    BY <1>2, <1>7, <1>14, Addresses DEF InRelease, Live
  <2>2. Sorted(k, at)
    BY <1>1, <2>1 DEF COrdered
  <2>3. NodesOf(k)' = NodesOf(k)
    BY <1>8, <1>14, <2>1
  <2>4. \A m \in NodesOf(k) : m \in Node /\ m # n
    BY <1>5, <1>14 DEF NodesOf
  <2>5. \A m \in NodesOf(k) : node'[m] = node[m]
    BY <1>10, <2>4
  <2>6. list'[k] = list[k]
    BY <1>5
  <2>7. QED
    BY <2>2, <2>3, <2>5, <2>6, SameList
<1>15. Drains(l, at)'
  <2>1. /\ Follows(S, at, n, q) /\ \A m \in S : at[n] <= at[m]
        /\ \A k, m \in S : at[k] = at[m] => k = m
        /\ \A m \in S : Follows(S, at, m, node[m].next)
        /\ call.count = Cardinality(S) /\ n \in S
    BY <1>3, <1>4, <1>5, <1>6, Addresses DEF Drains
  <2>2. NULL \notin S /\ \A m \in S : at[m] \in Int
    BY Addresses
  <2>3. PICK T : T = S \ {n}
    OBVIOUS
  <2>4. NodesOf(l)' = T
    BY <1>8, <2>3, Zenon
  <2>5. call'.count = Cardinality(T)
    <3>1. IsFiniteSet(S)
      BY AdlistAssumption, FS_Subset
    <3>2. Cardinality(S \ {n}) = Cardinality(S) - 1
      BY <2>1, <3>1, FS_RemoveElement
    <3>3. QED
      BY <1>9, <2>1, <2>3, <3>2
  <2>6. \A k, m \in T : at[k] = at[m] => k = m
    BY <2>1, <2>3
  <2>7. \A m \in T : at[n] < at[m]
    BY <2>1, <2>2, <2>3
  <2>8. q = NULL => T = {}
    <3>1. q = NULL => \A m \in S : at[m] <= at[n]
      BY <2>1, <2>2 DEF Follows
    <3>2. ASSUME q = NULL, NEW m \in T PROVE FALSE
      <4>1. m \in S /\ at[m] \in Int /\ at[n] \in Int
        BY <2>1, <2>2, <2>3, <3>2
      <4>2. at[n] < at[m] /\ at[m] <= at[n]
        BY <2>7, <3>1, <3>2, <4>1
      <4>3. QED
        BY <4>1, <4>2
    <3>3. QED
      BY <3>2
  <2>9. q # NULL => q \in T /\ \A m \in T : at[q] <= at[m]
    <3>1. q # NULL => q \in S /\ at[n] < at[q] /\ \A m \in S : at[m] <= at[n] \/ at[q] <= at[m]
      BY <2>1 DEF Follows
    <3>2. QED
      BY <2>1, <2>2, <2>3, <2>7, <3>1
  <2>10. ASSUME NEW m \in T PROVE Follows(T, at, m, node'[m].next)
    <3>1. PICK p : p = node[m].next
      OBVIOUS
    <3>2. m \in S /\ Follows(S, at, m, p) /\ at[n] < at[m] /\ node'[m].next = p
      BY <1>10, <2>1, <2>3, <2>7, <3>1
    <3>3. p \in S => p # n \/ ~(at[m] < at[p])
      BY <2>2, <3>2
    <3>4. Follows(T, at, m, p)
      BY <2>3, <3>2, <3>3 DEF Follows
    <3>5. QED
      BY <3>2, <3>4
  <2>11. QED
    BY <1>9, <2>4, <2>5, <2>6, <2>8, <2>9, <2>10 DEF Drains
<1>16. Live(Iter)' = {}
  BY <1>5, <1>7 DEF MInv, Locals
<1>17. COrdered(at)'
  BY <1>9, <1>14, <1>15, <1>16 DEF COrdered, InRelease
<1>18. Locals'
  BY <1>5, <1>7, <1>9, <1>16 DEF MInv, Locals, Idle
<1>19. QED
  BY <1>1, <1>5, <1>11, <1>12, <1>13, <1>17, <1>18 DEF MInv, NeverUndefined

LEMMA ReleaseListMInv ==
  ASSUME MInv, ReleaseList PROVE MInv'
<1>1. PICK at \in [Node -> Int] : COrdered(at)
  BY DEF MInv
<1>2. PICK l : l = call.l
  OBVIOUS
<1>3. call.op = "release" /\ call.count = 0 /\ l \in Live(List) /\ Live(Iter) = {}
  BY <1>2 DEF ReleaseList, During, MInv, Locals, Idle
<1>4. Drains(l, at) /\ l \in List /\ l # NULL /\ l \in Live(Blocks)
  BY <1>1, <1>2, <1>3, Addresses DEF COrdered, InRelease, Live
<1>5. NodesOf(l) = {}
  <2>1. IsFiniteSet(NodesOf(l))
    BY AdlistAssumption, FS_Subset DEF NodesOf
  <2>2. Cardinality(NodesOf(l)) = 0
    BY <1>3, <1>4 DEF Drains
  <2>3. QED
    BY <2>1, <2>2, FS_EmptySet
<1>6. /\ Z!zfree(l) /\ list' = [list EXCEPT ![l] = EmptyList] /\ call' = NoCall
      /\ UNCHANGED <<node, iter, values, owner, walk, undefined>>
  BY <1>2, <1>4 DEF ReleaseList, Step, Touching, Return
<1>7. Z!TypeOK' /\ room'[l] = 0 /\ \A a \in Blocks : a # l => room'[a] = room[a]
  <2>1. Z!TypeOK /\ l \in Blocks /\ Z!zfree(l)
    BY <1>4, <1>6, Addresses DEF MInv, TypeOK
  <2>2. QED
    BY <2>1, Frees
<1>8. /\ Live(List)' = Live(List) \ {l} /\ Live(Iter)' = {}
      /\ \A n \in Node : room'[n] = room[n]
  BY <1>3, <1>4, <1>7, Addresses DEF Live
<1>9. \A k : NodesOf(k)' = NodesOf(k)
  BY <1>6 DEF NodesOf
<1>10. \A k \in List : k # l => list'[k] = list[k]
  BY <1>6 DEF MInv, TypeOK
<1>11. TypeOK'
  BY <1>6, <1>7 DEF MInv, TypeOK, EmptyList
<1>12. \A n \in Node : owner[n] # l
  BY <1>5 DEF NodesOf
<1>13. Kept'
  BY <1>6, <1>8, <1>12 DEF MInv, Kept
<1>14. Exclusive'
  BY <1>6, <1>8, <1>10, <1>12 DEF MInv, Kept, Exclusive, Live
<1>15. ASSUME NEW k \in Live(List)' PROVE Sorted(k, at)'
  <2>1. k \in Live(List) /\ k # l /\ k \in List /\ ~InRelease(k)
    BY <1>2, <1>8 DEF InRelease, Live
  <2>2. Sorted(k, at) /\ list'[k] = list[k]
    BY <1>1, <1>10, <2>1 DEF COrdered
  <2>3. QED
    BY <1>6, <1>9, <2>2, SameList
<1>16. call'.op = "none"
  BY <1>6 DEF NoCall
<1>17. COrdered(at)'
  BY <1>8, <1>15, <1>16 DEF COrdered, InRelease
<1>18. Locals'
  BY <1>6, <1>8 DEF Locals, Idle, NoCall
<1>19. QED
  BY <1>1, <1>6, <1>11, <1>13, <1>14, <1>17, <1>18 DEF MInv, NeverUndefined

-----------------------------------------------------------------------------
(* listSearchKey and listIndex.                                            *)

\* What listGetIterator, listNext and listReleaseIter leave alone.
LEMMA IteratorStarts ==
  ASSUME IInv, NEW l \in Live(List), NEW i \in Iter, listGetIterator(l, i, FORWARD)
  PROVE  /\ Live(List)' = Live(List) /\ Live(Node)' = Live(Node)
         /\ Live(Iter)' = Live(Iter) \cup {i} /\ i \notin Live(Iter) /\ room[i] = 0
         /\ walk'[i] = [on |-> l, todo |-> NodesOf(l), seen |-> {}]
         /\ iter'[i] = [next |-> list[l].head, direction |-> FORWARD]
         /\ \A j \in Iter : j # i => iter'[j] = iter[j] /\ walk'[j] = walk[j]
         /\ Z!zmalloc(i, SizeofIter)
         /\ UNCHANGED <<list, node, values, owner, undefined>>
<1>1. /\ Z!zmalloc(i, SizeofIter)
      /\ iter' = [iter EXCEPT ![i] = [next |-> EndOf(l, FORWARD), direction |-> FORWARD]]
      /\ Start(i, l)
      /\ UNCHANGED <<list, node, values, owner, undefined>>
  BY Addresses DEF listGetIterator, Touching, Live
<1>2. room[i] = 0 /\ room'[i] > 0 /\ \A a \in Blocks : a # i => room'[a] = room[a]
  <2>1. Z!TypeOK /\ i \in Blocks /\ SizeofIter \in Sizes /\ Z!zmalloc(i, SizeofIter)
    BY <1>1, Addresses DEF IInv, TypeOK, Sizes
  <2>2. QED
    BY <2>1, Allocates
<1>3. /\ Live(List)' = Live(List) /\ Live(Node)' = Live(Node)
      /\ Live(Iter)' = Live(Iter) \cup {i} /\ i \notin Live(Iter)
  BY <1>2, Addresses DEF Live
<1>4. /\ walk'[i] = [on |-> l, todo |-> NodesOf(l), seen |-> {}]
      /\ iter'[i] = [next |-> list[l].head, direction |-> FORWARD]
      /\ \A j \in Iter : j # i => iter'[j] = iter[j] /\ walk'[j] = walk[j]
  BY <1>1 DEF Start, EndOf, IInv, TypeOK
<1>5. QED
  BY <1>1, <1>2, <1>3, <1>4

LEMMA IteratorMoves ==
  ASSUME IInv, NEW i \in Live(Iter), NEW n, n = iter[i].next, iter[i].direction = FORWARD,
         listNext(i)
  PROVE  /\ Live(List)' = Live(List) /\ Live(Node)' = Live(Node) /\ Live(Iter)' = Live(Iter)
         /\ n \in NodesOf(walk[i].on) /\ n \in Node /\ n # NULL
         /\ walk'[i] = [on |-> walk[i].on, todo |-> walk[i].todo \ {n},
                        seen |-> walk[i].seen \cup {n}]
         /\ iter'[i] = [next |-> node[n].next, direction |-> FORWARD]
         /\ \A j \in Iter : j # i => iter'[j] = iter[j] /\ walk'[j] = walk[j]
         /\ UNCHANGED <<heap, list, node, values, owner, undefined>>
<1>1. PICK at \in [Node -> Int] : Ordered(at)
  BY DEF IInv
<1>2. n # NULL /\ Walks(i, at) /\ i \in Iter
  BY <1>1 DEF listNext, Ordered, Live
<1>3. n \in NodesOf(walk[i].on) /\ walk[i].on # NULL
  BY <1>2, Addresses DEF Walks, Live
<1>4. n \in Node /\ n \in Live(Blocks) /\ i \in Live(Blocks)
  BY <1>2, <1>3, Addresses DEF NodesOf, IInv, Kept, Live
<1>5. /\ iter' = [iter EXCEPT ![i].next = node[n].next]
      /\ walk' = [walk EXCEPT ![i].todo = @ \ {n}, ![i].seen = @ \cup {n}]
      /\ UNCHANGED <<heap, list, node, values, owner, undefined>>
  BY <1>4 DEF listNext, Touching
<1>6. /\ walk[i] \in [on : List \cup {NULL}, todo : SUBSET Node, seen : SUBSET Node]
      /\ iter[i] \in [next : Node \cup {NULL}, direction : {FORWARD, BACKWARD}]
      /\ DOMAIN walk = Iter /\ DOMAIN iter = Iter
  BY <1>2 DEF IInv, TypeOK
<1>7. walk'[i] = [on |-> walk[i].on, todo |-> walk[i].todo \ {n}, seen |-> walk[i].seen \cup {n}]
  BY <1>2, <1>5, <1>6
<1>8. iter'[i] = [next |-> node[n].next, direction |-> FORWARD]
  BY <1>2, <1>5, <1>6
<1>9. \A j \in Iter : j # i => iter'[j] = iter[j] /\ walk'[j] = walk[j]
  BY <1>5, <1>6
<1>10. QED
  BY <1>2, <1>3, <1>4, <1>5, <1>7, <1>8, <1>9 DEF heap, Live

LEMMA IteratorEnds ==
  ASSUME IInv, NEW i \in Iter, listReleaseIter(i)
  PROVE  /\ Live(List)' = Live(List) /\ Live(Node)' = Live(Node)
         /\ Live(Iter)' = Live(Iter) \ {i}
         /\ \A j \in Iter : j # i => iter'[j] = iter[j] /\ walk'[j] = walk[j]
         /\ Z!zfree(i)
         /\ UNCHANGED <<list, node, values, owner, undefined>>
<1>1. /\ Z!zfree(i) /\ iter' = [iter EXCEPT ![i] = BlankIter]
      /\ walk' = [walk EXCEPT ![i] = BlankWalk]
      /\ UNCHANGED <<list, node, values, owner, undefined>>
  BY Addresses DEF listReleaseIter, Touching, Live
<1>2. room'[i] = 0 /\ \A a \in Blocks : a # i => room'[a] = room[a]
  <2>1. Z!TypeOK /\ i \in Blocks /\ Z!zfree(i)
    BY <1>1, Addresses DEF IInv, TypeOK
  <2>2. QED
    BY <2>1, Frees
<1>3. /\ Live(List)' = Live(List) /\ Live(Node)' = Live(Node) /\ Live(Iter)' = Live(Iter) \ {i}
  BY <1>2, Addresses DEF Live
<1>4. \A j \in Iter : j # i => iter'[j] = iter[j] /\ walk'[j] = walk[j]
  BY <1>1 DEF IInv, TypeOK
<1>5. QED
  BY <1>1, <1>3, <1>4

LEMMA SearchMInv ==
  ASSUME MInv, NEW l \in Live(List), NEW i \in Iter, NEW key, listSearchKey(l, i, key)
  PROVE  MInv'
<1>1. /\ call.op = "none" /\ call' = [NoCall EXCEPT !.op = "search", !.l = l, !.i = i, !.key = key]
      /\ listGetIterator(l, i, FORWARD)
  BY DEF listSearchKey, Begin, Idle
<1>2. IInv /\ Locals
  BY <1>1, WithoutRelease
<1>3. IInv'
  BY <1>1, <1>2, GetIteratorIInv
<1>4. /\ call'.op = "search" /\ call'.l = l /\ call'.i = i /\ call'.copy = NULL
      /\ DOMAIN call' = {"op", "l", "curr", "count", "i", "key", "copy", "had"}
  BY <1>1 DEF NoCall
<1>5. Live(Iter) = {}
  BY <1>1, <1>2 DEF Locals
<1>6. /\ Live(List)' = Live(List) /\ Live(Iter)' = {i}
      /\ walk'[i].on = l /\ iter'[i].direction = FORWARD
  <2>1. /\ Live(List)' = Live(List) /\ Live(Iter)' = Live(Iter) \cup {i}
        /\ walk'[i] = [on |-> l, todo |-> NodesOf(l), seen |-> {}]
        /\ iter'[i] = [next |-> list[l].head, direction |-> FORWARD]
    BY <1>1, <1>2, IteratorStarts
  <2>2. QED
    BY <1>5, <2>1
<1>7. Locals'
  BY <1>4, <1>6 DEF Locals, Idle
<1>8. QED
  BY <1>3, <1>4, <1>7, WithoutReleaseNext

LEMMA SearchMissMInv ==
  ASSUME MInv, SearchMiss PROVE MInv'
<1>1. call.op = "search" /\ listNext(call.i) /\ call' = call /\ call'.op # "release"
  BY DEF SearchMiss, During
<1>2. IInv /\ Locals
  BY <1>1, WithoutRelease
<1>3. PICK i : i = call.i
  OBVIOUS
<1>4. /\ i \in Iter /\ Live(Iter) = {i} /\ listNext(i)
      /\ walk[i].on = call.l /\ iter[i].direction = FORWARD
  BY <1>1, <1>2, <1>3 DEF Locals
<1>5. IInv'
  BY <1>2, <1>4, NextNodeIInv
<1>6. PICK n : n = iter[i].next
  OBVIOUS
<1>7. /\ Live(List)' = Live(List) /\ Live(Iter)' = {i}
      /\ walk'[i].on = call.l /\ iter'[i].direction = FORWARD
  <2>1. i \in Live(Iter)
    BY <1>4
  <2>2. /\ Live(List)' = Live(List) /\ Live(Iter)' = Live(Iter)
        /\ walk'[i] = [on |-> walk[i].on, todo |-> walk[i].todo \ {n},
                       seen |-> walk[i].seen \cup {n}]
        /\ iter'[i] = [next |-> node[n].next, direction |-> FORWARD]
    BY <1>2, <1>4, <1>6, <2>1, IteratorMoves
  <2>3. QED
    BY <1>4, <2>2
<1>8. Locals'
  BY <1>1, <1>2, <1>3, <1>4, <1>7 DEF Locals, Idle
<1>9. QED
  BY <1>1, <1>5, <1>8, WithoutReleaseNext

\* A call that has no iterator any more, and returns.
LEMMA Returned ==
  ASSUME call' = NoCall, Live(Iter)' = {} PROVE Locals' /\ call'.op # "release"
  BY DEF Locals, Idle, NoCall

LEMMA SearchReturnMInv ==
  ASSUME MInv, SearchReturn PROVE MInv'
<1>1. call.op = "search" /\ listReleaseIter(call.i) /\ call' = NoCall
  BY DEF SearchReturn, During, Return
<1>2. IInv /\ Locals
  BY <1>1, WithoutRelease
<1>3. PICK i : i = call.i
  OBVIOUS
<1>4. i \in Iter /\ Live(Iter) = {i} /\ listReleaseIter(i)
  BY <1>1, <1>2, <1>3 DEF Locals
<1>5. IInv' /\ Live(Iter)' = {}
  BY <1>2, <1>4, ReleaseIterIInv, IteratorEnds
<1>6. QED
  BY <1>1, <1>5, Returned, WithoutReleaseNext

LEMMA IndexMInv ==
  ASSUME MInv, NEW l \in Live(List), NEW index, listIndex(l, index) PROVE MInv'
<1>1. /\ call.op = "none"
      /\ call' = [NoCall EXCEPT !.op = "index", !.l = l, !.key = index, !.curr = list[l].head]
      /\ UNCHANGED structs /\ UNCHANGED undefined
  BY Addresses DEF listIndex, Step, Touching, Begin, Live, Idle
<1>2. IInv /\ Locals
  BY <1>1, WithoutRelease
<1>3. IInv'
  BY <1>1, <1>2, NothingChanges DEF structs, heap, IInv, TypeOK, Z!TypeOK
<1>4. /\ call'.op = "index" /\ call'.l = l /\ call'.curr = list[l].head /\ call'.copy = NULL
      /\ DOMAIN call' = {"op", "l", "curr", "count", "i", "key", "copy", "had"}
  BY <1>1 DEF NoCall
<1>5. /\ Live(List)' = Live(List) /\ Live(Iter)' = {} /\ NodesOf(l)' = NodesOf(l)
  BY <1>1, <1>2 DEF structs, heap, Live, Locals, NodesOf
<1>6. list[l].head \in NodesOf(l) \cup {NULL}
  BY <1>2 DEF IInv, Ordered, Sorted
<1>7. Locals'
  BY <1>4, <1>5, <1>6 DEF Locals, Idle
<1>8. QED
  BY <1>3, <1>4, <1>7, WithoutReleaseNext

LEMMA IndexNextDoes ==
  ASSUME MInv, IndexNext
  PROVE  /\ IInv /\ Locals /\ call.op = "index" /\ call.curr \in NodesOf(call.l)
         /\ call.l \in Live(List) /\ call.curr # NULL /\ call.count # call.key
         /\ call' = [call EXCEPT !.curr = node[call.curr].next, !.count = call.count + 1]
         /\ UNCHANGED <<structs, undefined, result>>
<1>1. call.op = "index" /\ call.curr # NULL /\ call.count # call.key
  BY DEF IndexNext, During
<1>2. IInv /\ Locals
  BY <1>1, WithoutRelease
<1>3. call.curr \in NodesOf(call.l) /\ call.l \in Live(List)
  BY <1>1, <1>2 DEF Locals, Idle
<1>4. call.curr \in Live(Blocks)
  BY <1>2, <1>3, Addresses DEF NodesOf, IInv, Kept, Live
<1>5. /\ call' = [call EXCEPT !.curr = node[call.curr].next, !.count = call.count + 1]
      /\ UNCHANGED <<structs, undefined, result>>
  BY <1>4 DEF IndexNext, Step, Touching, Pass
<1>6. QED
  BY <1>1, <1>2, <1>3, <1>5

LEMMA IndexNextMInv ==
  ASSUME MInv, IndexNext PROVE MInv'
<1>1. /\ IInv /\ Locals /\ call.op = "index" /\ call.curr \in NodesOf(call.l)
      /\ call.l \in Live(List) /\ call.curr # NULL
      /\ call' = [call EXCEPT !.curr = node[call.curr].next, !.count = call.count + 1]
      /\ UNCHANGED <<structs, undefined, result>>
  BY IndexNextDoes
<1>2. IInv'
  BY <1>1, NothingChanges DEF structs, heap, IInv, TypeOK, Z!TypeOK
<1>3. PICK l : l = call.l
  OBVIOUS
<1>4. PICK q : q = node[call.curr].next
  OBVIOUS
<1>5. /\ call'.op = "index" /\ call'.l = l /\ call'.curr = q /\ call'.copy = NULL
      /\ DOMAIN call' = {"op", "l", "curr", "count", "i", "key", "copy", "had"}
  BY <1>1, <1>3, <1>4 DEF Locals
<1>6. /\ Live(List)' = Live(List) /\ Live(Iter)' = {} /\ NodesOf(l)' = NodesOf(l)
  BY <1>1 DEF structs, heap, Live, Locals, NodesOf
<1>7. q \in NodesOf(l) \cup {NULL}
  BY <1>1, <1>3, <1>4 DEF IInv, Ordered, Sorted, Follows
<1>8. Locals'
  BY <1>1, <1>3, <1>5, <1>6, <1>7 DEF Locals, Idle
<1>9. QED
  BY <1>2, <1>5, <1>8, WithoutReleaseNext

LEMMA IndexReturnMInv ==
  ASSUME MInv, IndexReturn PROVE MInv'
<1>1. call.op = "index" /\ call' = NoCall /\ UNCHANGED vars
  BY DEF IndexReturn, During, Return
<1>2. IInv /\ Locals
  BY <1>1, WithoutRelease
<1>3. IInv'
  BY <1>1, <1>2, NothingChanges DEF vars, heap, IInv, TypeOK, Z!TypeOK
<1>4. Live(Iter)' = {}
  BY <1>1, <1>2 DEF vars, heap, Live, Locals
<1>5. QED
  BY <1>1, <1>3, <1>4, Returned, WithoutReleaseNext

-----------------------------------------------------------------------------
(* listDup, and every step.                                                *)

\* The empty copy.
CopyOf(orig) == [EmptyList EXCEPT !.dup = list[orig].dup, !.free = list[orig].free,
                                  !.match = list[orig].match]

LEMMA DupDoes ==
  ASSUME MInv, NEW orig \in Live(List), NEW copy \in List, listDup(orig, copy)
  PROVE  /\ IInv /\ Locals /\ call.op = "none" /\ MayDup(orig)
         /\ Z!zmalloc(copy, SizeofList) /\ list' = [list EXCEPT ![copy] = CopyOf(orig)]
         /\ call' = [NoCall EXCEPT !.op = "dup", !.l = orig, !.copy = copy,
                                   !.had = Live(Blocks) \cup values]
         /\ result' = NULL
         /\ UNCHANGED <<node, iter, values, undefined, owner, walk>>
         /\ IInv' /\ room[copy] = 0 /\ copy # orig
         /\ Live(List)' = Live(List) \cup {copy} /\ copy \notin Live(List)
         /\ Live(Node)' = Live(Node) /\ Live(Iter)' = Live(Iter)
<1>1. /\ call.op = "none" /\ MayDup(orig)
      /\ Z!zmalloc(copy, SizeofList) /\ list' = [list EXCEPT ![copy] = CopyOf(orig)]
      /\ call' = [NoCall EXCEPT !.op = "dup", !.l = orig, !.copy = copy,
                                !.had = Live(Blocks) \cup values]
      /\ result' = NULL
      /\ UNCHANGED <<node, iter, values, undefined, owner, walk>>
  BY Addresses DEF listDup, Step, Touching, Begin, Idle, Live, CopyOf
<1>2. IInv /\ Locals
  BY <1>1, WithoutRelease
<1>3. PICK r : r = CopyOf(orig)
  OBVIOUS
<1>4. /\ r \in [head : Node \cup {NULL}, tail : Node \cup {NULL}, len : Nat,
                dup : BOOLEAN, free : BOOLEAN, match : BOOLEAN]
      /\ r.head = NULL /\ r.tail = NULL /\ r.len = 0
  <2>1. orig \in List
    BY DEF Live
  <2>2. list[orig].dup \in BOOLEAN /\ list[orig].free \in BOOLEAN /\ list[orig].match \in BOOLEAN
    BY <1>2, <2>1 DEF IInv, TypeOK
  <2>3. QED
    BY <1>3, <2>2 DEF CopyOf, EmptyList
<1>5. list' = [list EXCEPT ![copy] = r]
  BY <1>1, <1>3
<1>6. /\ IInv' /\ room[copy] = 0
      /\ Live(List)' = Live(List) \cup {copy} /\ copy \notin Live(List)
      /\ Live(Node)' = Live(Node) /\ Live(Iter)' = Live(Iter)
  BY <1>1, <1>2, <1>4, <1>5, CreatesIInv
<1>7. QED
  BY <1>1, <1>2, <1>6

LEMMA DupMInv ==
  ASSUME MInv, NEW orig \in Live(List), NEW copy \in List, listDup(orig, copy) PROVE MInv'
<1>1. /\ IInv /\ Locals /\ call.op = "none" /\ MayDup(orig)
      /\ list' = [list EXCEPT ![copy] = CopyOf(orig)]
      /\ call' = [NoCall EXCEPT !.op = "dup", !.l = orig, !.copy = copy,
                                !.had = Live(Blocks) \cup values]
      /\ IInv' /\ copy # orig
      /\ Live(List)' = Live(List) \cup {copy} /\ Live(Iter)' = Live(Iter)
  BY DupDoes
<1>2. /\ call'.op = "dup" /\ call'.l = orig /\ call'.i = NULL /\ call'.copy = copy
      /\ DOMAIN call' = {"op", "l", "curr", "count", "i", "key", "copy", "had"}
  BY <1>1 DEF NoCall
<1>3. list'[orig] = list[orig] /\ list'[copy] = CopyOf(orig)
  BY <1>1 DEF IInv, TypeOK, Live
<1>4. /\ list'[copy].dup = list'[orig].dup /\ list'[copy].free = list'[orig].free
      /\ MayDup(orig)'
  <2>1. CopyOf(orig).dup = list[orig].dup /\ CopyOf(orig).free = list[orig].free
    BY DEF CopyOf, EmptyList
  <2>2. MayDup(orig)'
    BY <1>1, <1>3 DEF MayDup
  <2>3. QED
    BY <1>3, <2>1, <2>2
<1>5. Live(Iter)' = {}
  BY <1>1 DEF Locals
<1>6. Locals'
  <2>1. MayDup(call.l)'
    BY <1>2, <1>4 DEF MayDup
  <2>2. QED
    BY <1>1, <1>2, <1>4, <1>5, <2>1 DEF Locals, Idle
<1>7. QED
  BY <1>1, <1>2, <1>6, WithoutReleaseNext

LEMMA DupIteratorMInv ==
  ASSUME MInv, NEW i \in Iter, DupIterator(i) PROVE MInv'
<1>1. /\ call.op = "dup" /\ call.i = NULL /\ listGetIterator(call.l, i, FORWARD)
      /\ call' = [call EXCEPT !.i = i]
  BY DEF DupIterator, During, Pass
<1>2. IInv /\ Locals
  BY <1>1, WithoutRelease
<1>3. PICK l : l = call.l
  OBVIOUS
<1>4. l \in Live(List) /\ Live(Iter) = {} /\ listGetIterator(l, i, FORWARD)
  BY <1>1, <1>2, <1>3 DEF Locals, Idle
<1>5. IInv'
  BY <1>2, <1>4, GetIteratorIInv
<1>6. /\ Live(List)' = Live(List) /\ Live(Iter)' = {i} /\ list' = list
      /\ walk'[i].on = l /\ iter'[i].direction = FORWARD
  <2>1. /\ Live(List)' = Live(List) /\ Live(Iter)' = Live(Iter) \cup {i} /\ list' = list
        /\ walk'[i] = [on |-> l, todo |-> NodesOf(l), seen |-> {}]
        /\ iter'[i] = [next |-> list[l].head, direction |-> FORWARD]
    BY <1>2, <1>4, IteratorStarts
  <2>2. QED
    BY <1>4, <2>1
<1>7. /\ call'.op = "dup" /\ call'.l = l /\ call'.i = i /\ call'.copy = call.copy
      /\ DOMAIN call' = {"op", "l", "curr", "count", "i", "key", "copy", "had"}
  BY <1>1, <1>2, <1>3 DEF Locals
<1>8. i # NULL
  BY Addresses
<1>9. Locals'
  <2>1. MayDup(call.l)'
    BY <1>1, <1>2, <1>3, <1>6, <1>7 DEF MayDup, Locals
  <2>2. QED
    BY <1>1, <1>2, <1>3, <1>4, <1>6, <1>7, <1>8, <2>1 DEF Locals, Idle
<1>10. QED
  BY <1>5, <1>7, <1>9, WithoutReleaseNext

\* What one pass of the loop of listDup finds and does.
CopiesNode(l, c, i, o, n, v) ==
  /\ IInv /\ Locals /\ call.op = "dup"
  /\ l \in Live(List) /\ c \in Live(List) /\ c # l /\ l # NULL /\ c # NULL
  /\ i \in Iter /\ Live(Iter) = {i} /\ walk[i].on = l /\ iter[i].direction = FORWARD
  /\ o \in NodesOf(l) /\ o \in Node /\ o # NULL
  /\ IF list[c].dup
       THEN /\ node[o].value # NULL
            /\ v \in Value \ values /\ Content[v] = Content[node[o].value]
       ELSE v = node[o].value
  /\ LinkTail(c, n, v)
  /\ iter' = [iter EXCEPT ![i].next = node[o].next]
  /\ walk' = [walk EXCEPT ![i].todo = @ \ {o}, ![i].seen = @ \cup {o}]
  /\ values' = IF list[c].dup THEN values \cup {v} ELSE values
  /\ UNCHANGED <<call, result, undefined>>

LEMMA DupNodeDoes ==
  ASSUME MInv, NEW n \in Node, NEW v \in Value \cup {NULL}, DupNode(n, v),
         NEW l, l = call.l, NEW c, c = call.copy, NEW i, i = call.i, NEW o, o = iter[i].next
  PROVE  CopiesNode(l, c, i, o, n, v)
<1>1. /\ call.op = "dup" /\ i # NULL /\ o # NULL
      /\ IF list[c].dup
           THEN /\ node[o].value # NULL
                /\ v \in Value \ values /\ Content[v] = Content[node[o].value]
           ELSE v = node[o].value
      /\ Step({i, o, c} \cup ({list[c].tail} \ {NULL}),
          /\ LinkTail(c, n, v)
          /\ iter' = [iter EXCEPT ![i].next = node[o].next]
          /\ walk' = [walk EXCEPT ![i].todo = @ \ {o}, ![i].seen = @ \cup {o}]
          /\ values' = IF list[c].dup THEN values \cup {v} ELSE values
          /\ UNCHANGED <<call, result>>)
  BY DEF DupNode, During
<1>2. IInv /\ Locals
  BY <1>1, WithoutRelease
<1>3. PICK at \in [Node -> Int] : Ordered(at)
  BY <1>2 DEF IInv
<1>4. /\ l \in Live(List) /\ c \in Live(List) /\ c # l
      /\ i \in Iter /\ Live(Iter) = {i} /\ walk[i].on = l /\ iter[i].direction = FORWARD
  BY <1>1, <1>2 DEF Locals, Idle
<1>5. l # NULL /\ c # NULL /\ i \in Live(Iter)
  BY <1>4, Addresses DEF Live
<1>6. o \in NodesOf(l) /\ o \in Node
  BY <1>1, <1>3, <1>4, <1>5 DEF Ordered, Walks, NodesOf
<1>7. o \in Live(Blocks) /\ i \in Live(Blocks) /\ c \in Live(Blocks)
  BY <1>2, <1>4, <1>5, <1>6, Addresses DEF NodesOf, IInv, Kept, Live
<1>8. list[c].tail # NULL => list[c].tail \in Live(Blocks)
  <2>1. list[c].tail # NULL => list[c].tail \in Node /\ owner[list[c].tail] = c
    BY <1>3, <1>4 DEF Ordered, Sorted, NodesOf
  <2>2. QED
    BY <1>2, <1>5, <2>1, Addresses DEF IInv, Kept, Live
<1>9. /\ LinkTail(c, n, v)
      /\ iter' = [iter EXCEPT ![i].next = node[o].next]
      /\ walk' = [walk EXCEPT ![i].todo = @ \ {o}, ![i].seen = @ \cup {o}]
      /\ values' = IF list[c].dup THEN values \cup {v} ELSE values
      /\ UNCHANGED <<call, result, undefined>>
  BY <1>1, <1>7, <1>8 DEF Step, Touching
<1>10. QED
  BY <1>1, <1>2, <1>4, <1>5, <1>6, <1>9 DEF CopiesNode

\* The copy frees its values only if each was made for it.
LEMMA CopiesOwn ==
  ASSUME IInv, NEW b \in [Node -> Int], NEW l \in Live(List), NEW c \in Live(List), c # l,
         NEW n \in Node, NEW v, Adds(c, n, v, b), NEW o \in Node, owner[o] = l,
         list[c].free => list[c].dup, list[c].free = list[l].free,
         IF list[c].dup THEN v \in Value \ values ELSE v = node[o].value
  PROVE  Exclusive'
<1>1. /\ owner[n] = NULL /\ owner'[n] = c /\ node'[n].value = v
      /\ \A m \in Node : m # n => owner'[m] = owner[m] /\ node'[m].value = node[m].value
  BY DEF Adds, IInv, TypeOK
<1>2. \A k \in List : list'[k].free = list[k].free
  BY DEF Adds
<1>3. \A m \in Node : owner[m] # NULL => owner[m] \in List
  BY DEF IInv, TypeOK
<1>4. c \in List /\ l \in List /\ l # NULL /\ c # NULL
  BY Addresses DEF Live
<1>5. ASSUME NEW m \in Node, m # n, owner[m] # NULL, node[m].value = v, v # NULL
      PROVE  ~list[owner[m]].free /\ ~list[c].free
  <2>1. v \in values
    BY <1>5, Addresses DEF IInv, Kept
  <2>2. v = node[o].value /\ ~list[c].free /\ ~list[l].free
    BY <2>1
  <2>3. CASE m = o
    BY <2>2, <2>3
  <2>4. CASE m # o
    BY <1>4, <1>5, <2>2, <2>4 DEF IInv, Exclusive
  <2>5. QED
    BY <2>3, <2>4
<1>6. SUFFICES ASSUME NEW k \in Node, NEW m \in Node, m # k, owner'[m] # NULL, owner'[k] # NULL,
                      node'[m].value = node'[k].value, node'[k].value # NULL
               PROVE  ~list'[owner'[m]].free /\ ~list'[owner'[k]].free
  BY DEF Exclusive
<1>7. CASE m = n
  BY <1>1, <1>2, <1>3, <1>4, <1>5, <1>6, <1>7
<1>8. CASE k = n
  BY <1>1, <1>2, <1>3, <1>4, <1>5, <1>6, <1>8
<1>9. CASE m # n /\ k # n
  <2>1. ~list[owner[m]].free /\ ~list[owner[k]].free
    BY <1>1, <1>6, <1>9 DEF IInv, Exclusive
  <2>2. QED
    BY <1>1, <1>2, <1>3, <1>6, <1>9, <2>1
<1>10. QED
  BY <1>7, <1>8, <1>9

LEMMA DupNodeMInv ==
  ASSUME MInv, NEW n \in Node, NEW v \in Value \cup {NULL}, DupNode(n, v)
  PROVE  /\ MInv'
         /\ \E b \in [Node -> Int] :
              /\ Ordered(b) /\ Ordered(b)' /\ Adds(call.copy, n, v, b)
              /\ \A m \in NodesOf(call.copy) : b[m] < b[n]
<1>1. PICK l : l = call.l
  OBVIOUS
<1>2. PICK c : c = call.copy
  OBVIOUS
<1>3. PICK i : i = call.i
  OBVIOUS
<1>4. PICK o : o = iter[i].next
  OBVIOUS
<1>5. /\ IInv /\ Locals /\ call.op = "dup"
      /\ l \in Live(List) /\ c \in Live(List) /\ c # l /\ l # NULL /\ c # NULL
      /\ i \in Iter /\ Live(Iter) = {i} /\ walk[i].on = l /\ iter[i].direction = FORWARD
      /\ o \in NodesOf(l) /\ o \in Node /\ o # NULL
      /\ IF list[c].dup
           THEN /\ node[o].value # NULL
                /\ v \in Value \ values /\ Content[v] = Content[node[o].value]
           ELSE v = node[o].value
      /\ LinkTail(c, n, v)
      /\ iter' = [iter EXCEPT ![i].next = node[o].next]
      /\ walk' = [walk EXCEPT ![i].todo = @ \ {o}, ![i].seen = @ \cup {o}]
      /\ values' = IF list[c].dup THEN values \cup {v} ELSE values
      /\ UNCHANGED <<call, result, undefined>>
  <2>1. CopiesNode(l, c, i, o, n, v)
    BY <1>1, <1>2, <1>3, <1>4, DupNodeDoes
  <2>2. QED
    BY <2>1 DEF CopiesNode
<1>6. PICK b \in [Node -> Int] : /\ Ordered(b) /\ Adds(c, n, v, b)
                                 /\ \A m \in NodesOf(c) : b[m] < b[n]
  BY <1>5, AddTailDoes
<1>7. /\ Live(List)' = Live(List) /\ Live(Iter)' = Live(Iter)
      /\ NodesOf(l)' = NodesOf(l)
  BY <1>5, <1>6, AddsToOne
<1>8. /\ list[c].dup = list[l].dup /\ list[c].free = list[l].free /\ MayDup(l)
  BY <1>1, <1>2, <1>5 DEF Locals
<1>9. owner[o] = l /\ Sorted(l, b) /\ Walks(i, b)
  BY <1>5, <1>6 DEF NodesOf, Ordered
<1>10. list[l].len # 0
  <2>1. PICK S \in SUBSET Node : S = NodesOf(l)
    BY DEF NodesOf
  <2>2. IsFiniteSet(S) /\ o \in S
    BY <1>5, <2>1, AdlistAssumption, FS_Subset
  <2>3. Cardinality(S) # 0
    BY <2>2, FS_EmptySet
  <2>4. QED
    BY <1>9, <2>1, <2>3 DEF Sorted
<1>11. Exclusive'
  <2>1. list[c].free => list[c].dup
    BY <1>8, <1>10 DEF MayDup
  <2>2. IF list[c].dup THEN v \in Value \ values ELSE v = node[o].value
    BY <1>5
  <2>3. QED
    BY <1>5, <1>6, <1>8, <1>9, <2>1, <2>2, CopiesOwn
<1>12. /\ iter[i] \in [next : Node \cup {NULL}, direction : {FORWARD, BACKWARD}]
       /\ walk[i] \in [on : List \cup {NULL}, todo : SUBSET Node, seen : SUBSET Node]
       /\ node[o].next \in Node \cup {NULL}
       /\ DOMAIN iter = Iter /\ DOMAIN walk = Iter
       /\ iter \in [Iter -> [next : Node \cup {NULL}, direction : {FORWARD, BACKWARD}]]
       /\ walk \in [Iter -> [on : List \cup {NULL}, todo : SUBSET Node, seen : SUBSET Node]]
  BY <1>5 DEF IInv, TypeOK
<1>13. PICK r \in [next : Node \cup {NULL}, direction : {FORWARD, BACKWARD}] :
          r = [next |-> node[o].next, direction |-> FORWARD]
  BY <1>12
<1>14. PICK w \in [on : List \cup {NULL}, todo : SUBSET Node, seen : SUBSET Node] :
          /\ walk' = [walk EXCEPT ![i] = w]
          /\ w.on = l /\ w.todo = walk[i].todo \ {o} /\ w.seen = walk[i].seen \cup {o}
  <2>1. PICK w : w = [walk[i] EXCEPT !.todo = walk[i].todo \ {o}, !.seen = walk[i].seen \cup {o}]
    OBVIOUS
  <2>2. walk[i].on = l /\ o \in Node
    BY <1>5
  <2>3. /\ w \in [on : List \cup {NULL}, todo : SUBSET Node, seen : SUBSET Node]
        /\ w.on = l /\ w.todo = walk[i].todo \ {o} /\ w.seen = walk[i].seen \cup {o}
    BY <1>12, <2>1, <2>2
  <2>4. walk' = [walk EXCEPT ![i] = w]
    BY <1>5, <1>12, <2>1
  <2>5. QED
    BY <2>3, <2>4
<1>15. iter' = [iter EXCEPT ![i] = r] /\ walk' = [walk EXCEPT ![i] = w]
  <2>1. iter' = [iter EXCEPT ![i] = r]
    <3>1. r = [iter[i] EXCEPT !.next = node[o].next]
      BY <1>5, <1>12, <1>13
    <3>2. QED
      BY <1>5, <3>1
  <2>2. QED
    BY <1>14, <2>1
<1>16. /\ iter' \in [Iter -> [next : Node \cup {NULL}, direction : {FORWARD, BACKWARD}]]
       /\ walk' \in [Iter -> [on : List \cup {NULL}, todo : SUBSET Node, seen : SUBSET Node]]
       /\ iter'[i] = r /\ walk'[i] = w
  <2>1. i \in Iter
    BY <1>5
  <2>2. QED
    BY <1>12, <1>15, <2>1
<1>17. Walks(i, b)'
  <2>1. PICK S \in SUBSET Node : S = NodesOf(l)
    BY DEF NodesOf
  <2>2. PICK q : q = node[o].next
    OBVIOUS
  <2>3. /\ \A k, m \in S : b[k] = b[m] => k = m
        /\ Follows(S, b, o, node[o].next) /\ Precedes(S, b, o, node[o].prev)
    BY <1>5, <1>9, <2>1 DEF Sorted
  <2>4. /\ iter'[i].next = q /\ iter'[i].direction = iter[i].direction
        /\ walk'[i].on = l /\ walk'[i].todo = walk[i].todo \ {o}
        /\ walk'[i].seen = walk[i].seen \cup {o}
    BY <1>5, <1>13, <1>14, <1>16, <2>2
  <2>5. NodesOf(l)' = S /\ l \in Live(List)'
    BY <1>5, <1>7, <2>1
  <2>6. iter[i].direction \in {FORWARD, BACKWARD}
        /\ q = IF iter[i].direction = FORWARD THEN node[o].next ELSE node[o].prev
    BY <1>5, <2>2
  <2>7. QED
    <3>1. l = walk[i].on /\ o = iter[i].next /\ o # NULL
      BY <1>4, <1>5
    <3>2. QED
      BY <1>9, <2>1, <2>3, <2>4, <2>5, <2>6, <3>1, WalkGoesOn
<1>18. IInv' /\ Ordered(b)'
  <2>1. values \subseteq values' /\ values' \subseteq Value /\ v \in values' \cup {NULL}
    <3>1. values \subseteq Value /\ node[o].value \in values \cup {NULL}
      BY <1>5, <1>9 DEF IInv, TypeOK, Kept
    <3>2. QED
      BY <1>5, <3>1
  <2>2. \A j \in Live(Iter)' : Walks(j, b)'
    BY <1>5, <1>7, <1>17
  <2>3. QED
    BY <1>5, <1>6, <1>11, <1>16, <2>1, <2>2, AddKeeps
<1>19. Locals'
  <2>1. list'[l] = list[l] /\ list'[c].dup = list[c].dup /\ list'[c].free = list[c].free
    BY <1>5, <1>6 DEF Adds, Live
  <2>2. MayDup(call.l)'
    BY <1>1, <1>5, <1>8, <2>1 DEF MayDup
  <2>3. \A j \in Live(Iter)' : walk'[j].on = l /\ iter'[j].direction = FORWARD
    BY <1>5, <1>7, <1>13, <1>14, <1>16
  <2>4. QED
    BY <1>1, <1>2, <1>3, <1>5, <1>7, <1>8, <2>1, <2>2, <2>3, SMTT(30) DEF Locals, Idle
<1>20. call'.op # "release"
  BY <1>5
<1>21. MInv'
  BY <1>18, <1>19, <1>20, WithoutReleaseNext
<1>22. QED
  BY <1>2, <1>6, <1>18, <1>21

LEMMA DupEndsDoes ==
  ASSUME MInv, call.op = "dup", call.i # NULL, listReleaseIter(call.i)
  PROVE  /\ IInv /\ Locals /\ IInv' /\ call.i \in Iter /\ Live(Iter) = {call.i}
         /\ Live(List)' = Live(List) /\ Live(Node)' = Live(Node) /\ Live(Iter)' = {}
         /\ UNCHANGED <<list, node, values, owner, undefined>>
<1>1. IInv /\ Locals
  BY WithoutRelease
<1>2. PICK i : i = call.i
  OBVIOUS
<1>3. i \in Iter /\ Live(Iter) = {i} /\ listReleaseIter(i)
  BY <1>1, <1>2 DEF Locals
<1>4. /\ IInv' /\ Live(List)' = Live(List) /\ Live(Node)' = Live(Node)
      /\ Live(Iter)' = Live(Iter) \ {i}
      /\ UNCHANGED <<list, node, values, owner, undefined>>
  BY <1>1, <1>3, ReleaseIterIInv, IteratorEnds
<1>5. QED
  BY <1>1, <1>2, <1>3, <1>4

LEMMA DupReturnMInv ==
  ASSUME MInv, DupReturn PROVE MInv'
<1>1. call.op = "dup" /\ call.i # NULL /\ listReleaseIter(call.i) /\ call' = NoCall
  BY DEF DupReturn, During, Return
<1>2. IInv' /\ Live(Iter)' = {}
  BY <1>1, DupEndsDoes
<1>3. QED
  BY <1>1, <1>2, Returned, WithoutReleaseNext

LEMMA DupFailsMInv ==
  ASSUME MInv, DupFails PROVE MInv'
<1>1. /\ call.op = "dup" /\ call.i # NULL /\ listReleaseIter(call.i)
      /\ call' = [call EXCEPT !.op = "release", !.l = call.copy, !.i = NULL,
                    !.curr = list[call.copy].head, !.count = list[call.copy].len]
  BY DEF DupFails, During, Pass
<1>2. /\ Locals /\ IInv' /\ Live(List)' = Live(List) /\ Live(Iter)' = {} /\ list' = list
  BY <1>1, DupEndsDoes
<1>3. PICK c : c = call.copy
  OBVIOUS
<1>4. /\ call'.op = "release" /\ call'.l = c /\ call'.copy = c
      /\ call'.curr = list[c].head /\ call'.count = list[c].len
      /\ DOMAIN call' = {"op", "l", "curr", "count", "i", "key", "copy", "had"}
  BY <1>1, <1>2, <1>3 DEF Locals
<1>5. c \in Live(List)
  BY <1>1, <1>2, <1>3 DEF Locals
<1>6. Locals'
  BY <1>2, <1>4, <1>5 DEF Locals, Idle
<1>7. QED
  BY <1>2, <1>4, <1>6, StartsToDrain

\* Nothing but the allocator's status changes.
LEMMA NothingHappens ==
  ASSUME MInv, Z!TypeOK',
         UNCHANGED <<room, list, node, iter, values, undefined, owner, walk, call>>
  PROVE  MInv'
<1>1. PICK at \in [Node -> Int] : COrdered(at)
  BY DEF MInv
<1>2. TypeOK' /\ NeverUndefined' /\ Kept' /\ Exclusive'
  BY DEF MInv, TypeOK, NeverUndefined, Kept, Exclusive, Live
<1>3. Live(List)' = Live(List) /\ Live(Iter)' = Live(Iter) /\ \A k : NodesOf(k)' = NodesOf(k)
  BY DEF Live, NodesOf
<1>4. ASSUME NEW k \in Live(List)' PROVE IF InRelease(k)' THEN Drains(k, at)' ELSE Sorted(k, at)'
  <2>1. CASE InRelease(k)
    <3>1. Drains(k, at) /\ InRelease(k)'
      BY <1>1, <1>3, <2>1 DEF COrdered, InRelease
    <3>2. Drains(k, at)'
      BY <1>3, <3>1 DEF Drains
    <3>3. QED
      BY <3>1, <3>2
  <2>2. CASE ~InRelease(k)
    <3>1. Sorted(k, at) /\ ~InRelease(k)'
      BY <1>1, <1>3, <2>2 DEF COrdered, InRelease
    <3>2. QED
      BY <1>3, <3>1, SameList
  <2>3. QED
    BY <2>1, <2>2
<1>5. ASSUME NEW i \in Live(Iter)' PROVE Walks(i, at)'
  <2>1. Walks(i, at) /\ walk[i].on \in Live(List)'
    BY <1>1, <1>3 DEF COrdered, Walks
  <2>2. QED
    BY <1>3, <2>1, SameWalk
<1>6. Locals'
  BY <1>3 DEF MInv, Locals, Idle, MayDup
<1>7. QED
  BY <1>1, <1>2, <1>4, <1>5, <1>6 DEF MInv, COrdered

LEMMA NextMInv == MInv /\ [CNext]_cvars => MInv'
<1> SUFFICES ASSUME MInv, [CNext]_cvars PROVE MInv'
  OBVIOUS
<1>1. CASE Abort
  <2>1. Z!TypeOK' /\ UNCHANGED <<room, list, node, iter, values, undefined, owner, walk, call>>
    BY <1>1 DEF Abort, OutOfMemory, Z!zmalloc_oom, Z!heap, MInv, TypeOK, Z!TypeOK
  <2>2. QED
    BY <2>1, NothingHappens
<1>2. CASE UNCHANGED cvars
  <2>1. Z!TypeOK' /\ UNCHANGED <<room, list, node, iter, values, undefined, owner, walk, call>>
    BY <1>2 DEF cvars, vars, heap, MInv, TypeOK, Z!TypeOK
  <2>2. QED
    BY <2>1, NothingHappens
<1>3. CASE CallStarts
  BY <1>3, ReleaseMInv, SearchMInv, IndexMInv, DupMInv DEF CallStarts
<1>4. CASE CallGoesOn
  BY <1>4, ReleaseNodeMInv, ReleaseListMInv, SearchMissMInv, SearchReturnMInv, IndexNextMInv,
     IndexReturnMInv, DupIteratorMInv, DupNodeMInv, DupFailsMInv, DupReturnMInv DEF CallGoesOn
<1>5. CASE OneStepCall
  BY <1>5, OneStepMInv
<1>6. QED
  BY <1>1, <1>2, <1>3, <1>4, <1>5 DEF CNext

LEMMA AlwaysMInv == CSpec => []MInv
<1>1. MInv /\ [CNext]_cvars => MInv'
  BY NextMInv
<1>2. QED
  BY InitMInv, <1>1, PTL DEF CSpec

-----------------------------------------------------------------------------
(* What is allocated.                                                      *)

LEMMA DoesAccounts ==
  ASSUME MInv, Accounts, CallGoesOn PROVE Accounts'
<1>1. TypeOK
  BY DEF MInv
<1>2. CASE ReleaseNode
  <2>1. PICK at \in [Node -> Int] : COrdered(at)
    BY DEF MInv
  <2>2. PICK l, n : l = call.l /\ n = call.curr
    OBVIOUS
  <2>3. /\ n \in Node /\ l # NULL /\ owner[n] = l
        /\ Z!zfree(n) /\ owner' = [owner EXCEPT ![n] = NULL]
    BY <1>2, <2>1, <2>2, ReleaseNodeDoes
  <2>4. room[n] > 0
    BY <2>3 DEF MInv, Kept
  <2>5. QED
    BY <1>1, <2>3, <2>4, DelAccounts
<1>3. CASE ReleaseList
  <2>1. PICK l : l = call.l
    OBVIOUS
  <2>2. /\ l \in Live(List) /\ l \in Blocks /\ l \notin Node
    BY <1>3, <2>1, Addresses DEF ReleaseList, During, MInv, Locals, Idle, Live
  <2>3. Z!zfree(l) /\ UNCHANGED owner /\ room[l] > 0
    BY <1>3, <2>1, <2>2 DEF ReleaseList, Step, Touching, Live
  <2>4. QED
    BY <1>1, <2>2, <2>3, FreeAccounts DEF TypeOK
<1>4. CASE SearchMiss
  BY <1>4, AccountsStay DEF SearchMiss, listNext, Touching, heap
<1>5. CASE SearchReturn
  <2>1. PICK i : i = call.i
    OBVIOUS
  <2>2. i \in Iter /\ listReleaseIter(i)
    BY <1>5, <2>1 DEF SearchReturn, During, MInv, Locals
  <2>3. QED
    BY <1>1, <2>2, ReleaseIterAccounts
<1>6. CASE IndexNext
  BY <1>6, AccountsStay, IndexNextDoes DEF structs, heap
<1>7. CASE IndexReturn
  BY <1>7, AccountsStay DEF IndexReturn, vars, heap
<1>8. ASSUME NEW i \in Iter, DupIterator(i) PROVE Accounts'
  BY <1>1, <1>8, GetIteratorAccounts DEF DupIterator
<1>9. ASSUME NEW n \in Node, NEW v \in Value \cup {NULL}, DupNode(n, v) PROVE Accounts'
  <2>1. PICK l, c, i, o : l = call.l /\ c = call.copy /\ i = call.i /\ o = iter[i].next
    OBVIOUS
  <2>2. CopiesNode(l, c, i, o, n, v)
    BY <1>9, <2>1, DupNodeDoes
  <2>3. Z!zmalloc(n, SizeofNode) /\ owner' = [owner EXCEPT ![n] = c] /\ c # NULL
    BY <2>2 DEF CopiesNode, LinkTail
  <2>4. QED
    BY <1>1, <2>3, AddAccounts
<1>10. CASE DupFails \/ DupReturn
  <2>1. PICK i : i = call.i
    OBVIOUS
  <2>2. call.op = "dup" /\ call.i # NULL /\ listReleaseIter(i)
    BY <1>10, <2>1 DEF DupFails, DupReturn, During
  <2>3. i \in Iter
    BY <2>1, <2>2 DEF MInv, Locals
  <2>4. QED
    BY <1>1, <2>2, <2>3, ReleaseIterAccounts
<1>11. QED
  BY <1>2, <1>3, <1>4, <1>5, <1>6, <1>7, <1>8, <1>9, <1>10 DEF CallGoesOn

LEMMA CNextAccounts == MInv /\ Accounts /\ [CNext]_cvars => Accounts'
<1> SUFFICES ASSUME MInv, Accounts, [CNext]_cvars PROVE Accounts'
  OBVIOUS
<1>1. TypeOK
  BY DEF MInv
<1>2. CASE Abort \/ UNCHANGED cvars
  BY <1>2, AccountsStay DEF Abort, OutOfMemory, Z!zmalloc_oom, Z!heap, cvars, vars, heap
<1>3. CASE OneStepCall
  <2>1. IInv
    BY <1>3, WithoutRelease DEF OneStepCall, Idle
  <2>2. CASE \E l \in List : listCreate(l)
    BY <1>1, <2>2, CreateAccounts
  <2>3. ASSUME NEW v \in Value, NewValue(v) PROVE Accounts'
    BY <2>3, AccountsStay DEF NewValue, heap
  <2>4. ASSUME NEW l \in List, NEW d, NEW f, NEW m, SetMethods(l, d, f, m) PROVE Accounts'
    BY <2>4, AccountsStay DEF SetMethods, Touching, heap
  <2>5. CASE \E l \in Live(List), n \in Node, v \in values \cup {NULL} : AddNode(l, n, v)
    BY <1>1, <2>5, AddNodeAccounts DEF AddNode
  <2>6. CASE \E l \in Live(List), n \in Node : listDelNode(l, n)
    BY <2>1, <2>6, DelNodeAccounts
  <2>7. QED
    BY <1>3, <2>2, <2>3, <2>4, <2>5, <2>6 DEF OneStepCall
<1>4. CASE CallStarts
  <2>1. PICK l \in Live(List) :
           \/ listRelease(l)
           \/ \E i \in Iter, key \in values \cup {NULL} : listSearchKey(l, i, key)
           \/ \E index \in Indices : listIndex(l, index)
           \/ \E copy \in List : listDup(l, copy)
    BY <1>4 DEF CallStarts
  <2>2. ASSUME listRelease(l) PROVE Accounts'
    BY <2>2, AccountsStay DEF listRelease, Step, Touching, structs, heap
  <2>3. ASSUME NEW i \in Iter, NEW key, listSearchKey(l, i, key) PROVE Accounts'
    BY <1>1, <2>3, GetIteratorAccounts DEF listSearchKey
  <2>4. ASSUME NEW index, listIndex(l, index) PROVE Accounts'
    BY <2>4, AccountsStay DEF listIndex, Step, Touching, structs, heap
  <2>5. ASSUME NEW copy \in List, listDup(l, copy) PROVE Accounts'
    <3>1. Z!zmalloc(copy, SizeofList) /\ UNCHANGED owner
      BY <2>5, DupDoes
    <3>2. copy \in Blocks /\ copy \notin Node /\ SizeOf(copy) = SizeofList
      BY Addresses DEF SizeOf
    <3>3. QED
      BY <1>1, <3>1, <3>2, AllocAccounts DEF TypeOK
  <2>6. QED
    BY <2>1, <2>2, <2>3, <2>4, <2>5
<1>5. QED
  BY <1>2, <1>3, <1>4, DoesAccounts DEF CNext

LEMMA AlwaysCounted == CSpec => [](MInv /\ Accounts)
<1>1. CInit => MInv /\ Accounts
  BY InitMInv, InitAccounts DEF CInit
<1>2. (MInv /\ Accounts) /\ [CNext]_cvars => (MInv /\ Accounts)'
  BY NextMInv, CNextAccounts
<1>3. QED
  BY <1>1, <1>2, PTL DEF CSpec

-----------------------------------------------------------------------------
(* What the calls return.                                                  *)

\* A call ends with one of four actions.
LEMMA CallEnds ==
  MInv /\ [CNext]_cvars /\ ~Idle /\ Idle' =>
    ReleaseList \/ SearchReturn \/ IndexReturn \/ DupReturn
<1> SUFFICES ASSUME MInv, [CNext]_cvars, ~Idle, Idle'
             PROVE  ReleaseList \/ SearchReturn \/ IndexReturn \/ DupReturn
  OBVIOUS
<1>1. CASE Abort \/ UNCHANGED cvars
  <2>1. call' = call
    BY <1>1 DEF Abort, cvars
  <2>2. QED
    BY <2>1 DEF Idle
<1>2. CASE OneStepCall \/ CallStarts
  BY <1>2 DEF OneStepCall, CallStarts, listRelease, listSearchKey, listIndex, listDup, Step, Touching,
              Begin, Idle
<1>3. CASE SearchMiss
  BY <1>3 DEF SearchMiss, Idle
<1>4. CASE ReleaseNode \/ IndexNext \/ DupFails \/ \E i \in Iter : DupIterator(i)
  <2>1. DOMAIN call = {"op", "l", "curr", "count", "i", "key", "copy", "had"}
    BY DEF MInv, Locals
  <2>2. CASE ReleaseNode
    BY <2>1, <2>2 DEF ReleaseNode, During, Step, Touching, Pass, Idle
  <2>3. CASE IndexNext
    BY <2>1, <2>3 DEF IndexNext, During, Step, Touching, Pass, Idle
  <2>4. CASE DupFails
    BY <2>1, <2>4 DEF DupFails, During, Pass, Idle
  <2>5. ASSUME NEW i \in Iter, DupIterator(i) PROVE FALSE
    BY <2>1, <2>5 DEF DupIterator, During, Pass, Idle
  <2>6. QED
    BY <1>4, <2>2, <2>3, <2>4, <2>5
<1>5. ASSUME NEW n \in Node, NEW v \in Value \cup {NULL}, DupNode(n, v) PROVE FALSE
  <2>1. call' = call
    BY <1>5, DupNodeDoes DEF CopiesNode
  <2>2. QED
    BY <2>1 DEF Idle
<1>6. CASE CallGoesOn
  BY <1>3, <1>4, <1>5, <1>6, Zenon DEF CallGoesOn
<1>7. QED
  BY <1>1, <1>2, <1>6 DEF CNext

\* listSearchKey has seen no node that matches.
Searches ==
  call.op = "search" =>
    /\ walk[call.i].seen \cup walk[call.i].todo = NodesOf(call.l)
    /\ \A m \in walk[call.i].seen : ~Matches(call.l, node[m].value, call.key)

\* Before a call of another kind, or after it.
LEMMA OtherSearches ==
  ASSUME call'.op # "search" PROVE Searches'
  BY DEF Searches

LEMMA SearchStarts ==
  ASSUME MInv, NEW l \in Live(List), NEW i \in Iter, NEW key, listSearchKey(l, i, key)
  PROVE  Searches'
<1>1. /\ call.op = "none" /\ call' = [NoCall EXCEPT !.op = "search", !.l = l, !.i = i, !.key = key]
      /\ listGetIterator(l, i, FORWARD)
  BY DEF listSearchKey, Begin, Idle
<1>2. IInv
  BY <1>1, WithoutRelease
<1>3. call'.l = l /\ call'.i = i
  BY <1>1 DEF NoCall
<1>4. walk'[i] = [on |-> l, todo |-> NodesOf(l), seen |-> {}] /\ UNCHANGED owner
  BY <1>1, <1>2, IteratorStarts
<1>5. NodesOf(l)' = NodesOf(l)
  BY <1>4 DEF NodesOf
<1>6. walk'[i].seen = {} /\ walk'[i].todo = NodesOf(l)
  BY <1>4
<1>7. QED
  BY <1>3, <1>5, <1>6 DEF Searches

LEMMA SearchGoesOn ==
  ASSUME MInv, Searches, SearchMiss PROVE Searches'
<1>1. PICK i, l, key : i = call.i /\ l = call.l /\ key = call.key
  OBVIOUS
<1>2. PICK n : n = iter[i].next
  OBVIOUS
<1>3. /\ call.op = "search" /\ listNext(i) /\ call' = call
      /\ ~Matches(l, node[n].value, key)
  BY <1>1, <1>2 DEF SearchMiss, During
<1>4. IInv /\ i \in Live(Iter) /\ walk[i].on = l /\ iter[i].direction = FORWARD
  BY <1>1, <1>3, WithoutRelease DEF Locals
<1>5. /\ n \in NodesOf(l)
      /\ walk'[i] = [on |-> walk[i].on, todo |-> walk[i].todo \ {n},
                     seen |-> walk[i].seen \cup {n}]
      /\ UNCHANGED <<list, node, owner>>
  BY <1>2, <1>3, <1>4, IteratorMoves
<1>6. walk'[i].todo = walk[i].todo \ {n} /\ walk'[i].seen = walk[i].seen \cup {n}
  BY <1>5
<1>7. /\ walk[i].seen \cup walk[i].todo = NodesOf(l)
      /\ \A m \in walk[i].seen : ~Matches(l, node[m].value, key)
  BY <1>1, <1>3 DEF Searches
<1>8. NodesOf(l)' = NodesOf(l) /\ \A m : Matches(l, node[m].value, key)' = Matches(l, node[m].value, key)
  BY <1>5 DEF NodesOf, Matches
<1>9. walk'[i].seen \cup walk'[i].todo = NodesOf(l)'
  BY <1>5, <1>6, <1>7, <1>8
<1>10. \A m \in walk'[i].seen : ~Matches(l, node[m].value, key)'
  BY <1>3, <1>6, <1>7, <1>8
<1>11. QED
  BY <1>1, <1>3, <1>9, <1>10 DEF Searches

LEMMA NextSearches == MInv /\ Searches /\ [CNext]_cvars => Searches'
<1> SUFFICES ASSUME MInv, Searches, [CNext]_cvars PROVE Searches'
  OBVIOUS
<1>1. MInv' /\ ~undefined'
  BY NextMInv DEF MInv, NeverUndefined
<1>2. DOMAIN call = {"op", "l", "curr", "count", "i", "key", "copy", "had"}
  BY DEF MInv, Locals
<1>3. CASE Abort \/ UNCHANGED cvars
  BY <1>3 DEF Abort, OutOfMemory, cvars, vars, Searches, NodesOf, Matches
<1>4. CASE OneStepCall
  BY <1>4, OtherSearches DEF OneStepCall, Idle
<1>5. ASSUME NEW l \in Live(List), listRelease(l) \/ \E index \in Indices : listIndex(l, index)
      PROVE  Searches'
  <2>1. call'.op # "search"
    BY <1>1, <1>5 DEF listRelease, listIndex, Step, Touching, Begin, NoCall
  <2>2. QED
    BY <2>1, OtherSearches
<1>6. ASSUME NEW l \in Live(List), NEW copy \in List, listDup(l, copy) PROVE Searches'
  <2>1. call'.op # "search"
    BY <1>1, <1>6 DEF listDup, Step, Touching, Begin, NoCall
  <2>2. QED
    BY <2>1, OtherSearches
<1>7. CASE CallStarts
  BY <1>5, <1>6, <1>7, SearchStarts DEF CallStarts
<1>8. CASE ReleaseNode \/ IndexNext \/ DupFails
  <2>1. CASE ReleaseNode
    BY <1>1, <1>2, <2>1, OtherSearches DEF ReleaseNode, During, Step, Touching, Pass
  <2>2. CASE IndexNext
    BY <1>1, <1>2, <2>2, OtherSearches DEF IndexNext, During, Step, Touching, Pass
  <2>3. CASE DupFails
    BY <1>1, <1>2, <2>3, OtherSearches DEF DupFails, During, Pass
  <2>4. QED
    BY <1>8, <2>1, <2>2, <2>3
<1>9. ASSUME NEW i \in Iter, DupIterator(i) PROVE Searches'
  BY <1>2, <1>9, OtherSearches DEF DupIterator, During, Pass
<1>10. ASSUME NEW n \in Node, NEW v \in Value \cup {NULL}, DupNode(n, v) PROVE Searches'
  BY <1>10, DupNodeDoes, OtherSearches DEF CopiesNode
<1>11. CASE ReleaseList \/ SearchReturn \/ IndexReturn \/ DupReturn
  <2>1. call'.op # "search"
    BY <1>1, <1>11 DEF ReleaseList, SearchReturn, IndexReturn, DupReturn, Step, Touching, Return, NoCall
  <2>2. QED
    BY <2>1, OtherSearches
<1>12. QED
  BY <1>3, <1>4, <1>7, <1>8, <1>9, <1>10, <1>11, SearchGoesOn DEF CNext, CallGoesOn

\* A list that is not being released, and the path its nodes are on.
LEMMA PathOf ==
  ASSUME IInv, NEW l \in Live(List), NEW at \in [Node -> Int], Ordered(at)
  PROVE  \E f : OnPath(l, f) /\ Lists(f, NodesOf(l), at) /\ Forward(l) = f
<1>1. Sorted(l, at)
  BY DEF Ordered
<1>2. PICK f : OnPath(l, f) /\ Lists(f, NodesOf(l), at)
  BY <1>1, SortedIsPath
<1>3. Forward(l) = f
  BY <1>2, ForwardIsPath
<1>4. QED
  BY <1>2, <1>3, Zenon

\* A search that returns n: the first on the path that matches.
LEMMA FoundFirst ==
  ASSUME MInv, Searches, SearchReturn
  PROVE  LET path == Forward(call.l)
             found == {k \in DOMAIN path : Matches(call.l, node[path[k]].value, call.key)}
         IN IF found = {} THEN result' = NULL
            ELSE \E k \in found : (\A j \in found : k <= j) /\ result' = path[k]
<1>1. PICK i, l, key : i = call.i /\ l = call.l /\ key = call.key
  OBVIOUS
<1>2. PICK n : n = iter[i].next
  OBVIOUS
<1>3. /\ call.op = "search" /\ result' = n
      /\ n # NULL => Matches(l, node[n].value, key)
  BY <1>1, <1>2 DEF SearchReturn, During, Return
<1>4. IInv /\ i \in Live(Iter) /\ walk[i].on = l /\ iter[i].direction = FORWARD /\ l \in Live(List)
  BY <1>1, <1>3, WithoutRelease DEF Locals, Idle
<1>5. PICK at \in [Node -> Int] : Ordered(at)
  BY <1>4 DEF IInv
<1>6. PICK f : OnPath(l, f) /\ Lists(f, NodesOf(l), at) /\ Forward(l) = f
  BY <1>4, <1>5, PathOf
<1>7. PICK S \in SUBSET Node, N \in Nat : S = NodesOf(l) /\ N = Cardinality(S)
  <2>1. NodesOf(l) \in SUBSET Node /\ Cardinality(NodesOf(l)) \in Nat
    BY <1>6 DEF OnPath, NodesOf
  <2>2. QED
    BY <2>1
<1>8. /\ f \in [1 .. N -> S] /\ \A m \in S : \E k \in 1 .. N : f[k] = m
      /\ \A j, k \in 1 .. N : j < k => at[f[j]] < at[f[k]]
      /\ \A j, k \in 1 .. N : f[j] = f[k] => j = k
  BY <1>6, <1>7 DEF OnPath, Lists
<1>9. /\ n = NULL => walk[i].todo = {}
      /\ n # NULL => /\ n \in S /\ \A m \in walk[i].seen : at[m] < at[n]
                     /\ \A m \in walk[i].todo : at[n] <= at[m]
  BY <1>2, <1>4, <1>5, <1>7 DEF Ordered, Walks
<1>10. /\ walk[i].seen \cup walk[i].todo = S
       /\ \A m \in walk[i].seen : ~Matches(l, node[m].value, key)
  BY <1>1, <1>3, <1>7 DEF Searches
<1> DEFINE found == {k \in DOMAIN f : Matches(l, node[f[k]].value, key)}
<1>11. CASE n = NULL
  <2>1. found = {}
    BY <1>8, <1>9, <1>10, <1>11
  <2>2. QED
    BY <1>1, <1>3, <1>6, <1>11, <2>1
<1>12. CASE n # NULL
  <2>1. PICK k \in 1 .. N : f[k] = n
    BY <1>8, <1>9, <1>12
  <2>2. k \in found
    BY <1>3, <1>8, <1>12, <2>1
  <2>3. ASSUME NEW j \in found PROVE k <= j
    <3>1. j \in 1 .. N /\ f[j] \in S /\ Matches(l, node[f[j]].value, key)
      BY <1>8
    <3>2. f[j] \in walk[i].todo
      BY <1>10, <3>1
    <3>3. at[n] <= at[f[j]] /\ at[n] \in Int /\ at[f[j]] \in Int
      BY <1>7, <1>9, <1>12, <3>1, <3>2
    <3>4. ~(j < k)
      BY <1>8, <2>1, <3>1, <3>3
    <3>5. QED
      BY <3>1, <3>4
  <2>4. found # {} /\ \E m \in found : (\A j \in found : m <= j) /\ result' = f[m]
    <3> HIDE DEF found
    <3>1. QED
      BY <1>3, <2>1, <2>2, <2>3
  <2>5. QED
    BY <1>1, <1>6, <2>4
<1>13. QED
  BY <1>11, <1>12

\* listIndex has come to the node number count.
Indexes ==
  call.op = "index" =>
    /\ call.key \in Int /\ call.count \in Nat
    /\ call.key < 0 \/ call.count <= call.key
    /\ \E f : /\ OnPath(call.l, f) /\ call.count <= list[call.l].len
              /\ call.curr = IF call.count < list[call.l].len THEN f[call.count + 1] ELSE NULL

LEMMA OtherIndexes ==
  ASSUME call'.op # "index" PROVE Indexes'
  BY DEF Indexes

LEMMA IndexStarts ==
  ASSUME MInv, NEW l \in Live(List), NEW index \in Indices, listIndex(l, index)
  PROVE  Indexes'
<1>1. /\ call.op = "none"
      /\ call' = [NoCall EXCEPT !.op = "index", !.l = l, !.key = index, !.curr = list[l].head]
      /\ UNCHANGED structs
  BY Addresses DEF listIndex, Step, Touching, Begin, Live, Idle
<1>2. IInv
  BY <1>1, WithoutRelease
<1>3. PICK at \in [Node -> Int] : Ordered(at)
  BY <1>2 DEF IInv
<1>4. PICK f : OnPath(l, f)
  BY <1>2, <1>3, PathOf
<1>5. OnPath(l, f)'
  BY <1>1, <1>4 DEF OnPath, NodesOf, structs
<1>6. /\ call'.l = l /\ call'.key = index /\ call'.curr = list[l].head /\ call'.count = 0
      /\ index \in Int
  BY <1>1, CallsAssumption DEF NoCall
<1>7. list'[l].len \in Nat /\ list[l].head = IF 0 < list'[l].len THEN f[0 + 1] ELSE NULL
  BY <1>1, <1>4 DEF OnPath, structs
<1>8. QED
  BY <1>5, <1>6, <1>7 DEF Indexes

LEMMA IndexGoesOn ==
  ASSUME MInv, Indexes, IndexNext PROVE Indexes'
<1>1. PICK l, c, k, x : l = call.l /\ c = call.curr /\ k = call.count /\ x = call.key
  OBVIOUS
<1>2. /\ call.op = "index" /\ c # NULL /\ k # x
      /\ call' = [call EXCEPT !.curr = node[c].next, !.count = k + 1]
      /\ UNCHANGED structs /\ Locals
  BY <1>1, IndexNextDoes
<1>3. PICK f : /\ OnPath(l, f) /\ k <= list[l].len
               /\ c = IF k < list[l].len THEN f[k + 1] ELSE NULL
  BY <1>1, <1>2 DEF Indexes
<1>4. x \in Int /\ k \in Nat /\ (x < 0 \/ k <= x)
  BY <1>1, <1>2 DEF Indexes
<1>5. PICK N \in Nat : N = list[l].len
  BY <1>3 DEF OnPath
<1>6. k < N /\ c = f[k + 1] /\ k + 1 \in 1 .. N
  BY <1>2, <1>3, <1>4, <1>5
<1>7. node[c].next = IF k + 1 < N THEN f[k + 1 + 1] ELSE NULL
  BY <1>3, <1>5, <1>6 DEF OnPath
<1>8. /\ call'.op = "index" /\ call'.l = l /\ call'.key = x /\ call'.count = k + 1
      /\ call'.curr = node[c].next
  BY <1>1, <1>2 DEF Locals
<1>9. OnPath(l, f)' /\ list'[l].len = N
  BY <1>2, <1>3, <1>5 DEF OnPath, NodesOf, structs
<1>10. x < 0 \/ k + 1 <= x
  BY <1>2, <1>4
<1>11. QED
  BY <1>4, <1>6, <1>7, <1>8, <1>9, <1>10 DEF Indexes

\* An index that returns: the node at that place of the path.
LEMMA FoundNth ==
  ASSUME MInv, Indexes, IndexReturn
  PROVE  result' = IF call.key + 1 \in 1 .. list[call.l].len
                   THEN Forward(call.l)[call.key + 1] ELSE NULL
<1>1. PICK l, c, k, x : l = call.l /\ c = call.curr /\ k = call.count /\ x = call.key
  OBVIOUS
<1>2. call.op = "index" /\ (c = NULL \/ k = x) /\ result' = c
  BY <1>1 DEF IndexReturn, During, Return
<1>3. PICK f : /\ OnPath(l, f) /\ k <= list[l].len
               /\ c = IF k < list[l].len THEN f[k + 1] ELSE NULL
  BY <1>1, <1>2 DEF Indexes
<1>4. x \in Int /\ k \in Nat /\ (x < 0 \/ k <= x)
  BY <1>1, <1>2 DEF Indexes
<1>5. PICK N \in Nat : N = list[l].len
  BY <1>3 DEF OnPath
<1>6. k < N => c # NULL
  BY <1>3, <1>4, <1>5, Addresses DEF OnPath, NodesOf
<1>7. c = IF x + 1 \in 1 .. N THEN f[x + 1] ELSE NULL
  <2>1. CASE x + 1 \in 1 .. N
    BY <1>2, <1>3, <1>4, <1>5, <1>6, <2>1
  <2>2. CASE x + 1 \notin 1 .. N
    BY <1>2, <1>3, <1>4, <1>5, <1>6, <2>2
  <2>3. QED
    BY <2>1, <2>2
<1>8. Forward(l) = f
  BY <1>3, ForwardIsPath
<1>9. QED
  BY <1>1, <1>2, <1>5, <1>7, <1>8

LEMMA NextIndexes == MInv /\ Indexes /\ [CNext]_cvars => Indexes'
<1> SUFFICES ASSUME MInv, Indexes, [CNext]_cvars PROVE Indexes'
  OBVIOUS
<1>1. MInv' /\ ~undefined'
  BY NextMInv DEF MInv, NeverUndefined
<1>2. DOMAIN call = {"op", "l", "curr", "count", "i", "key", "copy", "had"}
  BY DEF MInv, Locals
<1>3. CASE Abort \/ UNCHANGED cvars
  <2>1. UNCHANGED <<list, node, owner, call>>
    BY <1>3 DEF Abort, OutOfMemory, cvars, vars
  <2>2. CASE call.op # "index"
    BY <2>1, <2>2, OtherIndexes
  <2>3. CASE call.op = "index"
    <3>1. PICK f : /\ OnPath(call.l, f) /\ call.count <= list[call.l].len
                   /\ call.curr = IF call.count < list[call.l].len THEN f[call.count + 1] ELSE NULL
      BY <2>3 DEF Indexes
    <3>2. PICK l : l = call.l
      OBVIOUS
    <3>3. OnPath(l, f)'
      BY <2>1, <3>1, <3>2 DEF OnPath, NodesOf
    <3>4. QED
      BY <2>1, <2>3, <3>1, <3>2, <3>3 DEF Indexes
  <2>4. QED
    BY <2>2, <2>3
<1>4. CASE OneStepCall
  BY <1>4, OtherIndexes DEF OneStepCall, Idle
<1>5. ASSUME NEW l \in Live(List), listRelease(l) PROVE Indexes'
  <2>1. call'.op # "index"
    BY <1>1, <1>5 DEF listRelease, Step, Touching, Begin, NoCall
  <2>2. QED
    BY <2>1, OtherIndexes
<1>6. ASSUME NEW l \in Live(List), NEW i \in Iter, NEW key, listSearchKey(l, i, key)
      PROVE  Indexes'
  <2>1. call'.op # "index"
    BY <1>6 DEF listSearchKey, Begin, NoCall
  <2>2. QED
    BY <2>1, OtherIndexes
<1>7. ASSUME NEW l \in Live(List), NEW copy \in List, listDup(l, copy) PROVE Indexes'
  <2>1. call'.op # "index"
    BY <1>1, <1>7 DEF listDup, Step, Touching, Begin, NoCall
  <2>2. QED
    BY <2>1, OtherIndexes
<1>8. CASE CallStarts
  BY <1>5, <1>6, <1>7, <1>8, IndexStarts DEF CallStarts
<1>9. CASE ReleaseNode
  BY <1>1, <1>2, <1>9, OtherIndexes DEF ReleaseNode, During, Step, Touching, Pass
<1>10. CASE SearchMiss
  BY <1>10, OtherIndexes DEF SearchMiss, During
<1>11. CASE DupFails
  BY <1>2, <1>11, OtherIndexes DEF DupFails, During, Pass
<1>12. ASSUME NEW i \in Iter, DupIterator(i) PROVE Indexes'
  BY <1>2, <1>12, OtherIndexes DEF DupIterator, During, Pass
<1>13. ASSUME NEW n \in Node, NEW v \in Value \cup {NULL}, DupNode(n, v) PROVE Indexes'
  BY <1>13, DupNodeDoes, OtherIndexes DEF CopiesNode
<1>14. CASE ReleaseList \/ SearchReturn \/ IndexReturn \/ DupReturn
  <2>1. call'.op # "index"
    BY <1>1, <1>14 DEF ReleaseList, SearchReturn, IndexReturn, DupReturn, Step, Touching, Return, NoCall
  <2>2. QED
    BY <2>1, OtherIndexes
<1>15. CASE CallGoesOn
  BY <1>9, <1>10, <1>11, <1>12, <1>13, <1>14, <1>15, IndexGoesOn DEF CallGoesOn
<1>16. QED
  BY <1>3, <1>4, <1>8, <1>15 DEF CNext

-----------------------------------------------------------------------------
(* What listDup allocates and releases.                                    *)

\* While listDup works, and while it releases what it made: what is allocated is
\* what was there before, the copy with its nodes, and the iterator; and if the
\* copy frees its values, they were made for it.
Copied(c, had) ==
  /\ c \in Blocks \ had /\ had \cap NodesOf(c) = {} /\ had \cap Live(Iter) = {}
  /\ Live(Blocks) = (had \cap Blocks) \cup {c} \cup NodesOf(c) \cup Live(Iter)
  /\ list[c].free =>
       /\ values = (had \cap Value) \cup ({node[n].value : n \in NodesOf(c)} \ {NULL})
       /\ \A n \in NodesOf(c) : node[n].value \notin had
Copies == call.copy # NULL => Copied(call.copy, call.had)

LEMMA NothingCopied ==
  ASSUME call'.copy = NULL PROVE Copies'
  BY DEF Copies

LEMMA CopyStarts ==
  ASSUME MInv, NEW orig \in Live(List), NEW copy \in List, listDup(orig, copy) PROVE Copies'
<1>1. /\ IInv /\ Locals /\ call.op = "none"
      /\ call' = [NoCall EXCEPT !.op = "dup", !.l = orig, !.copy = copy,
                                !.had = Live(Blocks) \cup values]
      /\ UNCHANGED <<node, iter, values, undefined, owner, walk>>
      /\ copy \notin Live(List)
      /\ Live(List)' = Live(List) \cup {copy}
      /\ Live(Node)' = Live(Node) /\ Live(Iter)' = Live(Iter)
  BY DupDoes
<1>2. PICK had : had = Live(Blocks) \cup values
  OBVIOUS
<1>3. call'.copy = copy /\ call'.had = had
  BY <1>1, <1>2 DEF NoCall
<1>4. Live(Iter) = {} /\ values \subseteq Value
  BY <1>1 DEF Locals, IInv, TypeOK
<1>5. /\ copy \in Blocks /\ copy \notin had /\ had \cap Blocks = Live(Blocks)
      /\ had \cap Value = values
  BY <1>1, <1>2, <1>4, Addresses DEF Live
<1>6. /\ Live(Blocks) = Live(List) \cup Live(Node) \cup Live(Iter)
      /\ Live(Blocks)' = Live(List)' \cup Live(Node)' \cup Live(Iter)'
  BY DEF Live, Blocks
<1>7. NodesOf(copy)' = {}
  BY <1>1, Addresses DEF NodesOf, IInv, Kept
<1>8. Copied(copy, had)'
  BY <1>1, <1>4, <1>5, <1>6, <1>7 DEF Copied
<1>9. QED
  BY <1>3, <1>8 DEF Copies

LEMMA CopyIterates ==
  ASSUME MInv, Copies, NEW i \in Iter, DupIterator(i) PROVE Copies'
<1>1. /\ call.op = "dup" /\ listGetIterator(call.l, i, FORWARD)
      /\ call' = [call EXCEPT !.i = i]
  BY DEF DupIterator, During, Pass
<1>2. IInv /\ Locals
  BY <1>1, WithoutRelease
<1>3. PICK l, c, had : l = call.l /\ c = call.copy /\ had = call.had
  OBVIOUS
<1>4. l \in Live(List) /\ c # NULL /\ call'.copy = c /\ call'.had = had
  BY <1>1, <1>2, <1>3, Addresses DEF Locals, Idle, Live
<1>5. /\ Live(List)' = Live(List) /\ Live(Node)' = Live(Node)
      /\ Live(Iter)' = Live(Iter) \cup {i} /\ i \notin Live(Iter) /\ room[i] = 0
      /\ UNCHANGED <<list, node, values, owner>>
  BY <1>1, <1>2, <1>3, <1>4, IteratorStarts
<1>6. /\ Live(Blocks) = Live(List) \cup Live(Node) \cup Live(Iter)
      /\ Live(Blocks)' = Live(List)' \cup Live(Node)' \cup Live(Iter)'
  BY DEF Live, Blocks
<1>7. Copied(c, had)
  BY <1>3, <1>4 DEF Copies
<1>8. i \notin had
  <2>1. i \notin Live(Blocks) /\ i \in Blocks
    BY <1>5, Addresses DEF Live
  <2>2. QED
    BY <1>7, <2>1 DEF Copied
<1>9. NodesOf(c)' = NodesOf(c)
  BY <1>5 DEF NodesOf
<1>10. Copied(c, had)'
  BY <1>5, <1>6, <1>7, <1>8, <1>9 DEF Copied
<1>11. QED
  BY <1>4, <1>10 DEF Copies

LEMMA CopyGoesOn ==
  ASSUME MInv, Copies, NEW n \in Node, NEW v \in Value \cup {NULL}, DupNode(n, v)
  PROVE  Copies'
<1>1. PICK l, c, i, o, had :
         l = call.l /\ c = call.copy /\ i = call.i /\ o = iter[i].next /\ had = call.had
  OBVIOUS
<1>2. CopiesNode(l, c, i, o, n, v)
  BY <1>1, DupNodeDoes
<1>3. /\ IInv /\ Locals /\ l \in Live(List) /\ c \in Live(List) /\ c # NULL /\ call' = call
      /\ IF list[c].dup
           THEN /\ node[o].value # NULL
                /\ v \in Value \ values /\ Content[v] = Content[node[o].value]
           ELSE v = node[o].value
      /\ values' = IF list[c].dup THEN values \cup {v} ELSE values
      /\ o \in NodesOf(l)
  BY <1>2 DEF CopiesNode
<1>4. PICK b \in [Node -> Int] : Ordered(b) /\ Adds(c, n, v, b)
  BY <1>1, DupNodeMInv
<1>5. /\ room[n] = 0 /\ room'[n] > 0 /\ \A a \in Blocks : a # n => room'[a] = room[a]
      /\ Live(Iter)' = Live(Iter) /\ NodesOf(c)' = NodesOf(c) \cup {n}
  BY <1>3, <1>4, AddsToOne
<1>6. Live(Blocks)' = Live(Blocks) \cup {n} /\ n \notin Live(Blocks) /\ n \in Blocks
  BY <1>5, Addresses DEF Live
<1>7. Copied(c, had)
  BY <1>1, <1>3 DEF Copies
<1>8. n \notin had
  BY <1>6, <1>7 DEF Copied
<1>9. list'[c].free = list[c].free /\ node'[n].value = v
      /\ \A m \in Node : m # n => node'[m].value = node[m].value
  BY <1>4 DEF Adds
<1>10. n \notin NodesOf(c) /\ NodesOf(c) \subseteq Node
  BY <1>3, <1>4 DEF Adds, NodesOf
<1>11. ASSUME list[c].free
       PROVE  /\ values' = (had \cap Value) \cup ({node'[m].value : m \in NodesOf(c)'} \ {NULL})
              /\ \A m \in NodesOf(c)' : node'[m].value \notin had
  <2>1. list[c].dup
    <3>1. Sorted(l, b)
      BY <1>3, <1>4 DEF Ordered
    <3>2. PICK S \in SUBSET Node : S = NodesOf(l)
      BY DEF NodesOf
    <3>3. IsFiniteSet(S) /\ o \in S
      BY <1>3, <3>2, AdlistAssumption, FS_Subset
    <3>4. list[l].len # 0
      BY <3>1, <3>2, <3>3, FS_EmptySet DEF Sorted
    <3>5. MayDup(l) /\ list[c].dup = list[l].dup /\ list[c].free = list[l].free
      BY <1>1, <1>2, <1>3 DEF Locals, CopiesNode
    <3>6. QED
      BY <1>11, <3>4, <3>5 DEF MayDup
  <2>2. v \in Value \ values /\ values' = values \cup {v} /\ v # NULL
    BY <1>3, <2>1, Addresses
  <2>3. /\ values = (had \cap Value) \cup ({node[m].value : m \in NodesOf(c)} \ {NULL})
        /\ \A m \in NodesOf(c) : node[m].value \notin had
    BY <1>7, <1>11 DEF Copied
  <2>4. \A m \in NodesOf(c) : node'[m].value = node[m].value
    BY <1>9, <1>10
  <2>5. {node'[m].value : m \in NodesOf(c)'} = {node[m].value : m \in NodesOf(c)} \cup {v}
    BY <1>5, <1>9, <2>4
  <2>6. values' = (had \cap Value) \cup ({node'[m].value : m \in NodesOf(c)'} \ {NULL})
    BY <2>2, <2>3, <2>5
  <2>7. v \notin had
    BY <2>2, <2>3
  <2>8. QED
    BY <1>5, <1>9, <2>3, <2>4, <2>6, <2>7
<1>12. Copied(c, had)'
  BY <1>5, <1>6, <1>7, <1>8, <1>9, <1>11 DEF Copied
<1>13. QED
  BY <1>1, <1>3, <1>12 DEF Copies

LEMMA CopyFails ==
  ASSUME MInv, Copies, DupFails PROVE Copies'
<1>1. /\ call.op = "dup" /\ call.i # NULL /\ listReleaseIter(call.i)
      /\ call' = [call EXCEPT !.op = "release", !.l = call.copy, !.i = NULL,
                    !.curr = list[call.copy].head, !.count = list[call.copy].len]
  BY DEF DupFails, During, Pass
<1>2. /\ Locals /\ Live(List)' = Live(List) /\ Live(Node)' = Live(Node) /\ Live(Iter)' = {}
      /\ Live(Iter) = {call.i}
      /\ UNCHANGED <<list, node, values, owner>>
  BY <1>1, DupEndsDoes
<1>3. PICK c, had, i : c = call.copy /\ had = call.had /\ i = call.i
  OBVIOUS
<1>4. c # NULL /\ call'.copy = c /\ call'.had = had /\ c \in List
  BY <1>1, <1>2, <1>3, Addresses DEF Locals, Live
<1>5. Copied(c, had)
  BY <1>3, <1>4 DEF Copies
<1>6. /\ Live(Blocks) = Live(List) \cup Live(Node) \cup Live(Iter)
      /\ Live(Blocks)' = Live(List)' \cup Live(Node)' \cup Live(Iter)'
      /\ Live(Iter) \subseteq Iter /\ Live(List) \subseteq List /\ Live(Node) \subseteq Node
  BY DEF Live, Blocks
<1>7. NodesOf(c)' = NodesOf(c) /\ NodesOf(c) \subseteq Node
  BY <1>2 DEF NodesOf
<1>8. Live(Blocks)' = (had \cap Blocks) \cup {c} \cup NodesOf(c)
  BY <1>2, <1>4, <1>5, <1>6, <1>7, Addresses DEF Copied
<1>9. Copied(c, had)'
  BY <1>2, <1>5, <1>7, <1>8 DEF Copied
<1>10. QED
  BY <1>4, <1>9 DEF Copies

LEMMA CopyShrinks ==
  ASSUME MInv, Copies, ReleaseNode PROVE Copies'
<1>1. PICK at \in [Node -> Int] : COrdered(at)
  BY DEF MInv
<1>2. PICK l, n, had : l = call.l /\ n = call.curr /\ had = call.had
  OBVIOUS
<1>3. /\ l \in List /\ l # NULL /\ n \in NodesOf(l) /\ n \in Node
      /\ owner[n] = l /\ call.op = "release"
      /\ call' = [call EXCEPT !.curr = node[n].next, !.count = call.count - 1]
      /\ values' = values \ Freed(l, node[n].value)
      /\ Z!zfree(n)
      /\ node' = [node EXCEPT ![n] = BlankNode]
      /\ owner' = [owner EXCEPT ![n] = NULL]
      /\ UNCHANGED <<list, iter, walk, undefined, result>>
  BY <1>1, <1>2, ReleaseNodeDoes
<1>4. call'.copy = call.copy /\ call'.had = had /\ call.copy \in {NULL, l}
  BY <1>2, <1>3 DEF MInv, Locals
<1>5. CASE call.copy = NULL
  BY <1>4, <1>5, NothingCopied
<1>6. CASE call.copy = l
  <2>1. Copied(l, had)
    BY <1>2, <1>3, <1>6 DEF Copies
  <2>2. room'[n] = 0 /\ \A a \in Blocks : a # n => room'[a] = room[a]
    <3>1. Z!TypeOK /\ n \in Blocks /\ Z!zfree(n)
      BY <1>3, Addresses DEF MInv, TypeOK
    <3>2. QED
      BY <3>1, Frees
  <2>3. Live(Blocks)' = Live(Blocks) \ {n} /\ Live(Iter)' = Live(Iter) /\ Live(Iter) \subseteq Iter
    BY <1>3, <2>2, Addresses DEF Live
  <2>4. NodesOf(l)' = NodesOf(l) \ {n} /\ NodesOf(l) \subseteq Node
    BY <1>3 DEF NodesOf, MInv, TypeOK
  <2>5. n \notin had /\ n # l /\ n \notin Live(Iter)
    BY <1>3, <2>1, <2>3, Addresses DEF Copied
  <2>6. \A m \in NodesOf(l)' : node'[m] = node[m]
    BY <1>3, <2>4 DEF MInv, TypeOK
  <2>7. ASSUME list[l].free
        PROVE  /\ values' = (had \cap Value) \cup ({node'[m].value : m \in NodesOf(l)'} \ {NULL})
               /\ \A m \in NodesOf(l)' : node'[m].value \notin had
    <3>1. PICK v : v = node[n].value
      OBVIOUS
    <3>2. /\ values = (had \cap Value) \cup ({node[m].value : m \in NodesOf(l)} \ {NULL})
          /\ \A m \in NodesOf(l) : node[m].value \notin had
      BY <2>1, <2>7 DEF Copied
    <3>3. v \notin had /\ values' = values \ ({v} \ {NULL})
      BY <1>3, <2>7, <3>1, <3>2 DEF Freed
    <3>4. ASSUME NEW m \in NodesOf(l)' PROVE node[m].value # v \/ v = NULL
      <4>1. m \in Node /\ m # n /\ owner[m] = l
        BY <2>4 DEF NodesOf
      <4>2. QED
        BY <1>3, <2>7, <3>1, <4>1 DEF MInv, Exclusive
    <3>5. {node'[m].value : m \in NodesOf(l)'} = {node[m].value : m \in NodesOf(l)'}
      BY <2>6
    <3>6. {node[m].value : m \in NodesOf(l)} = {node[m].value : m \in NodesOf(l)'} \cup {v}
      BY <1>3, <2>4, <3>1
    <3>7. values' = (had \cap Value) \cup ({node[m].value : m \in NodesOf(l)'} \ {NULL})
      BY <3>2, <3>3, <3>4, <3>6
    <3>8. QED
      BY <2>4, <2>6, <3>2, <3>5, <3>7
  <2>8. Copied(l, had)'
    BY <1>3, <2>1, <2>3, <2>4, <2>5, <2>7 DEF Copied
  <2>9. QED
    BY <1>4, <1>6, <2>8 DEF Copies
<1>7. QED
  BY <1>4, <1>5, <1>6

LEMMA NextCopies == MInv /\ Copies /\ [CNext]_cvars => Copies'
<1> SUFFICES ASSUME MInv, Copies, [CNext]_cvars PROVE Copies'
  OBVIOUS
<1>1. MInv' /\ ~undefined'
  BY NextMInv DEF MInv, NeverUndefined
<1>2. /\ DOMAIN call = {"op", "l", "curr", "count", "i", "key", "copy", "had"}
      /\ call.op \in {"none", "search", "index"} => call.copy = NULL
  BY DEF MInv, Locals
<1>3. CASE Abort \/ UNCHANGED cvars
  BY <1>3 DEF Abort, OutOfMemory, Z!zmalloc_oom, Z!heap, cvars, vars, heap, Copies, Copied, NodesOf, Live
<1>4. CASE OneStepCall
  BY <1>2, <1>4, NothingCopied DEF OneStepCall, Idle
<1>5. ASSUME NEW l \in Live(List), listRelease(l) \/ \E index \in Indices : listIndex(l, index)
      PROVE  Copies'
  <2>1. call'.copy = NULL
    BY <1>1, <1>5 DEF listRelease, listIndex, Step, Touching, Begin, NoCall
  <2>2. QED
    BY <2>1, NothingCopied
<1>6. ASSUME NEW l \in Live(List), NEW i \in Iter, NEW key, listSearchKey(l, i, key)
      PROVE  Copies'
  <2>1. call'.copy = NULL
    BY <1>6 DEF listSearchKey, Begin, NoCall
  <2>2. QED
    BY <2>1, NothingCopied
<1>7. CASE CallStarts
  BY <1>5, <1>6, <1>7, CopyStarts DEF CallStarts
<1>8. CASE IndexNext
  BY <1>1, <1>2, <1>8, NothingCopied DEF IndexNext, During, Step, Touching, Pass
<1>9. CASE SearchMiss
  BY <1>2, <1>9, NothingCopied DEF SearchMiss, During
<1>10. CASE ReleaseList \/ SearchReturn \/ IndexReturn \/ DupReturn
  <2>1. call'.copy = NULL
    BY <1>1, <1>10 DEF ReleaseList, SearchReturn, IndexReturn, DupReturn, Step, Touching, Return, NoCall
  <2>2. QED
    BY <2>1, NothingCopied
<1>11. CASE CallGoesOn
  BY <1>8, <1>9, <1>10, <1>11, CopyIterates, CopyGoesOn, CopyFails, CopyShrinks DEF CallGoesOn
<1>12. QED
  BY <1>3, <1>4, <1>7, <1>11 DEF CNext

\* When the release of a half-made copy is through.
LEMMA RolledBack ==
  ASSUME MInv, Copies, ReleaseList, call.copy # NULL
  PROVE  /\ Live(Blocks)' = call.had \cap Blocks
         /\ list[call.l].free => values' = call.had \cap Value
<1>1. PICK at \in [Node -> Int] : COrdered(at)
  BY DEF MInv
<1>2. PICK l, had : l = call.l /\ had = call.had
  OBVIOUS
<1>3. call.op = "release" /\ call.count = 0 /\ l \in Live(List) /\ Live(Iter) = {} /\ call.copy = l
  BY <1>2 DEF ReleaseList, During, MInv, Locals, Idle
<1>4. Drains(l, at) /\ l \in List /\ l # NULL /\ l \in Live(Blocks)
  BY <1>1, <1>2, <1>3, Addresses DEF COrdered, InRelease, Live
<1>5. NodesOf(l) = {}
  <2>1. IsFiniteSet(NodesOf(l))
    BY AdlistAssumption, FS_Subset DEF NodesOf
  <2>2. Cardinality(NodesOf(l)) = 0
    BY <1>3, <1>4 DEF Drains
  <2>3. QED
    BY <2>1, <2>2, FS_EmptySet
<1>6. Z!zfree(l) /\ UNCHANGED values
  BY <1>2, <1>4 DEF ReleaseList, Step, Touching, Return
<1>7. room'[l] = 0 /\ \A a \in Blocks : a # l => room'[a] = room[a]
  <2>1. Z!TypeOK /\ l \in Blocks /\ Z!zfree(l)
    BY <1>4, <1>6, Addresses DEF MInv, TypeOK
  <2>2. QED
    BY <2>1, Frees
<1>8. Live(Blocks)' = Live(Blocks) \ {l}
  BY <1>4, <1>7, Addresses DEF Live
<1>9. Copied(l, had)
  BY <1>2, <1>3, <1>4 DEF Copies
<1>10. Live(Blocks)' = had \cap Blocks
  BY <1>3, <1>5, <1>8, <1>9 DEF Copied
<1>11. list[l].free => values' = had \cap Value
  BY <1>5, <1>6, <1>9 DEF Copied
<1>12. QED
  BY <1>2, <1>10, <1>11

-----------------------------------------------------------------------------
(* The sequences callers see.                                              *)

Shown(l) == [k \in 1 .. list[l].len |-> node[Forward(l)[k]].value]
Seqs == [l \in List |-> IF Hidden(l) THEN NULL ELSE Shown(l)]

\* Every listing of the nodes in their order is the path, now and after a step.
Paths ==
  /\ \A l : \A at \in [Node -> Int] : Sorted(l, at) =>
       /\ \E f : Lists(f, NodesOf(l), at)
       /\ \A f : Lists(f, NodesOf(l), at) => OnPath(l, f)
  /\ \A l, f : OnPath(l, f) => Forward(l) = f

LEMMA PathsNow == Paths
<1>1. \A l : \A at \in [Node -> Int] : Sorted(l, at) =>
        /\ \E f : Lists(f, NodesOf(l), at)
        /\ \A f : Lists(f, NodesOf(l), at) => OnPath(l, f)
  BY SortedIsPath
<1>2. \A l, f : OnPath(l, f) => Forward(l) = f
  BY ForwardIsPath
<1>3. QED
  BY <1>1, <1>2, Zenon DEF Paths

LEMMA PathsNext == Paths'
  BY PathsNow, PTL

LEMMA ForwardNext ==
  ASSUME NEW l, NEW f, OnPath(l, f)' PROVE Forward(l)' = f
  BY PathsNext DEF Paths

\* A list callers see is on its path.
LEMMA SeenPath ==
  ASSUME MInv, NEW l \in List, ~Hidden(l)
  PROVE  l \in Live(List) /\ \E f : OnPath(l, f) /\ Forward(l) = f
<1>1. l \in Live(List) /\ ~InRelease(l)
  BY DEF Hidden, InRelease
<1>2. PICK at \in [Node -> Int] : Sorted(l, at)
  BY <1>1 DEF MInv, COrdered
<1>3. PICK f : OnPath(l, f)
  BY <1>2, SortedIsPath
<1>4. QED
  BY <1>1, <1>3, ForwardIsPath

\* A step that leaves a list and its nodes as they are.
Untouched(l) ==
  /\ list'[l].head = list[l].head /\ list'[l].tail = list[l].tail /\ list'[l].len = list[l].len
  /\ NodesOf(l)' = NodesOf(l)
  /\ \A n \in NodesOf(l) : node'[n] = node[n]

LEMMA StaysOnPath ==
  ASSUME NEW l, NEW f, OnPath(l, f), Untouched(l)
  PROVE  Shown(l)' = Shown(l) /\ Forward(l)' = f /\ Forward(l) = f
<1>1. Forward(l) = f
  BY ForwardIsPath
<1>2. PICK N \in Nat : N = list[l].len /\ f \in [1 .. N -> NodesOf(l)]
  BY DEF OnPath
<1>3. \A k \in 1 .. N : node'[f[k]] = node[f[k]]
  BY <1>2 DEF Untouched
<1>4. OnPath(l, f)'
  BY <1>2, <1>3 DEF OnPath, Untouched
<1>5. Forward(l)' = f
  BY <1>4, ForwardNext
<1>6. PICK g : g = Forward(l)' /\ g = f
  BY <1>5
<1>7. [k \in 1 .. N |-> node'[g[k]].value] = [k \in 1 .. N |-> node[f[k]].value]
  BY <1>3, <1>6
<1>8. Shown(l)' = [k \in 1 .. N |-> node'[g[k]].value]
  BY <1>2, <1>6 DEF Shown, Untouched
<1>9. Shown(l) = [k \in 1 .. N |-> node[f[k]].value]
  BY <1>1, <1>2 DEF Shown
<1>10. QED
  BY <1>1, <1>5, <1>7, <1>8, <1>9

LEMMA UntouchedShows ==
  ASSUME MInv, NEW l \in List, ~Hidden(l), Untouched(l)
  PROVE  Shown(l)' = Shown(l)
  BY SeenPath, StaysOnPath

\* A step callers do not see.
LEMMA Stutters ==
  ASSUME MInv, \A l \in List : Hidden(l)' = Hidden(l),
         \A l \in List : ~Hidden(l) => Untouched(l)
  PROVE  Seqs' = Seqs
<1>1. ASSUME NEW l \in List
      PROVE  (IF Hidden(l)' THEN NULL ELSE Shown(l)') = (IF Hidden(l) THEN NULL ELSE Shown(l))
  <2>1. CASE Hidden(l)
    BY <2>1
  <2>2. CASE ~Hidden(l)
    BY <2>2, UntouchedShows
  <2>3. QED
    BY <2>1, <2>2
<1>2. QED
  BY <1>1 DEF Seqs

\* A step that changes what callers see of one list.
LEMMA OneListChanges ==
  ASSUME MInv, NEW c \in List, NEW s, s = IF Hidden(c)' THEN NULL ELSE Shown(c)',
         \A l \in List : l # c => Hidden(l)' = Hidden(l),
         \A l \in List : l # c /\ ~Hidden(l) => Untouched(l)
  PROVE  Seqs' = [Seqs EXCEPT ![c] = s]
<1>1. ASSUME NEW l \in List, l # c
      PROVE  (IF Hidden(l)' THEN NULL ELSE Shown(l)') = (IF Hidden(l) THEN NULL ELSE Shown(l))
  <2>1. CASE Hidden(l)
    BY <1>1, <2>1
  <2>2. CASE ~Hidden(l)
    BY <1>1, <2>2, UntouchedShows
  <2>3. QED
    BY <2>1, <2>2
<1>2. QED
  BY <1>1 DEF Seqs

\* What callers see is a sequence of values.
LEMMA ShownIsSeq ==
  ASSUME MInv, NEW l \in List, ~Hidden(l)
  PROVE  /\ Shown(l) \in Seq(Value \cup {NULL}) /\ Shown(l) # NULL
         /\ Len(Shown(l)) = list[l].len /\ list[l].len \in Nat
         /\ Seqs[l] = Shown(l)
<1>1. PICK f : OnPath(l, f) /\ Forward(l) = f
  BY SeenPath
<1>2. PICK N \in Nat : N = list[l].len /\ f \in [1 .. N -> NodesOf(l)]
  BY <1>1 DEF OnPath
<1>3. \A k \in 1 .. N : node[f[k]].value \in Value \cup {NULL}
  BY <1>2 DEF NodesOf, MInv, TypeOK
<1>4. Shown(l) = [k \in 1 .. N |-> node[f[k]].value]
  BY <1>1, <1>2 DEF Shown
<1>5. Shown(l) \in [1 .. N -> Value \cup {NULL}]
  BY <1>3, <1>4
<1>6. Shown(l) \in Seq(Value \cup {NULL}) /\ Len(Shown(l)) = N
  BY <1>5
<1>7. Shown(l) # NULL
  BY <1>6, CallsAssumption
<1>8. QED
  BY <1>2, <1>6, <1>7 DEF Seqs

-----------------------------------------------------------------------------
(* Steps that change nothing callers see.                                  *)

\* Steps that neither begin nor end a call that hides a list.
LEMMA QuietStep ==
  ASSUME MInv, Live(List)' = Live(List), UNCHANGED <<node, owner>>,
         \A l \in Live(List) : list'[l].head = list[l].head /\ list'[l].tail = list[l].tail
                               /\ list'[l].len = list[l].len,
         \/ UNCHANGED <<call>>
         \/ call.op \notin {"dup", "release"} /\ call'.op \notin {"dup", "release"}
  PROVE  Seqs' = Seqs
<1>1. \A l \in List : Hidden(l)' = Hidden(l)
  BY DEF Hidden
<1>2. \A l \in List : ~Hidden(l) => Untouched(l)
  BY DEF Hidden, Untouched, NodesOf
<1>3. QED
  BY <1>1, <1>2, Stutters

LEMMA LookupsAreQuiet ==
  ASSUME MInv, NEW l \in Live(List),
         \/ \E i \in Iter, key \in values \cup {NULL} : listSearchKey(l, i, key)
         \/ \E index \in Indices : listIndex(l, index)
         \/ SearchMiss \/ SearchReturn \/ IndexNext \/ IndexReturn
  PROVE  Seqs' = Seqs
<1>1. ASSUME NEW i \in Iter, NEW key, listSearchKey(l, i, key) PROVE Seqs' = Seqs
  <2>1. /\ call.op = "none" /\ call'.op = "search" /\ listGetIterator(l, i, FORWARD)
    BY <1>1 DEF listSearchKey, Begin, Idle, NoCall
  <2>2. IInv
    BY <2>1, WithoutRelease
  <2>3. Live(List)' = Live(List) /\ UNCHANGED <<list, node, owner>>
    BY <2>1, <2>2, IteratorStarts
  <2>4. QED
    BY <2>1, <2>3, QuietStep
<1>2. ASSUME NEW index, listIndex(l, index) PROVE Seqs' = Seqs
  <2>1. /\ call.op = "none" /\ call'.op = "index" /\ UNCHANGED structs
    BY <1>2, Addresses DEF listIndex, Step, Touching, Begin, Live, Idle, NoCall
  <2>2. Live(List)' = Live(List) /\ UNCHANGED <<list, node, owner>>
    BY <2>1 DEF structs, heap, Live
  <2>3. QED
    BY <2>1, <2>2, QuietStep
<1>3. CASE SearchMiss
  <2>1. UNCHANGED <<list, node, owner, call, heap>>
    BY <1>3 DEF SearchMiss, listNext, Touching
  <2>2. Live(List)' = Live(List)
    BY <2>1 DEF heap, Live
  <2>3. QED
    BY <2>1, <2>2, QuietStep
<1>4. CASE SearchReturn
  <2>1. PICK i : i = call.i
    OBVIOUS
  <2>2. call.op = "search" /\ listReleaseIter(i) /\ call'.op = "none"
    BY <1>4, <2>1 DEF SearchReturn, During, Return, NoCall
  <2>3. IInv /\ i \in Iter
    BY <2>1, <2>2, WithoutRelease DEF Locals
  <2>4. Live(List)' = Live(List) /\ UNCHANGED <<list, node, owner>>
    BY <2>2, <2>3, IteratorEnds
  <2>5. QED
    BY <2>2, <2>4, QuietStep
<1>5. CASE IndexNext
  <2>1. /\ call.op = "index" /\ UNCHANGED structs
        /\ call' = [call EXCEPT !.curr = node[call.curr].next, !.count = call.count + 1]
        /\ Locals
    BY <1>5, IndexNextDoes
  <2>2. call'.op = "index"
    BY <2>1 DEF Locals
  <2>3. Live(List)' = Live(List) /\ UNCHANGED <<list, node, owner>>
    BY <2>1 DEF structs, heap, Live
  <2>4. QED
    BY <2>1, <2>2, <2>3, QuietStep
<1>6. CASE IndexReturn
  <2>1. call.op = "index" /\ call'.op = "none" /\ UNCHANGED vars
    BY <1>6 DEF IndexReturn, During, Return, NoCall
  <2>2. Live(List)' = Live(List) /\ UNCHANGED <<list, node, owner>>
    BY <2>1 DEF vars, heap, Live
  <2>3. QED
    BY <2>1, <2>2, QuietStep
<1>7. QED
  BY <1>1, <1>2, <1>3, <1>4, <1>5, <1>6

LEMMA AbortIsQuiet ==
  ASSUME MInv, Abort \/ UNCHANGED cvars PROVE Seqs' = Seqs
<1>1. UNCHANGED <<room, list, node, owner, call>>
  BY DEF Abort, OutOfMemory, Z!zmalloc_oom, Z!heap, cvars, vars, heap
<1>2. Live(List)' = Live(List)
  BY <1>1 DEF Live
<1>3. QED
  BY <1>1, <1>2, QuietStep

LEMMA CallersSetUp ==
  ASSUME MInv, call.op = "none", UNCHANGED call,
         \/ \E v \in Value : NewValue(v)
         \/ \E l \in List, m \in Methods : SetMethods(l, m[1], m[2], m[3])
  PROVE  Seqs' = Seqs
<1>1. ASSUME NEW v \in Value, NewValue(v) PROVE Seqs' = Seqs
  <2>1. UNCHANGED <<heap, list, node, owner>>
    BY <1>1 DEF NewValue
  <2>2. Live(List)' = Live(List)
    BY <2>1 DEF heap, Live
  <2>3. QED
    BY <2>1, <2>2, QuietStep
<1>2. ASSUME NEW l \in List, NEW d, NEW f, NEW m, SetMethods(l, d, f, m) PROVE Seqs' = Seqs
  <2>1. /\ UNCHANGED <<heap, node, owner>>
        /\ UNCHANGED list \/ list' = [list EXCEPT ![l].dup = d, ![l].free = f, ![l].match = m]
    BY <1>2 DEF SetMethods, Touching
  <2>2. Live(List)' = Live(List)
    BY <2>1 DEF heap, Live
  <2>3. \A k \in Live(List) : list'[k].head = list[k].head /\ list'[k].tail = list[k].tail
                              /\ list'[k].len = list[k].len
    BY <2>1 DEF Live, MInv, TypeOK
  <2>4. QED
    BY <2>1, <2>2, <2>3, QuietStep
<1>3. QED
  BY <1>1, <1>2

\* listDup works on a list callers do not see.
LEMMA DupIsQuiet ==
  ASSUME MInv, NEW orig \in Live(List), NEW copy \in List, listDup(orig, copy)
  PROVE  Seqs' = Seqs
<1>1. /\ IInv /\ call.op = "none" /\ list' = [list EXCEPT ![copy] = CopyOf(orig)]
      /\ call' = [NoCall EXCEPT !.op = "dup", !.l = orig, !.copy = copy,
                                !.had = Live(Blocks) \cup values]
      /\ UNCHANGED <<node, owner>>
      /\ Live(List)' = Live(List) \cup {copy} /\ copy \notin Live(List)
  BY DupDoes
<1>2. call'.op = "dup" /\ call'.copy = copy
  BY <1>1 DEF NoCall
<1>3. \A l \in List : Hidden(l)' = Hidden(l)
  BY <1>1, <1>2 DEF Hidden
<1>4. \A l \in List : l # copy => list'[l] = list[l]
  BY <1>1 DEF IInv, TypeOK
<1>5. \A l \in List : ~Hidden(l) => Untouched(l)
  BY <1>1, <1>4 DEF Hidden, Untouched, NodesOf
<1>6. QED
  BY <1>3, <1>5, Stutters

LEMMA DupIteratorIsQuiet ==
  ASSUME MInv, NEW i \in Iter, DupIterator(i) PROVE Seqs' = Seqs
<1>1. PICK l : l = call.l
  OBVIOUS
<1>2. /\ call.op = "dup" /\ listGetIterator(l, i, FORWARD)
      /\ call' = [call EXCEPT !.i = i]
  BY <1>1 DEF DupIterator, During, Pass
<1>3. IInv /\ Locals /\ l \in Live(List)
  BY <1>1, <1>2, WithoutRelease DEF Locals, Idle
<1>4. Live(List)' = Live(List) /\ UNCHANGED <<list, node, owner>>
  BY <1>2, <1>3, IteratorStarts
<1>5. call'.op = call.op /\ call'.copy = call.copy /\ call'.l = call.l
  BY <1>2, <1>3 DEF Locals
<1>6. \A k \in List : Hidden(k)' = Hidden(k)
  BY <1>4, <1>5 DEF Hidden
<1>7. \A k \in List : ~Hidden(k) => Untouched(k)
  BY <1>4 DEF Untouched, NodesOf
<1>8. QED
  BY <1>6, <1>7, Stutters

LEMMA DupNodeIsQuiet ==
  ASSUME MInv, NEW n \in Node, NEW v \in Value \cup {NULL}, DupNode(n, v) PROVE Seqs' = Seqs
<1>1. PICK l, c, i, o : l = call.l /\ c = call.copy /\ i = call.i /\ o = iter[i].next
  OBVIOUS
<1>2. CopiesNode(l, c, i, o, n, v)
  BY <1>1, DupNodeDoes
<1>3. IInv /\ c \in Live(List) /\ call' = call /\ call.op = "dup"
  BY <1>2 DEF CopiesNode
<1>4. PICK b \in [Node -> Int] : Adds(c, n, v, b)
  BY <1>1, DupNodeMInv
<1>5. /\ Live(List)' = Live(List)
      /\ \A k : k # c /\ k # NULL => NodesOf(k)' = NodesOf(k)
  BY <1>3, <1>4, AddsToOne
<1>6. /\ \A k \in List : k # c => list'[k] = list[k]
      /\ \A m \in Node : m # n /\ owner[m] # c => node'[m] = node[m]
      /\ owner[n] = NULL
  BY <1>4 DEF Adds
<1>7. \A k \in List : Hidden(k)' = Hidden(k)
  BY <1>3, <1>5 DEF Hidden
<1>8. ASSUME NEW k \in List, ~Hidden(k) PROVE Untouched(k)
  <2>1. k # c /\ k # NULL
    BY <1>1, <1>3, <1>8, Addresses DEF Hidden
  <2>2. \A m \in NodesOf(k) : m \in Node /\ m # n /\ owner[m] # c
    BY <1>6, <2>1 DEF NodesOf
  <2>3. QED
    BY <1>5, <1>6, <2>1, <2>2 DEF Untouched
<1>9. QED
  BY <1>7, <1>8, Stutters

LEMMA DupFailsIsQuiet ==
  ASSUME MInv, DupFails PROVE Seqs' = Seqs
<1>1. /\ call.op = "dup" /\ call.i # NULL /\ listReleaseIter(call.i)
      /\ call' = [call EXCEPT !.op = "release", !.l = call.copy, !.i = NULL,
                    !.curr = list[call.copy].head, !.count = list[call.copy].len]
  BY DEF DupFails, During, Pass
<1>2. Locals /\ Live(List)' = Live(List) /\ UNCHANGED <<list, node, owner>>
  BY <1>1, DupEndsDoes
<1>3. call'.op = "release" /\ call'.l = call.copy
  BY <1>1, <1>2 DEF Locals
<1>4. \A k \in List : Hidden(k)' = Hidden(k)
  BY <1>1, <1>2, <1>3 DEF Hidden
<1>5. \A k \in List : ~Hidden(k) => Untouched(k)
  BY <1>2 DEF Untouched, NodesOf
<1>6. QED
  BY <1>4, <1>5, Stutters

\* The loop of listRelease takes apart a list callers see no more.
LEMMA ReleaseNodeIsQuiet ==
  ASSUME MInv, ReleaseNode PROVE Seqs' = Seqs
<1>1. PICK at \in [Node -> Int] : COrdered(at)
  BY DEF MInv
<1>2. PICK l, n : l = call.l /\ n = call.curr
  OBVIOUS
<1>3. /\ l # NULL /\ n \in Node /\ owner[n] = l /\ call.op = "release"
      /\ call' = [call EXCEPT !.curr = node[n].next, !.count = call.count - 1]
      /\ Z!zfree(n)
      /\ node' = [node EXCEPT ![n] = BlankNode]
      /\ owner' = [owner EXCEPT ![n] = NULL]
      /\ UNCHANGED list
  BY <1>1, <1>2, ReleaseNodeDoes
<1>4. call'.op = call.op /\ call'.copy = call.copy /\ call'.l = call.l
  BY <1>2, <1>3 DEF MInv, Locals
<1>5. \A a \in Blocks : a # n => room'[a] = room[a]
  <2>1. Z!TypeOK /\ n \in Blocks /\ Z!zfree(n)
    BY <1>3, Addresses DEF MInv, TypeOK
  <2>2. QED
    BY <2>1, Frees
<1>6. Live(List)' = Live(List)
  BY <1>3, <1>5, Addresses DEF Live
<1>7. \A k \in List : Hidden(k)' = Hidden(k)
  BY <1>4, <1>6 DEF Hidden
<1>8. ASSUME NEW k \in List, ~Hidden(k) PROVE Untouched(k)
  <2>1. k # l /\ k # NULL
    BY <1>2, <1>3, <1>8, Addresses DEF Hidden
  <2>2. NodesOf(k)' = NodesOf(k) /\ n \notin NodesOf(k) /\ NodesOf(k) \subseteq Node
    BY <1>3, <2>1 DEF NodesOf, MInv, TypeOK
  <2>3. \A m \in NodesOf(k) : node'[m] = node[m]
    BY <1>3, <2>2 DEF MInv, TypeOK
  <2>4. QED
    BY <1>3, <2>2, <2>3 DEF Untouched
<1>9. QED
  BY <1>7, <1>8, Stutters

LEMMA ReleaseListIsQuiet ==
  ASSUME MInv, ReleaseList PROVE Seqs' = Seqs
<1>1. PICK l : l = call.l
  OBVIOUS
<1>2. call.op = "release" /\ l \in Live(List) /\ l \in List /\ l \in Live(Blocks) /\ l \in Blocks
  BY <1>1, Addresses DEF ReleaseList, During, MInv, Locals, Idle, Live
<1>3. /\ Z!zfree(l) /\ list' = [list EXCEPT ![l] = EmptyList] /\ call'.op = "none"
      /\ UNCHANGED <<node, owner>>
  BY <1>1, <1>2 DEF ReleaseList, Step, Touching, Return, NoCall
<1>4. room'[l] = 0 /\ \A a \in Blocks : a # l => room'[a] = room[a]
  <2>1. Z!TypeOK
    BY DEF MInv, TypeOK
  <2>2. QED
    BY <1>2, <1>3, <2>1, Frees
<1>5. Live(List)' = Live(List) \ {l}
  BY <1>2, <1>4, Addresses DEF Live
<1>6. \A k \in List : Hidden(k)' = Hidden(k)
  BY <1>1, <1>2, <1>3, <1>5 DEF Hidden
<1>7. \A k \in List : k # l => list'[k] = list[k]
  BY <1>3 DEF MInv, TypeOK
<1>8. \A k \in List : ~Hidden(k) => Untouched(k)
  BY <1>1, <1>2, <1>3, <1>7 DEF Hidden, Untouched, NodesOf
<1>9. QED
  BY <1>6, <1>8, Stutters

-----------------------------------------------------------------------------
(* What a step does to the listing of the nodes, and to the sequence.       *)

LEMMA ListGrowsLast ==
  ASSUME NEW S, IsFiniteSet(S), NEW at, \A x \in S : at[x] \in Int, NEW f, Lists(f, S, at),
         NEW n, n \notin S, \A m \in S : at[m] < at[n], NEW N, N = Cardinality(S)
  PROVE  Lists([k \in 1 .. N + 1 |-> IF k = N + 1 THEN n ELSE f[k]], S \cup {n}, at)
<1>1. N \in Nat /\ Cardinality(S \cup {n}) = N + 1
  BY FS_CardinalityType, FS_AddElement
<1>2. f \in [1 .. N -> S] /\ \A j, k \in 1 .. N : j < k => at[f[j]] < at[f[k]]
  BY DEF Lists
<1>3. PICK g : g = [k \in 1 .. N + 1 |-> IF k = N + 1 THEN n ELSE f[k]]
  OBVIOUS
<1>4. g[N + 1] = n /\ \A k \in 1 .. N : g[k] = f[k] /\ g[k] \in S
  BY <1>1, <1>2, <1>3
<1>5. \A k \in 1 .. N + 1 : k # N + 1 => k \in 1 .. N
  BY <1>1
<1>6. g \in [1 .. N + 1 -> S \cup {n}]
  BY <1>3, <1>4, <1>5
<1>7. ASSUME NEW j \in 1 .. N + 1, NEW k \in 1 .. N + 1, j < k PROVE at[g[j]] < at[g[k]]
  <2>1. j \in 1 .. N
    BY <1>1, <1>7
  <2>2. CASE k = N + 1
    BY <1>4, <2>1, <2>2
  <2>3. CASE k # N + 1
    BY <1>2, <1>4, <1>5, <1>7, <2>1, <2>3
  <2>4. QED
    BY <2>2, <2>3
<1>8. QED
  BY <1>1, <1>3, <1>6, <1>7 DEF Lists

LEMMA ListGrowsFirst ==
  ASSUME NEW S, IsFiniteSet(S), NEW at, \A x \in S : at[x] \in Int, NEW f, Lists(f, S, at),
         NEW n, n \notin S, \A m \in S : at[n] < at[m], NEW N, N = Cardinality(S)
  PROVE  Lists([k \in 1 .. N + 1 |-> IF k = 1 THEN n ELSE f[k - 1]], S \cup {n}, at)
<1>1. N \in Nat /\ Cardinality(S \cup {n}) = N + 1
  BY FS_CardinalityType, FS_AddElement
<1>2. f \in [1 .. N -> S] /\ \A j, k \in 1 .. N : j < k => at[f[j]] < at[f[k]]
  BY DEF Lists
<1>3. PICK g : g = [k \in 1 .. N + 1 |-> IF k = 1 THEN n ELSE f[k - 1]]
  OBVIOUS
<1>4. \A k \in 1 .. N + 1 : k # 1 => k - 1 \in 1 .. N
  BY <1>1
<1>5. g[1] = n /\ \A k \in 1 .. N + 1 : k # 1 => g[k] = f[k - 1] /\ g[k] \in S
  BY <1>1, <1>2, <1>3, <1>4
<1>6. g \in [1 .. N + 1 -> S \cup {n}]
  BY <1>3, <1>5
<1>7. ASSUME NEW j \in 1 .. N + 1, NEW k \in 1 .. N + 1, j < k PROVE at[g[j]] < at[g[k]]
  <2>1. k # 1
    BY <1>1, <1>7
  <2>2. CASE j = 1
    BY <1>5, <2>1, <2>2
  <2>3. CASE j # 1
    <3>1. j - 1 \in 1 .. N /\ k - 1 \in 1 .. N /\ j - 1 < k - 1
      BY <1>4, <1>7, <2>1, <2>3
    <3>2. QED
      BY <1>2, <1>5, <2>1, <2>3, <3>1
  <2>4. QED
    BY <2>2, <2>3
<1>8. QED
  BY <1>1, <1>3, <1>6, <1>7 DEF Lists

LEMMA ListShrinks ==
  ASSUME NEW S, IsFiniteSet(S), NEW at, \A x \in S : at[x] \in Int, NEW f, Lists(f, S, at),
         NEW N, N = Cardinality(S), NEW j \in 1 .. N
  PROVE  Lists([k \in 1 .. N - 1 |-> IF k < j THEN f[k] ELSE f[k + 1]], S \ {f[j]}, at)
<1>1. f \in [1 .. N -> S] /\ \A i, k \in 1 .. N : i < k => at[f[i]] < at[f[k]]
  BY DEF Lists
<1>2. N \in Nat /\ f[j] \in S
  BY <1>1, FS_CardinalityType
<1>3. Cardinality(S \ {f[j]}) = N - 1
  BY <1>2, FS_RemoveElement
<1>4. PICK g : g = [k \in 1 .. N - 1 |-> IF k < j THEN f[k] ELSE f[k + 1]]
  OBVIOUS
<1>5. PICK p : p = [k \in 1 .. N - 1 |-> IF k < j THEN k ELSE k + 1]
  OBVIOUS
<1>6. \A k \in 1 .. N - 1 : p[k] \in 1 .. N /\ p[k] # j /\ g[k] = f[p[k]]
  BY <1>2, <1>4, <1>5
<1>7. \A i, k \in 1 .. N - 1 : i < k => p[i] < p[k]
  BY <1>2, <1>5
<1>8. \A i, k \in 1 .. N : f[i] = f[k] => i = k
  BY ListIsOnto
<1>9. g \in [1 .. N - 1 -> S \ {f[j]}]
  <2>1. \A k \in 1 .. N - 1 : g[k] \in S \ {f[j]}
    BY <1>1, <1>6, <1>8
  <2>2. QED
    BY <1>4, <2>1
<1>10. \A i, k \in 1 .. N - 1 : i < k => at[g[i]] < at[g[k]]
  BY <1>1, <1>6, <1>7
<1>11. QED
  BY <1>3, <1>4, <1>9, <1>10 DEF Lists

LEMMA Appended ==
  ASSUME NEW T, NEW N \in Nat, NEW s \in [1 .. N -> T], NEW v \in T
  PROVE  Append(s, v) = [k \in 1 .. N + 1 |-> IF k = N + 1 THEN v ELSE s[k]]
<1>1. s \in Seq(T) /\ Len(s) = N
  OBVIOUS
<1>2. PICK c : c = Append(s, v)
  OBVIOUS
<1>3. /\ c \in Seq(T) /\ Len(c) = N + 1
      /\ \A k \in 1 .. N : c[k] = s[k]
      /\ c[N + 1] = v
  BY <1>1, <1>2, AppendProperties
<1>4. c \in [1 .. N + 1 -> T]
  BY <1>3, LenProperties
<1>5. \A k \in 1 .. N + 1 : k # N + 1 => k \in 1 .. N
  OBVIOUS
<1>6. \A k \in 1 .. N + 1 : c[k] = IF k = N + 1 THEN v ELSE s[k]
  BY <1>3, <1>5
<1>7. QED
  BY <1>2, <1>4, <1>6

LEMMA Prepended ==
  ASSUME NEW T, NEW N \in Nat, NEW s \in [1 .. N -> T], NEW v \in T
  PROVE  <<v>> \o s = [k \in 1 .. N + 1 |-> IF k = 1 THEN v ELSE s[k - 1]]
<1>1. s \in Seq(T) /\ Len(s) = N
  OBVIOUS
<1>2. PICK a : a = <<v>>
  OBVIOUS
<1>3. a \in Seq(T) /\ Len(a) = 1 /\ a[1] = v
  BY <1>2
<1>4. PICK c : c = a \o s
  OBVIOUS
<1>5. /\ c \in Seq(T) /\ Len(c) = 1 + N
      /\ \A k \in 1 .. 1 + N : c[k] = IF k <= 1 THEN a[k] ELSE s[k - 1]
  <2>1. /\ a \o s \in Seq(T) /\ Len(a \o s) = Len(a) + Len(s)
        /\ \A k \in 1 .. Len(a) + Len(s) :
             (a \o s)[k] = IF k <= Len(a) THEN a[k] ELSE s[k - Len(a)]
    BY <1>1, <1>3, ConcatProperties, Zenon
  <2>2. QED
    BY <1>1, <1>3, <1>4, <2>1
<1>6. c \in [1 .. N + 1 -> T]
  BY <1>5, LenProperties
<1>7. \A k \in 1 .. N + 1 : c[k] = IF k = 1 THEN v ELSE s[k - 1]
  BY <1>3, <1>5
<1>8. QED
  BY <1>2, <1>4, <1>6, <1>7

LEMMA Removed ==
  ASSUME NEW T, NEW N \in Nat, NEW s \in [1 .. N -> T], NEW j \in 1 .. N
  PROVE  Abstract!RemoveAt(s, j) = [k \in 1 .. N - 1 |-> IF k < j THEN s[k] ELSE s[k + 1]]
<1>1. s \in Seq(T) /\ Len(s) = N
  OBVIOUS
<1>2. PICK a : a = SubSeq(s, 1, j - 1)
  OBVIOUS
<1>3. PICK b : b = SubSeq(s, j + 1, N)
  OBVIOUS
<1>4. a \in Seq(T) /\ Len(a) = j - 1 /\ \A k \in 1 .. j - 1 : a[k] = s[k]
  BY <1>1, <1>2
<1>5. b \in Seq(T) /\ Len(b) = N - j /\ \A k \in 1 .. N - j : b[k] = s[k + j]
  BY <1>1, <1>3
<1>6. PICK c : c = a \o b
  OBVIOUS
<1>7. /\ c \in Seq(T) /\ Len(c) = N - 1
      /\ \A k \in 1 .. N - 1 : c[k] = IF k <= j - 1 THEN a[k] ELSE b[k - (j - 1)]
  BY <1>4, <1>5, <1>6
<1>8. \A k \in 1 .. N - 1 : c[k] = IF k < j THEN s[k] ELSE s[k + 1]
  <2>1. \A k \in 1 .. N - 1 : k < j => c[k] = s[k]
    BY <1>4, <1>7
  <2>2. ASSUME NEW k \in 1 .. N - 1, ~(k < j) PROVE c[k] = s[k + 1]
    <3>1. k - (j - 1) \in 1 .. N - j /\ k - (j - 1) + j = k + 1 /\ ~(k <= j - 1)
      BY <2>2
    <3>2. QED
      BY <1>5, <1>7, <3>1
  <2>3. QED
    BY <2>1, <2>2
<1>9. c = [k \in 1 .. N - 1 |-> IF k < j THEN s[k] ELSE s[k + 1]]
  BY <1>7, <1>8
<1>10. QED
  BY <1>1, <1>2, <1>3, <1>6, <1>9 DEF Abstract!RemoveAt

LEMMA PathNext ==
  ASSUME NEW l, NEW at \in [Node -> Int], Sorted(l, at)', NEW f, Lists(f, NodesOf(l)', at)
  PROVE  OnPath(l, f)'
<1>1. \A k : \A a \in [Node -> Int] : Sorted(k, a)' =>
        \A h : Lists(h, NodesOf(k)', a) => OnPath(k, h)'
  BY PathsNext DEF Paths
<1>2. QED
  BY <1>1

LEMMA ShowsNext ==
  ASSUME NEW l, NEW N, list'[l].len = N, NEW f, OnPath(l, f)'
  PROVE  Shown(l)' = [k \in 1 .. N |-> node'[f[k]].value]
<1>1. PICK g : g = Forward(l)' /\ g = f
  BY ForwardNext
<1>2. Shown(l)' = [k \in 1 .. N |-> node'[g[k]].value]
  BY <1>1 DEF Shown
<1>3. QED
  BY <1>1, <1>2

\* The nodes of a list in their order, and what callers see of them.
LEMMA ShowsNow ==
  ASSUME IInv, NEW l \in Live(List), NEW at \in [Node -> Int], Ordered(at),
         NEW S, S = NodesOf(l)
  PROVE  \E N \in Nat, f \in [1 .. Cardinality(S) -> S] :
           /\ N = Cardinality(S) /\ list[l].len = N /\ Lists(f, S, at) /\ OnPath(l, f)
           /\ Shown(l) = [k \in 1 .. N |-> node[f[k]].value]
           /\ Shown(l) \in [1 .. N -> Value \cup {NULL}]
           /\ IsFiniteSet(S) /\ S \subseteq Node /\ \A x \in S : at[x] \in Int
<1>1. PICK f : OnPath(l, f) /\ Lists(f, S, at) /\ Forward(l) = f
  BY PathOf
<1>2. PICK N \in Nat : N = list[l].len /\ N = Cardinality(S) /\ f \in [1 .. N -> S]
  BY <1>1 DEF OnPath
<1>3. IsFiniteSet(S) /\ S \subseteq Node /\ \A x \in S : at[x] \in Int
  BY AdlistAssumption, FS_Subset DEF NodesOf
<1>4. \A k \in 1 .. N : node[f[k]].value \in Value \cup {NULL}
  BY <1>2, <1>3 DEF IInv, TypeOK
<1>5. Shown(l) = [k \in 1 .. N |-> node[f[k]].value]
  BY <1>1, <1>2 DEF Shown
<1>6. QED
  BY <1>1, <1>2, <1>3, <1>4, <1>5

LEMMA AddsLast ==
  ASSUME IInv, NEW b \in [Node -> Int], Ordered(b), NEW l \in Live(List), NEW n \in Node,
         NEW v \in Value \cup {NULL}, Adds(l, n, v, b), \A m \in NodesOf(l) : b[m] < b[n]
  PROVE  Shown(l)' = Append(Shown(l), v)
<1>1. PICK S : S = NodesOf(l)
  OBVIOUS
<1>2. PICK N \in Nat, f \in [1 .. Cardinality(S) -> S] :
           /\ N = Cardinality(S) /\ list[l].len = N /\ Lists(f, S, b) /\ OnPath(l, f)
           /\ Shown(l) = [k \in 1 .. N |-> node[f[k]].value]
           /\ Shown(l) \in [1 .. N -> Value \cup {NULL}]
           /\ IsFiniteSet(S) /\ S \subseteq Node /\ \A x \in S : b[x] \in Int
  BY <1>1, ShowsNow
<1>3. /\ NodesOf(l)' = S \cup {n} /\ l # NULL
  BY <1>1, AddsToOne
<1>4. /\ n \notin S /\ list'[l].len = N + 1 /\ Sorted(l, b)' /\ node'[n].value = v
      /\ \A m \in Node : m # n => node'[m].value = node[m].value
  BY <1>1, <1>2, <1>3 DEF Adds, NodesOf
<1>5. PICK g : g = [k \in 1 .. N + 1 |-> IF k = N + 1 THEN n ELSE f[k]]
  OBVIOUS
<1>6. Lists(g, S \cup {n}, b)
  <2>1. \A m \in S : b[m] < b[n]
    BY <1>1
  <2>2. /\ IsFiniteSet(S) /\ \A x \in S : b[x] \in Int
        /\ Lists(f, S, b) /\ N = Cardinality(S) /\ n \notin S
    BY <1>2, <1>4
  <2>3. Lists([k \in 1 .. N + 1 |-> IF k = N + 1 THEN n ELSE f[k]], S \cup {n}, b)
    BY <2>1, <2>2, ListGrowsLast
  <2>4. QED
    BY <1>5, <2>3
<1>7. OnPath(l, g)'
  <2>1. Lists(g, NodesOf(l)', b)
    BY <1>3, <1>6
  <2>2. Sorted(l, b)'
    BY <1>4
  <2>3. QED
    BY <2>1, <2>2, PathNext
<1>8. \A k \in 1 .. N + 1 : node'[g[k]].value = IF k = N + 1 THEN v ELSE Shown(l)[k]
  <2>1. ASSUME NEW k \in 1 .. N + 1, k # N + 1 PROVE node'[g[k]].value = Shown(l)[k]
    <3>1. k \in 1 .. N
      BY <2>1
    <3>2. g[k] = f[k] /\ f[k] \in S
      BY <1>2, <1>5, <2>1, <3>1
    <3>3. node'[f[k]].value = node[f[k]].value
      BY <1>2, <1>4, <3>2
    <3>4. QED
      BY <1>2, <3>1, <3>2, <3>3
  <2>2. g[N + 1] = n
    BY <1>2, <1>5
  <2>3. QED
    BY <1>4, <2>1, <2>2
<1>9. Shown(l)' = [k \in 1 .. N + 1 |-> node'[g[k]].value]
  BY <1>4, <1>7, ShowsNext
<1>10. Append(Shown(l), v) = [k \in 1 .. N + 1 |-> IF k = N + 1 THEN v ELSE Shown(l)[k]]
  BY <1>2, Appended
<1>11. QED
  BY <1>8, <1>9, <1>10

LEMMA AddsFirst ==
  ASSUME IInv, NEW b \in [Node -> Int], Ordered(b), NEW l \in Live(List), NEW n \in Node,
         NEW v \in Value \cup {NULL}, Adds(l, n, v, b), \A m \in NodesOf(l) : b[n] < b[m]
  PROVE  Shown(l)' = <<v>> \o Shown(l)
<1>1. PICK S : S = NodesOf(l)
  OBVIOUS
<1>2. PICK N \in Nat, f \in [1 .. Cardinality(S) -> S] :
           /\ N = Cardinality(S) /\ list[l].len = N /\ Lists(f, S, b) /\ OnPath(l, f)
           /\ Shown(l) = [k \in 1 .. N |-> node[f[k]].value]
           /\ Shown(l) \in [1 .. N -> Value \cup {NULL}]
           /\ IsFiniteSet(S) /\ S \subseteq Node /\ \A x \in S : b[x] \in Int
  BY <1>1, ShowsNow
<1>3. /\ NodesOf(l)' = S \cup {n} /\ l # NULL
  BY <1>1, AddsToOne
<1>4. /\ n \notin S /\ list'[l].len = N + 1 /\ Sorted(l, b)' /\ node'[n].value = v
      /\ \A m \in Node : m # n => node'[m].value = node[m].value
  BY <1>1, <1>2, <1>3 DEF Adds, NodesOf
<1>5. PICK g : g = [k \in 1 .. N + 1 |-> IF k = 1 THEN n ELSE f[k - 1]]
  OBVIOUS
<1>6. Lists(g, S \cup {n}, b)
  <2>1. \A m \in S : b[n] < b[m]
    BY <1>1
  <2>2. /\ IsFiniteSet(S) /\ \A x \in S : b[x] \in Int
        /\ Lists(f, S, b) /\ N = Cardinality(S) /\ n \notin S
    BY <1>2, <1>4
  <2>3. Lists([k \in 1 .. N + 1 |-> IF k = 1 THEN n ELSE f[k - 1]], S \cup {n}, b)
    BY <2>1, <2>2, ListGrowsFirst
  <2>4. QED
    BY <1>5, <2>3
<1>7. OnPath(l, g)'
  <2>1. Lists(g, NodesOf(l)', b)
    BY <1>3, <1>6
  <2>2. Sorted(l, b)'
    BY <1>4
  <2>3. QED
    BY <2>1, <2>2, PathNext
<1>8. \A k \in 1 .. N + 1 : node'[g[k]].value = IF k = 1 THEN v ELSE Shown(l)[k - 1]
  <2>1. ASSUME NEW k \in 1 .. N + 1, k # 1 PROVE node'[g[k]].value = Shown(l)[k - 1]
    <3>1. k - 1 \in 1 .. N
      BY <2>1
    <3>2. g[k] = f[k - 1] /\ f[k - 1] \in S
      BY <1>2, <1>5, <2>1, <3>1
    <3>3. node'[f[k - 1]].value = node[f[k - 1]].value
      BY <1>2, <1>4, <3>2
    <3>4. QED
      BY <1>2, <3>1, <3>2, <3>3
  <2>2. g[1] = n
    BY <1>2, <1>5
  <2>3. QED
    BY <1>4, <2>1, <2>2
<1>9. Shown(l)' = [k \in 1 .. N + 1 |-> node'[g[k]].value]
  BY <1>4, <1>7, ShowsNext
<1>10. <<v>> \o Shown(l) = [k \in 1 .. N + 1 |-> IF k = 1 THEN v ELSE Shown(l)[k - 1]]
  BY <1>2, Prepended
<1>11. QED
  BY <1>8, <1>9, <1>10

\* What is left of the sequence when a node is deleted.
LEMMA DeletesOne ==
  ASSUME IInv, NEW at \in [Node -> Int], Ordered(at), NEW l \in Live(List), NEW n \in Node,
         listDelNode(l, n), NEW p, NEW q, Deletes(l, n, p, q), Ordered(at)', l \in Live(List)'
  PROVE  \E j \in DOMAIN Shown(l) : Shown(l)' = Abstract!RemoveAt(Shown(l), j)
<1>1. PICK S : S = NodesOf(l)
  OBVIOUS
<1>2. PICK N \in Nat, f \in [1 .. Cardinality(S) -> S] :
           /\ N = Cardinality(S) /\ list[l].len = N /\ Lists(f, S, at) /\ OnPath(l, f)
           /\ Shown(l) = [k \in 1 .. N |-> node[f[k]].value]
           /\ Shown(l) \in [1 .. N -> Value \cup {NULL}]
           /\ IsFiniteSet(S) /\ S \subseteq Node /\ \A x \in S : at[x] \in Int
  BY <1>1, ShowsNow
<1>3. /\ owner[n] = l /\ owner' = [owner EXCEPT ![n] = NULL] /\ list'[l].len = N - 1
      /\ \A m \in Node : m # n => node'[m].value = node[m].value
  BY <1>2 DEF Deletes
<1>4. n \in S /\ NodesOf(l)' = S \ {n}
  <2>1. l # NULL /\ owner \in [Node -> List \cup {NULL}]
    BY Addresses DEF Live, IInv, TypeOK
  <2>2. QED
    BY <1>1, <1>3, <2>1 DEF NodesOf
<1>5. PICK j \in 1 .. N : f[j] = n
  BY <1>1, <1>2, <1>4 DEF OnPath
<1>6. PICK g : g = [k \in 1 .. N - 1 |-> IF k < j THEN f[k] ELSE f[k + 1]]
  OBVIOUS
<1>7. Lists(g, S \ {n}, at)
  BY <1>2, <1>5, <1>6, ListShrinks
<1>8. Sorted(l, at)'
  BY DEF Ordered
<1>9. OnPath(l, g)'
  <2>1. Lists(g, NodesOf(l)', at)
    BY <1>4, <1>7
  <2>2. QED
    BY <1>8, <2>1, PathNext
<1>10. PICK h : h = [k \in 1 .. N - 1 |-> IF k < j THEN k ELSE k + 1]
  OBVIOUS
<1>11. ASSUME NEW k \in 1 .. N - 1
       PROVE  node'[g[k]].value = IF k < j THEN Shown(l)[k] ELSE Shown(l)[k + 1]
  <2>1. PICK i \in 1 .. N : i = (IF k < j THEN k ELSE k + 1) /\ i # j
    <3>1. k \in 1 .. N /\ k + 1 \in 1 .. N
      OBVIOUS
    <3>2. (IF k < j THEN k ELSE k + 1) # j
      OBVIOUS
    <3>3. QED
      BY <3>1, <3>2
  <2>2. g[k] = f[i]
    BY <1>6, <2>1
  <2>3. f[i] \in S /\ f[i] # n
    BY <1>2, <1>5, <2>1 DEF OnPath
  <2>4. node'[f[i]].value = node[f[i]].value
    BY <1>2, <1>3, <2>3
  <2>5. Shown(l)[i] = node[f[i]].value
    BY <1>2
  <2>6. QED
    BY <2>1, <2>2, <2>4, <2>5
<1>12. Shown(l)' = [k \in 1 .. N - 1 |-> node'[g[k]].value]
  BY <1>3, <1>9, ShowsNext
<1>13. Abstract!RemoveAt(Shown(l), j)
         = [k \in 1 .. N - 1 |-> IF k < j THEN Shown(l)[k] ELSE Shown(l)[k + 1]]
  <2>1. PICK s \in [1 .. N -> Value \cup {NULL}] : s = Shown(l)
    BY <1>2
  <2>2. j \in 1 .. N /\ N \in Nat
    BY <1>2, <1>5
  <2>3. Abstract!RemoveAt(s, j) = [k \in 1 .. N - 1 |-> IF k < j THEN s[k] ELSE s[k + 1]]
    BY <2>2, Removed
  <2>4. QED
    BY <2>1, <2>3
<1>14. j \in DOMAIN Shown(l)
  BY <1>2, <1>5
<1>15. QED
  BY <1>11, <1>12, <1>13, <1>14

\* Other lists are as they were when a node is added or deleted.
LEMMA AddsElsewhere ==
  ASSUME MInv, IInv, NEW b \in [Node -> Int], NEW l \in Live(List), NEW n \in Node, NEW v,
         Adds(l, n, v, b), UNCHANGED call
  PROVE  /\ \A k \in List : Hidden(k)' = Hidden(k)
         /\ \A k \in List : k # l /\ ~Hidden(k) => Untouched(k)
<1>1. /\ Live(List)' = Live(List)
      /\ \A k : k # l /\ k # NULL => NodesOf(k)' = NodesOf(k)
  BY AddsToOne
<1>2. /\ \A k \in List : k # l => list'[k] = list[k]
      /\ \A m \in Node : m # n /\ owner[m] # l => node'[m] = node[m]
      /\ owner[n] = NULL
  BY DEF Adds
<1>3. \A k \in List : Hidden(k)' = Hidden(k)
  BY <1>1 DEF Hidden
<1>4. ASSUME NEW k \in List, k # l, ~Hidden(k) PROVE Untouched(k)
  <2>1. k # NULL
    BY Addresses
  <2>2. \A m \in NodesOf(k) : m \in Node /\ m # n /\ owner[m] # l
    BY <1>2, <1>4, <2>1 DEF NodesOf
  <2>3. QED
    BY <1>1, <1>2, <1>4, <2>1, <2>2 DEF Untouched
<1>5. QED
  BY <1>3, <1>4

LEMMA Created ==
  ASSUME MInv, call.op = "none", UNCHANGED call, NEW l \in List, listCreate(l)
  PROVE  Seqs[l] = NULL /\ Seqs' = [Seqs EXCEPT ![l] = <<>>]
<1>1. IInv
  BY WithoutRelease
<1>2. /\ Z!zmalloc(l, SizeofList) /\ list' = [list EXCEPT ![l] = EmptyList]
      /\ UNCHANGED <<node, iter, values, undefined, owner, walk>>
  BY DEF listCreate
<1>3. Live(List)' = Live(List) \cup {l} /\ l \notin Live(List)
  <2>1. PICK r \in [head : Node \cup {NULL}, tail : Node \cup {NULL}, len : Nat,
                    dup : BOOLEAN, free : BOOLEAN, match : BOOLEAN] :
          r = EmptyList /\ r.head = NULL /\ r.tail = NULL /\ r.len = 0
    <3>1. PICK r : r = EmptyList
      OBVIOUS
    <3>2. /\ r \in [head : Node \cup {NULL}, tail : Node \cup {NULL}, len : Nat,
                    dup : BOOLEAN, free : BOOLEAN, match : BOOLEAN]
          /\ r.head = NULL /\ r.tail = NULL /\ r.len = 0
      BY <3>1 DEF EmptyList
    <3>3. QED
      BY <3>1, <3>2
  <2>2. QED
    BY <1>1, <1>2, <2>1, CreatesIInv
<1>4. \A k \in List : k # l => list'[k] = list[k]
  BY <1>1, <1>2 DEF IInv, TypeOK
<1>5. list'[l].len = 0 /\ ~Hidden(l)'
  BY <1>1, <1>2, <1>3 DEF IInv, TypeOK, EmptyList, Hidden
<1>6. Shown(l)' = <<>>
  BY <1>5 DEF Shown
<1>7. \A k \in List : k # l => Hidden(k)' = Hidden(k)
  BY <1>3 DEF Hidden
<1>8. \A k \in List : k # l /\ ~Hidden(k) => Untouched(k)
  BY <1>2, <1>4 DEF Untouched, NodesOf
<1>9. Seqs' = [Seqs EXCEPT ![l] = <<>>]
  BY <1>5, <1>6, <1>7, <1>8, OneListChanges
<1>10. Seqs[l] = NULL
  BY <1>3 DEF Seqs, Hidden
<1>11. QED
  BY <1>9, <1>10

LEMMA NodeAdded ==
  ASSUME MInv, call.op = "none", UNCHANGED call, ~undefined', NEW l \in Live(List),
         NEW n \in Node, NEW v \in values \cup {NULL}, AddNode(l, n, v)
  PROVE  \/ Seqs' = [Seqs EXCEPT ![l] = Append(Seqs[l], v)]
         \/ Seqs' = [Seqs EXCEPT ![l] = <<v>> \o Seqs[l]]
<1>1. IInv /\ l \in List /\ ~Hidden(l) /\ v \in Value \cup {NULL}
  BY WithoutRelease DEF Hidden, Live, MInv, TypeOK
<1>2. Seqs[l] = Shown(l)
  BY <1>1 DEF Seqs
<1>3. ASSUME NEW b \in [Node -> Int], Adds(l, n, v, b), NEW s, Shown(l)' = s
      PROVE  Seqs' = [Seqs EXCEPT ![l] = s]
  <2>1. /\ \A k \in List : Hidden(k)' = Hidden(k)
        /\ \A k \in List : k # l /\ ~Hidden(k) => Untouched(k)
    BY <1>1, <1>3, AddsElsewhere
  <2>2. QED
    BY <1>1, <1>3, <2>1, OneListChanges
<1>4. CASE listAddNodeHead(l, n, v)
  <2>1. PICK b \in [Node -> Int] :
          Ordered(b) /\ Adds(l, n, v, b) /\ \A m \in NodesOf(l) : b[n] < b[m]
    BY <1>1, <1>4, AddHeadDoes
  <2>2. Shown(l)' = <<v>> \o Shown(l)
    BY <1>1, <2>1, AddsFirst
  <2>3. QED
    BY <1>2, <1>3, <2>1, <2>2
<1>5. CASE listAddNodeTail(l, n, v)
  <2>1. LinkTail(l, n, v)
    BY <1>5 DEF listAddNodeTail, Touching
  <2>2. PICK b \in [Node -> Int] :
          Ordered(b) /\ Adds(l, n, v, b) /\ \A m \in NodesOf(l) : b[m] < b[n]
    BY <1>1, <2>1, AddTailDoes
  <2>3. Shown(l)' = Append(Shown(l), v)
    BY <1>1, <2>2, AddsLast
  <2>4. QED
    BY <1>2, <1>3, <2>2, <2>3
<1>6. QED
  BY <1>4, <1>5 DEF AddNode

LEMMA NodeDeleted ==
  ASSUME MInv, call.op = "none", UNCHANGED call, NEW l \in Live(List), NEW n \in Node,
         listDelNode(l, n)
  PROVE  \E j \in DOMAIN Seqs[l] : Seqs' = [Seqs EXCEPT ![l] = Abstract!RemoveAt(Seqs[l], j)]
<1>1. IInv /\ l \in List /\ ~Hidden(l) /\ l # NULL
  BY WithoutRelease, Addresses DEF Hidden, Live
<1>2. Seqs[l] = Shown(l)
  BY <1>1 DEF Seqs
<1>3. PICK at \in [Node -> Int] : Ordered(at)
  BY <1>1 DEF IInv
<1>4. PICK p, q : p = node[n].prev /\ q = node[n].next
  OBVIOUS
<1>5. Deletes(l, n, p, q)
  BY <1>1, <1>3, <1>4, DelNodeDoes
<1>6. Ordered(at)'
  BY <1>1, <1>3, DelNodeKeeps
<1>7. p \in NodesOf(l) \cup {NULL} /\ q \in NodesOf(l) \cup {NULL} /\ owner[n] = l
  <2>1. owner[n] = l
    BY <1>5 DEF Deletes
  <2>2. QED
    BY <1>1, <1>3, <1>4, <2>1, Ends
<1>8. Live(List)' = Live(List)
  <2>1. Z!TypeOK /\ n \in Blocks /\ Z!zfree(n)
    BY <1>1, <1>5, Addresses DEF IInv, TypeOK, Deletes
  <2>2. \A a \in Blocks : a # n => room'[a] = room[a]
    BY <2>1, Frees
  <2>3. QED
    BY <2>2, Addresses DEF Live
<1>9. PICK j \in DOMAIN Shown(l) : Shown(l)' = Abstract!RemoveAt(Shown(l), j)
  BY <1>1, <1>3, <1>5, <1>6, <1>8, DeletesOne
<1>10. \A k \in List : Hidden(k)' = Hidden(k)
  BY <1>8 DEF Hidden
<1>11. ASSUME NEW k \in List, k # l, ~Hidden(k) PROVE Untouched(k)
  <2>1. k # NULL /\ owner \in [Node -> List \cup {NULL}]
    BY <1>1, Addresses DEF IInv, TypeOK
  <2>2. /\ owner' = [owner EXCEPT ![n] = NULL] /\ list'[k] = list[k]
        /\ \A m \in Node : m # n /\ m # p /\ m # q => node'[m] = node[m]
    BY <1>5, <1>11 DEF Deletes
  <2>3. NodesOf(k)' = NodesOf(k)
    BY <1>7, <1>11, <2>1, <2>2 DEF NodesOf
  <2>4. \A m \in NodesOf(k) : m \in Node /\ m # n /\ m # p /\ m # q
    BY <1>7, <1>11, <2>1, Addresses DEF NodesOf
  <2>5. QED
    BY <2>2, <2>3, <2>4 DEF Untouched
<1>12. Seqs' = [Seqs EXCEPT ![l] = Abstract!RemoveAt(Shown(l), j)]
  BY <1>1, <1>9, <1>10, <1>11, OneListChanges
<1>13. QED
  BY <1>2, <1>9, <1>12

LEMMA ReleaseBegun ==
  ASSUME MInv, ~undefined', NEW l \in Live(List), listRelease(l)
  PROVE  call.op = "none" /\ Seqs' = [Seqs EXCEPT ![l] = NULL]
<1>1. /\ call.op = "none" /\ UNCHANGED structs
      /\ call' = [NoCall EXCEPT !.op = "release", !.l = l, !.curr = list[l].head,
                                !.count = list[l].len]
  BY DEF listRelease, Step, Touching, Begin, Idle
<1>2. call'.op = "release" /\ call'.l = l /\ l \in List
  BY <1>1 DEF NoCall, Live
<1>3. Live(List)' = Live(List) /\ UNCHANGED <<list, node, owner>>
  BY <1>1 DEF structs, heap, Live
<1>4. Hidden(l)'
  BY <1>2 DEF Hidden
<1>5. \A k \in List : k # l => Hidden(k)' = Hidden(k)
  BY <1>1, <1>2, <1>3 DEF Hidden
<1>6. \A k \in List : k # l /\ ~Hidden(k) => Untouched(k)
  BY <1>3 DEF Untouched, NodesOf
<1>7. QED
  BY <1>1, <1>2, <1>4, <1>5, <1>6, OneListChanges

-----------------------------------------------------------------------------
(* The copy listDup makes.                                                 *)

\* While listDup works, its copy holds duplicates of the first values of the
\* list, and its iterator is at the next one.
Agrees ==
  call.op = "dup" =>
    LET s == Shown(call.l)
        t == Shown(call.copy)
        k == list[call.copy].len
        len == list[call.l].len
    IN /\ k <= len
       /\ \A j \in 1 .. k : Duplicate(s[j], t[j])
       /\ call.i = NULL => k = 0
       /\ call.i # NULL =>
            iter[call.i].next = IF k < len THEN Forward(call.l)[k + 1] ELSE NULL

\* The two lists of a listDup are on their paths.
LEMMA BothPaths ==
  ASSUME MInv, call.op = "dup"
  PROVE  /\ IInv /\ Locals /\ call.l # call.copy
         /\ call.l \in Live(List) /\ call.copy \in Live(List)
         /\ ~Hidden(call.l) /\ Hidden(call.copy)
         /\ \E f : OnPath(call.l, f) /\ Forward(call.l) = f
         /\ \E f : OnPath(call.copy, f) /\ Forward(call.copy) = f
<1>1. IInv /\ Locals
  BY WithoutRelease
<1>2. call.l \in Live(List) /\ call.copy \in Live(List) /\ call.l # call.copy
  BY <1>1 DEF Locals, Idle
<1>3. PICK at \in [Node -> Int] : Ordered(at)
  BY <1>1 DEF IInv
<1>4. ~Hidden(call.l) /\ Hidden(call.copy)
  BY <1>2 DEF Hidden
<1>5. QED
  BY <1>1, <1>2, <1>3, <1>4, PathOf

LEMMA AgreesAtFirst ==
  ASSUME MInv, NEW orig \in Live(List), NEW copy \in List, listDup(orig, copy) PROVE Agrees'
<1>1. /\ IInv /\ list' = [list EXCEPT ![copy] = CopyOf(orig)] /\ copy # orig
      /\ call' = [NoCall EXCEPT !.op = "dup", !.l = orig, !.copy = copy,
                                !.had = Live(Blocks) \cup values]
  BY DupDoes
<1>2. call'.l = orig /\ call'.copy = copy /\ call'.i = NULL
  BY <1>1 DEF NoCall
<1>3. list'[copy].len = 0 /\ list'[orig].len \in Nat
  BY <1>1 DEF IInv, TypeOK, CopyOf, EmptyList, Live
<1>4. QED
  BY <1>2, <1>3 DEF Agrees

LEMMA AgreesAtStart ==
  ASSUME MInv, Agrees, NEW i \in Iter, DupIterator(i) PROVE Agrees'
<1>1. PICK l, c : l = call.l /\ c = call.copy
  OBVIOUS
<1>2. /\ call.op = "dup" /\ listGetIterator(l, i, FORWARD) /\ call.i = NULL
      /\ call' = [call EXCEPT !.i = i]
  BY <1>1 DEF DupIterator, During, Pass
<1>3. /\ IInv /\ Locals /\ l \in Live(List)
      /\ \E f : OnPath(l, f) /\ Forward(l) = f
  BY <1>1, <1>2, BothPaths
<1>4. /\ UNCHANGED <<list, node, owner>>
      /\ iter'[i] = [next |-> list[l].head, direction |-> FORWARD]
  BY <1>2, <1>3, IteratorStarts
<1>5. PICK f : OnPath(l, f)
  BY <1>3
<1>6. Forward(l)' = f
  <2>1. Untouched(l)
    BY <1>4 DEF Untouched, NodesOf
  <2>2. QED
    BY <1>5, <2>1, StaysOnPath
<1>7. call'.l = l /\ call'.copy = c /\ call'.i = i /\ i # NULL
  BY <1>1, <1>2, <1>3, Addresses DEF Locals
<1>8. list[c].len = 0
  BY <1>1, <1>2 DEF Agrees
<1>9. list[l].len \in Nat /\ list[l].head = IF list[l].len > 0 THEN f[1] ELSE NULL
  BY <1>5 DEF OnPath
<1>10. iter'[i].next = IF 0 < list[l].len THEN f[0 + 1] ELSE NULL
  BY <1>4, <1>9
<1>11. QED
  BY <1>4, <1>6, <1>7, <1>8, <1>9, <1>10 DEF Agrees

LEMMA AgreesOn ==
  ASSUME MInv, Agrees, NEW n \in Node, NEW v \in Value \cup {NULL}, DupNode(n, v)
  PROVE  Agrees'
<1>1. PICK l, c, i, o : l = call.l /\ c = call.copy /\ i = call.i /\ o = iter[i].next
  OBVIOUS
<1>2. CopiesNode(l, c, i, o, n, v)
  BY <1>1, DupNodeDoes
<1>3. /\ IInv /\ l \in Live(List) /\ c \in Live(List) /\ c # l /\ l # NULL
      /\ call' = call /\ call.op = "dup" /\ i \in Iter /\ o # NULL /\ o \in Node
      /\ iter' = [iter EXCEPT ![i].next = node[o].next]
      /\ IF list[c].dup
           THEN /\ node[o].value # NULL
                /\ v \in Value \ values /\ Content[v] = Content[node[o].value]
           ELSE v = node[o].value
  BY <1>2 DEF CopiesNode
<1>4. PICK b \in [Node -> Int] : /\ Ordered(b) /\ Adds(c, n, v, b)
                                 /\ \A m \in NodesOf(c) : b[m] < b[n]
  BY <1>1, DupNodeMInv
<1>5. Shown(c)' = Append(Shown(c), v)
  BY <1>3, <1>4, AddsLast
<1>6. PICK k \in Nat : k = list[c].len /\ Shown(c) \in [1 .. k -> Value \cup {NULL}]
  BY <1>3, <1>4, ShowsNow
<1>7. PICK N \in Nat, f \in [1 .. list[l].len -> NodesOf(l)] :
         /\ OnPath(l, f) /\ Forward(l) = f /\ N = list[l].len
         /\ Shown(l) = [j \in 1 .. N |-> node[f[j]].value]
  <2>1. PICK N \in Nat, f \in [1 .. Cardinality(NodesOf(l)) -> NodesOf(l)] :
           /\ N = Cardinality(NodesOf(l)) /\ list[l].len = N /\ OnPath(l, f)
           /\ Shown(l) = [j \in 1 .. N |-> node[f[j]].value]
    <3>1. PICK S : S = NodesOf(l)
      OBVIOUS
    <3>2. PICK N \in Nat, f \in [1 .. Cardinality(S) -> S] :
           /\ N = Cardinality(S) /\ list[l].len = N /\ OnPath(l, f)
           /\ Shown(l) = [j \in 1 .. N |-> node[f[j]].value]
      <4>1. IInv /\ l \in Live(List) /\ Ordered(b)
        BY <1>3, <1>4
      <4>2. QED
        BY <3>1, <4>1, ShowsNow
    <3>3. QED
      BY <3>1, <3>2
  <2>2. QED
    BY <2>1, ForwardIsPath
<1>8. /\ ~Hidden(l) /\ l \in List
  BY <1>1, <1>3, BothPaths DEF Live
<1>9. Untouched(l)
  BY <1>3, <1>4, <1>8, AddsElsewhere
<1>10. Shown(l)' = Shown(l) /\ Forward(l)' = f /\ list'[l].len = N
  BY <1>7, <1>9, StaysOnPath DEF Untouched
<1>11. /\ k <= N /\ \A j \in 1 .. k : Duplicate(Shown(l)[j], Shown(c)[j])
       /\ o = IF k < N THEN f[k + 1] ELSE NULL
  BY <1>1, <1>3, <1>6, <1>7, Addresses DEF Agrees
<1>12. k < N /\ o = f[k + 1] /\ k + 1 \in 1 .. N
  BY <1>3, <1>11
<1>13. list'[c].len = k + 1
  BY <1>4, <1>6 DEF Adds
<1>14. Duplicate(Shown(l)[k + 1], v)
  BY <1>3, <1>7, <1>12, Addresses DEF Duplicate
<1>15. \A j \in 1 .. k + 1 : Duplicate(Shown(l)[j], Shown(c)'[j])
  <2>1. PICK t \in [1 .. k -> Value \cup {NULL}] : t = Shown(c)
    BY <1>6
  <2>2. Shown(c)' = [j \in 1 .. k + 1 |-> IF j = k + 1 THEN v ELSE t[j]]
    <3>1. PICK T : T = Value \cup {NULL}
      OBVIOUS
    <3>2. PICK M \in Nat : M = k
      OBVIOUS
    <3>3. t \in [1 .. M -> T] /\ v \in T
      BY <3>1, <3>2
    <3>4. Append(t, v) = [j \in 1 .. M + 1 |-> IF j = M + 1 THEN v ELSE t[j]]
      BY <3>3, Appended
    <3>5. QED
      BY <1>5, <2>1, <3>2, <3>4
  <2>3. \A j \in 1 .. k + 1 : j # k + 1 => j \in 1 .. k
    OBVIOUS
  <2>4. QED
    BY <1>11, <1>14, <2>1, <2>2, <2>3
<1>16. iter'[i].next = IF k + 1 < N THEN f[k + 1 + 1] ELSE NULL
  <2>1. iter'[i].next = node[o].next
    BY <1>3 DEF IInv, TypeOK
  <2>2. node[f[k + 1]].next = IF k + 1 < N THEN f[k + 1 + 1] ELSE NULL
    BY <1>7, <1>12 DEF OnPath
  <2>3. QED
    BY <1>12, <2>1, <2>2
<1>17. i # NULL
  BY <1>3, Addresses
<1>18. PICK s, t : s = Shown(l)' /\ t = Shown(c)' /\ s = Shown(l)
  BY <1>10
<1>19. QED
  BY <1>1, <1>3, <1>10, <1>12, <1>13, <1>15, <1>16, <1>17, <1>18 DEF Agrees

LEMMA AgreesElsewhere ==
  ASSUME call'.op # "dup" PROVE Agrees'
  BY DEF Agrees

LEMMA NextAgrees == MInv /\ Agrees /\ [CNext]_cvars => Agrees'
<1> SUFFICES ASSUME MInv, Agrees, [CNext]_cvars PROVE Agrees'
  OBVIOUS
<1>1. ~undefined'
  BY NextMInv DEF MInv, NeverUndefined
<1>2. DOMAIN call = {"op", "l", "curr", "count", "i", "key", "copy", "had"}
  BY DEF MInv, Locals
<1>3. CASE Abort \/ UNCHANGED cvars
  <2>1. UNCHANGED <<call, list, node, owner, iter>>
    BY <1>3 DEF Abort, OutOfMemory, cvars, vars
  <2>2. CASE call.op = "dup"
    <3>1. /\ \E f : OnPath(call.l, f) /\ Forward(call.l) = f
          /\ \E f : OnPath(call.copy, f) /\ Forward(call.copy) = f
      BY <2>2, BothPaths
    <3>2. PICK l, c : l = call.l /\ c = call.copy
      OBVIOUS
    <3>3. Untouched(l) /\ Untouched(c)
      BY <2>1 DEF Untouched, NodesOf
    <3>4. Shown(l)' = Shown(l) /\ Shown(c)' = Shown(c) /\ Forward(l)' = Forward(l)
      BY <3>1, <3>2, <3>3, StaysOnPath
    <3>5. QED
      BY <2>1, <2>2, <3>2, <3>4 DEF Agrees
  <2>3. CASE call.op # "dup"
    BY <2>1, <2>3, AgreesElsewhere
  <2>4. QED
    BY <2>2, <2>3
<1>4. CASE OneStepCall
  BY <1>4, AgreesElsewhere DEF OneStepCall, Idle
<1>5. ASSUME NEW l \in Live(List), listRelease(l) \/ \E index \in Indices : listIndex(l, index)
      PROVE  Agrees'
  <2>1. call'.op # "dup"
    BY <1>1, <1>5 DEF listRelease, listIndex, Step, Touching, Begin, NoCall
  <2>2. QED
    BY <2>1, AgreesElsewhere
<1>6. ASSUME NEW l \in Live(List), NEW i \in Iter, NEW key, listSearchKey(l, i, key)
      PROVE  Agrees'
  <2>1. call'.op # "dup"
    BY <1>6 DEF listSearchKey, Begin, NoCall
  <2>2. QED
    BY <2>1, AgreesElsewhere
<1>7. CASE CallStarts
  BY <1>5, <1>6, <1>7, AgreesAtFirst DEF CallStarts
<1>8. CASE IndexNext \/ SearchMiss \/ ReleaseNode
  <2>1. call'.op # "dup"
    BY <1>1, <1>2, <1>8 DEF IndexNext, SearchMiss, ReleaseNode, During, Step, Touching, Pass
  <2>2. QED
    BY <2>1, AgreesElsewhere
<1>9. CASE DupFails
  <2>1. call'.op # "dup"
    BY <1>2, <1>9 DEF DupFails, Pass
  <2>2. QED
    BY <2>1, AgreesElsewhere
<1>10. CASE ReleaseList \/ SearchReturn \/ IndexReturn \/ DupReturn
  <2>1. call'.op # "dup"
    BY <1>1, <1>10 DEF ReleaseList, SearchReturn, IndexReturn, DupReturn, Step, Touching, Return, NoCall
  <2>2. QED
    BY <2>1, AgreesElsewhere
<1>11. CASE CallGoesOn
  BY <1>8, <1>9, <1>10, <1>11, AgreesAtStart, AgreesOn DEF CallGoesOn
<1>12. QED
  BY <1>3, <1>4, <1>7, <1>11 DEF CNext

\* listDup returns a copy that agrees with the whole list.
LEMMA CopyReturned ==
  ASSUME MInv, Agrees, DupReturn, NEW l, l = call.l, NEW c, c = call.copy
  PROVE  /\ l \in List /\ c \in List /\ Seqs[l] # NULL /\ Seqs[c] = NULL
         /\ \E s \in [DOMAIN Seqs[l] -> Value \cup {NULL}] :
              /\ \A k \in DOMAIN s : Duplicate(Seqs[l][k], s[k])
              /\ Seqs' = [Seqs EXCEPT ![c] = s]
<1>1. /\ call.op = "dup" /\ call.i # NULL /\ listReleaseIter(call.i)
      /\ iter[call.i].next = NULL /\ call'.op = "none"
  BY DEF DupReturn, During, Return, NoCall
<1>2. /\ IInv /\ l # c /\ l \in Live(List) /\ c \in Live(List) /\ ~Hidden(l) /\ Hidden(c)
      /\ l \in List /\ c \in List
  BY <1>1, BothPaths DEF Live
<1>3. Live(List)' = Live(List) /\ UNCHANGED <<list, node, owner>>
  BY <1>1, DupEndsDoes
<1>4. PICK at \in [Node -> Int] : Ordered(at)
  BY <1>2 DEF IInv
<1>5. PICK N \in Nat, f \in [1 .. list[l].len -> NodesOf(l)] :
         /\ N = list[l].len /\ Forward(l) = f
         /\ Shown(l) \in [1 .. N -> Value \cup {NULL}]
  <2>1. PICK N \in Nat, f \in [1 .. Cardinality(NodesOf(l)) -> NodesOf(l)] :
           /\ N = Cardinality(NodesOf(l)) /\ list[l].len = N /\ OnPath(l, f)
           /\ Shown(l) \in [1 .. N -> Value \cup {NULL}]
    BY <1>2, <1>4, ShowsNow
  <2>2. QED
    BY <2>1, ForwardIsPath
<1>6. PICK k \in Nat : /\ k = list[c].len /\ \E g : OnPath(c, g)
                       /\ Shown(c) \in [1 .. k -> Value \cup {NULL}]
  BY <1>2, <1>4, ShowsNow
<1>7. /\ k <= N /\ \A j \in 1 .. k : Duplicate(Shown(l)[j], Shown(c)[j])
      /\ NULL = IF k < N THEN f[k + 1] ELSE NULL
  BY <1>1, <1>5, <1>6 DEF Agrees
<1>8. k = N
  <2>1. k < N => f[k + 1] \in NodesOf(l)
    BY <1>5
  <2>2. NULL \notin NodesOf(l)
    BY Addresses DEF NodesOf
  <2>3. QED
    BY <1>7, <2>1, <2>2
<1>9. Shown(c)' = Shown(c)
  <2>1. Untouched(c)
    BY <1>3 DEF Untouched, NodesOf
  <2>2. QED
    BY <1>6, <2>1, StaysOnPath
<1>10. ~Hidden(c)' /\ \A m \in List : m # c => Hidden(m)' = Hidden(m)
  BY <1>1, <1>2, <1>3 DEF Hidden
<1>11. \A m \in List : m # c /\ ~Hidden(m) => Untouched(m)
  BY <1>3 DEF Untouched, NodesOf
<1>12. Seqs' = [Seqs EXCEPT ![c] = Shown(c)]
  BY <1>2, <1>9, <1>10, <1>11, OneListChanges
<1>13. Seqs[l] = Shown(l) /\ Seqs[l] # NULL /\ Seqs[c] = NULL
  BY <1>2, ShownIsSeq DEF Seqs
<1>14. PICK s, t : s = Shown(l) /\ t = Shown(c)
  OBVIOUS
<1>15. /\ DOMAIN Seqs[l] = 1 .. N /\ t \in [1 .. N -> Value \cup {NULL}]
       /\ \A j \in 1 .. N : Duplicate(Seqs[l][j], t[j])
  BY <1>5, <1>6, <1>7, <1>8, <1>13, <1>14
<1>16. QED
  BY <1>2, <1>12, <1>13, <1>14, <1>15

-----------------------------------------------------------------------------
(* The refinement.                                                         *)

\* A list callers see.
LEMMA SeenIsPresent ==
  ASSUME MInv, call.op = "none", NEW l \in Live(List)
  PROVE  l \in List /\ Seqs[l] # NULL
<1>1. l \in List /\ ~Hidden(l)
  BY DEF Hidden, Live
<1>2. QED
  BY <1>1, ShownIsSeq

LEMMA PresentSeqs ==
  Abstract!Present = {l \in List : Seqs[l] # NULL}
  BY DEF Abstract!Present, Seqs, Shown

LEMMA AbstractSteps ==
  ASSUME NEW l \in List
  PROVE  /\ Seqs[l] = NULL /\ Seqs' = [Seqs EXCEPT ![l] = <<>>] => Abstract!Create(l)
         /\ \A v : Seqs' = [Seqs EXCEPT ![l] = Append(Seqs[l], v)] => Abstract!AddTail(l, v)
         /\ \A v : Seqs' = [Seqs EXCEPT ![l] = <<v>> \o Seqs[l]] => Abstract!AddHead(l, v)
         /\ \A k : Seqs' = [Seqs EXCEPT ![l] = Abstract!RemoveAt(Seqs[l], k)] => Abstract!Delete(l, k)
         /\ Seqs' = [Seqs EXCEPT ![l] = NULL] => Abstract!Release(l)
<1>1. Seqs[l] = NULL /\ Seqs' = [Seqs EXCEPT ![l] = <<>>] => Abstract!Create(l)
  BY PresentSeqs DEF Abstract!Create, Seqs, Shown
<1>2. ASSUME NEW v, Seqs' = [Seqs EXCEPT ![l] = Append(Seqs[l], v)] PROVE Abstract!AddTail(l, v)
  BY <1>2 DEF Abstract!AddTail, Seqs, Shown
<1>3. ASSUME NEW v, Seqs' = [Seqs EXCEPT ![l] = <<v>> \o Seqs[l]] PROVE Abstract!AddHead(l, v)
  BY <1>3 DEF Abstract!AddHead, Seqs, Shown
<1>4. ASSUME NEW k, Seqs' = [Seqs EXCEPT ![l] = Abstract!RemoveAt(Seqs[l], k)]
      PROVE  Abstract!Delete(l, k)
  BY <1>4 DEF Abstract!Delete, Seqs, Shown
<1>5. Seqs' = [Seqs EXCEPT ![l] = NULL] => Abstract!Release(l)
  BY DEF Abstract!Release, Seqs, Shown
<1>6. QED
  BY <1>1, <1>2, <1>3, <1>4, <1>5

LEMMA AbstractDup ==
  ASSUME NEW l \in List, NEW c \in List, Seqs[c] = NULL,
         NEW s \in [DOMAIN Seqs[l] -> Value \cup {NULL}],
         \A k \in DOMAIN s : Duplicate(Seqs[l][k], s[k]), Seqs' = [Seqs EXCEPT ![c] = s]
  PROVE  Abstract!Dup(l, c)
<1>1. c \notin Abstract!Present
  BY PresentSeqs
<1>2. QED
  BY <1>1 DEF Abstract!Dup, Seqs, Shown

\* Every step is one of sequences, or none that callers see.
LEMMA NextShows == MInv /\ Agrees /\ [CNext]_cvars => Abstract!Next \/ Seqs' = Seqs
<1> SUFFICES ASSUME MInv, Agrees, [CNext]_cvars PROVE Abstract!Next \/ Seqs' = Seqs
  OBVIOUS
<1>1. ~undefined'
  BY NextMInv DEF MInv, NeverUndefined
<1>2. CASE Abort \/ UNCHANGED cvars
  BY <1>2, AbortIsQuiet
<1>3. CASE OneStepCall
  <2>1. call.op = "none" /\ UNCHANGED call
    BY <1>3 DEF OneStepCall, Idle
  <2>2. ASSUME NEW l \in List, listCreate(l) PROVE Abstract!Next
    <3>1. Abstract!Create(l)
      BY <2>1, <2>2, Created, AbstractSteps
    <3>2. QED
      BY <3>1 DEF Abstract!Next
  <2>3. ASSUME NEW l \in Live(List), NEW n \in Node, NEW v \in values \cup {NULL},
               AddNode(l, n, v)
        PROVE  Abstract!Next
    <3>1. l \in List /\ Seqs[l] # NULL /\ v \in Value \cup {NULL}
      BY <2>1, SeenIsPresent DEF MInv, TypeOK
    <3>2. Abstract!AddHead(l, v) \/ Abstract!AddTail(l, v)
      <4>1. \/ Seqs' = [Seqs EXCEPT ![l] = Append(Seqs[l], v)]
            \/ Seqs' = [Seqs EXCEPT ![l] = <<v>> \o Seqs[l]]
        BY <1>1, <2>1, <2>3, NodeAdded
      <4>2. QED
        BY <3>1, <4>1, AbstractSteps
    <3>3. QED
      BY <3>1, <3>2, PresentSeqs DEF Abstract!Next
  <2>4. ASSUME NEW l \in Live(List), NEW n \in Node, listDelNode(l, n) PROVE Abstract!Next
    <3>1. l \in List /\ l \in Abstract!Present
      BY <2>1, SeenIsPresent, PresentSeqs
    <3>2. PICK j \in DOMAIN Seqs[l] : Seqs' = [Seqs EXCEPT ![l] = Abstract!RemoveAt(Seqs[l], j)]
      BY <2>1, <2>4, NodeDeleted
    <3>3. Abstract!Delete(l, j)
      BY <3>1, <3>2, AbstractSteps
    <3>4. \E k \in DOMAIN Seqs[l] : Abstract!Delete(l, k)
      BY <3>2, <3>3
    <3>5. QED
      BY <3>1, <3>4 DEF Abstract!Next, Seqs, Shown
  <2>5. CASE \/ \E v \in Value : NewValue(v)
             \/ \E l \in List, m \in Methods : SetMethods(l, m[1], m[2], m[3])
    BY <2>1, <2>5, CallersSetUp
  <2>6. QED
    BY <1>3, <2>2, <2>3, <2>4, <2>5 DEF OneStepCall
<1>4. ASSUME NEW l \in Live(List), listRelease(l) PROVE Abstract!Next
  <2>1. call.op = "none" /\ Seqs' = [Seqs EXCEPT ![l] = NULL]
    BY <1>1, <1>4, ReleaseBegun
  <2>2. l \in List /\ l \in Abstract!Present
    BY <2>1, SeenIsPresent, PresentSeqs
  <2>3. Abstract!Release(l)
    BY <2>1, <2>2, AbstractSteps
  <2>4. QED
    BY <2>2, <2>3 DEF Abstract!Next
<1>5. CASE CallStarts
  BY <1>4, <1>5, LookupsAreQuiet, DupIsQuiet DEF CallStarts
<1>6. CASE DupReturn
  <2>1. PICK l, c : l = call.l /\ c = call.copy
    OBVIOUS
  <2>2. /\ l \in List /\ c \in List /\ Seqs[l] # NULL /\ Seqs[c] = NULL
        /\ \E s \in [DOMAIN Seqs[l] -> Value \cup {NULL}] :
              /\ \A k \in DOMAIN s : Duplicate(Seqs[l][k], s[k])
              /\ Seqs' = [Seqs EXCEPT ![c] = s]
    BY <1>6, <2>1, CopyReturned
  <2>3. Abstract!Dup(l, c) /\ l \in Abstract!Present
    BY <2>2, AbstractDup, PresentSeqs
  <2>4. QED
    BY <2>2, <2>3 DEF Abstract!Next
<1>7. CASE SearchMiss \/ SearchReturn \/ IndexNext \/ IndexReturn
  <2>1. call.l \in Live(List)
    BY <1>7 DEF MInv, Locals, Idle, SearchMiss, SearchReturn, IndexNext, IndexReturn, During
  <2>2. QED
    BY <1>7, <2>1, LookupsAreQuiet
<1>8. CASE CallGoesOn
  BY <1>6, <1>7, <1>8, ReleaseNodeIsQuiet, ReleaseListIsQuiet, DupIteratorIsQuiet,
     DupNodeIsQuiet, DupFailsIsQuiet DEF CallGoesOn
<1>9. QED
  BY <1>2, <1>3, <1>5, <1>8 DEF CNext

LEMMA InitShows == CInit => Abstract!Init /\ Agrees
<1> SUFFICES ASSUME CInit PROVE Abstract!Init /\ Agrees
  OBVIOUS
<1>1. \A l \in List : l \notin Live(List)
  BY Addresses DEF CInit, Init, Z!Init, Live
<1>2. \A l \in List : Hidden(l)
  BY <1>1 DEF Hidden
<1>3. Abstract!Init
  BY <1>2 DEF Abstract!Init
<1>4. Agrees
  BY DEF CInit, NoCall, Agrees
<1>5. QED
  BY <1>3, <1>4

-----------------------------------------------------------------------------
(* The theorems.                                                           *)

\* listRelease, listSearchKey, listIndex and listDup, interleaved with the calls
\* of Adlist in any order, never follow a NULL or dangling pointer and free no
\* value twice: also when listDup releases a half-made copy.
THEOREM CallsMemorySafe == CSpec => []NeverUndefined
<1>1. MInv => NeverUndefined
  BY DEF MInv
<1>2. QED
  BY AlwaysMInv, <1>1, PTL

\* When a call has returned, on any of its ways out, the lists are well formed,
\* and nothing is allocated that callers cannot reach.
THEOREM SoundAfterCalls == CSpec => []SoundBetweenCalls
<1>1. MInv /\ Accounts => SoundBetweenCalls
  <2>1. SUFFICES ASSUME MInv, Accounts, Idle
                 PROVE  WellFormed /\ UsedMemoryIsReachable /\ Live(Iter) = {}
    BY DEF SoundBetweenCalls
  <2>2. IInv /\ Locals
    BY <2>1, WithoutRelease DEF Idle
  <2>3. Live(Iter) = {}
    BY <2>1, <2>2 DEF Locals, Idle
  <2>4. QED
    BY <2>1, <2>2, <2>3, SoundLists, CounterIsReachable
<1>2. QED
  BY AlwaysCounted, <1>1, PTL

\* listSearchKey, with a match method or without, returns the first node from the
\* head that matches, and listIndex the node at the place asked for, in lists of
\* any length; both return NULL when there is none.
THEOREM LookupsReturnTheRightNode == CSpec => LookupsAreRight
<1>1. CInit => Searches /\ Indexes
  BY DEF CInit, NoCall, Searches, Indexes
<1>2. MInv /\ Searches /\ [CNext]_cvars =>
        (Returns("search") =>
           LET path == Forward(call.l)
               found == {k \in DOMAIN path : Matches(call.l, node[path[k]].value, call.key)}
           IN IF found = {} THEN result' = NULL
              ELSE \E k \in found : (\A j \in found : k <= j) /\ result' = path[k])
  <2>1. SUFFICES ASSUME MInv, Searches, [CNext]_cvars, call.op = "search", ~Idle, Idle'
                 PROVE  LET path == Forward(call.l)
                            found == {k \in DOMAIN path :
                                        Matches(call.l, node[path[k]].value, call.key)}
                        IN IF found = {} THEN result' = NULL
                           ELSE \E k \in found : (\A j \in found : k <= j) /\ result' = path[k]
    BY DEF Returns
  <2>2. SearchReturn
    BY <2>1, CallEnds DEF ReleaseList, IndexReturn, DupReturn, During
  <2>3. QED
    BY <2>1, <2>2, FoundFirst
<1>3. MInv /\ Indexes /\ [CNext]_cvars =>
        (Returns("index") =>
           result' = IF call.key + 1 \in 1 .. list[call.l].len
                     THEN Forward(call.l)[call.key + 1] ELSE NULL)
  <2>1. SUFFICES ASSUME MInv, Indexes, [CNext]_cvars, call.op = "index", ~Idle, Idle'
                 PROVE  result' = IF call.key + 1 \in 1 .. list[call.l].len
                                  THEN Forward(call.l)[call.key + 1] ELSE NULL
    BY DEF Returns
  <2>2. IndexReturn
    BY <2>1, CallEnds DEF ReleaseList, SearchReturn, DupReturn, During
  <2>3. QED
    BY <2>1, <2>2, FoundNth
<1>4. CSpec => SearchFirst
  BY AlwaysMInv, NextSearches, <1>1, <1>2, PTL DEF CSpec, SearchFirst
<1>5. CSpec => IndexNth
  BY AlwaysMInv, NextIndexes, <1>1, <1>3, PTL DEF CSpec, IndexNth
<1>6. QED
  BY <1>4, <1>5 DEF LookupsAreRight

\* listDup that fails, after any number of nodes, gives back the iterator, the
\* nodes and the list it made, and the values of a list that frees them, and
\* touches nothing that was there before.
THEOREM FailedDupLeavesNothing == CSpec => DupRollsBack
<1>1. CInit => Copies
  BY DEF CInit, NoCall, Copies
<1>2. MInv /\ Copies /\ [CNext]_cvars =>
        (Returns(call.op) /\ call.copy # NULL /\ result' = NULL =>
           /\ Live(Blocks)' = call.had \cap Blocks
           /\ list[call.l].free => values' = call.had \cap Value)
  <2>1. SUFFICES ASSUME MInv, Copies, [CNext]_cvars, ~Idle, Idle', call.copy # NULL, result' = NULL
                 PROVE  /\ Live(Blocks)' = call.had \cap Blocks
                        /\ list[call.l].free => values' = call.had \cap Value
    BY DEF Returns
  <2>2. call.op \in {"search", "index"} => call.copy = NULL
    BY <2>1 DEF MInv, Locals
  <2>3. CASE SearchReturn \/ IndexReturn
    BY <2>1, <2>2, <2>3 DEF SearchReturn, IndexReturn, During
  <2>4. CASE DupReturn
    <3>1. call.op = "dup" /\ result' = call.copy
      BY <2>4 DEF DupReturn, During, Return
    <3>2. QED
      BY <2>1, <3>1
  <2>5. CASE ReleaseList
    BY <2>1, <2>5, RolledBack
  <2>6. QED
    BY <2>1, <2>3, <2>4, <2>5, CallEnds
<1>3. QED
  BY AlwaysMInv, NextCopies, <1>1, <1>2, PTL DEF CSpec, DupRollsBack

\* A list is a sequence of values to its callers, for all lists, nodes and
\* values: each step of the list library is a call that happens at once, as the
\* interface promises it, or shows callers nothing.  The copy listDup returns
\* holds, in order, each value or a duplicate of it; a list whose release has
\* begun is gone.
THEOREM ListsAreSequences == CSpec => ImplementsSequences
<1>1. MInv /\ Agrees /\ [CNext]_cvars => MInv' /\ Agrees'
  BY NextMInv, NextAgrees
<1>2. MInv /\ Agrees /\ [CNext]_cvars => Abstract!Next \/ Seqs' = Seqs
  BY NextShows
<1>3. MInv /\ Agrees /\ [CNext]_cvars =>
        [Abstract!Next]_([l \in List |->
             IF Hidden(l) THEN NULL
             ELSE [k \in 1 .. list[l].len |-> node[Forward(l)[k]].value]])
  BY <1>2 DEF Seqs, Shown
<1>4. QED
  BY InitMInv, InitShows, <1>1, <1>3, PTL DEF CSpec, ImplementsSequences, Abstract!Spec
=============================================================================

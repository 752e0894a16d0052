-------------------------------- MODULE Dict --------------------------------
(***************************************************************************)
(* The hash table of redis/src/dict.cc: one dict, its two bucket tables    *)
(* (the second is there for a rehash that is not written yet) and the      *)
(* chained entries.  dictCreate and dictRelease allocate and free several  *)
(* blocks, one per step; the other calls are one step.                     *)
(*                                                                         *)
(* Reading through NULL or through a bucket that was never written sets    *)
(* "undefined", from where on the program has no defined behaviour.        *)
(***************************************************************************)
EXTENDS Integers, FiniteSets, Sequences

CONSTANTS
  Table, Entry, DictAddr, PrivAddr,    \* the addresses of the blocks
  NULL,
  Key, Value,
  Hash,            \* the hash functions: what each dictType gives each key
  ExpandSizes,     \* the sizes callers ask dictExpand for
  Liberties,       \* the calls callers make though the code is not ready for them
  SizeofDict, SizeofEntry, SizeofPriv, SizeofPointer, PREFIX_SIZE, SizeMod

DICT_HT_INITIAL_SIZE == 4
LONG_MAX == (SizeMod \div 2) - 1
UNWRITTEN == "UNWRITTEN" \* a bucket as malloc returned it
GARBAGE == "GARBAGE"     \* what reading it may give, when it is not NULL

\* Mutant: the loop stops one doubling early.
_dictNextPower_Early(size) ==
  LET double[i \in Nat] == IF 2 * i >= size THEN i ELSE double[2 * i]
  IN IF size > LONG_MAX THEN LONG_MAX + 1 ELSE double[DICT_HT_INITIAL_SIZE]

_dictNextPower(size) ==
  LET double[i \in Nat] == IF i >= size THEN i ELSE double[2 * i]
  IN IF size > LONG_MAX THEN LONG_MAX + 1 ELSE double[DICT_HT_INITIAL_SIZE]

\* dictExpand's realsize * sizeof(dictEntry*), a size_t.
TableBytes(size) == (_dictNextPower(size) * SizeofPointer) % SizeMod

Type == DOMAIN Hash
Blocks == Table \cup Entry \cup {DictAddr, PrivAddr}
Sizes == {SizeofDict, SizeofEntry, SizeofPriv} \cup
         {TableBytes(n) : n \in ExpandSizes \cup {DICT_HT_INITIAL_SIZE}}

ASSUME DictAssumption ==
  /\ NULL \notin Blocks \cup Value \cup Type 
  /\ {UNWRITTEN, GARBAGE} \cap (Blocks \cup {NULL}) = {}
  /\ Table \cap Entry = {} /\ DictAddr # PrivAddr
  /\ {DictAddr, PrivAddr} \cap (Table \cup Entry) = {}
  /\ Hash \in [Type -> [Key -> Nat]]
  /\ ExpandSizes \subseteq 0 .. SizeMod - 1 /\ SizeofPointer \in Nat
  /\ IsFiniteSet(Entry)
  /\ PREFIX_SIZE \in Nat \ {0} /\ SizeMod \in Nat /\ DICT_HT_INITIAL_SIZE <= LONG_MAX
  /\ \A n \in Sizes : n \in Nat /\ n + PREFIX_SIZE < SizeMod

VARIABLES
  room, header, used_memory, status,   \* the allocator's, see Zmalloc
  dict,       \* the dict struct, its two dictht included
  bucket,     \* the contents of the tables
  entry,      \* the dictEntry structs
  call,       \* dictCreate or dictRelease in progress
  result,     \* what dictFind returned, until the next call
  undefined,  \* the program has done something without defined behaviour
  last        \* auxiliary: the value last added under each key, or NULL

Z == INSTANCE Zmalloc WITH Addr <- Blocks, Requests <- Sizes

heap == <<room, header, used_memory, status>>
structs == <<dict, bucket, entry, last>>
vars == <<heap, structs, call, result, undefined>>

Live(S) == {a \in S : room[a] > 0}

NoTable == [table |-> NULL, size |-> 0, sizemask |-> 0, used |-> 0]
_dictReset == [type |-> NULL, privdata |-> NULL, rehashidx |-> -1,
               ht |-> [h \in {0, 1} |-> NoTable]]
BlankEntry == [key |-> NULL, value |-> NULL, next |-> NULL]
NoCall == [op |-> "none", h |-> 0, slot |-> 0, p |-> NULL, kept |-> {}]
Idle == call.op = "none"

Init ==
  /\ Z!Init
  /\ dict = _dictReset
  /\ bucket = [t \in Table |-> <<>>]
  /\ entry = [e \in Entry |-> BlankEntry]
  /\ call = NoCall
  /\ result = NULL
  /\ undefined = FALSE
  /\ last = [k \in Key |-> NULL]

Running == status = "running" /\ ~undefined
Ready == Running /\ Idle /\ DictAddr \in Live(Blocks)

\* The code of a call, which dereferences ptrs on its way.
Touching(ptrs, A) ==
  IF ptrs \subseteq Live(Blocks)
    THEN A /\ UNCHANGED undefined
    ELSE undefined' = TRUE /\ UNCHANGED <<heap, structs, call, result>>

-----------------------------------------------------------------------------
(* Creation.                                                               *)

\* The caller allocates the private data it will hand to dictCreate.
NewPrivdata ==
  /\ Running /\ Idle
  /\ Z!zmalloc(PrivAddr, SizeofPriv)
  /\ UNCHANGED <<structs, call, result, undefined>>

\* _dictAlloc, _dictReset, and the fields _dictInit sets.
dictCreate(type, privdata) ==
  /\ Running /\ Idle
  /\ privdata # NULL => privdata \in Live(Blocks)
  /\ Z!zmalloc(DictAddr, SizeofDict)
  /\ dict' = [_dictReset EXCEPT !.type = type, !.privdata = privdata]
  /\ call' = [NoCall EXCEPT !.op = "create"]
  /\ last' = [k \in Key |-> NULL]
  /\ result' = NULL
  /\ UNCHANGED <<bucket, entry, undefined>>

\* dictExpand: the new table t goes to ht[0] if there is none yet, else it
\* becomes ht[1], whatever was there.  Its buckets are what malloc returns.
NewTable(size, t) ==
  LET realsize == _dictNextPower(size)
      n == [table |-> t, size |-> realsize, sizemask |-> realsize - 1,
            used |-> 0]
  IN /\ Z!zmalloc(t, TableBytes(size))
     /\ dict' = IF dict.ht[0].table = NULL
                THEN [dict EXCEPT !.ht[0] = n]
                ELSE [dict EXCEPT !.ht[1] = n, !.rehashidx = 0]

\* Mutant: the buckets are not set to NULL.
CreateTable_NotInitialised(t) ==
  /\ Running /\ call.op = "create"
  /\ NewTable(DICT_HT_INITIAL_SIZE, t)
  /\ bucket' = [bucket EXCEPT ![t] =
                  [i \in 0 .. dict'.ht[0].size - 1 |-> UNWRITTEN]]
  /\ call' = NoCall
  /\ UNCHANGED <<entry, last, result, undefined>>

\* _dictHtInit: the first table, with its buckets set to NULL.
CreateTable(t) ==
  /\ Running /\ call.op = "create"
  /\ NewTable(DICT_HT_INITIAL_SIZE, t)
  /\ bucket' = [bucket EXCEPT ![t] = [i \in 0 .. dict'.ht[0].size - 1 |-> NULL]]
  /\ call' = NoCall
  /\ UNCHANGED <<entry, last, result, undefined>>

\* dict->type = &dtype, as dict_test.cc does before it adds the first key.
SetType(type) ==
  /\ Ready
  /\ Live(Entry) = {}
  /\ dict' = [dict EXCEPT !.type = type]
  /\ result' = NULL
  /\ UNCHANGED <<heap, bucket, entry, last, call, undefined>>

-----------------------------------------------------------------------------
(* Adding, finding, expanding.                                             *)

\* index & sizemask, for a size that is a power of 2.
Slot(k, h) == Hash[dict.type][k] % (dict.ht[h].sizemask + 1)

\* Mutant: the rest of the chain is dropped.
dictAdd_DropsChain(k, v, e) ==
  /\ Ready /\ dict.type # NULL
  /\ LET t == dict.ht[0].table IN
     Touching({t},
       /\ Z!zmalloc(e, SizeofEntry)
       /\ entry' = [entry EXCEPT ![e] = [key |-> k, value |-> v, next |-> NULL]]
       /\ bucket' = [bucket EXCEPT ![t][Slot(k, 0)] = e]
       /\ last' = [last EXCEPT ![k] = v]
       /\ result' = NULL
       /\ UNCHANGED <<dict, call>>)

\* A rule for callers: dictAdd and dictFind call the hash function of the type
\* without looking whether the dict has one.
\* The entry goes to the front of its bucket.  dictAdd counts it in a copy of
\* the dictht that it drops, so dict.ht[0].used stays as it is.
dictAdd(k, v, e) ==
  /\ Ready /\ dict.type # NULL
  /\ LET t == dict.ht[0].table IN
     Touching({t},
       /\ Z!zmalloc(e, SizeofEntry)
       /\ entry' = [entry EXCEPT ![e] = [key |-> k, value |-> v,
                                         next |-> bucket[t][Slot(k, 0)]]]
       /\ bucket' = [bucket EXCEPT ![t][Slot(k, 0)] = e]
       /\ last' = [last EXCEPT ![k] = v]
       /\ result' = NULL
       /\ UNCHANGED <<dict, call>>)

\* The first entry of the key's bucket, whatever its key.  When ht[0] has
\* none there, the same index, masked again, is looked up in ht[1].
getDictEntry(k) ==
  LET first == bucket[dict.ht[0].table][Slot(k, 0)]
      second == dict.ht[1].table
  IN IF first # NULL THEN first
     ELSE IF second = NULL THEN NULL
     ELSE bucket[second][Slot(k, 0) % (dict.ht[1].sizemask + 1)]

\* getDictEntry(dt, key)->value.
dictFind(k) ==
  /\ Ready /\ dict.type # NULL
  /\ last[k] # NULL \/ "find absent" \in Liberties
  /\ Touching({getDictEntry(k)},
       /\ result' = entry[getDictEntry(k)].value
       /\ UNCHANGED <<heap, structs, call>>)

dictExpand(size, t) ==
  /\ Ready
  /\ dict.ht[1].table = NULL \/ "expand again" \in Liberties
  /\ IF _dictNextPower(size) = dict.ht[0].size
       THEN UNCHANGED <<heap, dict, bucket>>            \* DICT_ERR
       ELSE /\ NewTable(size, t)
            /\ bucket' = [bucket EXCEPT ![t] =
                 [i \in 0 .. _dictNextPower(size) - 1 |-> UNWRITTEN]]
  /\ result' = NULL
  /\ UNCHANGED <<entry, last, call, undefined>>

-----------------------------------------------------------------------------
(* dictRelease: the private data, the entries and the table of ht[0], those *)
(* of ht[1], the dict.                                                      *)

dictRelease ==
  /\ Ready
  /\ dict.ht[1].table = NULL \/ "release expanded" \in Liberties
  /\ Z!zfree(dict.privdata)
  /\ call' = [NoCall EXCEPT !.op = "release",
                !.kept = Live({PrivAddr}) \ {dict.privdata}]
  /\ result' = NULL
  /\ UNCHANGED <<structs, undefined>>

\* One turn of the while loop of _dictEntryRelease(dictht *).
ReleaseEntry ==
  /\ Running /\ call.op = "release" /\ call.p # NULL
  /\ Touching({call.p},
       /\ call' = [call EXCEPT !.p = entry[call.p].next]
       /\ entry' = [entry EXCEPT ![call.p] = BlankEntry]
       /\ Z!zfree(call.p)
       /\ UNCHANGED <<dict, bucket, last, result>>)

NextSlot ==
  /\ Running /\ call.op = "release" /\ call.p = NULL
  /\ call.h < 2 /\ call.slot < dict.ht[call.h].size
  /\ LET b == bucket[dict.ht[call.h].table][call.slot] IN
     \E p \in IF b = UNWRITTEN THEN {NULL, GARBAGE} ELSE {b} :
        call' = [call EXCEPT !.p = p, !.slot = @ + 1]
  /\ UNCHANGED <<heap, structs, result, undefined>>

\* Mutant: the entries are freed and the tables forgotten.
ReleaseTable_KeepsTable ==
  /\ Running /\ call.op = "release" /\ call.p = NULL
  /\ call.h < 2 /\ call.slot = dict.ht[call.h].size
  /\ call' = [call EXCEPT !.h = @ + 1, !.slot = 0]
  /\ UNCHANGED <<heap, structs, result, undefined>>

ReleaseTable ==
  /\ Running /\ call.op = "release" /\ call.p = NULL
  /\ call.h < 2 /\ call.slot = dict.ht[call.h].size
  /\ Z!zfree(dict.ht[call.h].table)
  /\ bucket' = [t \in Table |-> IF t = dict.ht[call.h].table THEN <<>>
                                ELSE bucket[t]]
  /\ call' = [call EXCEPT !.h = @ + 1, !.slot = 0]
  /\ UNCHANGED <<dict, entry, last, result, undefined>>

\* _dictReset and _dictFree.
ReleaseDict ==
  /\ Running /\ call.op = "release" /\ call.h = 2
  /\ Z!zfree(DictAddr)
  /\ dict' = _dictReset
  /\ call' = NoCall
  /\ UNCHANGED <<bucket, entry, last, result, undefined>>

OutOfMemory ==
  /\ ~undefined
  /\ Z!zmalloc_oom
  /\ UNCHANGED <<structs, call, result, undefined>>

Next ==
  \/ NewPrivdata
  \/ \E type \in Type \cup {NULL}, p \in {NULL, PrivAddr} : dictCreate(type, p)
  \/ \E t \in Table : CreateTable(t)
  \/ \E type \in Type : SetType(type)
  \/ \E k \in Key, v \in Value, e \in Entry : dictAdd(k, v, e)
  \/ \E k \in Key : dictFind(k)
  \/ \E n \in ExpandSizes, t \in Table : dictExpand(n, t)
  \/ dictRelease \/ ReleaseEntry \/ NextSlot \/ ReleaseTable \/ ReleaseDict
  \/ OutOfMemory

Spec == Init /\ [][Next]_vars

-----------------------------------------------------------------------------
(* Properties.                                                             *)

Ht == [table : Table \cup {NULL}, size : Nat, sizemask : Nat, used : Nat]

TypeOK ==
  /\ Z!TypeOK
  /\ dict.type \in Type \cup {NULL} /\ dict.privdata \in {NULL, PrivAddr}
  /\ dict.rehashidx \in {-1, 0} /\ dict.ht \in [{0, 1} -> Ht]
  /\ \A t \in Table : \A i \in DOMAIN bucket[t] :
        bucket[t][i] \in Entry \cup {NULL, UNWRITTEN}
  /\ entry \in [Entry -> [key : Key \cup {NULL}, value : Value \cup {NULL},
                         next : Entry \cup {NULL}]]
  /\ call \in [op : {"none", "create", "release"}, h : 0 .. 2, slot : Nat,
               p : Entry \cup {NULL, GARBAGE}, kept : SUBSET {PrivAddr}]
  /\ result \in Value \cup {NULL}
  /\ undefined \in BOOLEAN
  /\ last \in [Key -> Value \cup {NULL}]

\* No call follows a pointer that is NULL, freed or was never written.
NeverUndefined == ~undefined

\* The places of a bucket's chain, first to last, following next: the entry
\* there, or NULL behind the last one.
Chain(i) ==
  LET at[n \in 1 .. Cardinality(Entry) + 1] ==
        IF n = 1 THEN bucket[dict.ht[0].table][i]
        ELSE IF at[n - 1] \in Entry THEN entry[at[n - 1]].next ELSE NULL
  IN at

\* Between calls the chains of ht[0] share the allocated entries out among
\* them, each entry in exactly one place, in the bucket of its key's hash, and
\* each chain ends.
EntriesAreChained ==
  DictAddr \in Live(Blocks) /\ Idle =>
    LET slots == 0 .. dict.ht[0].sizemask
        places == {q \in slots \X (1 .. Cardinality(Entry)) : Chain(q[1])[q[2]] # NULL}
        At(q) == Chain(q[1])[q[2]]
    IN /\ {At(q) : q \in places} = Live(Entry)
       /\ \A q, r \in places : At(q) = At(r) => q = r
       /\ \A q \in places : Slot(entry[At(q)].key, 0) = q[1]
       /\ \A i \in slots : Chain(i)[Cardinality(Entry) + 1] = NULL

Added == {k \in Key : last[k] # NULL}

\* dict.h: dictFind uses k to get v.
FindsItsKey == [][\A k \in Added : dictFind(k) => result' = last[k]]_vars

\* The block of a table holds all the buckets its size and mask promise.
TablesHoldTheirBuckets ==
  \A h \in {0, 1} :
    LET n == dict.ht[h] IN
    n.table \in Live(Blocks) =>
      /\ n.sizemask = n.size - 1
      /\ n.size * SizeofPointer <= Z!zsizeof(n.table)

\* The tables are what dictRelease and every lookup take them for: no entry is
\* outside its chain, and no bucket outside its block.
TablesAreSound == TypeOK /\ EntriesAreChained /\ TablesHoldTheirBuckets

\* The powers of two, by which the size of a table is told.
PowerOf2[p \in Nat] == IF p = 0 THEN 1 ELSE 2 * PowerOf2[p - 1]

\* dictExpand leaves the dict with a table of the least power of 2 that is no
\* less than the size asked for, DICT_HT_INITIAL_SIZE at least, or, if that
\* would be no long, LONG_MAX + 1; when ht[0] has this size, with the table it has.
ExpandsToTheLeastPower ==
  [][\A n \in ExpandSizes, t \in Table :
       dictExpand(n, t) =>
         \E h \in {0, 1} :
           LET size == dict'.ht[h].size
           IN IF n > LONG_MAX THEN size = LONG_MAX + 1
              ELSE \E p \in 2 .. n + 2 :
                     /\ size = PowerOf2[p] /\ n <= size
                     /\ \A q \in 2 .. p - 1 : PowerOf2[q] < n]_vars

\* dictRelease frees everything the dict had allocated or was given, and
\* leaves the caller's other blocks alone.
ReleaseFreesAll ==
  [][call.op = "release" /\ Idle' => Live(Blocks)' = call.kept]_vars
=============================================================================

---------------------------- MODULE AdlistCalls ----------------------------
(***************************************************************************)
(* The calls of redis/src/adlist.cc that loop over a list: listRelease and *)
(* safe_listRelease, listSearchKey, listIndex and listDup.  One action is  *)
(* one pass of the loop, with the callback it makes; "call" holds the      *)
(* local variables of the call in progress.  The library has no threads:   *)
(* callers start the next call when the running one has returned.          *)
(***************************************************************************)
EXTENDS Adlist, Sequences

CONSTANTS
  Content,    \* what each value holds, as the match and dup methods see it
  Methods,    \* the <<dup, free, match>> fields callers set
  Indices     \* the arguments callers give listIndex, a C int

ASSUME CallsAssumption ==
  /\ NULL \notin Seq(Value \cup {NULL})
  /\ DOMAIN Content = Value /\ Indices \subseteq Int
  /\ Methods \subseteq BOOLEAN \X BOOLEAN \X BOOLEAN

VARIABLES
  call,       \* the call in progress and its local variables
  result      \* what the last call returned, until the caller goes on

cvars == <<vars, call, result>>
structs == <<heap, list, node, iter, values, owner, walk>>

\* had is auxiliary: the blocks and values allocated when listDup began.
NoCall == [op |-> "none", l |-> NULL, curr |-> NULL, count |-> 0, i |-> NULL,
           key |-> NULL, copy |-> NULL, had |-> {}]
Idle == call.op = "none"

CInit == Init /\ call = NoCall /\ result = NULL

Begin(c) == Idle /\ call' = c /\ result' = NULL
Return(r) == call' = NoCall /\ result' = r

\* Code of a call that dereferences ptrs, as in Adlist.
Step(ptrs, A) ==
  /\ Touching(ptrs, A)
  /\ IF undefined' THEN UNCHANGED <<call, result>> ELSE TRUE

\* One pass of a loop of the call op.
During(op) == Running /\ call.op = op
Pass(c) == call' = c /\ UNCHANGED result

-----------------------------------------------------------------------------
(* listRelease and safe_listRelease.  The latter also nulls the caller's    *)
(* variable; callers of either do not use the list again.                   *)

\* Mutant: the loop runs once more than there are nodes.
listRelease_OnceMore(l) ==
  Step({l},
    /\ Begin([NoCall EXCEPT !.op = "release", !.l = l, !.curr = list[l].head,
                             !.count = list[l].len + 1])
    /\ UNCHANGED structs)

listRelease(l) ==
  Step({l},
    /\ Begin([NoCall EXCEPT !.op = "release", !.l = l, !.curr = list[l].head,
                             !.count = list[l].len])
    /\ UNCHANGED structs)

\* while(len--): next = curr->next; free the value; zfree(curr); curr = next
ReleaseNode ==
  LET l == call.l
      n == call.curr
  IN /\ During("release")
     /\ call.count > 0
     /\ Step({l, n} \cup
                 (IF n = NULL THEN {} ELSE Freed(l, node[n].value)),
          /\ Pass([call EXCEPT !.curr = node[n].next, !.count = @ - 1])
          /\ values' = values \ Freed(l, node[n].value)
          /\ Z!zfree(n)
          /\ node' = [node EXCEPT ![n] = BlankNode]
          /\ owner' = [owner EXCEPT ![n] = NULL]
          /\ UNCHANGED <<list, iter, walk>>)

ReleaseList ==
  /\ During("release")
  /\ call.count = 0
  /\ Step({call.l},
       /\ Z!zfree(call.l)
       /\ list' = [list EXCEPT ![call.l] = EmptyList]
       /\ Return(NULL)
       /\ UNCHANGED <<node, iter, values, owner, walk>>)

-----------------------------------------------------------------------------
(* listSearchKey.                                                          *)

Matches(l, v, key) ==
  IF list[l].match THEN Content[v] = Content[key] ELSE v = key

\* A match method reads both values, so callers give it none that is NULL.
MaySearch(l, key) ==
  list[l].match =>
    key # NULL /\ \A n \in NodesOf(l) : node[n].value # NULL

listSearchKey(l, i, key) ==
  /\ MaySearch(l, key)
  /\ listGetIterator(l, i, FORWARD)
  /\ Begin([NoCall EXCEPT !.op = "search", !.l = l, !.i = i, !.key = key])

\* Mutant: the loop looks at iter->next and does not take it.
SearchMiss_Stays ==
  /\ During("search")
  /\ iter[call.i].next # NULL
  /\ ~Matches(call.l, node[iter[call.i].next].value, call.key)
  /\ UNCHANGED cvars

SearchMiss ==
  LET n == iter[call.i].next IN
  /\ During("search")
  /\ n # NULL /\ ~Matches(call.l, node[n].value, call.key)
  /\ listNext(call.i)
  /\ UNCHANGED <<call, result>>

\* Mutant: the iterator is released when nothing is found only.
SearchReturn_KeepsIterator ==
  LET n == iter[call.i].next IN
  /\ During("search")
  /\ n # NULL => Matches(call.l, node[n].value, call.key)
  /\ IF n = NULL THEN listReleaseIter(call.i) ELSE UNCHANGED vars
  /\ Return(n)

\* The iterator is released on both ways out.
SearchReturn ==
  LET n == iter[call.i].next IN
  /\ During("search")
  /\ n # NULL => Matches(call.l, node[n].value, call.key)
  /\ listReleaseIter(call.i)
  /\ Return(n)

-----------------------------------------------------------------------------
(* listIndex.                                                              *)

listIndex(l, index) ==
  Step({l},
    /\ Begin([NoCall EXCEPT !.op = "index", !.l = l, !.key = index,
                             !.curr = list[l].head])
    /\ UNCHANGED structs)

IndexNext ==
  /\ During("index")
  /\ call.curr # NULL /\ call.count # call.key
  /\ Step({call.curr},
       /\ Pass([call EXCEPT !.curr = node[call.curr].next, !.count = @ + 1])
       /\ UNCHANGED structs)

IndexReturn ==
  /\ During("index")
  /\ call.curr = NULL \/ call.count = call.key
  /\ Return(call.curr)
  /\ UNCHANGED vars

-----------------------------------------------------------------------------
(* listDup.                                                                *)

\* A list that frees its values may be copied with a dup method only: without
\* one the copy shares the values and both lists free them.
MayDup(l) == list[l].free => list[l].dup \/ list[l].len = 0

\* listCreate, and the methods of orig.
listDup(orig, copy) ==
  /\ MayDup(orig)
  /\ Step({orig},
       /\ Z!zmalloc(copy, SizeofList)
       /\ list' = [list EXCEPT ![copy] = [EmptyList EXCEPT
                     !.dup = list[orig].dup, !.free = list[orig].free,
                     !.match = list[orig].match]]
       /\ Begin([NoCall EXCEPT !.op = "dup", !.l = orig, !.copy = copy,
                                !.had = Live(Blocks) \cup values])
       /\ UNCHANGED <<node, iter, values, owner, walk>>)

DupIterator(i) ==
  /\ During("dup") /\ call.i = NULL
  /\ listGetIterator(call.l, i, FORWARD)
  /\ Pass([call EXCEPT !.i = i])

\* listNext, the value or its duplicate (in a fresh block, with the same
\* content), and listAddNodeTail.
DupNode(n, v) ==
  LET i == call.i
      o == iter[i].next
  IN /\ During("dup") /\ i # NULL
     /\ o # NULL
     /\ IF list[call.copy].dup
          THEN /\ node[o].value # NULL
               /\ v \in Value \ values /\ Content[v] = Content[node[o].value]
          ELSE v = node[o].value
     /\ Step({i, o, call.copy} \cup ({list[call.copy].tail} \ {NULL}),
          /\ LinkTail(call.copy, n, v)
          /\ iter' = [iter EXCEPT ![i].next = node[o].next]
          /\ walk' = [walk EXCEPT ![i].todo = @ \ {o}, ![i].seen = @ \cup {o}]
          /\ values' = IF list[call.copy].dup THEN values \cup {v} ELSE values
          /\ UNCHANGED <<call, result>>)

\* Mutant: the half-made copy is not released.
DupFails_KeepsCopy ==
  /\ During("dup") /\ call.i # NULL
  /\ iter[call.i].next # NULL
  /\ list[call.copy].dup
  /\ listReleaseIter(call.i)
  /\ Return(NULL)

\* The dup method returns NULL: the iterator is released, then the copy, and
\* listDup returns NULL.
DupFails ==
  /\ During("dup") /\ call.i # NULL
  /\ iter[call.i].next # NULL
  /\ list[call.copy].dup
  /\ listReleaseIter(call.i)
  /\ Pass([call EXCEPT !.op = "release", !.l = call.copy, !.i = NULL,
             !.curr = list[call.copy].head, !.count = list[call.copy].len])

DupReturn ==
  /\ During("dup") /\ call.i # NULL
  /\ iter[call.i].next = NULL
  /\ listReleaseIter(call.i)
  /\ Return(call.copy)

-----------------------------------------------------------------------------
(* Callers, who hold no iterators of their own here: Adlist has those.      *)

OneStepCall ==
  /\ Idle
  /\ \/ \E l \in List : listCreate(l)
     \/ \E v \in Value : NewValue(v)
     \/ \E l \in List, m \in Methods : SetMethods(l, m[1], m[2], m[3])
     \/ \E l \in Live(List), n \in Node, v \in values \cup {NULL} :
           AddNode(l, n, v)
     \/ \E l \in Live(List), n \in Node : listDelNode(l, n)
  /\ result' = NULL
  /\ UNCHANGED call

CallStarts ==
  \E l \in Live(List) :
     \/ listRelease(l)
     \/ \E i \in Iter, key \in values \cup {NULL} : listSearchKey(l, i, key)
     \/ \E index \in Indices : listIndex(l, index)
     \/ \E copy \in List : listDup(l, copy)

CallGoesOn ==
  \/ ReleaseNode \/ ReleaseList
  \/ SearchMiss \/ SearchReturn
  \/ IndexNext \/ IndexReturn
  \/ \E i \in Iter : DupIterator(i)
  \/ \E n \in Node, v \in Value \cup {NULL} : DupNode(n, v)
  \/ DupFails \/ DupReturn

Abort == OutOfMemory /\ UNCHANGED <<call, result>>

CNext == OneStepCall \/ CallStarts \/ CallGoesOn \/ Abort

\* A call that was started runs on; when no address is left for a node, malloc
\* returns NULL at last.
CSpec ==
  /\ CInit /\ [][CNext]_cvars
  /\ WF_cvars(CallGoesOn)
  /\ WF_cvars(~Idle /\ Live(Node) = Node /\ Abort)

-----------------------------------------------------------------------------
(* Properties.                                                             *)

\* Between calls every list is well formed and the counter is what callers
\* can reach: no call, on any of its ways out, leaves a list half linked or
\* leaks a node, a list or an iterator.
SoundBetweenCalls ==
  Idle => WellFormed /\ UsedMemoryIsReachable /\ Live(Iter) = {}

Returns(op) == call.op = op /\ ~Idle /\ Idle'

\* listSearchKey returns the first node, from the head, whose value matches
\* the key, NULL when there is none.
SearchFirst ==
  [][Returns("search") =>
       LET path == Forward(call.l)
           found == {k \in DOMAIN path :
                       Matches(call.l, node[path[k]].value, call.key)}
       IN IF found = {} THEN result' = NULL
          ELSE \E k \in found : (\A j \in found : k <= j) /\ result' = path[k]
    ]_cvars

\* listIndex returns the node at that place, counted from 0 at the head, NULL
\* when the index is negative or past the end.
IndexNth ==
  [][Returns("index") =>
       result' = IF call.key + 1 \in 1 .. list[call.l].len
                 THEN Forward(call.l)[call.key + 1] ELSE NULL]_cvars

\* Both ways of looking up a node walk the list to the right one, from either
\* end and with every place and key.
LookupsAreRight == SearchFirst /\ IndexNth

\* When a dup method fails in the middle of listDup, the blocks that are left
\* are those of before the call, and so are the values if the list has a free
\* method.
DupRollsBack ==
  [][Returns(call.op) /\ call.copy # NULL /\ result' = NULL =>
       /\ Live(Blocks)' = call.had \cap Blocks
       /\ list[call.l].free => values' = call.had \cap Value]_cvars

\* Every call returns, whatever the lists look like, or the process aborts.
CallsReturn == ~Idle ~> Idle \/ status = "aborted"

\* Callers see sequences, see ListSeq.  A copy appears when listDup returns
\* it, and a list is gone when its release begins.
Hidden(l) ==
  \/ l \notin Live(List)
  \/ call.op = "dup" /\ call.copy = l
  \/ call.op = "release" /\ call.l = l
Duplicate(v, w) ==
  v = w \/ (v # NULL /\ w # NULL /\ Content[v] = Content[w])
Abstract == INSTANCE ListSeq WITH
  Value <- Value \cup {NULL}, Absent <- NULL, Same <- Duplicate,
  seqs <- [l \in List |->
             IF Hidden(l) THEN NULL
             ELSE [k \in 1 .. list[l].len |-> node[Forward(l)[k]].value]]
ImplementsSequences == Abstract!Spec
=============================================================================

------------------------------- MODULE Adlist -------------------------------
(***************************************************************************)
(* The doubly linked list of redis/src/adlist.cc: its structs, the calls   *)
(* that make one change and return, and its iterators.  The calls that     *)
(* loop over a list (release, search, index, dup) are in AdlistCalls.      *)
(*                                                                         *)
(* Lists, nodes and iterators are zmalloc blocks.  A call that reads or    *)
(* writes through a pointer that is NULL or whose block is freed, or that  *)
(* hands the free method a value that is freed already, sets "undefined":  *)
(* from there the C++ program has no defined behaviour.                    *)
(***************************************************************************)
EXTENDS Integers, FiniteSets

CONSTANTS
  List, Node, Iter,                    \* addresses of the three structs
  Value,                               \* addresses of the caller's values
  NULL,
  SizeofList, SizeofNode, SizeofIter, PREFIX_SIZE, SizeMod

Blocks == List \cup Node \cup Iter
Sizes == {SizeofList, SizeofNode, SizeofIter}

ASSUME AdlistAssumption ==
  /\ NULL \notin Blocks \cup Value /\ Blocks \cap Value = {}
  /\ List \cap Node = {} /\ List \cap Iter = {} /\ Node \cap Iter = {}
  /\ IsFiniteSet(Node)
  /\ PREFIX_SIZE \in Nat \ {0} /\ SizeMod \in Nat \ {0}
  /\ Sizes \subseteq Nat
  /\ \A n \in Sizes : n + PREFIX_SIZE < SizeMod

VARIABLES
  room, header, used_memory, status,   \* the allocator's, see Zmalloc
  list,       \* the list structs
  node,       \* the listNode structs
  iter,       \* the listIter structs
  values,     \* the values that are allocated: the free method frees one
  undefined,  \* the program has done something without defined behaviour
  owner,      \* auxiliary: the list each node was added to, as callers know it
  walk        \* auxiliary: per iterator, the list it was started on, the nodes
              \* there at the start that it has still to return, and the nodes
              \* it has returned

Z == INSTANCE Zmalloc WITH Addr <- Blocks, Requests <- Sizes

heap == <<room, header, used_memory, status>>
vars == <<heap, list, node, iter, values, undefined, owner, walk>>

FORWARD == "FORWARD"
BACKWARD == "BACKWARD"

Live(S) == {a \in S : room[a] > 0}
NodesOf(l) == {n \in Node : owner[n] = l}

EmptyList == [head |-> NULL, tail |-> NULL, len |-> 0,
              dup |-> FALSE, free |-> FALSE, match |-> FALSE]
BlankNode == [prev |-> NULL, next |-> NULL, value |-> NULL]
BlankIter == [next |-> NULL, direction |-> FORWARD]
BlankWalk == [on |-> NULL, todo |-> {}, seen |-> {}]

Init ==
  /\ Z!Init
  /\ list = [l \in List |-> EmptyList]
  /\ node = [n \in Node |-> BlankNode]
  /\ iter = [i \in Iter |-> BlankIter]
  /\ values = {}
  /\ undefined = FALSE
  /\ owner = [n \in Node |-> NULL]
  /\ walk = [i \in Iter |-> BlankWalk]

Running == status = "running" /\ ~undefined

\* The code of a call, which dereferences ptrs on its way.
Touching(ptrs, A) ==
  /\ Running
  /\ IF ptrs \subseteq Live(Blocks) \cup values
       THEN A /\ UNCHANGED undefined
       ELSE /\ undefined' = TRUE
            /\ UNCHANGED <<heap, list, node, iter, values, owner, walk>>

\* What if(list->free) list->free(value) frees, with the free method of
\* list_test.cc, zfree: nothing for NULL, and never a value freed before.
Freed(l, v) == IF list[l].free THEN {v} \ {NULL} ELSE {}

-----------------------------------------------------------------------------
(* Creation, and the fields callers assign themselves.                     *)

listCreate(l) ==
  /\ Running
  /\ Z!zmalloc(l, SizeofList)
  /\ list' = [list EXCEPT ![l] = EmptyList]
  /\ UNCHANGED <<node, iter, values, undefined, owner, walk>>

\* The caller allocates a value, as list_test.cc:78 does with zmalloc(16).
NewValue(v) ==
  /\ Running
  /\ v \notin values
  /\ values' = values \cup {v}
  /\ UNCHANGED <<heap, list, node, iter, undefined, owner, walk>>

\* A list that frees its values must be the only one to hold them, and hold
\* them once: callers keep to this, or the free method runs twice on a value.
Exclusive ==
  \A m, n \in Node :
     /\ m # n
     /\ owner[m] # NULL /\ owner[n] # NULL
     /\ node[m].value = node[n].value /\ node[n].value # NULL
     => ~list[owner[m]].free /\ ~list[owner[n]].free

\* list->dup = ..., list->free = ..., list->match = ...
SetMethods(l, d, f, m) ==
  /\ l \in Live(List)
  /\ Touching({l},
       /\ list' = [list EXCEPT ![l].dup = d, ![l].free = f, ![l].match = m]
       /\ UNCHANGED <<heap, node, iter, values, owner, walk>>)
  /\ Exclusive'

-----------------------------------------------------------------------------
(* Adding and deleting nodes.                                              *)

listAddNodeHead(l, n, v) ==
  LET h == list[l].head IN
  Touching({l} \cup ({h} \ {NULL}),
    /\ Z!zmalloc(n, SizeofNode)
    /\ node' = [m \in Node |->
                  IF m = n THEN [prev |-> NULL, next |-> h, value |-> v]
                  ELSE IF m = h THEN [node[m] EXCEPT !.prev = n]
                  ELSE node[m]]
    /\ list' = [list EXCEPT ![l].head = n, ![l].len = @ + 1,
                            ![l].tail = IF h = NULL THEN n ELSE @]
    /\ owner' = [owner EXCEPT ![n] = l]
    /\ UNCHANGED <<iter, values, walk>>)

\* What listAddNodeTail, which listDup calls too, does with the structs.
LinkTail(l, n, v) ==
  LET t == list[l].tail IN
  /\ Z!zmalloc(n, SizeofNode)
  /\ node' = [m \in Node |->
                IF m = n THEN [prev |-> t, next |-> NULL, value |-> v]
                ELSE IF m = t THEN [node[m] EXCEPT !.next = n]
                ELSE node[m]]
  /\ list' = [list EXCEPT ![l].tail = n, ![l].len = @ + 1,
                          ![l].head = IF t = NULL THEN n ELSE @]
  /\ owner' = [owner EXCEPT ![n] = l]

listAddNodeTail(l, n, v) ==
  Touching({l} \cup ({list[l].tail} \ {NULL}),
    LinkTail(l, n, v) /\ UNCHANGED <<iter, values, walk>>)

\* The neighbours whose links listDelNode rewrites.  The only node of a list
\* has none; otherwise the first node has just its successor, the last one
\* just its predecessor.
Neighbours(l, n) ==
  IF list[l].len = 1 /\ list[l].head = n THEN {}
  ELSE IF n = list[l].head THEN {node[n].next}
  ELSE IF n = list[l].tail THEN {node[n].prev}
  ELSE {node[n].prev, node[n].next}

\* The list and node structs once n is out of l.
Unlinked(l, n) ==
  LET p == node[n].prev
      q == node[n].next
      first == n = list[l].head
      last == n = list[l].tail
      only == list[l].len = 1 /\ first
  IN [list |-> [list EXCEPT
                  ![l].len = @ - 1,
                  ![l].head = IF only THEN NULL ELSE IF first THEN q ELSE @,
                  ![l].tail = IF only THEN NULL
                              ELSE IF last /\ ~first THEN p ELSE @],
      node |-> [m \in Node |->
                  IF m = n \/ m \notin Neighbours(l, n) THEN node[m]
                  ELSE [prev |-> IF m = q
                                 THEN IF first THEN NULL ELSE p
                                 ELSE node[m].prev,
                        next |-> IF m = p
                                 THEN IF last THEN NULL ELSE q
                                 ELSE node[m].next,
                        value |-> node[m].value]]]

\* A caller deletes a node of the list it names; while an iterator that is
\* not at its end walks that list, only nodes the iterator has returned.
MayDelete(l, n) ==
  /\ owner[n] = l
  /\ \A i \in Live(Iter) :
        walk[i].on = l /\ iter[i].next # NULL => n \in walk[i].seen

listDelNode(l, n) ==
  /\ MayDelete(l, n)
  /\ list[l].len # 0
  /\ Touching({l, n} \cup Neighbours(l, n) \cup Freed(l, node[n].value),
       /\ list' = Unlinked(l, n).list
       /\ node' = [Unlinked(l, n).node EXCEPT ![n] = BlankNode]
       /\ values' = values \ Freed(l, node[n].value)
       /\ Z!zfree(n)
       /\ owner' = [owner EXCEPT ![n] = NULL]
       /\ walk' = [i \in Iter |-> [walk[i] EXCEPT !.seen = @ \ {n},
                                                  !.todo = @ \ {n}]]
       /\ UNCHANGED iter)

-----------------------------------------------------------------------------
(* Iterators.                                                              *)

Start(i, l) == walk' = [walk EXCEPT ![i] = [on |-> l, todo |-> NodesOf(l),
                                            seen |-> {}]]

\* Mutant: an iterator starts at the end it should walk towards.
EndOf_Swapped(l, direction) ==
  IF direction = FORWARD THEN list[l].tail ELSE list[l].head

EndOf(l, direction) ==
  IF direction = FORWARD THEN list[l].head ELSE list[l].tail

\* Mutant: the direction is not assigned, and is whatever the block held: NULL
\* stands for a value that is neither FORWARD nor BACKWARD.
listGetIterator_NoDirection(l, i, direction) ==
  Touching({l},
    /\ Z!zmalloc(i, SizeofIter)
    /\ iter' = [iter EXCEPT ![i] = [next |-> EndOf(l, direction), direction |-> NULL]]
    /\ Start(i, l)
    /\ UNCHANGED <<list, node, values, owner>>)

listGetIterator(l, i, direction) ==
  Touching({l},
    /\ Z!zmalloc(i, SizeofIter)
    /\ iter' = [iter EXCEPT ![i] = [next |-> EndOf(l, direction),
                                    direction |-> direction]]
    /\ Start(i, l)
    /\ UNCHANGED <<list, node, values, owner>>)

\* listRewind (FORWARD) and listRewindTail (BACKWARD).
Rewind(l, i, direction) ==
  /\ i \in Live(Iter)
  /\ Touching({l, i},
       /\ iter' = [iter EXCEPT ![i] = [next |-> EndOf(l, direction),
                                       direction |-> direction]]
       /\ Start(i, l)
       /\ UNCHANGED <<heap, list, node, values, owner>>)
listRewind(l, i) == Rewind(l, i, FORWARD)
listRewindTail(l, i) == Rewind(l, i, BACKWARD)

\* Returns iter[i].next; at the end it returns NULL and changes nothing.
listNext(i) ==
  LET n == iter[i].next IN
  /\ i \in Live(Iter)
  /\ n # NULL
  /\ Touching({i, n},
       /\ iter' = [iter EXCEPT ![i].next = IF iter[i].direction = FORWARD
                                           THEN node[n].next
                                           ELSE node[n].prev]
       /\ walk' = [walk EXCEPT ![i].todo = @ \ {n}, ![i].seen = @ \cup {n}]
       /\ UNCHANGED <<heap, list, node, values, owner>>)

listReleaseIter(i) ==
  /\ i \in Live(Iter)
  /\ Touching({i},
       /\ Z!zfree(i)
       /\ iter' = [iter EXCEPT ![i] = BlankIter]
       /\ walk' = [walk EXCEPT ![i] = BlankWalk]
       /\ UNCHANGED <<list, node, values, owner>>)

\* Every call that allocates may abort the process instead.
OutOfMemory ==
  /\ ~undefined
  /\ Z!zmalloc_oom
  /\ UNCHANGED <<list, node, iter, values, undefined, owner, walk>>

-----------------------------------------------------------------------------
(* Callers: any of the calls above on lists they hold, in any order, within *)
(* the rules Exclusive and MayDelete.                                       *)

AddNode(l, n, v) ==
  /\ listAddNodeHead(l, n, v) \/ listAddNodeTail(l, n, v)
  /\ Exclusive'

Next ==
  \/ \E l \in List : listCreate(l)
  \/ \E v \in Value : NewValue(v)
  \/ \E l \in List, d, f, m \in BOOLEAN : SetMethods(l, d, f, m)
  \/ \E l \in Live(List), n \in Node, v \in values \cup {NULL} : AddNode(l, n, v)
  \/ \E l \in Live(List), n \in Node : listDelNode(l, n)
  \/ \E l \in Live(List), i \in Iter, d \in {FORWARD, BACKWARD} :
        listGetIterator(l, i, d)
  \/ \E l \in Live(List), i \in Iter : listRewind(l, i) \/ listRewindTail(l, i)
  \/ \E i \in Iter : listNext(i) \/ listReleaseIter(i)
  \/ OutOfMemory

Spec == Init /\ [][Next]_vars

-----------------------------------------------------------------------------
(* Properties.                                                             *)

TypeOK ==
  /\ Z!TypeOK
  /\ list \in [List -> [head : Node \cup {NULL}, tail : Node \cup {NULL},
                       len : Nat, dup : BOOLEAN, free : BOOLEAN,
                       match : BOOLEAN]]
  /\ node \in [Node -> [prev : Node \cup {NULL}, next : Node \cup {NULL},
                       value : Value \cup {NULL}]]
  /\ iter \in [Iter -> [next : Node \cup {NULL},
                       direction : {FORWARD, BACKWARD}]]
  /\ values \subseteq Value
  /\ undefined \in BOOLEAN
  /\ owner \in [Node -> List \cup {NULL}]
  /\ walk \in [Iter -> [on : List \cup {NULL}, todo : SUBSET Node,
                       seen : SUBSET Node]]

\* The nodes a caller meets from head along next, and from tail along prev,
\* len of them.
Along(first, link(_), len) ==
  LET path[k \in 1 .. len] ==
        IF k = 1 THEN first
        ELSE IF path[k - 1] = NULL THEN NULL ELSE link(path[k - 1])
  IN path
Forward(l) == Along(list[l].head, LAMBDA n : node[n].next, list[l].len)
Backward(l) == Along(list[l].tail, LAMBDA n : node[n].prev, list[l].len)

\* Following next from head, and prev from tail, meets exactly the nodes
\* added to the list and not deleted, each once, len of them, in opposite
\* orders, and then NULL.  The loops of listRelease count on it: they follow
\* next len times without looking for NULL.
WellFormed ==
  \A l \in Live(List) :
    LET path == Forward(l)
        len == list[l].len
    IN /\ {path[k] : k \in 1 .. len} = NodesOf(l)
       /\ len = Cardinality(NodesOf(l))
       /\ Backward(l) = [k \in 1 .. len |-> path[len + 1 - k]]
       /\ len = 0 => list[l].head = NULL /\ list[l].tail = NULL
       /\ len > 0 => /\ node[list[l].tail].next = NULL
                     /\ node[list[l].head].prev = NULL
       /\ NodesOf(l) \subseteq Live(Node)

\* No call ever follows a NULL or dangling pointer or frees a value twice, in
\* any order of calls: also when nodes are added and deleted under iterators
\* that are in the middle of the list.
NeverUndefined == ~undefined

\* An iterator's next node is still in its list and has not been returned
\* before, and an iterator at its end has returned every node that was in the
\* list when it was started.  So a walk returns each of them once, while the
\* caller deletes nodes it was given and adds others at both ends.
IteratorsKeepTheirPlace ==
  \A i \in Live(Iter) :
    IF iter[i].next = NULL THEN walk[i].todo = {}
    ELSE /\ owner[iter[i].next] = walk[i].on
         /\ iter[i].next \notin walk[i].seen

\* The allocator's counter, a size_t, is what callers can still reach: the list
\* structs, the nodes on their paths and the iterators, each with its prefix.
UsedMemoryIsReachable ==
  used_memory =
    (  Cardinality(Live(List)) * (SizeofList + PREFIX_SIZE)
     + Cardinality(UNION {{Forward(l)[k] : k \in 1 .. list[l].len} :
                            l \in Live(List)}) * (SizeofNode + PREFIX_SIZE)
     + Cardinality(Live(Iter)) * (SizeofIter + PREFIX_SIZE)) % SizeMod
=============================================================================

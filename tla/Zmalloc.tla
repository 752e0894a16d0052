------------------------------ MODULE Zmalloc ------------------------------
(***************************************************************************)
(* The counting allocator of redis/src/zmalloc.cc.  Every block carries a  *)
(* hidden size_t in front of the bytes the caller sees, holding the size   *)
(* the caller asked for; the static used_memory is meant to be the number  *)
(* of bytes the library holds from libc, prefixes included.                *)
(*                                                                         *)
(* A block is named by the address libc gives for it.  zmalloc returns     *)
(* that address plus PREFIX_SIZE and zfree subtracts it again; the two     *)
(* cancel, so the caller's pointer and libc's address are the same name    *)
(* here.  The other modules INSTANCE this one: each zmalloc or zfree in    *)
(* the C++ code is a conjunct zmalloc(..) or zfree(..) of their actions.   *)
(***************************************************************************)
EXTENDS Integers, FiniteSets, FiniteSetsExt

CONSTANTS
  Addr,         \* the addresses libc's malloc may return
  NULL,         \* the null pointer
  Requests,     \* the sizes callers ask for
  PREFIX_SIZE,  \* sizeof(size_t)
  SizeMod       \* 2^w, the number of values of a size_t of w bits

\* A size_t holds a request together with its prefix (zmalloc.cc computes
\* size + PREFIX_SIZE without a check): no request is within PREFIX_SIZE
\* of SIZE_MAX.
ASSUME ZmallocAssumption ==
  /\ NULL \notin Addr
  /\ PREFIX_SIZE \in Nat \ {0}
  /\ SizeMod \in Nat \ {0}
  /\ Requests \subseteq Nat
  /\ \A n \in Requests : n + PREFIX_SIZE < SizeMod

VARIABLES
  room,         \* libc: bytes reserved at an address, 0 when it is free
  header,       \* the size_t stored in front of a block (0 where room = 0)
  used_memory,  \* the static counter, a size_t
  status        \* "running", or "aborted" by zmalloc_oom

vars == <<room, header, used_memory, status>>
heap == <<room, header, used_memory>>

Allocated == {a \in Addr : room[a] > 0}

increment_used_memory(u, n) == (u + n) % SizeMod
decrement_used_memory(u, n) == (u - n) % SizeMod

Init ==
  /\ room = [a \in Addr |-> 0]
  /\ header = [a \in Addr |-> 0]
  /\ used_memory = 0
  /\ status = "running"

\* malloc or realloc returned NULL: the message is printed and the process
\* aborts before any block, header or counter is touched.
zmalloc_oom ==
  /\ status = "running"
  /\ status' = "aborted"
  /\ UNCHANGED heap

\* libc places the new block at the free address a.
zmalloc(a, size) ==
  /\ status = "running"
  /\ room[a] = 0
  /\ room' = [room EXCEPT ![a] = (size + PREFIX_SIZE) % SizeMod]
  /\ header' = [header EXCEPT ![a] = size]
  /\ used_memory' = increment_used_memory(used_memory, size + PREFIX_SIZE)
  /\ UNCHANGED status

\* Mutant: the new size is not stored in front of the reallocated block.
zremalloc_KeepsHeader(a, b, size) ==
  \/ a = NULL /\ zmalloc(b, size)
  \/ /\ status = "running"
     /\ a \in Allocated
     /\ b = a \/ room[b] = 0
     /\ room' = [room EXCEPT ![a] = 0, ![b] = (size + PREFIX_SIZE) % SizeMod]
     /\ header' = [header EXCEPT ![a] = 0, ![b] = header[a]]
     /\ used_memory' = increment_used_memory(
                         decrement_used_memory(used_memory, header[a]), size)
     /\ UNCHANGED status

\* realloc grows or shrinks block a in place (b = a) or moves it to the
\* free address b.  A NULL argument makes it a plain zmalloc.
zremalloc(a, b, size) ==
  \/ a = NULL /\ zmalloc(b, size)
  \/ /\ status = "running"
     /\ a \in Allocated
     /\ b = a \/ room[b] = 0
     /\ room' = [room EXCEPT ![a] = 0, ![b] = (size + PREFIX_SIZE) % SizeMod]
     /\ header' = [header EXCEPT ![a] = 0, ![b] = size]
     /\ used_memory' = increment_used_memory(
                         decrement_used_memory(used_memory, header[a]), size)
     /\ UNCHANGED status

\* Mutant: zfree gives back the caller's bytes and forgets the prefix.
zfree_ForgetsPrefix(a) ==
  /\ status = "running"
  /\ \/ a = NULL /\ UNCHANGED vars
     \/ /\ a \in Allocated
        /\ used_memory' = decrement_used_memory(used_memory, header[a])
        /\ room' = [room EXCEPT ![a] = 0]
        /\ header' = [header EXCEPT ![a] = 0]
        /\ UNCHANGED status

\* A NULL argument returns at once.  Freeing anything else than an allocated
\* block is undefined: it is the callers' modules that show they never do.
zfree(a) ==
  /\ status = "running"
  /\ \/ a = NULL /\ UNCHANGED vars
     \/ /\ a \in Allocated
        /\ used_memory' = decrement_used_memory(used_memory,
                                                header[a] + PREFIX_SIZE)
        /\ room' = [room EXCEPT ![a] = 0]
        /\ header' = [header EXCEPT ![a] = 0]
        /\ UNCHANGED status

\* zsizeof(ptr): the size word in front of the block.
zsizeof(a) == header[a]

Next ==
  \/ \E a \in Addr, n \in Requests : zmalloc(a, n)
  \/ \E a \in Addr \cup {NULL}, b \in Addr, n \in Requests : zremalloc(a, b, n)
  \/ \E a \in Addr \cup {NULL} : zfree(a)
  \/ zmalloc_oom

Spec == Init /\ [][Next]_vars

-----------------------------------------------------------------------------
(* Properties.                                                             *)

TypeOK ==
  /\ room \in [Addr -> 0 .. SizeMod - 1]
  /\ header \in [Addr -> Nat]
  /\ used_memory \in 0 .. SizeMod - 1
  /\ status \in {"running", "aborted"}

\* The size word in front of every block is the size libc really reserved
\* for it less the prefix, so zfree and zremalloc give back exactly what was
\* taken and zsizeof never promises a byte that is not there.
HeaderTellsTheTruth ==
  \A a \in Allocated : zsizeof(a) + PREFIX_SIZE = room[a]

\* used_memory is the number of bytes held from libc, whatever sequence of
\* zmalloc, zremalloc and zfree led here (zmalloc_test.cc checks a few sums).
Accounting ==
  used_memory = MapThenSumSet(LAMBDA a : room[a], Allocated) % SizeMod
=============================================================================

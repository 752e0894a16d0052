--------------------------- MODULE ZmallocClient ---------------------------
(***************************************************************************)
(* Callers of the allocator and the pointer variables they keep, as in     *)
(* redis/test/zmalloc_test.cc: p = zmalloc(n), q = zremalloc(p, n),        *)
(* zfree(p) and the macro safe_zfree(&p) of zmalloc.h.  A pointer that is  *)
(* NULL may be freed or reallocated again; one whose block is gone may     *)
(* not, and nothing but the code that last touched the variable tells the  *)
(* two apart.                                                              *)
(***************************************************************************)
EXTENDS Zmalloc

CONSTANT Var    \* the caller's pointer variables

VARIABLES
  ptr,          \* the address each variable holds, or NULL
  done          \* variables the caller will not use before assigning them

clientVars == <<room, header, used_memory, status, ptr, done>>

\* The block behind a is what v points at and the caller has not given it up.
InUse(v) == ptr[v] # NULL /\ v \notin done

ClientInit == Init /\ ptr = [v \in Var |-> NULL] /\ done = {}

\* p = zmalloc(n), into a variable that does not hold the only pointer to a
\* block.
Malloc(v, a, n) ==
  /\ ~InUse(v)
  /\ zmalloc(a, n)
  /\ ptr' = [ptr EXCEPT ![v] = a]
  /\ done' = done \ {v}

\* q = zremalloc(p, n).  When q is another variable, p is left with the old
\* address, which the caller must not use (zmalloc_test.cc:41).
Realloc(v, w, b, n) ==
  /\ v \notin done
  /\ w = v \/ ~InUse(w)
  /\ zremalloc(ptr[v], b, n)
  /\ ptr' = [ptr EXCEPT ![w] = b]
  /\ done' = IF w = v THEN done \ {v} ELSE (done \cup {v}) \ {w}

\* zfree(p): p keeps its value.
Free(v) ==
  /\ v \notin done
  /\ zfree(ptr[v])
  /\ done' = done \cup {v}
  /\ UNCHANGED ptr

\* Mutant: safe_zfree nulls its own copy of the pointer, not the caller's.
safe_zfree_KeepsPointer(v) == v \notin done /\ zfree(ptr[v]) /\ UNCHANGED <<ptr, done>>

\* safe_zfree(&p): p becomes NULL, and the caller may use it again.
safe_zfree(v) ==
  /\ v \notin done
  /\ zfree(ptr[v])
  /\ ptr' = [ptr EXCEPT ![v] = NULL]
  /\ UNCHANGED done

ClientNext ==
  \/ \E v \in Var, a \in Addr, n \in Requests : Malloc(v, a, n)
  \/ \E v, w \in Var, b \in Addr, n \in Requests : Realloc(v, w, b, n)
  \/ \E v \in Var : Free(v)
  \/ \E v \in Var : safe_zfree(v)
  \/ zmalloc_oom /\ UNCHANGED <<ptr, done>>

ClientSpec == ClientInit /\ [][ClientNext]_clientVars

-----------------------------------------------------------------------------
(* Properties.                                                             *)

\* Every pointer the caller may still use is NULL or points at an allocated
\* block that no other usable pointer points at, and no block is left without
\* one.  So a second safe_zfree of the same variable is harmless, and so is
\* freeing the result of zremalloc, whether or not realloc moved the block.
PointersOwnBlocks ==
  /\ \A v \in Var : InUse(v) => ptr[v] \in Allocated
  /\ \A v, w \in Var : InUse(v) /\ InUse(w) /\ ptr[v] = ptr[w] => v = w
  /\ \A a \in Allocated : \E v \in Var : InUse(v) /\ ptr[v] = a
=============================================================================

--------------------------- MODULE ZmallocProofs ---------------------------
(***************************************************************************)
(* Theorems about the allocator and its callers' pointers, for every set   *)
(* of addresses and of variables, every prefix size and every width of     *)
(* size_t.                                                                 *)
(***************************************************************************)
EXTENDS ZmallocClient, Inductions

\* Types and size words are inductive together.
IInv == TypeOK /\ HeaderTellsTheTruth

\* The allocator starts with no block.
LEMMA InitIInv == Init => IInv
  BY ZmallocAssumption
     DEF Init, IInv, TypeOK, HeaderTellsTheTruth, Allocated

\* Every call keeps the types and the size words.
LEMMA NextIInv == IInv /\ [Next]_vars => IInv'
<1> SUFFICES ASSUME IInv, [Next]_vars PROVE IInv'
  OBVIOUS
<1> USE ZmallocAssumption DEF IInv, TypeOK, HeaderTellsTheTruth, Allocated, zsizeof
<1>a. ASSUME NEW a \in Addr, NEW n \in Requests, zmalloc(a, n)
      PROVE  IInv'
  <2>1. (n + PREFIX_SIZE) % SizeMod = n + PREFIX_SIZE
    OBVIOUS
  <2>2. (used_memory + (n + PREFIX_SIZE)) % SizeMod \in 0 .. SizeMod - 1
    OBVIOUS
  <2>3. QED
    BY <1>a, <2>1, <2>2 DEF zmalloc, increment_used_memory
<1>1. CASE \E a \in Addr, n \in Requests : zmalloc(a, n)
  BY <1>1, <1>a
<1>2. ASSUME NEW a \in Addr \cup {NULL}, NEW b \in Addr, NEW n \in Requests,
             zremalloc(a, b, n)
      PROVE  IInv'
  <2>1. CASE a = NULL /\ zmalloc(b, n)
    BY <2>1, <1>a
  <2>2. CASE ~(a = NULL /\ zmalloc(b, n))
    <3>1. (n + PREFIX_SIZE) % SizeMod = n + PREFIX_SIZE
      OBVIOUS
    <3>2. a \in Addr /\ header[a] \in Nat
      BY <1>2, <2>2 DEF zremalloc
    <3>3. (used_memory - header[a]) % SizeMod \in 0 .. SizeMod - 1
      BY <3>2
    <3>4. (((used_memory - header[a]) % SizeMod) + n) % SizeMod \in 0 .. SizeMod - 1
      BY <3>3
    <3>5. QED
      BY <1>2, <2>2, <3>1, <3>4
         DEF zremalloc, increment_used_memory, decrement_used_memory
  <2>3. QED
    BY <2>1, <2>2
<1>3. ASSUME NEW a \in Addr \cup {NULL}, zfree(a)
      PROVE  IInv'
  <2>1. CASE UNCHANGED vars
    BY <2>1 DEF vars
  <2>2. CASE ~ UNCHANGED vars
    <3>1. (used_memory - (header[a] + PREFIX_SIZE)) % SizeMod \in 0 .. SizeMod - 1
      BY <1>3, <2>2 DEF zfree
    <3>2. QED
      BY <1>3, <2>2, <3>1 DEF zfree, decrement_used_memory
  <2>3. QED
    BY <2>1, <2>2
<1>4. CASE zmalloc_oom
  BY <1>4 DEF zmalloc_oom, heap
<1>5. CASE UNCHANGED vars
  BY <1>5 DEF vars
<1>6. QED
  BY <1>1, <1>2, <1>3, <1>4, <1>5 DEF Next

\* The allocator's type correctness: the counter stays a size_t.
THEOREM TypeCorrect == Spec => []TypeOK
<1>1. IInv => TypeOK
  BY DEF IInv
<1>2. QED
  BY InitIInv, NextIInv, <1>1, PTL DEF Spec

\* Whatever sequence of zmalloc, zremalloc and zfree is called, the size word
\* in front of every block is the size reserved for it.
THEOREM HeadersTrue == Spec => []HeaderTellsTheTruth
<1>1. IInv => HeaderTellsTheTruth
  BY DEF IInv
<1>2. QED
  BY InitIInv, NextIInv, <1>1, PTL DEF Spec

-----------------------------------------------------------------------------
(* The counter.  Only finitely many blocks are allocated at any time, also *)
(* when Addr is infinite, so that the sum of their sizes is defined; every *)
(* operation changes that sum and the counter by the same amount.          *)

\* The bytes held from libc.
Held == SumOver(room, Allocated)

\* The size words are needed: the counter moves by what they say.
CInv == IInv /\ IsFiniteSet(Allocated) /\ used_memory = Held % SizeMod

\* The invariant of the proofs is the property of the runs.
LEMMA AccountingOfHeld == used_memory = Held % SizeMod => Accounting
  BY Zenon DEF Held, Accounting, SumOver

\* Changing the room at one address changes the sum by the difference.
LEMMA SumOfUpdate ==
  ASSUME NEW f \in [Addr -> Nat], NEW S, IsFiniteSet(S), S = {x \in Addr : f[x] > 0},
         NEW a \in Addr, NEW n \in Nat, NEW g \in [Addr -> Nat],
         g[a] = n, \A x \in Addr : x # a => g[x] = f[x],
         NEW T, T = {x \in Addr : g[x] > 0}
  PROVE  /\ IsFiniteSet(T)
         /\ SumOver(f, S) \in Nat
         /\ SumOver(g, T) \in Nat
         /\ SumOver(g, T) = SumOver(f, S) + n - f[a]
<1>1. PICK R : R = S \ {a}
  OBVIOUS
<1>2. R = T \ {a}
  BY <1>1
<1>3. IsFiniteSet(R)
  BY <1>1, FS_RemoveElement
<1>4. T \subseteq R \cup {a}
  BY <1>2
<1>5. IsFiniteSet(T)
  BY <1>3, <1>4, FS_AddElement, FS_Subset
<1>6. \A x \in R : f[x] = g[x]
  BY <1>1
<1>7. SumOver(f, R) = SumOver(g, R)
  BY <1>3, <1>6, SumOverSame
<1>8. /\ \A x \in S : f[x] \in Nat
      /\ \A x \in T : g[x] \in Nat
      /\ \A x \in R : g[x] \in Nat
  BY <1>1
<1>9. PICK s \in Nat, r \in Nat, t \in Nat :
         s = SumOver(f, S) /\ r = SumOver(g, R) /\ t = SumOver(g, T)
  BY <1>3, <1>5, <1>8, SumOverType
<1>10. s = r + f[a] /\ f[a] \in Nat
  <2>1. CASE a \in S
    <3>1. SumOver(f, S) = f[a] + SumOver(f, S \ {a})
      BY <1>8, <2>1, SumOverRemove
    <3>2. s = f[a] + r
      BY <1>1, <1>7, <1>9, <3>1, Zenon
    <3>3. QED
      BY <3>2
  <2>2. CASE a \notin S
    <3>1. R = S /\ f[a] = 0
      BY <1>1, <2>2
    <3>2. s = r
      BY <1>7, <1>9, <3>1, Zenon
    <3>3. QED
      BY <3>1, <3>2
  <2>3. QED
    BY <2>1, <2>2
<1>11. t = r + n
  <2>0. g[a] = n
    OBVIOUS
  <2>1. CASE a \in T
    <3>1. SumOver(g, T) = g[a] + SumOver(g, T \ {a})
      BY <1>5, <1>8, <2>1, SumOverRemove
    <3>2. t = n + r
      BY <1>2, <1>9, <2>0, <3>1, Zenon
    <3>3. QED
      BY <3>2
  <2>2. CASE a \notin T
    <3>1. R = T /\ n = 0
      BY <1>2, <2>0, <2>2
    <3>2. t = r
      BY <1>9, <3>1, Zenon
    <3>3. QED
      BY <3>1, <3>2
  <2>3. QED
    BY <2>1, <2>2
<1>12. QED
  BY <1>5, <1>9, <1>10, <1>11

\* A step that adds k to the sum and k to the counter.
LEMMA CounterFollows ==
  ASSUME NEW s \in Nat, NEW t \in Nat, NEW k \in Int, NEW u, NEW v,
         u = s % SizeMod, v = (u + k) % SizeMod, t = s + k
  PROVE  v = t % SizeMod
<1>1. PICK M \in Nat \ {0} : M = SizeMod
  BY ZmallocAssumption
<1>2. ((s % M) + k) % M = (s + k) % M
  <2>1. s \in Int
    OBVIOUS
  <2>2. QED
    BY <2>1, ModAdd, Zenon
<1>3. QED
  BY <1>1, <1>2

\* One address gets m bytes, and the counter moves by the difference.
LEMMA CInvOneAddress ==
  ASSUME CInv, IInv', NEW a \in Addr, NEW m \in Nat,
         room' = [room EXCEPT ![a] = m],
         used_memory' = (used_memory + (m - room[a])) % SizeMod
  PROVE  CInv'
<1>1. PICK f \in [Addr -> Nat], g \in [Addr -> Nat] : f = room /\ g = room'
  BY DEF CInv, IInv, TypeOK
<1>2. g[a] = m /\ \A x \in Addr : x # a => g[x] = f[x]
  BY <1>1
<1>3. PICK S, T : S = Allocated /\ T = Allocated'
  OBVIOUS
<1>4. S = {x \in Addr : f[x] > 0} /\ T = {x \in Addr : g[x] > 0}
  BY <1>1, <1>3 DEF Allocated
<1>5. IsFiniteSet(S)
  BY <1>3 DEF CInv
<1>6. /\ IsFiniteSet(T)
      /\ SumOver(f, S) \in Nat
      /\ SumOver(g, T) \in Nat
      /\ SumOver(g, T) = SumOver(f, S) + m - f[a]
  BY <1>2, <1>4, <1>5, SumOfUpdate
<1>7. PICK s \in Nat, t \in Nat : s = Held /\ t = Held' /\ t = s + m - f[a]
  BY <1>1, <1>3, <1>6 DEF Held
<1>8. used_memory = s % SizeMod
  BY <1>7 DEF CInv
<1>9. PICK k \in Int : k = m - f[a]
  BY <1>1
<1>10. t = s + k
  BY <1>1, <1>7, <1>9
<1>11. used_memory' = (used_memory + k) % SizeMod
  BY <1>1, <1>9
<1>12. used_memory' = t % SizeMod
  BY <1>8, <1>10, <1>11, CounterFollows
<1>13. QED
  BY <1>3, <1>6, <1>7, <1>12 DEF CInv

\* Every call changes the counter by what it takes from libc or gives back.
LEMMA NextCInv == CInv /\ [Next]_vars => CInv'
<1> SUFFICES ASSUME CInv, [Next]_vars PROVE CInv'
  OBVIOUS
<1>0. IInv /\ IInv'
  BY NextIInv DEF CInv
<1>t. room \in [Addr -> Nat] /\ header \in [Addr -> Nat] /\ used_memory \in Nat
  BY <1>0, ZmallocAssumption DEF IInv, TypeOK
<1>a. ASSUME NEW a \in Addr, NEW n \in Requests, zmalloc(a, n)
      PROVE  CInv'
  <2>1. (n + PREFIX_SIZE) % SizeMod = n + PREFIX_SIZE /\ n + PREFIX_SIZE \in Nat
    BY ZmallocAssumption
  <2>2. room[a] = 0 /\ room' = [room EXCEPT ![a] = n + PREFIX_SIZE]
    BY <1>a, <2>1, Zenon DEF zmalloc
  <2>3. used_memory' = (used_memory + (n + PREFIX_SIZE)) % SizeMod
    BY <1>a DEF zmalloc, increment_used_memory
  <2>4. PICK m \in Nat : m = n + PREFIX_SIZE
    BY <2>1
  <2>5. m - room[a] = m
    BY <2>2
  <2>6. QED
    BY <1>0, <2>2, <2>3, <2>4, <2>5, CInvOneAddress
<1>1. CASE \E a \in Addr, n \in Requests : zmalloc(a, n)
  BY <1>1, <1>a
<1>2. ASSUME NEW a \in Addr \cup {NULL}, NEW b \in Addr, NEW n \in Requests,
             zremalloc(a, b, n)
      PROVE  CInv'
  <2>1. CASE a = NULL /\ zmalloc(b, n)
    BY <2>1, <1>a
  <2>2. CASE ~(a = NULL /\ zmalloc(b, n))
    <3>1. PICK m \in Nat : m = n + PREFIX_SIZE /\ m % SizeMod = m /\ n \in Nat
      BY ZmallocAssumption
    <3>2. a \in Allocated /\ a \in Addr /\ (b = a \/ room[b] = 0)
      BY <1>2, <2>2 DEF zremalloc, Allocated
    <3>3. room' = [room EXCEPT ![a] = 0, ![b] = m]
      BY <1>2, <2>2, <3>1 DEF zremalloc
    <3>4. header[a] + PREFIX_SIZE = room[a]
      BY <1>0, <3>2 DEF IInv, HeaderTellsTheTruth, zsizeof
    <3>5. used_memory' = (((used_memory - header[a]) % SizeMod) + n) % SizeMod
      BY <1>2, <2>2 DEF zremalloc, increment_used_memory, decrement_used_memory
    <3>6. PICK f \in [Addr -> Nat], h \in [Addr -> Nat], g \in [Addr -> Nat] :
             f = room /\ h = [f EXCEPT ![a] = 0] /\ g = room'
      <4>1. room' \in [Addr -> Nat]
        BY <1>0, ZmallocAssumption DEF IInv, TypeOK
      <4>2. PICK f \in [Addr -> Nat], g \in [Addr -> Nat] : f = room /\ g = room'
        BY <1>t, <4>1
      <4>3. [f EXCEPT ![a] = 0] \in [Addr -> Nat]
        OBVIOUS
      <4>4. QED
        BY <4>2, <4>3
    <3>7. g = [h EXCEPT ![b] = m]
      BY <3>2, <3>3, <3>6
    <3>8. PICK S, R, T : /\ S = Allocated /\ S = {x \in Addr : f[x] > 0}
                         /\ R = {x \in Addr : h[x] > 0}
                         /\ T = Allocated' /\ T = {x \in Addr : g[x] > 0}
      BY <3>6 DEF Allocated
    <3>9. IsFiniteSet(S)
      BY <3>8 DEF CInv
    <3>10. /\ h[a] = 0 /\ \A x \in Addr : x # a => h[x] = f[x]
           /\ g[b] = m /\ \A x \in Addr : x # b => g[x] = h[x]
           /\ h[b] = 0
      <4>1. h[a] = 0 /\ \A x \in Addr : x # a => h[x] = f[x]
        BY <3>2, <3>6
      <4>2. g[b] = m /\ \A x \in Addr : x # b => g[x] = h[x]
        BY <3>6, <3>7
      <4>3. h[b] = 0
        BY <3>2, <3>6, <4>1
      <4>4. QED
        BY <4>1, <4>2, <4>3
    <3>11. /\ IsFiniteSet(R)
           /\ SumOver(f, S) \in Nat
           /\ SumOver(h, R) \in Nat
           /\ SumOver(h, R) = SumOver(f, S) + 0 - f[a]
      BY <3>2, <3>8, <3>9, <3>10, SumOfUpdate
    <3>12. /\ IsFiniteSet(T)
           /\ SumOver(g, T) \in Nat
           /\ SumOver(g, T) = SumOver(h, R) + m - h[b]
      BY <3>8, <3>10, <3>11, SumOfUpdate
    <3>13. PICK s \in Nat, t \in Nat : s = Held /\ t = Held' /\ t = s + m - f[a]
      <4>1. Held = SumOver(f, S) /\ Held' = SumOver(g, T)
        BY <3>6, <3>8, Zenon DEF Held
      <4>2. PICK s, r, t : s = SumOver(f, S) /\ r = SumOver(h, R) /\ t = SumOver(g, T)
        OBVIOUS
      <4>3. s \in Nat /\ r \in Nat /\ t \in Nat /\ r = s + 0 - f[a] /\ t = r + m - h[b]
        BY <3>11, <3>12, <4>2
      <4>4. f[a] \in Nat /\ h[b] = 0
        BY <3>2, <3>10
      <4>5. t = s + m - f[a]
        BY <4>3, <4>4
      <4>6. QED
        BY <4>1, <4>2, <4>3, <4>5
    <3>14. PICK k \in Int : k = n - header[a]
      BY <3>1, <1>t, <3>2
    <3>15. t = s + k
      BY <3>1, <3>2, <3>4, <3>6, <3>13, <3>14, <1>t, ZmallocAssumption
    <3>16. used_memory' = (used_memory + k) % SizeMod
      <4>1. PICK d \in Int : d = used_memory - header[a]
        BY <1>t, <3>2
      <4>0. PICK M \in Nat \ {0} : M = SizeMod
        BY ZmallocAssumption
      <4>2. ((d % M) + n) % M = (d + n) % M
        <5>1. n \in Int
          BY <3>1
        <5>2. QED
          BY <5>1, ModAdd, Zenon
      <4>3. d + n = used_memory + k
        BY <1>t, <3>1, <3>2, <3>14, <4>1
      <4>4. QED
        BY <3>5, <4>0, <4>1, <4>2, <4>3
    <3>17. used_memory = s % SizeMod
      BY <3>13 DEF CInv
    <3>18. used_memory' = t % SizeMod
      BY <3>15, <3>16, <3>17, CounterFollows
    <3>19. QED
      BY <1>0, <3>8, <3>12, <3>13, <3>18 DEF CInv
  <2>3. QED
    BY <2>1, <2>2
<1>3. ASSUME NEW a \in Addr \cup {NULL}, zfree(a)
      PROVE  CInv'
  <2>1. CASE UNCHANGED vars
    BY <1>0, <2>1 DEF vars, CInv, Held, Allocated
  <2>2. CASE ~ UNCHANGED vars
    <3>1. a \in Allocated /\ a \in Addr /\ room' = [room EXCEPT ![a] = 0]
      BY <1>3, <2>2 DEF zfree, Allocated
    <3>2. used_memory' = (used_memory - (header[a] + PREFIX_SIZE)) % SizeMod
      BY <1>3, <2>2 DEF zfree, decrement_used_memory
    <3>3. header[a] + PREFIX_SIZE = room[a]
      BY <1>0, <3>1 DEF IInv, HeaderTellsTheTruth, zsizeof
    <3>4. used_memory - (header[a] + PREFIX_SIZE) = used_memory + (0 - room[a])
      BY <1>t, <3>1, <3>3
    <3>5. QED
      BY <1>0, <3>1, <3>2, <3>4, CInvOneAddress
  <2>3. QED
    BY <2>1, <2>2
<1>4. CASE zmalloc_oom
  BY <1>0, <1>4 DEF zmalloc_oom, heap, CInv, Held, Allocated
<1>5. CASE UNCHANGED vars
  BY <1>0, <1>5 DEF vars, CInv, Held, Allocated
<1>6. QED
  BY <1>1, <1>2, <1>3, <1>4, <1>5 DEF Next

\* An empty heap and a zero counter.
LEMMA InitCInv == Init => CInv
<1> SUFFICES ASSUME Init PROVE CInv
  OBVIOUS
<1>1. Allocated = {}
  BY DEF Init, Allocated
<1>2. Held = 0
  BY <1>1, SumOverEmpty DEF Held
<1>3. used_memory = Held % SizeMod
  BY <1>2, ZmallocAssumption DEF Init
<1>4. QED
  BY <1>1, <1>3, InitIInv, FS_EmptySet DEF CInv

\* used_memory is the number of bytes held from libc modulo the width of a
\* size_t, whatever sequence of zmalloc, zremalloc and zfree was called.
THEOREM CounterCorrect == Spec => []Accounting
<1>1. CInv => Accounting
  BY AccountingOfHeld DEF CInv
<1>2. QED
  BY InitCInv, NextCInv, <1>1, PTL DEF Spec

-----------------------------------------------------------------------------
(* The callers.                                                            *)

\* The caller's variables hold addresses or NULL.
ClientTypes ==
  /\ ptr \in [Var -> Addr \cup {NULL}]
  /\ done \subseteq Var

\* The invariant of the callers.
OInv == IInv /\ ClientTypes /\ PointersOwnBlocks

\* What the calls do to the set of allocated blocks.
LEMMA AllocatedByZmalloc ==
  ASSUME IInv, NEW a \in Addr, NEW n \in Requests, zmalloc(a, n)
  PROVE  a \notin Allocated /\ Allocated' = Allocated \cup {a}
<1>1. (n + PREFIX_SIZE) % SizeMod > 0
  BY ZmallocAssumption
<1>2. QED
  BY <1>1 DEF zmalloc, Allocated, IInv, TypeOK

\* realloc keeps the number of blocks: one address for another.
LEMMA AllocatedByZremalloc ==
  ASSUME IInv, NEW a \in Addr, NEW b \in Addr, NEW n \in Requests, zremalloc(a, b, n)
  PROVE  /\ a \in Allocated
         /\ b = a \/ b \notin Allocated
         /\ Allocated' = (Allocated \ {a}) \cup {b}
<1>1. (n + PREFIX_SIZE) % SizeMod > 0
  BY ZmallocAssumption
<1>2. a # NULL
  BY ZmallocAssumption
<1>3. QED
  BY <1>1, <1>2 DEF zremalloc, Allocated, IInv, TypeOK

\* zfree gives back one block.
LEMMA AllocatedByZfree ==
  ASSUME IInv, NEW a \in Addr, zfree(a)
  PROVE  Allocated' = Allocated \ {a}
<1>1. a # NULL
  BY ZmallocAssumption
<1>2. QED
  BY <1>1 DEF zfree, Allocated, IInv, TypeOK

\* Every call of the caller is a call of the allocator.
LEMMA ClientStep ==
  ASSUME ClientTypes, [ClientNext]_clientVars
  PROVE  [Next]_vars
<1>1. CASE \E v \in Var, a \in Addr, n \in Requests : Malloc(v, a, n)
  BY <1>1 DEF Malloc, Next
<1>2. CASE \E v, w \in Var, b \in Addr, n \in Requests : Realloc(v, w, b, n)
  BY <1>2 DEF Realloc, Next, ClientTypes
<1>3. CASE \E v \in Var : Free(v)
  BY <1>3 DEF Free, Next, ClientTypes
<1>4. CASE \E v \in Var : safe_zfree(v)
  BY <1>4 DEF safe_zfree, Next, ClientTypes
<1>5. CASE zmalloc_oom /\ UNCHANGED <<ptr, done>>
  BY <1>5 DEF Next
<1>6. CASE UNCHANGED clientVars
  BY <1>6 DEF clientVars, vars
<1>7. QED
  BY <1>1, <1>2, <1>3, <1>4, <1>5, <1>6 DEF ClientNext

\* Every call of the caller keeps each block owned by one usable pointer.
LEMMA NextOInv == OInv /\ [ClientNext]_clientVars => OInv'
<1> SUFFICES ASSUME OInv, [ClientNext]_clientVars PROVE OInv'
  OBVIOUS
<1>0. IInv'
  BY ClientStep, NextIInv DEF OInv
<1>1. ASSUME NEW v \in Var, NEW a \in Addr, NEW n \in Requests, Malloc(v, a, n)
      PROVE  OInv'
  <2>1. a \notin Allocated /\ Allocated' = Allocated \cup {a} /\ a # NULL
    BY <1>1, AllocatedByZmalloc, ZmallocAssumption DEF Malloc, OInv
  <2>2. ~InUse(v) /\ ptr' = [ptr EXCEPT ![v] = a] /\ done' = done \ {v}
    BY <1>1 DEF Malloc
  <2>3. ClientTypes'
    BY <2>2 DEF OInv, ClientTypes
  <2>4. InUse(v)' /\ ptr'[v] = a
    BY <2>1, <2>2 DEF OInv, ClientTypes, InUse
  <2>5. \A w \in Var : w # v => ptr'[w] = ptr[w] /\ (InUse(w)' <=> InUse(w))
    BY <2>2 DEF OInv, ClientTypes, InUse
  <2>6. PointersOwnBlocks'
    BY <2>1, <2>2, <2>4, <2>5 DEF OInv, PointersOwnBlocks
  <2>7. QED
    BY <1>0, <2>3, <2>6 DEF OInv
<1>2. ASSUME NEW v \in Var, NEW w \in Var, NEW b \in Addr, NEW n \in Requests,
             Realloc(v, w, b, n)
      PROVE  OInv'
  <2>1. /\ v \notin done
        /\ w = v \/ ~InUse(w)
        /\ ptr' = [ptr EXCEPT ![w] = b]
        /\ done' = IF w = v THEN done \ {v} ELSE (done \cup {v}) \ {w}
        /\ b # NULL
    BY <1>2, ZmallocAssumption DEF Realloc
  <2>2. ClientTypes'
    BY <2>1 DEF OInv, ClientTypes
  <2>3. InUse(w)' /\ ptr'[w] = b
    BY <2>1 DEF OInv, ClientTypes, InUse
  <2>4. \A x \in Var : x # w /\ x # v => ptr'[x] = ptr[x] /\ (InUse(x)' <=> InUse(x))
    BY <2>1 DEF OInv, ClientTypes, InUse
  <2>5. w # v => ~InUse(v)'
    BY <2>1 DEF InUse
  <2>6. PointersOwnBlocks'
    <3>1. CASE ptr[v] = NULL
      <4>1. zmalloc(b, n)
        BY <1>2, <3>1, ZmallocAssumption DEF Realloc, zremalloc, Allocated
      <4>2. b \notin Allocated /\ Allocated' = Allocated \cup {b}
        BY <4>1, AllocatedByZmalloc DEF OInv
      <4>3. ~InUse(v)
        BY <3>1 DEF InUse
      <4>4. QED
        BY <2>1, <2>3, <2>4, <2>5, <4>2, <4>3 DEF OInv, PointersOwnBlocks
    <3>2. CASE ptr[v] # NULL
      <4>1. ptr[v] \in Addr /\ InUse(v)
        BY <2>1, <3>2 DEF OInv, ClientTypes, InUse
      <4>2. PICK a \in Addr : a = ptr[v]
        BY <4>1
      <4>3. /\ b = a \/ b \notin Allocated
            /\ Allocated' = (Allocated \ {a}) \cup {b}
        BY <1>2, <4>2, AllocatedByZremalloc DEF Realloc, OInv
      <4>4. QED
        BY <2>1, <2>3, <2>4, <2>5, <4>1, <4>2, <4>3 DEF OInv, PointersOwnBlocks
    <3>3. QED
      BY <3>1, <3>2
  <2>7. QED
    BY <1>0, <2>2, <2>6 DEF OInv
<1>3. ASSUME NEW v \in Var, Free(v) \/ safe_zfree(v)
      PROVE  OInv'
  <2>1. /\ v \notin done /\ zfree(ptr[v])
        /\ \/ done' = done \cup {v} /\ ptr' = ptr
           \/ done' = done /\ ptr' = [ptr EXCEPT ![v] = NULL]
    BY <1>3 DEF Free, safe_zfree
  <2>2. ClientTypes'
    BY <2>1 DEF OInv, ClientTypes
  <2>3. ~InUse(v)'
    BY <2>1 DEF OInv, ClientTypes, InUse
  <2>4. \A x \in Var : x # v => ptr'[x] = ptr[x] /\ (InUse(x)' <=> InUse(x))
    BY <2>1 DEF OInv, ClientTypes, InUse
  <2>5. PointersOwnBlocks'
    <3>1. CASE ptr[v] = NULL
      <4>1. Allocated' = Allocated
        BY <2>1, <3>1, ZmallocAssumption DEF zfree, vars, Allocated
      <4>2. ~InUse(v)
        BY <3>1 DEF InUse
      <4>3. QED
        BY <2>3, <2>4, <4>1, <4>2 DEF OInv, PointersOwnBlocks
    <3>2. CASE ptr[v] # NULL
      <4>1. ptr[v] \in Addr /\ InUse(v)
        BY <2>1, <3>2 DEF OInv, ClientTypes, InUse
      <4>2. PICK a \in Addr : a = ptr[v]
        BY <4>1
      <4>3. Allocated' = Allocated \ {a}
        BY <2>1, <4>2, AllocatedByZfree DEF OInv
      <4>4. QED
        BY <2>3, <2>4, <4>1, <4>2, <4>3 DEF OInv, PointersOwnBlocks
    <3>3. QED
      BY <3>1, <3>2
  <2>6. QED
    BY <1>0, <2>2, <2>5 DEF OInv
<1>4. CASE zmalloc_oom /\ UNCHANGED <<ptr, done>>
  BY <1>0, <1>4 DEF zmalloc_oom, heap, OInv, ClientTypes, PointersOwnBlocks, InUse, Allocated
<1>5. CASE UNCHANGED clientVars
  BY <1>0, <1>5 DEF clientVars, OInv, ClientTypes, PointersOwnBlocks, InUse, Allocated
<1>6. QED
  BY <1>1, <1>2, <1>3, <1>4, <1>5 DEF ClientNext

\* The caller starts with NULL pointers.
LEMMA InitOInv == ClientInit => OInv
  BY InitIInv, ZmallocAssumption
     DEF ClientInit, OInv, ClientTypes, PointersOwnBlocks, InUse, Init, Allocated

\* Whatever sequence of zmalloc, zremalloc, zfree and safe_zfree the caller
\* makes, with the pointers it may still use, each of them is NULL or owns one
\* allocated block, and no block is left without an owner.
THEOREM OwnersOfBlocks == ClientSpec => []PointersOwnBlocks
<1>1. OInv => PointersOwnBlocks
  BY DEF OInv
<1>2. QED
  BY InitOInv, NextOInv, <1>1, PTL DEF ClientSpec

\* A caller that keeps to its pointers only ever makes the allocator's steps:
\* what is proved of Spec, TypeOK, HeaderTellsTheTruth and Accounting, holds
\* of its runs.
THEOREM ClientImplements == ClientSpec => Spec
<1>1. ClientInit => Init
  BY DEF ClientInit
<1>2. OInv /\ [ClientNext]_clientVars => [Next]_vars
  BY ClientStep DEF OInv
<1>3. QED
  BY InitOInv, NextOInv, <1>1, <1>2, PTL DEF ClientSpec, Spec
=============================================================================

----------------------------- MODULE Inductions -----------------------------
(***************************************************************************)
(* Induction, and what it gives, for the proofs of the other modules: sums *)
(* over finite sets, finite sets listed in the order of a number for each  *)
(* element, and remainders.  The library states induction with an operator *)
(* for the formula; here the formula is a set of its instances, and a      *)
(* claim is proved by looking at a smallest counterexample.                *)
(***************************************************************************)
EXTENDS Integers, FiniteSetsExt, FiniteSetTheorems, WellFoundedInduction, TLAPS

\* A non-empty set of natural numbers has a least element.
LEMMA LeastNatural ==
  ASSUME NEW T, T \subseteq Nat, T # {}
  PROVE  \E m \in T : \A k \in T : m <= k
<1>1. PICK R : R = OpToRel(<, Nat)
  OBVIOUS
<1>2. IsWellFoundedOn(R, Nat)
  BY <1>1, NatLessThanWellFounded, Zenon
<1>3. PICK m \in T : \A k \in T : ~ (<<k, m>> \in R)
  BY <1>2, WFMin
<1>4. \A k, n \in Nat : k < n => <<k, n>> \in OpToRel(<, Nat)
  BY Zenon DEF OpToRel
<1>5. \A k, n \in Nat : k < n => <<k, n>> \in R
  BY <1>1, <1>4, Zenon
<1>6. ASSUME NEW k \in T PROVE ~ (k < m)
  BY <1>3, <1>5, Zenon
<1>7. QED
  BY <1>6

\* Induction on a set of natural numbers.
LEMMA NatSetInduction ==
  ASSUME NEW S, 0 \in S, \A n \in Nat : n \in S => n + 1 \in S
  PROVE  Nat \subseteq S
<1>1. SUFFICES ASSUME Nat \ S # {} PROVE FALSE
  OBVIOUS
<1>2. PICK m \in Nat \ S : \A k \in Nat \ S : m <= k
  BY <1>1, LeastNatural
<1>3. m # 0 /\ m - 1 \in Nat
  BY <1>2
<1>4. m - 1 \in S
  BY <1>2, <1>3
<1>5. QED
  BY <1>2, <1>3, <1>4

\* A non-empty collection of finite sets has a member of least cardinality:
\* the form in which facts about all finite sets are proved, by looking at a
\* smallest counterexample.
LEMMA SmallestSet ==
  ASSUME NEW B, B # {}, \A T \in B : IsFiniteSet(T)
  PROVE  \E T \in B : \A U \in B : Cardinality(T) <= Cardinality(U)
<1> DEFINE Cards == {Cardinality(T) : T \in B}
<1>1. Cards \subseteq Nat /\ Cards # {}
  BY FS_CardinalityType
<1>2. PICK m \in Cards : \A k \in Cards : m <= k
  BY <1>1, LeastNatural
<1>3. PICK T \in B : m = Cardinality(T)
  OBVIOUS
<1>4. \A U \in B : Cardinality(T) <= Cardinality(U)
  BY <1>2, <1>3
<1>5. QED
  BY <1>4

-----------------------------------------------------------------------------
(* Iteration.                                                              *)

\* f begins with a and goes on by G, up to M.
Iterates(f, a, G, M) == f = [n \in 1 .. M |-> IF n = 1 THEN a ELSE G[f[n - 1]]]

\* Such an f exists.
LEMMA IterateExists ==
  ASSUME NEW a, NEW G, NEW M \in Nat
  PROVE  \E f : Iterates(f, a, G, M)
<1> DEFINE N == {m \in Nat : \E f : Iterates(f, a, G, m)}
<1>1. 0 \in N
  <2>1. Iterates([n \in 1 .. 0 |-> a], a, G, 0)
    BY DEF Iterates
  <2>2. QED
    BY <2>1
<1>2. ASSUME NEW m \in Nat, m \in N PROVE m + 1 \in N
  <2>1. PICK f : Iterates(f, a, G, m)
    BY <1>2
  <2> DEFINE h == [n \in 1 .. m + 1 |-> IF n = 1 THEN a ELSE G[f[n - 1]]]
  <2>2. \A n \in 1 .. m : f[n] = IF n = 1 THEN a ELSE G[f[n - 1]]
    BY <2>1 DEF Iterates
  <2>3. \A n \in 1 .. m : h[n] = f[n]
    BY <2>2
  <2>4. \A n \in 1 .. m + 1 : h[n] = IF n = 1 THEN a ELSE G[h[n - 1]]
    <3>1. ASSUME NEW n \in 1 .. m + 1, n # 1 PROVE h[n] = G[h[n - 1]]
      <4>1. n - 1 \in 1 .. m
        BY <3>1
      <4>2. h[n - 1] = f[n - 1]
        BY <2>3, <4>1
      <4>3. h[n] = G[f[n - 1]]
        BY <3>1
      <4>4. QED
        BY <4>2, <4>3
    <3>2. h[1] = a
      OBVIOUS
    <3>3. QED
      BY <3>1, <3>2
  <2>5. Iterates(h, a, G, m + 1)
    BY <2>4 DEF Iterates
  <2>6. \E k : Iterates(k, a, G, m + 1)
    <3> HIDE DEF h
    <3>1. QED
      BY <2>5, Zenon
  <2>7. QED
    BY <2>6
<1>3. Nat \subseteq N
  <2> HIDE DEF N
  <2>1. QED
    BY <1>1, <1>2, NatSetInduction
<1>4. QED
  BY <1>3

\* No more different elements of a finite set can be numbered than it has.
LEMMA NumberedElements ==
  ASSUME NEW S, IsFiniteSet(S), NEW k \in Nat, NEW f \in [1 .. k -> S],
         \A i, j \in 1 .. k : f[i] = f[j] => i = j
  PROVE  k <= Cardinality(S)
<1>1. f \in Injection(1 .. k, S)
  BY DEF Injection, IsInjective
<1>2. Cardinality(1 .. k) <= Cardinality(S)
  BY <1>1, FS_Injection
<1>3. Cardinality(1 .. k) = k
  BY FS_Interval
<1>4. QED
  BY <1>2, <1>3

-----------------------------------------------------------------------------
(* MapThenSumSet, the sum over a finite set, of FiniteSetsExt.             *)

SumOver(f, S) == MapThenSumSet(LAMBDA a : f[a], S)

\* The element the fold takes out first.
Chosen(s) == CHOOSE x \in s : TRUE

\* g sums f over every member of D.
Sums(g, f, D) ==
  g = [s \in D |-> IF s = {} THEN 0 ELSE f[Chosen(s)] + g[s \ {Chosen(s)}]]

\* The element taken out is one of the set.
LEMMA ChosenIn == ASSUME NEW s, s # {} PROVE Chosen(s) \in s
  BY DEF Chosen

\* The sum is the value of a recursive function, if there is one.
LEMMA SumOverUnfold ==
  ASSUME NEW f, NEW S
  PROVE  SumOver(f, S) = (CHOOSE g : Sums(g, f, SUBSET S))[S]
  BY Zenon DEF SumOver, MapThenSumSet, MapThenFoldSet, Sums, Chosen

\* The recursive function the fold is defined by exists.
LEMMA SumsExist ==
  ASSUME NEW f, NEW S, IsFiniteSet(S)
  PROVE  \E g : Sums(g, f, SUBSET S)
<1> DEFINE D(n) == {s \in SUBSET S : Cardinality(s) <= n}
           N == {n \in Nat : \E g : Sums(g, f, D(n))}
<1>1. 0 \in N
  <2>1. \A s \in D(0) : s = {}
    BY FS_Subset, FS_CardinalityType, FS_EmptySet
  <2>2. Sums([s \in D(0) |-> 0], f, D(0))
    BY <2>1 DEF Sums
  <2>3. QED
    BY <2>2
<1>2. ASSUME NEW n \in Nat, n \in N PROVE n + 1 \in N
  <2>1. PICK g : Sums(g, f, D(n))
    BY <1>2
  <2>2. \A s \in D(n) : g[s] = IF s = {} THEN 0 ELSE f[Chosen(s)] + g[s \ {Chosen(s)}]
    BY <2>1, Zenon DEF Sums
  <2> DEFINE h == [s \in D(n + 1) |->
                     IF s = {} THEN 0 ELSE f[Chosen(s)] + g[s \ {Chosen(s)}]]
  <2>3. ASSUME NEW s \in D(n + 1), s # {} PROVE s \ {Chosen(s)} \in D(n)
    <3>1. IsFiniteSet(s)
      BY FS_Subset
    <3>2. Cardinality(s \ {Chosen(s)}) = Cardinality(s) - 1 /\ Cardinality(s) \in Nat
      BY <3>1, <2>3, ChosenIn, FS_RemoveElement, FS_CardinalityType
    <3>3. QED
      BY <3>2
  <2>4. D(n) \subseteq D(n + 1)
    BY FS_Subset, FS_CardinalityType
  <2>5. ASSUME NEW s \in D(n) PROVE h[s] = g[s]
    BY <2>2, <2>4, <2>5
  <2>6. Sums(h, f, D(n + 1))
    <3>1. ASSUME NEW s \in D(n + 1), s # {}
          PROVE  h[s] = f[Chosen(s)] + h[s \ {Chosen(s)}]
      <4>1. h[s \ {Chosen(s)}] = g[s \ {Chosen(s)}]
        BY <3>1, <2>3, <2>5
      <4>2. h[s] = f[Chosen(s)] + g[s \ {Chosen(s)}]
        BY <3>1
      <4>3. QED
        BY <4>1, <4>2
    <3>2. ASSUME NEW s \in D(n + 1), s = {} PROVE h[s] = 0
      BY <3>2
    <3>3. QED
      BY <3>1, <3>2 DEF Sums
  <2>7. \E k : Sums(k, f, D(n + 1))
    <3> HIDE DEF h, D
    <3>1. QED
      BY <2>6, Zenon
  <2>8. QED
    <3> HIDE DEF h, D
    <3>1. QED
      BY <2>7
<1>3. Cardinality(S) \in N
  <2>1. Nat \subseteq N
    <3> HIDE DEF N
    <3>1. QED
      BY <1>1, <1>2, NatSetInduction
  <2>2. QED
    BY <2>1, FS_CardinalityType
<1>4. D(Cardinality(S)) = SUBSET S
  BY FS_Subset
<1>5. QED
  BY <1>3, <1>4

\* The sum is the value at S of such a function.
LEMMA SumOverSatisfies ==
  ASSUME NEW f, NEW S, IsFiniteSet(S)
  PROVE  \E g : Sums(g, f, SUBSET S) /\ SumOver(f, S) = g[S]
<1>1. \E g : Sums(g, f, SUBSET S)
  BY SumsExist
<1>2. Sums(CHOOSE g : Sums(g, f, SUBSET S), f, SUBSET S)
  BY <1>1, Zenon
<1>3. QED
  BY <1>2, SumOverUnfold, Zenon

\* Two such functions agree wherever both are defined.
LEMMA SumsAgree ==
  ASSUME NEW f, NEW S, IsFiniteSet(S), NEW T \in SUBSET S, NEW g, NEW h,
         Sums(g, f, SUBSET S), Sums(h, f, SUBSET T)
  PROVE  g[T] = h[T]
<1> DEFINE Bad == {t \in SUBSET T : g[t] # h[t]}
<1>1. SUFFICES ASSUME Bad # {} PROVE FALSE
  OBVIOUS
<1>2. \A t \in SUBSET T : IsFiniteSet(t)
  BY FS_Subset
<1>3. PICK t \in Bad : \A u \in Bad : Cardinality(t) <= Cardinality(u)
  BY <1>1, <1>2, SmallestSet
<1>4. \A s \in SUBSET S : g[s] = IF s = {} THEN 0 ELSE f[Chosen(s)] + g[s \ {Chosen(s)}]
  BY Zenon DEF Sums
<1>5. \A s \in SUBSET T : h[s] = IF s = {} THEN 0 ELSE f[Chosen(s)] + h[s \ {Chosen(s)}]
  BY Zenon DEF Sums
<1>6. t # {}
  BY <1>3, <1>4, <1>5
<1>7. PICK u : u = t \ {Chosen(t)}
  OBVIOUS
<1>8. u \in SUBSET T /\ Cardinality(u) = Cardinality(t) - 1 /\ Cardinality(t) \in Nat
  BY <1>2, <1>6, <1>7, ChosenIn, FS_RemoveElement, FS_CardinalityType
<1>9. g[u] = h[u]
  BY <1>3, <1>8
<1>10. QED
  BY <1>3, <1>4, <1>5, <1>6, <1>7, <1>9

\* The sum over the empty set.
LEMMA SumOverEmpty ==
  ASSUME NEW f
  PROVE  SumOver(f, {}) = 0
<1>1. PICK g : Sums(g, f, SUBSET {}) /\ SumOver(f, {}) = g[{}]
  BY SumOverSatisfies, FS_EmptySet
<1>2. QED
  BY <1>1 DEF Sums

\* The recursion of the fold.
LEMMA SumOverStep ==
  ASSUME NEW f, NEW S, IsFiniteSet(S), S # {}
  PROVE  SumOver(f, S) = f[Chosen(S)] + SumOver(f, S \ {Chosen(S)})
<1>1. PICK g : Sums(g, f, SUBSET S) /\ SumOver(f, S) = g[S]
  BY SumOverSatisfies
<1>2. PICK T : T = S \ {Chosen(S)}
  OBVIOUS
<1>3. IsFiniteSet(T) /\ T \in SUBSET S
  BY <1>2, FS_Subset
<1>4. PICK h : Sums(h, f, SUBSET T) /\ SumOver(f, T) = h[T]
  BY <1>3, SumOverSatisfies
<1>5. g[T] = h[T]
  <2>1. Sums(g, f, SUBSET S)
    BY <1>1
  <2>2. Sums(h, f, SUBSET T)
    BY <1>4
  <2>3. QED
    <3>1. IsFiniteSet(S) /\ T \in SUBSET S
      BY <1>3
    <3>2. QED
      BY <2>1, <2>2, <3>1, SumsAgree
<1>6. g[S] = f[Chosen(S)] + g[T]
  BY <1>1, <1>2 DEF Sums
<1>7. QED
  BY <1>1, <1>2, <1>4, <1>5, <1>6

\* A sum of natural numbers is one.
LEMMA SumOverType ==
  ASSUME NEW f, NEW S, IsFiniteSet(S), \A x \in S : f[x] \in Nat
  PROVE  SumOver(f, S) \in Nat
<1> DEFINE Bad == {s \in SUBSET S : SumOver(f, s) \notin Nat}
<1>1. SUFFICES ASSUME Bad # {} PROVE FALSE
  OBVIOUS
<1>2. \A t \in SUBSET S : IsFiniteSet(t)
  BY FS_Subset
<1>3. PICK t \in Bad : \A u \in Bad : Cardinality(t) <= Cardinality(u)
  BY <1>1, <1>2, SmallestSet
<1>6. t # {}
  BY <1>3, SumOverEmpty
<1>7. PICK u : u = t \ {Chosen(t)}
  OBVIOUS
<1>8. u \in SUBSET S /\ Cardinality(u) = Cardinality(t) - 1 /\ Cardinality(t) \in Nat
  BY <1>2, <1>6, <1>7, ChosenIn, FS_RemoveElement, FS_CardinalityType
<1>9. SumOver(f, u) \in Nat
  BY <1>3, <1>8
<1>10. SumOver(f, t) = f[Chosen(t)] + SumOver(f, u)
  BY <1>2, <1>6, <1>7, SumOverStep
<1>11. f[Chosen(t)] \in Nat
  BY <1>6, ChosenIn
<1>12. QED
  BY <1>9, <1>10, <1>11

\* Any element may be taken out first: the sum does not depend on the order.
LEMMA SumOverRemove ==
  ASSUME NEW f, NEW S, IsFiniteSet(S), \A x \in S : f[x] \in Nat, NEW e \in S
  PROVE  SumOver(f, S) = f[e] + SumOver(f, S \ {e})
<1> DEFINE Bad == {s \in SUBSET S : \E x \in s : SumOver(f, s) # f[x] + SumOver(f, s \ {x})}
<1>1. SUFFICES ASSUME Bad # {} PROVE FALSE
  OBVIOUS
<1>2. \A t \in SUBSET S : IsFiniteSet(t)
  BY FS_Subset
<1>3. PICK t \in Bad : \A u \in Bad : Cardinality(t) <= Cardinality(u)
  BY <1>1, <1>2, SmallestSet
<1>4. PICK x \in t : SumOver(f, t) # f[x] + SumOver(f, t \ {x})
  BY <1>3
<1>5. PICK y : y = Chosen(t) /\ y \in t
  BY <1>4, ChosenIn
<1>6. SumOver(f, t) = f[y] + SumOver(f, t \ {y})
  BY <1>2, <1>4, <1>5, SumOverStep
<1>7. x # y
  BY <1>4, <1>6
<1>8. \A z \in t : Cardinality(t \ {z}) = Cardinality(t) - 1
  BY <1>2, FS_RemoveElement
<1>9. Cardinality(t) \in Nat
  BY <1>2, FS_CardinalityType
<1>10. t \ {x} \notin Bad /\ t \ {y} \notin Bad
  <2> HIDE DEF Bad
  <2>1. ASSUME NEW z \in t, t \ {z} \in Bad PROVE FALSE
    BY <1>3, <1>8, <1>9, <2>1
  <2>2. QED
    BY <1>5, <2>1
<1>11. SumOver(f, t \ {x}) = f[y] + SumOver(f, (t \ {x}) \ {y})
  BY <1>5, <1>7, <1>10
<1>12. SumOver(f, t \ {y}) = f[x] + SumOver(f, (t \ {y}) \ {x})
  BY <1>4, <1>7, <1>10
<1>13. (t \ {x}) \ {y} = (t \ {y}) \ {x}
  OBVIOUS
<1>14. PICK r : r = SumOver(f, (t \ {x}) \ {y}) /\ r \in Nat
  BY <1>2, SumOverType
<1>15. f[x] \in Nat /\ f[y] \in Nat
  BY <1>4, <1>5
<1>16. SumOver(f, t) = f[x] + SumOver(f, t \ {x})
  <2>1. SumOver(f, t \ {y}) = f[x] + r
    BY <1>12, <1>13, <1>14, Zenon
  <2>2. SumOver(f, t \ {x}) = f[y] + r
    BY <1>11, <1>14, Zenon
  <2>3. SumOver(f, t) = f[y] + (f[x] + r)
    BY <1>6, <2>1, Zenon
  <2>4. f[y] + (f[x] + r) = f[x] + (f[y] + r)
    BY <1>14, <1>15
  <2>5. QED
    BY <2>2, <2>3, <2>4, Zenon
<1>17. QED
  BY <1>4, <1>16

\* Only the values of the function on the set matter.
LEMMA SumOverSame ==
  ASSUME NEW f, NEW g, NEW S, IsFiniteSet(S), \A x \in S : f[x] = g[x]
  PROVE  SumOver(f, S) = SumOver(g, S)
<1> DEFINE Bad == {s \in SUBSET S : SumOver(f, s) # SumOver(g, s)}
<1>1. SUFFICES ASSUME Bad # {} PROVE FALSE
  OBVIOUS
<1>2. \A t \in SUBSET S : IsFiniteSet(t)
  BY FS_Subset
<1>3. PICK t \in Bad : \A u \in Bad : Cardinality(t) <= Cardinality(u)
  BY <1>1, <1>2, SmallestSet
<1>6. t # {}
  BY <1>3, SumOverEmpty
<1>7. PICK u : u = t \ {Chosen(t)}
  OBVIOUS
<1>8. u \in SUBSET S /\ Cardinality(u) = Cardinality(t) - 1 /\ Cardinality(t) \in Nat
  BY <1>2, <1>6, <1>7, ChosenIn, FS_RemoveElement, FS_CardinalityType
<1>9. SumOver(f, u) = SumOver(g, u)
  BY <1>3, <1>8
<1>10. SumOver(f, t) = f[Chosen(t)] + SumOver(f, u)
  BY <1>2, <1>6, <1>7, SumOverStep
<1>11. SumOver(g, t) = g[Chosen(t)] + SumOver(g, u)
  BY <1>2, <1>6, <1>7, SumOverStep
<1>12. f[Chosen(t)] = g[Chosen(t)]
  BY <1>6, ChosenIn
<1>13. QED
  BY <1>3, <1>9, <1>10, <1>11, <1>12

-----------------------------------------------------------------------------
(* Arithmetic modulo M.                                                   *)

\* Multiples of M do not change a remainder.
LEMMA ModOfMultiple ==
  ASSUME NEW M \in Nat \ {0}, NEW r \in Int, NEW q \in Int
  PROVE  (r + M * q) % M = r % M
<1>1. r = M * (r \div M) + (r % M) /\ r \div M \in Int /\ r % M \in 0 .. M - 1
  OBVIOUS
<1>2. r + M * q = (r % M) + M * (q + (r \div M))
  BY <1>1
<1>3. PICK x \in 0 .. M - 1, e \in Int : x = r % M /\ e = q + (r \div M)
  BY <1>1
<1>4. (x + M * e) % M = x
  OBVIOUS
<1>5. QED
  BY <1>2, <1>3, <1>4

\* A remainder may be taken before an addition.
LEMMA ModAdd ==
  ASSUME NEW M \in Nat \ {0}, NEW s \in Int, NEW k \in Int
  PROVE ((s % M) + k) % M = (s + k) % M
<1>1. s = M * (s \div M) + (s % M) /\ s \div M \in Int /\ s % M \in Int
  OBVIOUS
<1>2. PICK x \in Int, d \in Int : x = s % M /\ d = s \div M
  BY <1>1
<1>3. s + k = (x + k) + M * d
  BY <1>1, <1>2
<1>4. ((x + k) + M * d) % M = (x + k) % M
  <2>1. PICK y \in Int : y = x + k
    OBVIOUS
  <2>2. (y + M * d) % M = y % M
    BY ModOfMultiple
  <2>3. QED
    BY <2>1, <2>2
<1>5. QED
  BY <1>2, <1>3, <1>4
-----------------------------------------------------------------------------
(* Finite sets in the order of a number for each element.                  *)

\* A non-empty finite set has an element with the greatest number.
LEMMA GreatestNumber ==
  ASSUME NEW S, IsFiniteSet(S), S # {}, NEW at, \A x \in S : at[x] \in Int
  PROVE  \E x \in S : \A y \in S : at[y] <= at[x]
<1> DEFINE Bad == {T \in SUBSET S : T # {} /\ ~\E x \in T : \A y \in T : at[y] <= at[x]}
<1>1. SUFFICES ASSUME Bad # {} PROVE FALSE
  OBVIOUS
<1>2. \A T \in SUBSET S : IsFiniteSet(T)
  BY FS_Subset
<1>3. PICK T \in Bad : \A U \in Bad : Cardinality(T) <= Cardinality(U)
  BY <1>1, <1>2, SmallestSet
<1>4. PICK x \in T : TRUE
  OBVIOUS
<1>5. PICK U : U = T \ {x}
  OBVIOUS
<1>6. U \in SUBSET S /\ Cardinality(U) = Cardinality(T) - 1 /\ Cardinality(T) \in Nat
  BY <1>2, <1>4, <1>5, FS_RemoveElement, FS_CardinalityType
<1>7. U # {}
  <2>1. U = {} => \A y \in T : at[y] <= at[x]
    BY <1>4, <1>5
  <2>2. QED
    BY <1>3, <1>4, <2>1
<1>8. U \notin Bad
  BY <1>3, <1>6
<1>9. PICK z \in U : \A y \in U : at[y] <= at[z]
  BY <1>6, <1>7, <1>8
<1>10. CASE at[x] <= at[z]
  BY <1>3, <1>5, <1>9, <1>10
<1>11. CASE ~(at[x] <= at[z])
  <2>1. \A y \in T : at[y] \in Int
    BY <1>3
  <2>2. \A y \in T : at[y] <= at[x]
    BY <1>4, <1>5, <1>9, <1>11, <2>1
  <2>3. QED
    BY <1>3, <1>4, <2>2
<1>12. QED
  BY <1>10, <1>11

\* f lists S by rising numbers.
Lists(f, S, at) ==
  /\ f \in [1 .. Cardinality(S) -> S]
  /\ \A j, k \in 1 .. Cardinality(S) : j < k => at[f[j]] < at[f[k]]

LEMMA ListExists ==
  ASSUME NEW S, IsFiniteSet(S), NEW at, \A x \in S : at[x] \in Int,
         \A x, y \in S : at[x] = at[y] => x = y
  PROVE  \E f : Lists(f, S, at)
<1> DEFINE Bad == {T \in SUBSET S : ~\E f : Lists(f, T, at)}
<1>1. SUFFICES ASSUME Bad # {} PROVE FALSE
  OBVIOUS
<1>2. \A T \in SUBSET S : IsFiniteSet(T)
  BY FS_Subset
<1>3. PICK T \in Bad : \A U \in Bad : Cardinality(T) <= Cardinality(U)
  BY <1>1, <1>2, SmallestSet
<1>4. T # {}
  <2>1. Cardinality({}) = 0
    BY FS_EmptySet
  <2>2. Lists([k \in 1 .. 0 |-> 0], {}, at)
    BY <2>1 DEF Lists
  <2>3. {} \notin Bad
    BY <2>2
  <2>4. QED
    BY <1>3, <2>3
<1>5. PICK x \in T : \A y \in T : at[y] <= at[x]
  <2>1. IsFiniteSet(T) /\ \A y \in T : at[y] \in Int
    BY <1>2, <1>3
  <2>2. QED
    BY <1>4, <2>1, GreatestNumber
<1>6. PICK U : U = T \ {x}
  OBVIOUS
<1>7. PICK N \in Nat : N = Cardinality(U) /\ Cardinality(T) = N + 1
  <2>1. IsFiniteSet(T)
    BY <1>2, <1>3
  <2>2. Cardinality(U) = Cardinality(T) - 1
    BY <1>5, <1>6, <2>1, FS_RemoveElement
  <2>3. Cardinality(U) \in Nat /\ Cardinality(T) \in Nat
    BY <1>2, <1>3, <1>6, FS_CardinalityType
  <2>4. QED
    BY <2>2, <2>3
<1>8. PICK f : Lists(f, U, at)
  <2>1. U \in SUBSET S
    BY <1>3, <1>6
  <2>2. U \notin Bad
    <3> HIDE DEF Bad
    <3>1. QED
      BY <1>3, <1>7
  <2>3. QED
    BY <2>1, <2>2
<1>9. f \in [1 .. N -> U] /\ \A j, k \in 1 .. N : j < k => at[f[j]] < at[f[k]]
  BY <1>7, <1>8 DEF Lists
<1>10. \A y \in U : y \in T /\ at[y] < at[x]
  <2>1. ASSUME NEW y \in U PROVE y \in T /\ at[y] < at[x]
    <3>1. y \in T /\ y # x /\ y \in S /\ x \in S
      BY <1>3, <1>5, <1>6
    <3>2. at[y] <= at[x] /\ at[y] # at[x] /\ at[y] \in Int /\ at[x] \in Int
      BY <1>5, <3>1
    <3>3. QED
      BY <3>1, <3>2
  <2>2. QED
    BY <2>1
<1> DEFINE g == [k \in 1 .. N + 1 |-> IF k = N + 1 THEN x ELSE f[k]]
<1>11. g \in [1 .. N + 1 -> T]
  BY <1>5, <1>9, <1>10
<1>12. ASSUME NEW j \in 1 .. N + 1, NEW k \in 1 .. N + 1, j < k PROVE at[g[j]] < at[g[k]]
  <2>1. j \in 1 .. N /\ g[j] = f[j]
    BY <1>12
  <2>2. CASE k = N + 1
    BY <1>9, <1>10, <2>1, <2>2
  <2>3. CASE k # N + 1
    BY <1>9, <1>12, <2>1, <2>3
  <2>4. QED
    BY <2>2, <2>3
<1>13. Lists(g, T, at)
  <2> HIDE DEF g
  <2>1. QED
    BY <1>7, <1>11, <1>12 DEF Lists
<1>14. \E h : Lists(h, T, at)
  <2> HIDE DEF g
  <2>1. QED
    BY <1>13, Zenon
<1>15. QED
  BY <1>3, <1>14

\* No element occurs twice, and each one occurs.
LEMMA ListIsOnto ==
  ASSUME NEW S, IsFiniteSet(S), NEW at, \A x \in S : at[x] \in Int, NEW f, Lists(f, S, at)
  PROVE  /\ \A j, k \in 1 .. Cardinality(S) : f[j] = f[k] => j = k
         /\ \A x \in S : \E k \in 1 .. Cardinality(S) : f[k] = x
<1>1. PICK N \in Nat : N = Cardinality(S)
  BY FS_CardinalityType
<1>2. f \in [1 .. N -> S] /\ \A j, k \in 1 .. N : j < k => at[f[j]] < at[f[k]]
  BY <1>1 DEF Lists
<1>3. ASSUME NEW j \in 1 .. N, NEW k \in 1 .. N, f[j] = f[k] PROVE j = k
  <2>1. f[j] \in S /\ at[f[j]] \in Int
    BY <1>2
  <2>2. ~(j < k) /\ ~(k < j)
    BY <1>2, <1>3, <2>1
  <2>3. QED
    BY <2>2
<1>4. ASSUME NEW x \in S, \A k \in 1 .. N : f[k] # x PROVE FALSE
  <2>1. PICK T : T = S \ {x}
    OBVIOUS
  <2>2. IsFiniteSet(T) /\ Cardinality(T) = N - 1
    BY <1>1, <2>1, FS_RemoveElement, FS_Subset
  <2>3. f \in [1 .. N -> T]
    BY <1>2, <1>4, <2>1
  <2>4. N <= Cardinality(T)
    BY <1>3, <2>2, <2>3, NumberedElements
  <2>5. QED
    BY <2>2, <2>4
<1>5. QED
  BY <1>1, <1>3, <1>4

\* Only one function does so.
LEMMA ListIsUnique ==
  ASSUME NEW S, IsFiniteSet(S), NEW at, \A x \in S : at[x] \in Int,
         NEW f, Lists(f, S, at), NEW g, Lists(g, S, at)
  PROVE  f = g
<1>1. PICK N \in Nat : N = Cardinality(S)
  BY FS_CardinalityType
<1>2. /\ f \in [1 .. N -> S] /\ \A j, k \in 1 .. N : j < k => at[f[j]] < at[f[k]]
      /\ g \in [1 .. N -> S] /\ \A j, k \in 1 .. N : j < k => at[g[j]] < at[g[k]]
  BY <1>1 DEF Lists
<1> DEFINE Bad == {k \in 1 .. N : f[k] # g[k]}
<1>3. CASE Bad = {}
  BY <1>2, <1>3
<1>4. CASE Bad # {}
  <2>1. PICK k \in Bad : \A m \in Bad : k <= m
    <3>1. Bad \subseteq Nat
      OBVIOUS
    <3> HIDE DEF Bad
    <3>2. QED
      BY <1>4, <3>1, LeastNatural
  <2>2. \A m \in 1 .. N : m < k => f[m] = g[m]
    BY <2>1
  <2>3. /\ \A x \in S : \E m \in 1 .. N : f[m] = x
        /\ \A x \in S : \E m \in 1 .. N : g[m] = x
    BY <1>1, ListIsOnto
  <2>4. k \in 1 .. N /\ f[k] \in S /\ g[k] \in S /\ f[k] # g[k]
    BY <1>2, <2>1
  <2>5. PICK m \in 1 .. N : f[m] = g[k]
    BY <2>3, <2>4
  <2>6. PICK n \in 1 .. N : g[n] = f[k]
    BY <2>3, <2>4
  <2>7. at[f[k]] \in Int /\ at[g[k]] \in Int
    BY <2>4
  <2>8. ~(m < k)
    BY <1>2, <2>2, <2>4, <2>5, <2>7
  <2>9. ~(n < k)
    BY <1>2, <2>2, <2>4, <2>6, <2>7
  <2>10. k < m /\ k < n
    BY <2>4, <2>5, <2>6, <2>8, <2>9
  <2>11. at[f[k]] < at[g[k]] /\ at[g[k]] < at[f[k]]
    BY <1>2, <2>4, <2>5, <2>6, <2>10
  <2>12. QED
    BY <2>7, <2>11
<1>5. QED
  BY <1>3, <1>4

-----------------------------------------------------------------------------
(* Loops over a sequence.                                                 *)

\* The greatest of some numbers up to n.
LEMMA MaxOf ==
  ASSUME NEW n \in Nat, NEW S \in SUBSET (1 .. n)
  PROVE  /\ S # {} => Max(S) \in S /\ \A i \in S : i <= Max(S)
         /\ n \in S => Max(S) = n
<1>1. ASSUME S # {} PROVE \E x \in S : \A y \in S : x >= y
  <2> DEFINE T == {n - i : i \in S}
  <2>1. T \subseteq Nat /\ T # {}
    <3>1. \A i \in S : n - i \in Nat
      OBVIOUS
    <3>2. QED
      BY <1>1, <3>1
  <2>2. PICK k \in T : \A j \in T : k <= j
    BY <2>1, LeastNatural
  <2>3. PICK i \in S : k = n - i
    BY <2>2
  <2>4. \A j \in S : n - i <= n - j
    BY <2>2, <2>3
  <2>5. QED
    BY <2>4
<1>2. ASSUME S # {} PROVE Max(S) \in S /\ \A i \in S : Max(S) >= i
  BY <1>1, <1>2 DEF Max
<1>3. ASSUME n \in S PROVE Max(S) = n
  <2>1. Max(S) \in S /\ Max(S) >= n
    BY <1>2, <1>3
  <2>2. \A i \in S : i \in Int /\ i <= n
    OBVIOUS
  <2>3. \A x \in Int : x >= n /\ x <= n => x = n
    OBVIOUS
  <2>4. QED
    BY <2>1, <2>2, <2>3
<1>4. QED
  <2>1. ASSUME S # {} PROVE Max(S) \in S /\ \A i \in S : i <= Max(S)
    <3>1. Max(S) \in S /\ \A i \in S : Max(S) >= i
      BY <1>2, <2>1
    <3>2. \A i \in S : i \in Int
      OBVIOUS
    <3>3. QED
      BY <3>1, <3>2
  <2>2. QED
    BY <1>3, <2>1

\* What holds of the base and is kept by every step holds of the fold.  T is
\* the set of steps after which it holds.
LEMMA FoldKeeps ==
  ASSUME NEW n \in Nat, NEW T, 0 \in T, \A i \in 1 .. n : i - 1 \in T => i \in T
  PROVE  n \in T
<1> DEFINE N == {i \in Nat : i <= n => i \in T}
<1>1. 0 \in N
  OBVIOUS
<1>2. ASSUME NEW i \in Nat, i \in N PROVE i + 1 \in N
  <2>1. CASE i + 1 <= n
    <3>1. i + 1 \in 1 .. n /\ i + 1 - 1 = i /\ i \in T
      BY <1>2, <2>1
    <3>2. QED
      BY <3>1
  <2>2. QED
    BY <2>1
<1>3. Nat \subseteq N
  <2> HIDE DEF N
  <2>1. QED
    BY <1>1, <1>2, NatSetInduction
<1>4. QED
  BY <1>3
=============================================================================

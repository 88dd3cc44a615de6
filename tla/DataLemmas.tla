----------------------------- MODULE DataLemmas ------------------------------
(***************************************************************************)
(* Lemmas about the data the specifications compute with, for any finite    *)
(* sets: least and greatest members, and the sums that SumFunctionOnSet and *)
(* FoldFunction of the community module Functions compute.  The library's  *)
(* induction theorems take an operator, which the provers cannot           *)
(* instantiate; but a nonempty set of subsets of a finite set has a        *)
(* minimal member, and that is induction enough.                           *)
(***************************************************************************)
EXTENDS Naturals, FiniteSets, Functions, FiniteSetTheorems,
        WellFoundedInduction, TLAPS

Sum(f, S) == SumFunctionOnSet(f, S)

\* A nonempty set of subsets of a finite set has a member none of whose strict
\* subsets is in it.
LEMMA MinimalSubset ==
  ASSUME NEW S, IsFiniteSet(S), NEW T, T \subseteq SUBSET S, T # {}
  PROVE  \E t \in T : \A u \in SUBSET t : u # t => u \notin T
<1>1. IsWellFoundedOn(StrictSubsetOrdering(S), SUBSET S)
  BY FS_StrictSubsetOrderingWellFounded, FS_FiniteSubsetsOfFinite
<1>2. PICK t \in T : \A u \in T : ~(<<u, t>> \in StrictSubsetOrdering(S))
  BY <1>1, WFMin
<1>3. ASSUME NEW u \in SUBSET t, u # t, u \in T PROVE FALSE
  <2>1. u \in SUBSET S /\ t \in SUBSET S
    BY <1>3
  <2>2. <<u, t>> \in (SUBSET S) \X (SUBSET S)
    BY <2>1
  <2> QED
    BY <1>2, <1>3, <2>2 DEF StrictSubsetOrdering
<1> QED
  BY <1>3

\* A nonempty set of naturals has a least member.
LEMMA LeastNatural ==
  ASSUME NEW S, S \subseteq Nat, S # {}
  PROVE  \E i \in S : \A j \in S : i <= j
<1>1. PICK n \in S : TRUE
  OBVIOUS
<1> DEFINE T == {0..i : i \in {j \in S : j <= n}}
<1>2. IsFiniteSet(0..n)
  BY FS_Interval
<1>3. T \subseteq SUBSET (0..n) /\ T # {}
  <2>1. n \in Nat /\ \A i \in S : i \in Nat
    BY <1>1
  <2>2. 0..n \in T
    BY <1>1, <2>1
  <2> QED
    BY <2>1, <2>2
<1>4. PICK t \in T : \A u \in SUBSET t : u # t => u \notin T
  <2> HIDE DEF T
  <2> QED
    BY <1>2, <1>3, MinimalSubset
<1>5. PICK i \in S : i <= n /\ t = 0..i
  BY <1>4
<1>6. ASSUME NEW j \in S, j < i PROVE FALSE
  <2>1. i \in Nat /\ j \in Nat /\ n \in Nat
    BY <1>1, <1>5
  <2>2. j <= n /\ 0..j \in SUBSET t /\ i \in t /\ i \notin 0..j
    BY <1>5, <1>6, <2>1
  <2>3. 0..j \in T
    BY <2>2
  <2> QED
    BY <1>4, <2>2, <2>3
<1> QED
  BY <1>5, <1>6

\* A nonempty finite set of naturals has a greatest member.
LEMMA GreatestNatural ==
  ASSUME NEW S, IsFiniteSet(S), S \subseteq Nat, S # {}
  PROVE  \E i \in S : \A j \in S : j <= i
<1> DEFINE Bounded(s) == \E i \in s : \A j \in s : j <= i
           T == {s \in SUBSET S : s # {} /\ ~Bounded(s)}
<1> SUFFICES ASSUME T # {} PROVE FALSE
  <2>1. S \in SUBSET S
    OBVIOUS
  <2> QED
    BY <2>1
<1>1. PICK t \in T : \A u \in SUBSET t : u # t => u \notin T
  <2> HIDE DEF T
  <2>1. T \subseteq SUBSET S
    BY DEF T
  <2> QED
    BY <2>1, MinimalSubset
<1>2. PICK x \in t : TRUE
  BY <1>1
<1>3. t \in SUBSET S /\ x \in Nat /\ ~Bounded(t)
  BY <1>1, <1>2
<1>4. t \ {x} # {}
  <2>1. CASE t \ {x} = {}
    <3>1. \A j \in t : j = x
      BY <2>1
    <3> QED
      BY <1>2, <1>3, <3>1
  <2> QED
    BY <2>1
<1>5. Bounded(t \ {x})
  <2>1. t \ {x} \in SUBSET t /\ t \ {x} # t /\ t \ {x} \in SUBSET S
    BY <1>2, <1>3
  <2>2. t \ {x} \notin T
    BY <1>1, <2>1
  <2> HIDE DEF Bounded
  <2> QED
    BY <1>4, <2>1, <2>2
<1>6. PICK m \in t \ {x} : \A j \in t \ {x} : j <= m
  BY <1>5
<1>7. \A j \in t : j \in Nat /\ (j = x \/ j <= m)
  BY <1>3, <1>6
<1>8. CASE x <= m
  <2>1. \A j \in t : j <= m
    BY <1>7, <1>8
  <2> QED
    BY <1>3, <1>6, <2>1
<1>9. CASE m < x
  <2>1. \A j \in t : j <= x
    BY <1>3, <1>6, <1>7, <1>9
  <2> QED
    BY <1>2, <1>3, <2>1
<1>10. m \in Nat /\ x \in Nat
  BY <1>3, <1>6
<1> QED
  BY <1>8, <1>9, <1>10

-----------------------------------------------------------------------------
\* The recursive function that SumFunctionOnSet applies.
Pick(s) == CHOOSE x \in s : TRUE
IsIter(f, S, iter) ==
  iter = [s \in SUBSET S |-> IF s = {} THEN 0 ELSE f[Pick(s)] + iter[s \ {Pick(s)}]]
Iter(f, S) == CHOOSE iter : IsIter(f, S, iter)

LEMMA SumIsIter ==
  ASSUME NEW f, NEW S
  PROVE  Sum(f, S) = Iter(f, S)[S]
BY DEF Sum, SumFunctionOnSet, FoldFunctionOnSet, MapThenFoldSet, Iter, IsIter, Pick

LEMMA PickIn ==
  ASSUME NEW s, s # {}
  PROVE  Pick(s) \in s
BY DEF Pick

\* Two such functions agree where both are defined.
LEMMA IterUnique ==
  ASSUME NEW f, NEW S, IsFiniteSet(S), NEW U \in SUBSET S,
         NEW g, IsIter(f, S, g), NEW h, IsIter(f, U, h)
  PROVE  \A s \in SUBSET U : g[s] = h[s]
<1> DEFINE T == {s \in SUBSET U : g[s] # h[s]}
<1> SUFFICES ASSUME T # {} PROVE FALSE
  OBVIOUS
<1>1. IsFiniteSet(U)
  BY FS_Subset
<1>2. PICK t \in T : \A u \in SUBSET t : u # t => u \notin T
  <2> HIDE DEF T
  <2>1. T \subseteq SUBSET U
    BY DEF T
  <2> QED
    BY <1>1, <2>1, MinimalSubset
<1>3. t \in SUBSET U /\ t \in SUBSET S /\ g[t] # h[t]
  BY <1>2
<1>4. CASE t = {}
  BY <1>3, <1>4 DEF IsIter
<1>5. CASE t # {}
  <2>1. Pick(t) \in t
    BY <1>5, PickIn
  <2> DEFINE u == t \ {Pick(t)}
  <2>2. u \in SUBSET t /\ u # t /\ u \in SUBSET U /\ u \in SUBSET S
    BY <1>3, <2>1
  <2>3. g[u] = h[u]
    BY <1>2, <2>2
  <2>4. g[t] = f[Pick(t)] + g[u]
    BY <1>3, <1>5 DEF IsIter
  <2>5. h[t] = f[Pick(t)] + h[u]
    BY <1>3, <1>5 DEF IsIter
  <2> QED
    BY <1>3, <2>3, <2>4, <2>5
<1> QED
  BY <1>4, <1>5

LEMMA IterExists ==
  ASSUME NEW f, NEW S, IsFiniteSet(S)
  PROVE  \A U \in SUBSET S : IsIter(f, U, Iter(f, U))
<1> DEFINE T == {U \in SUBSET S : ~ \E g : IsIter(f, U, g)}
<1>1. T = {}
  <2> SUFFICES ASSUME T # {} PROVE FALSE
    OBVIOUS
  <2>1. PICK t \in T : \A u \in SUBSET t : u # t => u \notin T
    <3> HIDE DEF T
    <3>1. T \subseteq SUBSET S
      BY DEF T
    <3> QED
      BY <3>1, MinimalSubset
  <2>2. t \in SUBSET S /\ IsFiniteSet(t)
    BY <2>1, FS_Subset
  <2>3. \A u \in SUBSET t : u # t => IsIter(f, u, Iter(f, u))
    BY <2>1, <2>2 DEF Iter
  <2> DEFINE G == [s \in SUBSET t |->
                     IF s = {} THEN 0
                     ELSE f[Pick(s)] + Iter(f, s \ {Pick(s)})[s \ {Pick(s)}]]
  <2>4. ASSUME NEW u \in SUBSET t, u # t
        PROVE  G[u] = Iter(f, u)[u]
    <3>1. IsIter(f, u, Iter(f, u))
      BY <2>3, <2>4
    <3>2. CASE u = {}
      BY <3>1, <3>2 DEF IsIter
    <3>3. CASE u # {}
      <4> DEFINE v == u \ {Pick(u)}
      <4>1. Pick(u) \in u
        BY <3>3, PickIn
      <4>2. v \in SUBSET u /\ v \in SUBSET t /\ v # t
        BY <4>1, <2>4
      <4>3. IsIter(f, v, Iter(f, v))
        BY <2>3, <4>2
      <4>4. IsFiniteSet(u)
        BY <2>2, FS_Subset
      <4>5. Iter(f, u)[v] = Iter(f, v)[v]
        BY <3>1, <4>2, <4>3, <4>4, IterUnique
      <4>6. Iter(f, u)[u] = f[Pick(u)] + Iter(f, u)[v]
        <5> HIDE DEF G
        <5>1. u \in SUBSET u
          OBVIOUS
        <5> QED
          BY <3>1, <3>3, <5>1 DEF IsIter
      <4> QED
        BY <3>3, <4>5, <4>6
    <3> QED
      BY <3>2, <3>3
  <2>5. ASSUME NEW s \in SUBSET t, s # {}
        PROVE  G[s] = f[Pick(s)] + G[s \ {Pick(s)}]
    <3>1. Pick(s) \in s
      BY <2>5, PickIn
    <3>2. s \ {Pick(s)} \in SUBSET t /\ s \ {Pick(s)} # t
      BY <3>1
    <3>3. G[s \ {Pick(s)}] = Iter(f, s \ {Pick(s)})[s \ {Pick(s)}]
      BY <2>4, <3>2
    <3>4. G[s] = f[Pick(s)] + Iter(f, s \ {Pick(s)})[s \ {Pick(s)}]
      BY <2>5
    <3> QED
      BY <3>3, <3>4
  <2>6. G = [s \in SUBSET t |-> IF s = {} THEN 0 ELSE f[Pick(s)] + G[s \ {Pick(s)}]]
    <3>1. G[{}] = 0
      OBVIOUS
    <3>2. G = [s \in SUBSET t |-> G[s]]
      OBVIOUS
    <3> HIDE DEF G
    <3> QED
      BY <2>5, <3>1, <3>2
  <2>7. IsIter(f, t, G)
    <3> HIDE DEF G
    <3> QED
      BY <2>6 DEF IsIter
  <2> QED
    BY <2>1, <2>7
<1> QED
  BY <1>1 DEF Iter

-----------------------------------------------------------------------------
\* Nothing to sum; and the sum takes one element after another, in an order
\* that does not depend on the function.
LEMMA SumEmpty ==
  ASSUME NEW f
  PROVE  Sum(f, {}) = 0
<1>1. IsFiniteSet({})
  BY FS_EmptySet
<1>2. IsIter(f, {}, Iter(f, {}))
  BY <1>1, IterExists
<1> QED
  BY <1>2, SumIsIter DEF IsIter

LEMMA SumPick ==
  ASSUME NEW f, NEW S, IsFiniteSet(S), S # {}
  PROVE  /\ Pick(S) \in S
         /\ IsFiniteSet(S \ {Pick(S)})
         /\ Sum(f, S) = f[Pick(S)] + Sum(f, S \ {Pick(S)})
<1> DEFINE U == S \ {Pick(S)}
<1>1. Pick(S) \in S
  BY PickIn
<1>2. U \in SUBSET S /\ U \in SUBSET U /\ S \in SUBSET S /\ IsFiniteSet(U)
  BY FS_Subset
<1>3. IsIter(f, S, Iter(f, S)) /\ IsIter(f, U, Iter(f, U))
  BY <1>2, IterExists
<1>4. Iter(f, S)[U] = Iter(f, U)[U]
  <2> HIDE DEF U
  <2> QED
    BY <1>2, <1>3, IterUnique
<1>5. Iter(f, S)[S] = f[Pick(S)] + Iter(f, S)[U]
  BY <1>2, <1>3 DEF IsIter
<1> QED
  BY <1>1, <1>2, <1>4, <1>5, SumIsIter

LEMMA SumNat ==
  ASSUME NEW f, NEW S, IsFiniteSet(S), \A x \in S : f[x] \in Nat
  PROVE  Sum(f, S) \in Nat
<1> DEFINE T == {s \in SUBSET S : Sum(f, s) \notin Nat}
<1> SUFFICES ASSUME T # {} PROVE FALSE
  OBVIOUS
<1>1. PICK t \in T : \A u \in SUBSET t : u # t => u \notin T
  <2> HIDE DEF T
  <2>1. T \subseteq SUBSET S
    BY DEF T
  <2> QED
    BY <2>1, MinimalSubset
<1>2. t \in SUBSET S /\ IsFiniteSet(t) /\ Sum(f, t) \notin Nat
  BY <1>1, FS_Subset
<1>3. t # {}
  BY <1>2, SumEmpty
<1>4. /\ Pick(t) \in t
      /\ Sum(f, t) = f[Pick(t)] + Sum(f, t \ {Pick(t)})
  BY <1>2, <1>3, SumPick
<1>5. Sum(f, t \ {Pick(t)}) \in Nat
  BY <1>1, <1>2, <1>4
<1> QED
  BY <1>2, <1>4, <1>5

\* Any element may be taken first.
LEMMA SumTake ==
  ASSUME NEW f, NEW S, IsFiniteSet(S), \A x \in S : f[x] \in Nat, NEW a \in S
  PROVE  Sum(f, S) = f[a] + Sum(f, S \ {a})
<1> DEFINE T == {s \in SUBSET S : \E x \in s : Sum(f, s) # f[x] + Sum(f, s \ {x})}
<1> SUFFICES ASSUME T # {} PROVE FALSE
  OBVIOUS
<1>1. PICK t \in T : \A u \in SUBSET t : u # t => u \notin T
  <2> HIDE DEF T
  <2>1. T \subseteq SUBSET S
    BY DEF T
  <2> QED
    BY <2>1, MinimalSubset
<1>2. PICK x \in t : Sum(f, t) # f[x] + Sum(f, t \ {x})
  BY <1>1
<1>3. t \in SUBSET S /\ IsFiniteSet(t) /\ t # {}
  BY <1>1, <1>2, FS_Subset
<1> DEFINE p == Pick(t)
<1>4. p \in t /\ Sum(f, t) = f[p] + Sum(f, t \ {p})
  BY <1>3, SumPick
<1>5. p # x
  BY <1>2, <1>4
<1> DEFINE both == t \ {p, x}
<1>6. Sum(f, t \ {p}) = f[x] + Sum(f, both)
  <2>1. t \ {p} \in SUBSET S /\ t \ {p} \in SUBSET t /\ t \ {p} # t /\ x \in t \ {p}
    BY <1>3, <1>4, <1>5
  <2>2. Sum(f, t \ {p}) = f[x] + Sum(f, (t \ {p}) \ {x})
    BY <1>1, <2>1
  <2>3. (t \ {p}) \ {x} = both
    OBVIOUS
  <2> QED
    BY <2>2, <2>3
<1>7. Sum(f, t \ {x}) = f[p] + Sum(f, both)
  <2>1. t \ {x} \in SUBSET S /\ t \ {x} \in SUBSET t /\ t \ {x} # t /\ p \in t \ {x}
    BY <1>3, <1>4, <1>5
  <2>2. Sum(f, t \ {x}) = f[p] + Sum(f, (t \ {x}) \ {p})
    BY <1>1, <2>1
  <2>3. (t \ {x}) \ {p} = both
    OBVIOUS
  <2> QED
    BY <2>2, <2>3
<1>8. Sum(f, both) \in Nat /\ f[x] \in Nat /\ f[p] \in Nat
  <2>1. IsFiniteSet(both) /\ \A y \in both : f[y] \in Nat
    BY <1>3, FS_Subset
  <2> QED
    BY <1>3, <1>4, <2>1, SumNat
<1> QED
  BY <1>2, <1>4, <1>6, <1>7, <1>8

-----------------------------------------------------------------------------
\* The sum of a function that is the sum of two.
LEMMA SumPlus ==
  ASSUME NEW S, IsFiniteSet(S), NEW f, NEW g, NEW h,
         \A x \in S : f[x] \in Nat /\ g[x] \in Nat /\ h[x] = f[x] + g[x]
  PROVE  Sum(h, S) = Sum(f, S) + Sum(g, S)
<1> DEFINE T == {s \in SUBSET S : Sum(h, s) # Sum(f, s) + Sum(g, s)}
<1> SUFFICES ASSUME T # {} PROVE FALSE
  OBVIOUS
<1>1. PICK t \in T : \A u \in SUBSET t : u # t => u \notin T
  <2> HIDE DEF T
  <2>1. T \subseteq SUBSET S
    BY DEF T
  <2> QED
    BY <2>1, MinimalSubset
<1>2. t \in SUBSET S /\ IsFiniteSet(t) /\ Sum(h, t) # Sum(f, t) + Sum(g, t)
  BY <1>1, FS_Subset
<1>3. t # {}
  <2>1. Sum(f, {}) = 0 /\ Sum(g, {}) = 0 /\ Sum(h, {}) = 0
    BY SumEmpty
  <2>2. Sum(h, {}) = Sum(f, {}) + Sum(g, {})
    BY <2>1
  <2>3. CASE t = {}
    BY <1>2, <2>2, <2>3
  <2> QED
    BY <2>3
<1> DEFINE p == Pick(t)
           u == t \ {p}
<1>4. /\ p \in t /\ IsFiniteSet(u) /\ Sum(f, t) = f[p] + Sum(f, u)
      /\ Sum(g, t) = g[p] + Sum(g, u) /\ Sum(h, t) = h[p] + Sum(h, u)
  BY <1>2, <1>3, SumPick
<1>5. Sum(h, u) = Sum(f, u) + Sum(g, u)
  BY <1>1, <1>2, <1>4
<1>6. Sum(f, u) \in Nat /\ Sum(g, u) \in Nat
  BY <1>2, <1>4, SumNat
<1>7. f[p] \in Nat /\ g[p] \in Nat /\ h[p] = f[p] + g[p]
  BY <1>2, <1>4
<1> QED
  BY <1>2, <1>4, <1>5, <1>6, <1>7

\* Functions that agree on a set have one sum over it.
LEMMA SumSame ==
  ASSUME NEW S, IsFiniteSet(S), NEW f, NEW g, \A x \in S : f[x] = g[x]
  PROVE  Sum(f, S) = Sum(g, S)
<1> DEFINE T == {s \in SUBSET S : Sum(f, s) # Sum(g, s)}
<1> SUFFICES ASSUME T # {} PROVE FALSE
  OBVIOUS
<1>1. PICK t \in T : \A u \in SUBSET t : u # t => u \notin T
  <2> HIDE DEF T
  <2>1. T \subseteq SUBSET S
    BY DEF T
  <2> QED
    BY <2>1, MinimalSubset
<1>2. t \in SUBSET S /\ IsFiniteSet(t) /\ Sum(f, t) # Sum(g, t)
  BY <1>1, FS_Subset
<1>3. t # {}
  BY <1>2, SumEmpty
<1> DEFINE p == Pick(t)
           u == t \ {p}
<1>4. /\ p \in t /\ Sum(f, t) = f[p] + Sum(f, u) /\ Sum(g, t) = g[p] + Sum(g, u)
  BY <1>2, <1>3, SumPick
<1>5. Sum(f, u) = Sum(g, u)
  BY <1>1, <1>2, <1>4
<1> QED
  BY <1>2, <1>4, <1>5

\* Counting the indices of a family by their values: the counts of the values
\* add up to the indices whose value is in the set.
CountIn(I, b, S) == Cardinality({i \in I : b[i] \in S})
LEMMA SumCounts ==
  ASSUME NEW S, IsFiniteSet(S), NEW I, IsFiniteSet(I), NEW b, NEW g,
         \A x \in S : g[x] = CountIn(I, b, {x})
  PROVE  Sum(g, S) = CountIn(I, b, S)
<1> DEFINE At(s) == {i \in I : b[i] \in s}
           T == {s \in SUBSET S : Sum(g, s) # Cardinality(At(s))}
<1> SUFFICES ASSUME T # {} PROVE FALSE
  BY DEF CountIn
<1>1. PICK t \in T : \A u \in SUBSET t : u # t => u \notin T
  <2> HIDE DEF T
  <2>1. T \subseteq SUBSET S
    BY DEF T
  <2> QED
    BY <2>1, MinimalSubset
<1>2. t \in SUBSET S /\ IsFiniteSet(t) /\ Sum(g, t) # Cardinality(At(t))
  BY <1>1, FS_Subset
<1>3. t # {}
  <2>1. At({}) = {}
    OBVIOUS
  <2> HIDE DEF At
  <2> QED
    BY <1>2, <2>1, SumEmpty, FS_EmptySet
<1> DEFINE p == Pick(t)
           u == t \ {p}
           at == {i \in I : b[i] = p}
<1>4. p \in t /\ Sum(g, t) = g[p] + Sum(g, u)
  BY <1>2, <1>3, SumPick
<1>5. Sum(g, u) = Cardinality(At(u))
  BY <1>1, <1>2, <1>4
<1>6. At(t) = at \cup At(u) /\ at \cap At(u) = {}
  BY <1>4
<1>7. IsFiniteSet(at) /\ IsFiniteSet(At(u))
  BY FS_Subset
<1>8. Cardinality(At(t)) = Cardinality(at) + Cardinality(At(u))
  <2> HIDE DEF at, At
  <2>1. Cardinality(at \cap At(u)) = 0
    BY <1>6, FS_EmptySet
  <2>2. Cardinality(at) \in Nat /\ Cardinality(At(u)) \in Nat
    BY <1>7, FS_CardinalityType
  <2>3. \A A, B : IsFiniteSet(A) /\ IsFiniteSet(B) =>
          Cardinality(A \cup B) = Cardinality(A) + Cardinality(B) - Cardinality(A \cap B)
    BY FS_Union
  <2>4. Cardinality(at \cup At(u)) = Cardinality(at) + Cardinality(At(u)) - 0
    BY <1>7, <2>1, <2>3
  <2>5. At(t) = at \cup At(u)
    BY <1>6
  <2> QED
    BY <2>2, <2>4, <2>5
<1>9. g[p] = Cardinality(at)
  <2>1. {i \in I : b[i] \in {p}} = at
    OBVIOUS
  <2> QED
    BY <1>2, <1>4, <2>1 DEF CountIn
<1> QED
  BY <1>2, <1>4, <1>5, <1>8, <1>9
-----------------------------------------------------------------------------
(* Sums over an interval: of a window that slides, or whose first member is *)
(* counted up.                                                             *)

\* One more member at the end.
LEMMA SumUpTo ==
  ASSUME NEW n \in Nat, NEW g, \A i \in 1..(n + 1) : g[i] \in Nat
  PROVE  /\ Sum(g, 1..0) = 0
         /\ Sum(g, 1..n) \in Nat /\ Sum(g, 1..(n + 1)) \in Nat
         /\ Sum(g, 1..(n + 1)) = Sum(g, 1..n) + g[n + 1]
<1>0. IsFiniteSet(1..n) /\ IsFiniteSet(1..(n + 1))
  BY FS_Interval
<1>1. /\ n + 1 \in 1..(n + 1) /\ (1..(n + 1)) \ {n + 1} = 1..n /\ 1..0 = {}
      /\ \A i \in 1..n : g[i] \in Nat
  OBVIOUS
<1>2. Sum(g, 1..n) \in Nat /\ Sum(g, 1..(n + 1)) \in Nat
  BY <1>0, <1>1, SumNat
<1>3. Sum(g, 1..(n + 1)) = g[n + 1] + Sum(g, (1..(n + 1)) \ {n + 1})
  BY <1>0, <1>1, SumTake
<1>4. Sum(g, 1..0) = 0
  BY <1>1, SumEmpty
<1>5. g[n + 1] \in Nat
  BY <1>1
<1>6. Sum(g, 1..(n + 1)) = g[n + 1] + Sum(g, 1..n)
  BY <1>1, <1>3
<1> QED
  BY <1>2, <1>4, <1>5, <1>6

\* What holds of 0, and of n + 1 when it does of n, holds up to N: a set of
\* numbers without a least member is empty.
LEMMA UpTo ==
  ASSUME NEW N \in Nat, NEW T, T \subseteq 0..N, 0 \in T,
         \A n \in T : n < N => n + 1 \in T
  PROVE  T = 0..N
<1> SUFFICES ASSUME (0..N) \ T # {} PROVE FALSE
  OBVIOUS
<1> DEFINE U == (0..N) \ T
<1>0. U \subseteq Nat /\ U # {}
  OBVIOUS
<1>1. PICK i \in U : \A j \in U : i <= j
  <2> HIDE DEF U
  <2> QED
    BY <1>0, LeastNatural
<1>2. i # 0 /\ i - 1 \in 0..N /\ i - 1 < N /\ ~(i <= i - 1)
  BY <1>1
<1>3. i - 1 \in T
  BY <1>1, <1>2
<1>4. (i - 1) + 1 \in T
  BY <1>2, <1>3
<1> QED
  BY <1>1, <1>4

LEMMA SumGrows ==
  ASSUME NEW N \in Nat, NEW g, \A i \in 1..N : g[i] \in Nat, NEW m \in 0..N
  PROVE  /\ Sum(g, 1..m) \in Nat /\ Sum(g, 1..N) \in Nat
         /\ Sum(g, 1..m) <= Sum(g, 1..N)
<1> DEFINE A(n) == Sum(g, 1..n)
           T == {n \in 0..(N - m) : A(m + n) \in Nat /\ A(m) <= A(m + n)}
<1>1. \A n \in 0..N : A(n) \in Nat
  <2> SUFFICES ASSUME NEW n \in 0..N PROVE A(n) \in Nat
    OBVIOUS
  <2>1. IsFiniteSet(1..n) /\ \A i \in 1..n : g[i] \in Nat
    BY FS_Interval
  <2> QED
    BY <2>1, SumNat
<1>2. 0 \in T
  BY <1>1
<1>3. ASSUME NEW n \in T, n < N - m PROVE n + 1 \in T
  <2>1. m + n \in Nat /\ \A i \in 1..((m + n) + 1) : g[i] \in Nat
    BY <1>3
  <2> HIDE DEF A
  <2>2. A((m + n) + 1) = A(m + n) + g[(m + n) + 1]
    BY <2>1, SumUpTo DEF A
  <2>3. (m + n) + 1 \in 0..N /\ m + (n + 1) = (m + n) + 1 /\ g[(m + n) + 1] \in Nat
    BY <1>3, <2>1
  <2>4. A(m) \in Nat /\ A(m + n) \in Nat /\ A((m + n) + 1) \in Nat /\ A(m) <= A(m + n)
    BY <1>1, <1>3, <2>3
  <2>5. A(m) <= A((m + n) + 1)
    BY <2>2, <2>3, <2>4
  <2> QED
    BY <1>3, <2>3, <2>4, <2>5
<1>4. N - m \in T
  <2>1. N - m \in Nat /\ T \subseteq 0..(N - m)
    OBVIOUS
  <2>2. T = 0..(N - m)
    <3> HIDE DEF T
    <3> QED
      BY <1>2, <1>3, <2>1, UpTo
  <2>3. N - m \in 0..(N - m)
    BY <2>1
  <2> QED
    BY <2>2, <2>3
<1>5. A(m) <= A(m + (N - m)) /\ m + (N - m) = N
  BY <1>4
<1> QED
  BY <1>1, <1>5

\* Every member moves up by one, and nothing is new; or the first is one more.
NaturalTo(g, N) == \A i \in 1..N : g[i] \in Nat
Shifted(f, g, N) == \A i \in 1..N : f[i] = IF i = 1 THEN 0 ELSE g[i - 1]
Bumped(f, g, N) == \A i \in 1..N : f[i] = IF i = 1 THEN g[1] + 1 ELSE g[i]

LEMMA SumShifted ==
  ASSUME NEW N \in Nat, NEW f, NEW g, NaturalTo(g, N), Shifted(f, g, N), NEW n \in 1..N
  PROVE  Sum(f, 1..n) = Sum(g, 1..(n - 1))
<1> DEFINE A(k) == Sum(g, 1..k)
           B(k) == Sum(f, 1..k)
           T == {k \in 0..(N - 1) : B(k + 1) = A(k)}
<1>0. \A i \in 1..N : /\ g[i] \in Nat
                      /\ f[i] = IF i = 1 THEN 0 ELSE g[i - 1]
  BY DEF NaturalTo, Shifted
<1>1. \A i \in 1..N : f[i] \in Nat
  BY <1>0
<1>2. 0 \in T
  <2>0. 0 \in Nat /\ \A i \in 1..(0 + 1) : f[i] \in Nat /\ g[i] \in Nat
    BY <1>0, <1>1
  <2>1. B(0 + 1) = B(0) + f[0 + 1] /\ B(0) = 0 /\ B(0 + 1) \in Nat
    BY <2>0, SumUpTo
  <2>2. A(0) = 0
    BY <2>0, SumUpTo
  <2>3. f[0 + 1] = 0
    BY <1>0
  <2> HIDE DEF A, B
  <2> QED
    BY <2>1, <2>2, <2>3
<1>3. ASSUME NEW k \in T, k < N - 1 PROVE k + 1 \in T
  <2>1. k \in Nat /\ k + 1 \in Nat
    OBVIOUS
  <2>2. (\A i \in 1..(k + 1) : g[i] \in Nat) /\ (\A i \in 1..((k + 1) + 1) : f[i] \in Nat)
    BY <1>0, <1>1, <1>3
  <2>3. A(k + 1) = A(k) + g[k + 1]
    BY <2>1, <2>2, SumUpTo
  <2>4. B((k + 1) + 1) = B(k + 1) + f[(k + 1) + 1]
    BY <2>1, <2>2, SumUpTo
  <2>5. f[(k + 1) + 1] = g[k + 1] /\ k + 1 \in 0..(N - 1)
    BY <1>0, <1>3
  <2>6. B(k + 1) = A(k)
    OBVIOUS
  <2> HIDE DEF A, B
  <2> QED
    BY <2>3, <2>4, <2>5, <2>6
<1>4. T = 0..(N - 1)
  <2>1. N - 1 \in Nat /\ T \subseteq 0..(N - 1)
    OBVIOUS
  <2> HIDE DEF T
  <2> QED
    BY <1>2, <1>3, <2>1, UpTo
<1>5. n - 1 \in T /\ (n - 1) + 1 = n
  <2>1. n - 1 \in 0..(N - 1) /\ (n - 1) + 1 = n
    OBVIOUS
  <2> HIDE DEF T
  <2> QED
    BY <1>4, <2>1
<1> QED
  BY <1>5

LEMMA SumBumped ==
  ASSUME NEW N \in Nat, NEW f, NEW g, NaturalTo(g, N), Bumped(f, g, N), NEW n \in 1..N
  PROVE  Sum(f, 1..n) = Sum(g, 1..n) + 1
<1>0. IsFiniteSet(1..n) /\ IsFiniteSet((1..n) \ {1})
  <2>1. IsFiniteSet(1..n)
    BY FS_Interval
  <2>2. (1..n) \ {1} \subseteq 1..n
    OBVIOUS
  <2> QED
    BY <2>1, <2>2, FS_Subset
<1>1. /\ 1 \in 1..n /\ (\A i \in 1..n : g[i] \in Nat) /\ (\A i \in 1..n : f[i] \in Nat)
      /\ f[1] = g[1] + 1 /\ \A i \in (1..n) \ {1} : f[i] = g[i]
  BY DEF NaturalTo, Bumped
<1>2. Sum(f, 1..n) = f[1] + Sum(f, (1..n) \ {1})
  BY <1>0, <1>1, SumTake
<1>3. Sum(g, 1..n) = g[1] + Sum(g, (1..n) \ {1})
  BY <1>0, <1>1, SumTake
<1>4. Sum(f, (1..n) \ {1}) = Sum(g, (1..n) \ {1})
  BY <1>0, <1>1, SumSame
<1>5. Sum(g, (1..n) \ {1}) \in Nat
  BY <1>0, <1>1, SumNat
<1> QED
  BY <1>1, <1>2, <1>3, <1>4, <1>5


-----------------------------------------------------------------------------
\* A sum over a set is the sum over a part of it and over the rest.
LEMMA SumSplit ==
  ASSUME NEW f, NEW S, IsFiniteSet(S), \A x \in S : f[x] \in Nat, NEW P, P \subseteq S
  PROVE  Sum(f, S) = Sum(f, P) + Sum(f, S \ P)
<1> DEFINE T == {s \in SUBSET P : Sum(f, S) # Sum(f, s) + Sum(f, S \ s)}
<1>0. ASSUME NEW U \in SUBSET S PROVE IsFiniteSet(U) /\ Sum(f, U) \in Nat
  <2>1. IsFiniteSet(U)
    BY FS_Subset
  <2> QED
    BY <2>1, SumNat
<1>1. T = {}
  <2> SUFFICES ASSUME T # {} PROVE FALSE
    OBVIOUS
  <2>1. PICK t \in T : \A u \in SUBSET t : u # t => u \notin T
    <3>1. T \subseteq SUBSET P /\ IsFiniteSet(P)
      BY <1>0
    <3> HIDE DEF T
    <3> QED
      BY <3>1, MinimalSubset
  <2>2. t # {}
    <3>1. Sum(f, {}) = 0 /\ S \ {} = S /\ Sum(f, S) \in Nat
      BY <1>0, SumEmpty
    <3>2. CASE t = {}
      BY <2>1, <3>1, <3>2
    <3> QED
      BY <3>2
  <2>3. PICK a \in t : TRUE
    BY <2>2
  <2> DEFINE u == t \ {a}
  <2>4. Sum(f, S) = Sum(f, u) + Sum(f, S \ u)
    BY <2>1, <2>3
  <2>5. Sum(f, t) = f[a] + Sum(f, u)
    <3>1. IsFiniteSet(t) /\ \A x \in t : f[x] \in Nat
      BY <1>0
    <3> QED
      BY <3>1, SumTake
  <2>6. Sum(f, S \ u) = f[a] + Sum(f, S \ t)
    <3>1. IsFiniteSet(S \ u) /\ (\A x \in S \ u : f[x] \in Nat) /\ a \in S \ u
      BY <1>0, <2>3
    <3>2. Sum(f, S \ u) = f[a] + Sum(f, (S \ u) \ {a})
      BY <3>1, SumTake
    <3>3. (S \ u) \ {a} = S \ t
      BY <2>3
    <3> QED
      BY <3>2, <3>3
  <2>7. /\ Sum(f, u) \in Nat /\ Sum(f, t) \in Nat /\ Sum(f, S \ t) \in Nat
        /\ Sum(f, S \ u) \in Nat /\ f[a] \in Nat /\ Sum(f, S) \in Nat
    BY <1>0, <2>3
  <2>8. Sum(f, S) # Sum(f, t) + Sum(f, S \ t)
    BY <2>1
  <2> QED
    BY <2>4, <2>5, <2>6, <2>7, <2>8
<1>2. Sum(f, S) = Sum(f, P) + Sum(f, S \ P)
  BY <1>1
<1> QED
  BY <1>2

LEMMA SumZeros ==
  ASSUME NEW f, NEW S, IsFiniteSet(S), \A x \in S : f[x] = 0
  PROVE  Sum(f, S) = 0
<1>1. \A x \in S : f[x] \in Nat /\ f[x] = f[x] + f[x]
  OBVIOUS
<1>2. Sum(f, S) = Sum(f, S) + Sum(f, S)
  BY <1>1, SumPlus
<1>3. Sum(f, S) \in Nat
  BY <1>1, SumNat
<1> DEFINE n == Sum(f, S)
<1> HIDE DEF n
<1>4. n = n + n /\ n \in Nat
  BY <1>2, <1>3 DEF n
<1>5. n = 0
  BY <1>4
<1> QED
  BY <1>5 DEF n

\* What is zero may be left out.
LEMMA SumOfPart ==
  ASSUME NEW f, NEW S, IsFiniteSet(S), \A x \in S : f[x] \in Nat, NEW P, P \subseteq S,
         \A x \in S \ P : f[x] = 0
  PROVE  Sum(f, P) = Sum(f, S)
<1>1. Sum(f, S \ P) = 0
  <2>1. IsFiniteSet(S \ P)
    <3>1. S \ P \subseteq S
      OBVIOUS
    <3> QED
      BY <3>1, FS_Subset
  <2> QED
    BY <2>1, SumZeros
<1>2. Sum(f, S) = Sum(f, P) + Sum(f, S \ P)
  BY SumSplit
<1>3. Sum(f, P) \in Nat
  BY FS_Subset, SumNat
<1> QED
  BY <1>1, <1>2, <1>3

LEMMA SumAtMost ==
  ASSUME NEW S, IsFiniteSet(S), NEW f, NEW g,
         \A x \in S : f[x] \in Nat /\ g[x] \in Nat /\ f[x] <= g[x]
  PROVE  Sum(f, S) \in Nat /\ Sum(g, S) \in Nat /\ Sum(f, S) <= Sum(g, S)
<1> DEFINE h == [x \in S |-> g[x] - f[x]]
<1>1. \A x \in S : h[x] \in Nat /\ g[x] = f[x] + h[x]
  OBVIOUS
<1> HIDE DEF h
<1>2. Sum(g, S) = Sum(f, S) + Sum(h, S)
  BY <1>1, SumPlus
<1>3. Sum(f, S) \in Nat /\ Sum(g, S) \in Nat /\ Sum(h, S) \in Nat
  BY <1>1, SumNat
<1> QED
  BY <1>2, <1>3

\* Positive numbers add up to their count at least.
LEMMA SumAtLeastOneEach ==
  ASSUME NEW f, NEW S, IsFiniteSet(S), \A x \in S : f[x] \in Nat \ {0}
  PROVE  Cardinality(S) <= Sum(f, S)
<1> DEFINE T == {s \in SUBSET S : ~(Cardinality(s) <= Sum(f, s))}
<1> SUFFICES ASSUME T # {} PROVE FALSE
  <2>1. S \in SUBSET S
    OBVIOUS
  <2> QED
    BY <2>1
<1>1. PICK t \in T : \A u \in SUBSET t : u # t => u \notin T
  <2>1. T \subseteq SUBSET S
    OBVIOUS
  <2> HIDE DEF T
  <2> QED
    BY <2>1, MinimalSubset
<1>2. t \in SUBSET S /\ IsFiniteSet(t) /\ ~(Cardinality(t) <= Sum(f, t))
  BY <1>1, FS_Subset
<1>3. t # {}
  BY <1>2, SumEmpty, FS_EmptySet
<1>4. PICK a \in t : TRUE
  BY <1>3
<1> DEFINE u == t \ {a}
<1>5. Sum(f, t) = f[a] + Sum(f, u)
  BY <1>2, SumTake
<1>6. IsFiniteSet(u) /\ Cardinality(u) = Cardinality(t) - 1
  BY <1>2, FS_RemoveElement
<1>7. Cardinality(u) <= Sum(f, u)
  BY <1>1, <1>2, <1>4
<1>8. Sum(f, u) \in Nat /\ Cardinality(u) \in Nat /\ Cardinality(t) \in Nat
      /\ f[a] \in Nat /\ f[a] >= 1
  BY <1>2, <1>6, SumNat, FS_CardinalityType
<1> QED
  BY <1>2, <1>5, <1>6, <1>7, <1>8

\* One member counts one more.
LEMMA SumOneMore ==
  ASSUME NEW S, IsFiniteSet(S), NEW f, NEW g, \A x \in S : g[x] \in Nat, NEW a,
         \A x \in S : f[x] = IF x = a THEN g[x] + 1 ELSE g[x]
  PROVE  Sum(f, S) = IF a \in S THEN Sum(g, S) + 1 ELSE Sum(g, S)
<1>1. CASE a \notin S
  <2>1. \A x \in S : f[x] = g[x]
    BY <1>1
  <2> QED
    BY <1>1, <2>1, SumSame
<1>2. CASE a \in S
  <2>0. \A x \in S : f[x] \in Nat
    OBVIOUS
  <2>1. Sum(f, S) = f[a] + Sum(f, S \ {a}) /\ Sum(g, S) = g[a] + Sum(g, S \ {a})
    BY <1>2, <2>0, SumTake
  <2>2. IsFiniteSet(S \ {a})
    BY FS_RemoveElement
  <2>3. Sum(f, S \ {a}) = Sum(g, S \ {a}) /\ Sum(g, S \ {a}) \in Nat
    BY <2>2, SumSame, SumNat
  <2>4. f[a] = g[a] + 1 /\ g[a] \in Nat
    BY <1>2
  <2> QED
    BY <1>2, <2>1, <2>3, <2>4
<1> QED
  BY <1>1, <1>2

\* Grouping by the value of a column, and adding up the groups.
AtValue(S, h, v) == {x \in S : h[x] = v}
Values(S, h) == {h[x] : x \in S}
GroupSums(g, f, S, h) == \A v \in Values(S, h) : g[v] = Sum(f, AtValue(S, h, v))
LEMMA SumFibers ==
  ASSUME NEW f, NEW S, IsFiniteSet(S), \A x \in S : f[x] \in Nat, NEW h, NEW g,
         GroupSums(g, f, S, h)
  PROVE  IsFiniteSet(Values(S, h)) /\ Sum(g, Values(S, h)) = Sum(f, S)
<1> DEFINE V == Values(S, h)
<1>0. V = {h[x] : x \in S} /\ \A w \in V : g[w] = Sum(f, AtValue(S, h, w))
  BY DEF Values, GroupSums
<1> HIDE DEF V
<1>1. IsFiniteSet(V) /\ Cardinality(V) <= Cardinality(S)
  <2> DEFINE c == [x \in S |-> h[x]]
  <2>1. c \in Surjection(S, V)
    BY <1>0 DEF Surjection
  <2> QED
    BY <2>1, FS_Surjection
<1>2. ASSUME NEW U \in SUBSET S PROVE IsFiniteSet(U) /\ Sum(f, U) \in Nat
  <2>1. IsFiniteSet(U)
    BY FS_Subset
  <2> QED
    BY <2>1, SumNat
<1>3. \A w \in V : g[w] \in Nat
  BY <1>0, <1>2 DEF AtValue
<1> DEFINE In(s) == {x \in S : h[x] \in s}
           T == {s \in SUBSET V : Sum(g, s) # Sum(f, In(s))}
<1>4. T = {}
  <2> SUFFICES ASSUME T # {} PROVE FALSE
    OBVIOUS
  <2>1. PICK t \in T : \A u \in SUBSET t : u # t => u \notin T
    <3>1. T \subseteq SUBSET V
      OBVIOUS
    <3> HIDE DEF T
    <3> QED
      BY <1>1, <3>1, MinimalSubset
  <2>2. t \in SUBSET V /\ IsFiniteSet(t) /\ Sum(g, t) # Sum(f, In(t))
    BY <1>1, <2>1, FS_Subset
  <2>3. t # {}
    <3>1. In({}) = {}
      OBVIOUS
    <3> HIDE DEF In
    <3> QED
      BY <2>2, <3>1, SumEmpty
  <2>4. PICK a \in t : TRUE
    BY <2>3
  <2> DEFINE u == t \ {a}
  <2>5. Sum(g, t) = g[a] + Sum(g, u)
    BY <1>3, <2>2, <2>4, SumTake
  <2>6. Sum(g, u) = Sum(f, In(u))
    BY <2>1, <2>2, <2>4
  <2>7. Sum(f, In(t)) = Sum(f, AtValue(S, h, a)) + Sum(f, In(u))
    <3>1. /\ In(t) \in SUBSET S /\ AtValue(S, h, a) \subseteq In(t)
          /\ In(t) \ AtValue(S, h, a) = In(u)
      BY <2>4 DEF AtValue
    <3>2. IsFiniteSet(In(t)) /\ \A x \in In(t) : f[x] \in Nat
      BY <1>2, <3>1
    <3> DEFINE A == In(t)
               B == AtValue(S, h, a)
    <3>3. IsFiniteSet(A) /\ (\A x \in A : f[x] \in Nat) /\ B \subseteq A
      BY <3>1, <3>2
    <3>4. Sum(f, A) = Sum(f, B) + Sum(f, A \ B)
      <4> HIDE DEF A, B
      <4> QED
        BY <3>3, SumSplit
    <3> QED
      BY <3>1, <3>4
  <2>8. g[a] = Sum(f, AtValue(S, h, a))
    BY <1>0, <2>2, <2>4
  <2> QED
    BY <2>2, <2>5, <2>6, <2>7, <2>8
<1>5. V \in SUBSET V /\ In(V) = S
  BY <1>0
<1>6. Sum(g, V) = Sum(f, In(V))
  BY <1>4, <1>5
<1> QED
  BY <1>1, <1>3, <1>5, <1>6 DEF V
=============================================================================

---------------------------- MODULE SelectProofs ----------------------------
(***************************************************************************)
(* Proofs about SELECT and its caches (Select, QueryCache, TableCache).    *)
(*                                                                         *)
(* SelectInv is the inductive invariant: the query cache is in order and   *)
(* within its limits; an entry that is not in doubt answers its statement  *)
(* on the tables of its own database, as a reader of that database sees    *)
(* them; a cached table that is not in doubt is a copy of the table.       *)
(***************************************************************************)
EXTENDS Select, FiniteSetTheorems, WellFoundedInduction, TLAPS

-----------------------------------------------------------------------------
\* Sums over finite sets, which the caches count their memory with.

\* A set of natural numbers has a least one.
LEMMA LeastNumber ==
  ASSUME NEW T \in SUBSET Nat, T # {}
  PROVE  \E x \in T : \A y \in T : x <= y
<1>1. \A y, z \in Nat : y < z => <<y, z>> \in OpToRel(<, Nat)
  BY Zenon DEF OpToRel
<1>2. PICK x \in T : \A y \in T : ~ (<<y, x>> \in OpToRel(<, Nat))
  BY NatLessThanWellFounded, WFMin, Zenon
<1>3. \A y \in T : ~(y < x)
  BY <1>1, <1>2, Zenon
<1> QED
  BY <1>3

\* A set with 0 that has the next number with each of its numbers has them all.
LEMMA SetInduction ==
  ASSUME NEW S, 0 \in S, \A n \in Nat : n \in S => n + 1 \in S
  PROVE  Nat \subseteq S
<1> SUFFICES ASSUME Nat \ S # {} PROVE FALSE
  BY Zenon
<1>1. PICK x \in Nat \ S : \A y \in Nat \ S : x <= y
  BY LeastNumber, Zenon
<1>2. x # 0 /\ x - 1 \in Nat
  BY <1>1
<1>3. x - 1 \in S
  BY <1>1, <1>2
<1> QED
  BY <1>1, <1>2, <1>3

\* A set that has a finite set with all the smaller ones has every subset.
LEMMA SubsetInduction ==
  ASSUME NEW S, IsFiniteSet(S), NEW Q,
         \A T \in SUBSET S : (\A U \in SUBSET T : U # T => U \in Q) => T \in Q
  PROVE  SUBSET S \subseteq Q
<1> SUFFICES ASSUME (SUBSET S) \ Q # {} PROVE FALSE
  BY Zenon
<1> DEFINE sizes == {n \in Nat : \E T \in (SUBSET S) \ Q : n = Cardinality(T)}
<1>1. \A T \in SUBSET S : IsFiniteSet(T) /\ Cardinality(T) \in Nat
  BY FS_Subset, FS_CardinalityType, Zenon
<1>2. sizes # {}
  BY <1>1, Zenon
<1>3. PICK n \in sizes : \A m \in sizes : n <= m
  BY <1>2, LeastNumber, Zenon
<1>4. PICK T \in (SUBSET S) \ Q : n = Cardinality(T)
  BY <1>3, Zenon
<1>5. PICK U \in SUBSET T : U # T /\ U \notin Q
  BY <1>4, Zenon
<1>6. Cardinality(U) <= n /\ Cardinality(U) # n
  BY <1>1, <1>4, <1>5, FS_Subset, Zenon
<1>7. Cardinality(U) \in sizes
  BY <1>1, <1>4, <1>5, Zenon
<1> HIDE DEF sizes
<1>8. n <= Cardinality(U) /\ n \in Nat /\ Cardinality(U) \in Nat
  BY <1>1, <1>3, <1>4, <1>5, <1>7, Zenon
<1> QED
  BY <1>6, <1>8

First(s) == CHOOSE x \in s : TRUE

\* g has the sum of f over each subset of S.
Adds(g, f, S) ==
  /\ g \in [SUBSET S -> Nat]
  /\ g[{}] = 0
  /\ \A s \in SUBSET S : s # {} => g[s] = f[First(s)] + g[s \ {First(s)}]

\* The element taken first is one of the set.
LEMMA FirstIn ==
  ASSUME NEW s, s # {}
  PROVE  First(s) \in s
BY Zenon DEF First

\* The sum over the subsets of a finite set is defined by taking one element after
\* the other.
LEMMA AdderExists ==
  ASSUME NEW S, IsFiniteSet(S), NEW f, \A x \in S : f[x] \in Nat
  PROVE  \E g : Adds(g, f, S)
<1> DEFINE Level(n) == {s \in SUBSET S : Cardinality(s) <= n}
           IsSum(g, n) ==
             /\ g[{}] = 0
             /\ \A s \in Level(n) : s # {} => g[s] = f[First(s)] + g[s \ {First(s)}]
           Q == {n \in Nat : \E g \in [Level(n) -> Nat] : IsSum(g, n)}
<1>1. \A s \in SUBSET S : IsFiniteSet(s) /\ Cardinality(s) \in Nat /\ Cardinality(s) <= Cardinality(S)
  BY FS_Subset, FS_CardinalityType, Zenon
<1>2. {} \in SUBSET S /\ Cardinality({}) = 0 /\ \A s \in SUBSET S : Cardinality(s) = 0 => s = {}
  BY <1>1, FS_EmptySet, Zenon
<1>3. 0 \in Q
  <2>1. \A s \in Level(0) : s = {}
    BY <1>1, <1>2
  <2> DEFINE g == [s \in Level(0) |-> 0]
  <2>2. {} \in Level(0)
    BY <1>2
  <2>3. g \in [Level(0) -> Nat] /\ g[{}] = 0
    BY <2>2, Zenon
  <2> QED
    BY <2>1, <2>3, Zenon
<1>4. ASSUME NEW n \in Nat, n \in Q PROVE n + 1 \in Q
  <2>1. PICK g \in [Level(n) -> Nat] : IsSum(g, n)
    BY <1>4, Zenon
  <2> DEFINE sum(s) == f[First(s)] + g[s \ {First(s)}]
             h == [s \in Level(n + 1) |-> IF s \in Level(n) THEN g[s] ELSE sum(s)]
  <2>2. {} \in Level(n) /\ \A s \in Level(n) : s \in Level(n + 1)
    BY <1>1, <1>2
  <2>3. ASSUME NEW s \in Level(n + 1), s # {}
        PROVE  /\ First(s) \in S /\ s \ {First(s)} \in Level(n)
    <3>1. First(s) \in s
      BY <2>3, FirstIn, Zenon
    <3>2. s \in SUBSET S /\ Cardinality(s) <= n + 1
      BY Zenon
    <3>3. Cardinality(s \ {First(s)}) = Cardinality(s) - 1
      BY <1>1, <3>1, <3>2, FS_RemoveElement, Zenon
    <3> HIDE DEF IsSum
    <3>4. s \ {First(s)} \in SUBSET S /\ Cardinality(s) \in Nat
      BY <1>1, <3>2, Zenon
    <3> QED
      BY <3>1, <3>2, <3>3, <3>4
  <2>4. \A s \in Level(n + 1) : s # {} => f[First(s)] \in Nat /\ g[s \ {First(s)}] \in Nat
    <3> HIDE DEF Level, IsSum
    <3> QED
      BY <2>1, <2>3, Zenon
  <2>5. h \in [Level(n + 1) -> Nat]
    <3>1. \A s \in Level(n + 1) : (IF s \in Level(n) THEN g[s] ELSE sum(s)) \in Nat
      <4>1. ASSUME NEW s \in Level(n + 1), s \notin Level(n) PROVE sum(s) \in Nat
        <5>1. s # {}
          BY <2>2, <4>1, Zenon
        <5>2. f[First(s)] \in Nat /\ g[s \ {First(s)}] \in Nat
          BY <2>4, <5>1, Zenon
        <5> QED
          BY <5>2
      <4> HIDE DEF Level, IsSum, sum
      <4> QED
        BY <2>1, <4>1, Zenon
    <3> HIDE DEF Level, IsSum, sum
    <3> QED
      BY <3>1, Zenon
  <2>6. h[{}] = 0
    <3> HIDE DEF Level, sum
    <3> QED
      BY <2>1, <2>2, Zenon
  <2>7. ASSUME NEW s \in Level(n + 1), s # {} PROVE h[s] = f[First(s)] + h[s \ {First(s)}]
    <3>1. h[s \ {First(s)}] = g[s \ {First(s)}]
      <4> HIDE DEF Level, sum
      <4> QED
        BY <2>2, <2>3, <2>7, Zenon
    <3>2. h[s] = sum(s)
      <4>1. s \in Level(n) => g[s] = sum(s)
        BY <2>1, <2>7, Zenon
      <4> HIDE DEF Level, sum
      <4> QED
        BY <4>1, Zenon
    <3> QED
      BY <3>1, <3>2, Zenon
  <2>8. IsSum(h, n + 1)
    <3> HIDE DEF h, Level
    <3> QED
      BY <2>6, <2>7, Zenon
  <2> HIDE DEF h, Level, IsSum
  <2> QED
    BY <2>5, <2>8
<1>5. Cardinality(S) \in Q
  <2> HIDE DEF Q
  <2> QED
    BY <1>1, <1>3, <1>4, SetInduction, Zenon
<1>6. PICK g \in [Level(Cardinality(S)) -> Nat] : IsSum(g, Cardinality(S))
  BY <1>5, Zenon
<1>7. Level(Cardinality(S)) = SUBSET S
  BY <1>1, Zenon
<1>8. Adds(g, f, S)
  <2> HIDE DEF Level
  <2> QED
    BY <1>6, <1>7, Zenon DEF Adds
<1> QED
  BY <1>8, Zenon

\* SumFunctionOnSet adds.
LEMMA SumAdds ==
  ASSUME NEW S, IsFiniteSet(S), NEW f, \A x \in S : f[x] \in Nat
  PROVE  \E g : Adds(g, f, S) /\ SumFunctionOnSet(f, S) = g[S]
<1> DEFINE step(s, iter) == IF s = {} THEN 0 ELSE f[First(s)] + iter[s \ {First(s)}]
           sum == CHOOSE iter : iter = [s \in SUBSET S |-> step(s, iter)]
<1>1. SumFunctionOnSet(f, S) = sum[S]
  BY Zenon DEF SumFunctionOnSet, FoldFunctionOnSet, MapThenFoldSet, First
<1>2. PICK h : Adds(h, f, S)
  BY AdderExists, Zenon
<1>3. h = [s \in SUBSET S |-> step(s, h)]
  <2>1. h = [s \in SUBSET S |-> h[s]]
    BY <1>2, Zenon DEF Adds
  <2>2. \A s \in SUBSET S : h[s] = step(s, h)
    BY <1>2, Zenon DEF Adds
  <2> QED
    BY <2>1, <2>2, Zenon
<1>4. sum = [s \in SUBSET S |-> step(s, sum)]
  BY <1>3, Zenon
<1> HIDE DEF sum
<1>5. \A s \in SUBSET S : sum[s] = step(s, sum)
  BY <1>4, Zenon
<1>6. {} \in SUBSET S
  BY Zenon
<1>7. sum[{}] = 0 /\ \A s \in SUBSET S : s # {} => sum[s] = f[First(s)] + sum[s \ {First(s)}]
  BY <1>5, <1>6, Zenon
<1> DEFINE Q == {s \in SUBSET S : sum[s] \in Nat}
<1>8. ASSUME NEW T \in SUBSET S, \A U \in SUBSET T : U # T => U \in Q PROVE T \in Q
  <2>1. CASE T = {}
    BY <1>7, <2>1
  <2>2. CASE T # {}
    <3>1. PICK y : y = First(T)
      BY Zenon
    <3>2. y \in T
      BY <2>2, <3>1, FirstIn, Zenon
    <3>3. sum[T \ {y}] \in Nat /\ f[y] \in Nat
      BY <1>8, <3>2, Zenon
    <3>4. sum[T] = f[y] + sum[T \ {y}]
      BY <1>7, <2>2, <3>1, Zenon
    <3> QED
      BY <3>3, <3>4
  <2> QED
    BY <2>1, <2>2, Zenon
<1>9. SUBSET S \subseteq Q
  <2> HIDE DEF Q
  <2> QED
    BY <1>8, SubsetInduction, Zenon
<1>10. sum \in [SUBSET S -> Nat]
  <2>1. \A s \in SUBSET S : sum[s] \in Nat
    BY <1>9, Zenon
  <2> QED
    BY <1>4, <2>1, Zenon
<1>11. Adds(sum, f, S)
  BY <1>7, <1>10, Zenon DEF Adds
<1> QED
  BY <1>1, <1>11, Zenon

\* The order of the additions does not matter.
LEMMA AddsOne ==
  ASSUME NEW S, IsFiniteSet(S), NEW f, \A x \in S : f[x] \in Nat, NEW g, Adds(g, f, S)
  PROVE  \A T \in SUBSET S : \A x \in S \ T : g[T \cup {x}] = f[x] + g[T]
<1> DEFINE Q == {T \in SUBSET S : \A x \in S \ T : g[T \cup {x}] = f[x] + g[T]}
<1>0. \A s \in SUBSET S : g[s] \in Nat
  BY Zenon DEF Adds
<1>1. ASSUME NEW T \in SUBSET S, \A U \in SUBSET T : U # T => U \in Q PROVE T \in Q
  <2> SUFFICES ASSUME NEW x \in S \ T PROVE g[T \cup {x}] = f[x] + g[T]
    BY Zenon
  <2>1. PICK R : R = T \cup {x}
    BY Zenon
  <2>2. PICK y : y = First(R)
    BY Zenon
  <2>3. R # {} /\ R \in SUBSET S
    BY <2>1, Zenon
  <2>4. y \in R /\ y \in S
    BY <2>2, <2>3, FirstIn, Zenon
  <2>5. g[R] = f[y] + g[R \ {y}]
    BY <2>2, <2>3, Zenon DEF Adds
  <2>6. CASE y = x
    <3>1. R \ {y} = T
      BY <2>1, <2>6, Zenon
    <3> QED
      BY <2>1, <2>5, <2>6, <3>1, Zenon
  <2>7. CASE y # x
    <3>1. PICK U : U = T \ {y}
      BY Zenon
    <3>2. y \in T /\ U \in Q /\ U \in SUBSET S
      BY <1>1, <2>1, <2>4, <2>7, <3>1, Zenon
    <3>3. R \ {y} = U \cup {x} /\ U \cup {y} = T /\ x \in S \ U /\ y \in S \ U
      BY <2>1, <2>4, <2>7, <3>1, <3>2, Zenon
    <3>4. g[U \cup {x}] = f[x] + g[U] /\ g[U \cup {y}] = f[y] + g[U]
      BY <3>2, <3>3, Zenon
    <3>5. g[U] \in Nat /\ f[x] \in Nat /\ f[y] \in Nat
      BY <1>0, <2>4, <3>2, Zenon
    <3>6. g[R] = f[y] + (f[x] + g[U]) /\ g[T] = f[y] + g[U]
      BY <2>5, <3>3, <3>4, Zenon
    <3>7. g[R] = f[x] + g[T]
      BY <3>5, <3>6
    <3> QED
      BY <2>1, <3>7, Zenon
  <2> QED
    BY <2>6, <2>7, Zenon
<1>2. SUBSET S \subseteq Q
  <2> HIDE DEF Q
  <2> QED
    BY <1>1, SubsetInduction, Zenon
<1> QED
  BY <1>2, Zenon

\* A sum depends on the values of its members.
LEMMA AddsSame ==
  ASSUME NEW S, IsFiniteSet(S), NEW f, NEW g, Adds(g, f, S),
         NEW R, NEW e, NEW h, Adds(h, e, R),
         S \subseteq R, \A x \in S : f[x] = e[x]
  PROVE  g[S] = h[S]
<1> DEFINE Q == {T \in SUBSET S : g[T] = h[T]}
<1>1. ASSUME NEW T \in SUBSET S, \A U \in SUBSET T : U # T => U \in Q PROVE T \in Q
  <2>1. CASE T = {}
    BY <2>1, Zenon DEF Adds
  <2>2. CASE T # {}
    <3>1. PICK y : y = First(T)
      BY Zenon
    <3>2. y \in T /\ T \in SUBSET R
      BY <2>2, <3>1, FirstIn, Zenon
    <3>3. g[T \ {y}] = h[T \ {y}] /\ f[y] = e[y]
      BY <1>1, <3>2, Zenon
    <3>4. g[T] = f[y] + g[T \ {y}] /\ h[T] = e[y] + h[T \ {y}]
      BY <2>2, <3>1, <3>2, Zenon DEF Adds
    <3> QED
      BY <3>3, <3>4, Zenon
  <2> QED
    BY <2>1, <2>2, Zenon
<1>2. SUBSET S \subseteq Q
  <2> HIDE DEF Q
  <2> QED
    BY <1>1, SubsetInduction, Zenon
<1> QED
  BY <1>2, Zenon

\* Functions that agree on a set have the same sum over it.
LEMMA SumSame ==
  ASSUME NEW S, IsFiniteSet(S), NEW f, NEW e, \A x \in S : f[x] \in Nat /\ f[x] = e[x]
  PROVE  SumFunctionOnSet(f, S) = SumFunctionOnSet(e, S) /\ SumFunctionOnSet(f, S) \in Nat
<1>1. \A x \in S : f[x] \in Nat /\ e[x] \in Nat /\ f[x] = e[x]
  BY Zenon
<1>2. PICK g : Adds(g, f, S) /\ SumFunctionOnSet(f, S) = g[S]
  BY <1>1, SumAdds, Zenon
<1>3. PICK h : Adds(h, e, S) /\ SumFunctionOnSet(e, S) = h[S]
  BY <1>1, SumAdds, Zenon
<1>4. g[S] = h[S]
  BY <1>1, <1>2, <1>3, AddsSame
<1>5. g[S] \in Nat
  BY <1>2, Zenon DEF Adds
<1> QED
  BY <1>2, <1>3, <1>4, <1>5, Zenon

\* The sum over no element.
LEMMA SumNone ==
  ASSUME NEW f
  PROVE  SumFunctionOnSet(f, {}) = 0
<1>1. PICK g : Adds(g, f, {}) /\ SumFunctionOnSet(f, {}) = g[{}]
  BY SumAdds, FS_EmptySet, Zenon
<1> QED
  BY <1>1, Zenon DEF Adds

\* The sum over one element.
LEMMA SumOne ==
  ASSUME NEW S, IsFiniteSet(S), NEW x, x \notin S,
         NEW f, \A y \in S \cup {x} : f[y] \in Nat
  PROVE  SumFunctionOnSet(f, S \cup {x}) = f[x] + SumFunctionOnSet(f, S)
<1>1. PICK R : R = S \cup {x}
  BY Zenon
<1>2. IsFiniteSet(R) /\ S \subseteq R /\ x \in R \ S /\ \A y \in R : f[y] \in Nat
  BY <1>1, FS_AddElement, Zenon
<1>3. PICK g : Adds(g, f, R) /\ SumFunctionOnSet(f, R) = g[R]
  BY <1>2, SumAdds, Zenon
<1>4. PICK h : Adds(h, f, S) /\ SumFunctionOnSet(f, S) = h[S]
  BY SumAdds, Zenon
<1>5. h[S] = g[S]
  BY <1>2, <1>3, <1>4, AddsSame
<1>6. g[S \cup {x}] = f[x] + g[S]
  BY <1>2, <1>3, AddsOne
<1> QED
  BY <1>1, <1>3, <1>4, <1>5, <1>6, Zenon

\* What is taken away and what is left.
LEMMA SumSplit ==
  ASSUME NEW S, IsFiniteSet(S), NEW T \in SUBSET S, NEW f, \A x \in S : f[x] \in Nat
  PROVE  SumFunctionOnSet(f, S) = SumFunctionOnSet(f, T) + SumFunctionOnSet(f, S \ T)
<1>1. \A R \in SUBSET S : IsFiniteSet(R)
  BY FS_Subset, Zenon
<1>2. PICK sum : sum = [R \in SUBSET S |-> SumFunctionOnSet(f, R)]
  BY Zenon
<1>3. \A R \in SUBSET S : sum[R] = SumFunctionOnSet(f, R)
  BY <1>2, Zenon
<1>4. \A R \in SUBSET S : sum[R] \in Nat
  BY <1>1, <1>3, SumSame, Zenon
<1>5. sum[{}] = 0
  BY <1>3, SumNone, Zenon
<1>6. ASSUME NEW R \in SUBSET S, NEW x \in S, x \notin R
      PROVE  sum[R \cup {x}] = f[x] + sum[R]
  <2>1. (\A y \in R \cup {x} : f[y] \in Nat) /\ R \cup {x} \in SUBSET S
    BY Zenon
  <2>2. SumFunctionOnSet(f, R \cup {x}) = f[x] + SumFunctionOnSet(f, R)
    BY <1>1, <1>6, <2>1, SumOne, Zenon
  <2> QED
    BY <1>3, <2>1, <2>2, Zenon
<1> DEFINE Q == {R \in SUBSET (S \ T) : sum[T \cup R] = sum[T] + sum[R]}
<1>7. ASSUME NEW R \in SUBSET (S \ T), \A U \in SUBSET R : U # R => U \in Q PROVE R \in Q
  <2>1. CASE R = {}
    <3>1. T \cup R = T /\ sum[T] \in Nat
      BY <1>4, <2>1, Zenon
    <3> QED
      BY <1>5, <2>1, <3>1
  <2>2. CASE R # {}
    <3>1. PICK x \in R : TRUE
      BY <2>2, Zenon
    <3>2. PICK U : U = R \ {x}
      BY Zenon
    <3>3. U \in Q /\ U \in SUBSET S /\ x \in S /\ x \notin U /\ R = U \cup {x} /\ x \notin T \cup U
          /\ T \cup U \in SUBSET S /\ T \cup R = (T \cup U) \cup {x}
      BY <1>7, <3>1, <3>2, Zenon
    <3>4. sum[T \cup U] = sum[T] + sum[U]
      BY <3>3, Zenon
    <3>5. sum[R] = f[x] + sum[U]
      BY <1>6, <3>3, Zenon
    <3>6. sum[T \cup R] = f[x] + sum[T \cup U]
      BY <1>6, <3>3, Zenon
    <3>7. sum[T] \in Nat /\ sum[U] \in Nat /\ f[x] \in Nat
      BY <1>4, <3>3, Zenon
    <3> QED
      BY <3>4, <3>5, <3>6, <3>7
  <2> QED
    BY <2>1, <2>2, Zenon
<1>8. SUBSET (S \ T) \subseteq Q
  <2>1. PICK D : D = S \ T
    BY Zenon
  <2>2. IsFiniteSet(D)
    BY <1>1, <2>1, Zenon
  <2> HIDE DEF Q
  <2>3. \A R \in SUBSET D : (\A U \in SUBSET R : U # R => U \in Q) => R \in Q
    BY <1>7, <2>1, Zenon
  <2>4. SUBSET D \subseteq Q
    BY <2>2, <2>3, SubsetInduction, Zenon
  <2> QED
    BY <2>1, <2>4, Zenon
<1>9. T \cup (S \ T) = S /\ S \ T \in SUBSET S /\ S \in SUBSET S
  BY Zenon
<1> QED
  BY <1>3, <1>8, <1>9, Zenon

\* The n steps are taken one after the other, from a on.
StepByStep(f, D, a, n, step) ==
  f \in [0 .. n -> D] /\ f[0] = a /\ \A i \in 1 .. n : f[i] = step[i][f[i - 1]]

\* Steps that stay in a set can be taken one after the other.
LEMMA RunExists ==
  ASSUME NEW D, NEW a \in D, NEW n \in Nat, NEW step \in [1 .. n -> [D -> D]]
  PROVE  \E f : StepByStep(f, D, a, n, step)
<1> DEFINE IsRun(f, m) == f[0] = a /\ \A i \in 1 .. m : f[i] = step[i][f[i - 1]]
           S == {m \in Nat : m <= n => \E f \in [0 .. m -> D] : IsRun(f, m)}
<1>1. 0 \in S
  <2>1. [i \in 0 .. 0 |-> a] \in [0 .. 0 -> D] /\ IsRun([i \in 0 .. 0 |-> a], 0)
    OBVIOUS
  <2> QED
    BY <2>1, Zenon
<1>2. ASSUME NEW m \in Nat, m \in S PROVE m + 1 \in S
  <2> SUFFICES ASSUME m + 1 <= n PROVE \E f \in [0 .. m + 1 -> D] : IsRun(f, m + 1)
    OBVIOUS
  <2>1. PICK f \in [0 .. m -> D] : IsRun(f, m)
    BY <1>2
  <2> DEFINE g == [i \in 0 .. m + 1 |-> IF i = m + 1 THEN step[m + 1][f[m]] ELSE f[i]]
  <2>2. step[m + 1] \in [D -> D] /\ f[m] \in D
    BY <2>1
  <2>3. g \in [0 .. m + 1 -> D]
    BY <2>1, <2>2
  <2>4. g[0] = a
    BY <2>1
  <2>5. ASSUME NEW i \in 1 .. m + 1 PROVE g[i] = step[i][g[i - 1]]
    BY <2>1
  <2> HIDE DEF g
  <2> QED
    BY <2>3, <2>4, <2>5, Zenon
<1>3. n \in S
  <2> HIDE DEF S
  <2> QED
    BY <1>1, <1>2, SetInduction, Zenon
<1>4. PICK f \in [0 .. n -> D] : IsRun(f, n)
  BY <1>3
<1> QED
  BY <1>4, Zenon DEF StepByStep

\* What each step keeps holds after all of them.
LEMMA RunStays ==
  ASSUME NEW D, NEW n \in Nat, NEW f, f[0] \in D,
         \A i \in 1 .. n : f[i - 1] \in D => f[i] \in D
  PROVE  \A i \in 0 .. n : f[i] \in D
<1> DEFINE S == {m \in Nat : m <= n => f[m] \in D}
<1>1. 0 \in S
  BY Zenon
<1>2. ASSUME NEW m \in Nat, m \in S PROVE m + 1 \in S
  <2> SUFFICES ASSUME m + 1 <= n PROVE f[m + 1] \in D
    OBVIOUS
  <2>1. f[m] \in D /\ m + 1 \in 1 .. n /\ (m + 1) - 1 = m
    BY <1>2
  <2> QED
    BY <2>1, Zenon
<1>3. Nat \subseteq S
  <2> HIDE DEF S
  <2> QED
    BY <1>1, <1>2, SetInduction, Zenon
<1> QED
  BY <1>3

EntryFields(e) ==
  e = [result |-> e.result, tables |-> e.tables, size |-> e.size, created |-> e.created,
       accessed |-> e.accessed, by |-> e.by, db |-> e.db]

IsEntry(e) ==
  /\ EntryFields(e)
  /\ e.size \in Nat
  /\ e.db \in Databases
  /\ e.by \in Selects
  /\ e.tables = affectedTables(Rewritten[e.by])

HasFields(c) ==
  c = [entries |-> c.entries, byTable |-> c.byTable, memory |-> c.memory, enabled |-> c.enabled]

\* A query cache in which the map of tables leads to every entry, and which counts
\* its memory.
IsQueryCache(c) ==
  /\ HasFields(c)
  /\ c.entries = [k \in EntryKeys(c) |-> c.entries[k]]
  /\ IsFiniteSet(EntryKeys(c))
  /\ \A k \in EntryKeys(c) : IsEntry(c.entries[k])
  /\ \A k \in EntryKeys(c) : \A t \in c.entries[k].tables : k \in c.byTable[t]
  /\ c.memory = SizeOf(c, EntryKeys(c))

-----------------------------------------------------------------------------
\* The query cache.

\* The memory of entries that have the same sizes in two caches.
LEMMA SizeIs ==
  ASSUME NEW c, NEW n, NEW S, IsFiniteSet(S), S \subseteq EntryKeys(c), S \subseteq EntryKeys(n),
         \A k \in S : c.entries[k].size \in Nat /\ n.entries[k].size = c.entries[k].size
  PROVE  SizeOf(n, S) = SizeOf(c, S) /\ SizeOf(c, S) \in Nat
<1> DEFINE f == [k \in EntryKeys(c) |-> c.entries[k].size]
           e == [k \in EntryKeys(n) |-> n.entries[k].size]
<1>1. \A k \in S : f[k] \in Nat /\ f[k] = e[k]
  BY Zenon
<1>2. SizeOf(c, S) = SumFunctionOnSet(f, S) /\ SizeOf(n, S) = SumFunctionOnSet(e, S)
  BY Zenon DEF SizeOf
<1> HIDE DEF f, e
<1> QED
  BY <1>1, <1>2, SumSame, Zenon

\* The memory of entries is that of some and that of the others.
LEMMA SizeSplits ==
  ASSUME NEW c, NEW S, IsFiniteSet(S), S \subseteq EntryKeys(c), NEW T \in SUBSET S,
         \A k \in S : c.entries[k].size \in Nat
  PROVE  SizeOf(c, S) = SizeOf(c, T) + SizeOf(c, S \ T)
<1> DEFINE f == [k \in EntryKeys(c) |-> c.entries[k].size]
<1>1. \A k \in S : f[k] \in Nat
  BY Zenon
<1>2. \A R : SizeOf(c, R) = SumFunctionOnSet(f, R)
  BY Zenon DEF SizeOf
<1> HIDE DEF f
<1> QED
  BY <1>1, <1>2, SumSplit

\* The memory of one entry.
LEMMA SizeOfOne ==
  ASSUME NEW c, NEW S, IsFiniteSet(S), NEW x, x \notin S, S \cup {x} \subseteq EntryKeys(c),
         \A k \in S \cup {x} : c.entries[k].size \in Nat
  PROVE  SizeOf(c, S \cup {x}) = c.entries[x].size + SizeOf(c, S)
<1> DEFINE f == [k \in EntryKeys(c) |-> c.entries[k].size]
<1>1. \A k \in S \cup {x} : f[k] \in Nat /\ f[k] = c.entries[k].size
  BY Zenon
<1>2. \A R : SizeOf(c, R) = SumFunctionOnSet(f, R)
  BY Zenon DEF SizeOf
<1> HIDE DEF f
<1>3. SumFunctionOnSet(f, S \cup {x}) = f[x] + SumFunctionOnSet(f, S)
  BY <1>1, SumOne, Zenon
<1> QED
  BY <1>1, <1>2, <1>3, Zenon

\* An entry answers the same statement with the same result.
SameAnswer(a, b) == a.result = b.result /\ a.tables = b.tables /\ a.by = b.by /\ a.db = b.db

\* Nothing is added.
Shrinks(c, n) ==
  /\ IsQueryCache(n)
  /\ EntryKeys(n) \subseteq EntryKeys(c)
  /\ \A k \in EntryKeys(n) : SameAnswer(n.entries[k], c.entries[k])
  /\ n.memory <= c.memory /\ n.memory \in Nat /\ c.memory \in Nat
  /\ Cardinality(EntryKeys(n)) <= Cardinality(EntryKeys(c))

\* Entries leave the map of entries and the sum, and those that are left stay in
\* the map of tables.
Leave(c, n, gone) ==
  /\ HasFields(n)
  /\ n.entries = Restrict(c.entries, EntryKeys(c) \ gone)
  /\ n.memory = c.memory - SizeOf(c, gone)
  /\ \A k \in EntryKeys(c) \ gone : \A t \in c.entries[k].tables : k \in n.byTable[t]

\* The others are left as they were.
Left(c, n, gone) ==
  /\ Shrinks(c, n) /\ EntryKeys(n) = EntryKeys(c) \ gone /\ SizeOf(c, gone) \in Nat
  /\ \A k \in EntryKeys(n) : n.entries[k] = c.entries[k]

\* A cache that entries leave is a smaller cache, whose memory is still exact.
LEMMA FewerEntries ==
  ASSUME NEW c, IsQueryCache(c), NEW gone, gone \subseteq EntryKeys(c), NEW n, Leave(c, n, gone)
  PROVE  Left(c, n, gone)
<1>1. PICK S : S = EntryKeys(c) \ gone
  BY Zenon
<1>2. /\ n.entries = Restrict(c.entries, S) /\ HasFields(n) /\ n.memory = c.memory - SizeOf(c, gone)
      /\ \A k \in S : \A t \in c.entries[k].tables : k \in n.byTable[t]
  BY <1>1, Zenon DEF Leave
<1>3. EntryKeys(n) = S /\ \A k \in S : n.entries[k] = c.entries[k]
  BY <1>1, <1>2, Zenon DEF Restrict, EntryKeys
<1>4. n.entries = [k \in EntryKeys(n) |-> n.entries[k]]
  BY <1>2, <1>3, Zenon DEF Restrict
<1>5. /\ IsFiniteSet(EntryKeys(c)) /\ \A k \in EntryKeys(c) : IsEntry(c.entries[k]) /\ c.entries[k].size \in Nat
      /\ c.memory = SizeOf(c, EntryKeys(c))
  BY Zenon DEF IsQueryCache, IsEntry
<1>6. /\ IsFiniteSet(S) /\ IsFiniteSet(gone) /\ S \subseteq EntryKeys(c) /\ EntryKeys(c) \ S = gone
      /\ Cardinality(S) <= Cardinality(EntryKeys(c))
  <2>1. S \in SUBSET EntryKeys(c) /\ EntryKeys(c) \ S = gone
    BY <1>1, Zenon
  <2> QED
    BY <1>5, <2>1, FS_Subset, Zenon
<1>7. SizeOf(n, S) = SizeOf(c, S) /\ SizeOf(c, S) \in Nat
  <2>1. /\ S \subseteq EntryKeys(n)
        /\ \A k \in S : c.entries[k].size \in Nat /\ n.entries[k].size = c.entries[k].size
    BY <1>3, <1>5, <1>6, Zenon
  <2> QED
    BY <1>6, <2>1, SizeIs, Zenon
<1>8. SizeOf(c, gone) \in Nat
  BY <1>5, <1>6, SizeIs, Zenon
<1>9. SizeOf(c, EntryKeys(c)) = SizeOf(c, gone) + SizeOf(c, S)
  BY <1>1, <1>5, <1>6, SizeSplits
<1>10. n.memory = SizeOf(n, EntryKeys(n)) /\ n.memory \in Nat /\ c.memory \in Nat /\ n.memory <= c.memory
  BY <1>2, <1>3, <1>5, <1>7, <1>8, <1>9
<1>11. IsFiniteSet(EntryKeys(n)) /\ \A k \in EntryKeys(n) : IsEntry(n.entries[k])
  BY <1>3, <1>5, <1>6, Zenon
<1>12. \A k \in EntryKeys(n) : \A t \in n.entries[k].tables : k \in n.byTable[t]
  BY <1>2, <1>3, Zenon
<1>13. IsQueryCache(n)
  BY <1>2, <1>4, <1>10, <1>11, <1>12, Zenon DEF IsQueryCache
<1>14. \A k \in EntryKeys(n) : SameAnswer(n.entries[k], c.entries[k])
  BY <1>3, Zenon DEF SameAnswer
<1> QED
  BY <1>1, <1>3, <1>6, <1>8, <1>10, <1>13, <1>14, Zenon DEF Shrinks, Left

\* Statements name tables.
LEMMA ReadsNames ==
  ASSUME NEW stmt \in Selects
  PROVE  affectedTables(Rewritten[stmt]) \subseteq TableNames
<1>1. PICK q : q = Rewrite(stmt)
  BY Zenon
<1>2. Rewritten[stmt] = q
  BY <1>1, Zenon DEF Rewritten
<1>3. q.from \in TableNames /\ \A i \in DOMAIN q.joins : q.joins[i].right \in TableNames
  BY <1>1, SelectAssumption, Zenon
<1> QED
  BY <1>2, <1>3, Zenon DEF affectedTables

\* Entries that are evicted leave the cache.
LEMMA ForgetIs ==
  ASSUME NEW c, IsQueryCache(c), NEW gone, gone \subseteq EntryKeys(c), NEW n, n = Forget(c, gone)
  PROVE  Left(c, n, gone) /\ n.enabled = c.enabled /\ n.memory = c.memory - SizeOf(c, gone)
<1>1. /\ HasFields(n)
      /\ n.entries = Restrict(c.entries, EntryKeys(c) \ gone)
      /\ n.byTable = [t \in TableNames |-> c.byTable[t] \ {k \in gone : t \in c.entries[k].tables}]
      /\ n.memory = c.memory - SizeOf(c, gone)
      /\ n.enabled = c.enabled
  BY Zenon DEF Forget, HasFields
<1>2. \A k \in EntryKeys(c) : c.entries[k].tables \subseteq TableNames
  BY ReadsNames, Zenon DEF IsQueryCache, IsEntry
<1>3. \A k \in EntryKeys(c) \ gone : \A t \in c.entries[k].tables : k \in n.byTable[t]
  BY <1>1, <1>2, Zenon DEF IsQueryCache
<1>4. Leave(c, n, gone)
  BY <1>1, <1>3, Zenon DEF Leave
<1>5. Left(c, n, gone)
  BY <1>4, FewerEntries, Zenon
<1> QED
  BY <1>1, <1>5, Zenon

\* invalidateTable: every entry that reads the table under this name has gone.
NoneReads(c, n, name) ==
  \A k \in EntryKeys(n) : n.entries[k] = c.entries[k] /\ name \notin n.entries[k].tables

\* invalidateTable leaves none of the entries that read the table.
LEMMA WithoutTableIs ==
  ASSUME NEW c, IsQueryCache(c), NEW name \in TableNames, NEW n, n = WithoutTable(c, name)
  PROVE  Shrinks(c, n) /\ n.enabled = c.enabled /\ NoneReads(c, n, name)
<1>1. PICK gone : gone = c.byTable[name] \cap EntryKeys(c)
  BY Zenon
<1>2. gone \subseteq EntryKeys(c) /\ EntryKeys(c) \ c.byTable[name] = EntryKeys(c) \ gone
  BY <1>1, Zenon
<1>3. /\ HasFields(n)
      /\ n.entries = Restrict(c.entries, EntryKeys(c) \ c.byTable[name])
      /\ n.byTable = [t \in TableNames |-> c.byTable[t] \ c.byTable[name]]
      /\ n.memory = c.memory - SizeOf(c, gone)
      /\ n.enabled = c.enabled
  BY <1>1, Zenon DEF WithoutTable, HasFields
<1>4. n.entries = Restrict(c.entries, EntryKeys(c) \ gone)
  BY <1>2, <1>3, Zenon
<1>5. \A k \in EntryKeys(c) : c.entries[k].tables \subseteq TableNames
  BY ReadsNames, Zenon DEF IsQueryCache, IsEntry
<1>6. \A k \in EntryKeys(c) : \A t \in c.entries[k].tables : k \in c.byTable[t]
  BY Zenon DEF IsQueryCache
<1>7. \A k \in EntryKeys(c) \ gone : \A t \in c.entries[k].tables : k \in n.byTable[t]
  BY <1>1, <1>3, <1>5, <1>6
<1>8. /\ Shrinks(c, n) /\ EntryKeys(n) = EntryKeys(c) \ gone
      /\ \A k \in EntryKeys(n) : n.entries[k] = c.entries[k]
  <2>1. Leave(c, n, gone)
    BY <1>3, <1>4, <1>7, Zenon DEF Leave
  <2>2. Left(c, n, gone)
    BY <1>2, <2>1, FewerEntries, Zenon
  <2> QED
    BY <2>2, Zenon DEF Left
<1>9. \A k \in EntryKeys(n) : name \notin n.entries[k].tables
  BY <1>1, <1>6, <1>8, Zenon
<1> QED
  BY <1>3, <1>8, <1>9, Zenon DEF NoneReads

\* clear leaves nothing.
LEMMA ClearedIs ==
  ASSUME NEW c, NEW n, n = Cleared(c)
  PROVE  IsQueryCache(n) /\ EntryKeys(n) = {} /\ n.memory = 0
<1>1. PICK b : b = [t \in TableNames |-> {}]
  BY Zenon
<1>2. NoQueries = [entries |-> << >>, byTable |-> b, memory |-> 0, enabled |-> TRUE]
  BY <1>1, Zenon DEF NoQueries
<1>3. HasFields(n) /\ n.entries = << >> /\ n.memory = 0
  BY <1>2, Zenon DEF Cleared, HasFields
<1>4. EntryKeys(n) = {}
  BY <1>3 DEF EntryKeys
<1>5. n.entries = [k \in EntryKeys(n) |-> n.entries[k]]
  BY <1>3, <1>4
<1>6. SizeOf(n, EntryKeys(n)) = 0
  BY <1>4, SumNone, Zenon DEF SizeOf
<1> QED
  BY <1>3, <1>4, <1>5, <1>6, FS_EmptySet, Zenon DEF IsQueryCache

\* The cache at the start is in order.
LEMMA NothingQueried ==
  IsQueryCache(NoQueries) /\ EntryKeys(NoQueries) = {} /\ NoQueries.memory = 0
<1>1. PICK b : b = [t \in TableNames |-> {}]
  BY Zenon
<1>2. NoQueries = [entries |-> << >>, byTable |-> b, memory |-> 0, enabled |-> TRUE]
  BY <1>1, Zenon DEF NoQueries
<1>3. HasFields(NoQueries) /\ NoQueries.entries = << >> /\ NoQueries.memory = 0
  BY <1>2, Zenon DEF HasFields
<1>4. EntryKeys(NoQueries) = {}
  BY <1>3 DEF EntryKeys
<1>5. NoQueries.entries = [k \in EntryKeys(NoQueries) |-> NoQueries.entries[k]]
  BY <1>3, <1>4
<1>6. SizeOf(NoQueries, EntryKeys(NoQueries)) = 0
  BY <1>4, SumNone, Zenon DEF SizeOf
<1> QED
  BY <1>3, <1>4, <1>5, <1>6, FS_EmptySet, Zenon DEF IsQueryCache

\* setQueryCacheEnabled leaves the entries alone.
Switched(c, n, enabled) == n = [c EXCEPT !.enabled = enabled]

\* Switching the cache on or off leaves it in order.
LEMMA SwitchedIs ==
  ASSUME NEW c, IsQueryCache(c), NEW enabled, NEW n, Switched(c, n, enabled)
  PROVE  IsQueryCache(n) /\ n.entries = c.entries /\ n.memory = c.memory
<1>1. /\ HasFields(n) /\ n.entries = c.entries /\ n.byTable = c.byTable /\ n.memory = c.memory
  BY Zenon DEF IsQueryCache, HasFields, Switched
<1>2. EntryKeys(n) = EntryKeys(c) /\ SizeOf(n, EntryKeys(n)) = SizeOf(c, EntryKeys(c))
  <2>1. EntryKeys(n) = EntryKeys(c)
    BY <1>1, Zenon DEF EntryKeys
  <2>2. IsFiniteSet(EntryKeys(c)) /\ \A k \in EntryKeys(c) : c.entries[k].size \in Nat
    BY Zenon DEF IsQueryCache, IsEntry
  <2>3. \A k \in EntryKeys(c) : n.entries[k].size = c.entries[k].size
    BY <1>1, Zenon
  <2>4. PICK S : S = EntryKeys(c)
    BY Zenon
  <2>5. /\ IsFiniteSet(S) /\ S \subseteq EntryKeys(c) /\ S \subseteq EntryKeys(n)
        /\ \A k \in S : c.entries[k].size \in Nat /\ n.entries[k].size = c.entries[k].size
    BY <2>1, <2>2, <2>3, <2>4, Zenon
  <2>6. SizeOf(n, S) = SizeOf(c, S)
    BY <2>5, SizeIs, Zenon
  <2> QED
    BY <2>1, <2>4, <2>6, Zenon
<1>3. /\ n.entries = [k \in EntryKeys(n) |-> n.entries[k]]
      /\ IsFiniteSet(EntryKeys(n))
      /\ \A k \in EntryKeys(n) : IsEntry(n.entries[k])
      /\ \A k \in EntryKeys(n) : \A t \in n.entries[k].tables : k \in n.byTable[t]
      /\ n.memory = SizeOf(n, EntryKeys(n))
  BY <1>1, <1>2, Zenon DEF IsQueryCache
<1>4. IsQueryCache(n)
  BY <1>1, <1>3, Zenon DEF IsQueryCache
<1> QED
  BY <1>1, <1>4, Zenon

\* A cache that stays as it is.
LEMMA Itself ==
  ASSUME NEW c, IsQueryCache(c)
  PROVE  Shrinks(c, c) /\ Cardinality(EntryKeys(c)) \in Nat
<1>1. PICK S : S = EntryKeys(c)
  BY Zenon
<1>2. /\ IsFiniteSet(S) /\ S \subseteq EntryKeys(c) /\ c.memory = SizeOf(c, S)
      /\ \A k \in S : c.entries[k].size \in Nat /\ c.entries[k].size = c.entries[k].size
  BY <1>1, Zenon DEF IsQueryCache, IsEntry
<1>3. c.memory \in Nat
  BY <1>2, SizeIs, Zenon
<1>4. Cardinality(S) \in Nat
  BY <1>2, FS_CardinalityType, Zenon
<1>5. c.memory <= c.memory /\ Cardinality(S) <= Cardinality(S)
  BY <1>3, <1>4
<1> QED
  BY <1>1, <1>3, <1>4, <1>5, Zenon DEF Shrinks, SameAnswer

\* A cache that shrinks twice has shrunk.
LEMMA ShrinksAgain ==
  ASSUME NEW c, NEW d, NEW e, Shrinks(c, d), Shrinks(d, e), IsQueryCache(c)
  PROVE  Shrinks(c, e)
<1>1. /\ c.memory \in Nat /\ d.memory \in Nat /\ e.memory \in Nat
      /\ Cardinality(EntryKeys(c)) \in Nat /\ Cardinality(EntryKeys(d)) \in Nat
      /\ Cardinality(EntryKeys(e)) \in Nat
  BY Itself, Zenon DEF Shrinks
<1>2. e.memory <= c.memory /\ Cardinality(EntryKeys(e)) <= Cardinality(EntryKeys(c))
  BY <1>1 DEF Shrinks
<1>3. /\ EntryKeys(e) \subseteq EntryKeys(c)
      /\ \A k \in EntryKeys(e) : SameAnswer(e.entries[k], c.entries[k])
  BY Zenon DEF Shrinks, SameAnswer
<1> QED
  BY <1>1, <1>2, <1>3, Zenon DEF Shrinks

\* The entry that get returns changes the time of its last use only.
Touched(c, n, key, time) == n = [c EXCEPT !.entries[key].accessed = time]

\* An entry that is used is in order, and answers what it did.
LEMMA TouchedIs ==
  ASSUME NEW c, IsQueryCache(c), NEW key \in EntryKeys(c), NEW time, NEW n, Touched(c, n, key, time)
  PROVE  Shrinks(c, n) /\ n.enabled = c.enabled
<1>1. PICK touched : touched = [c.entries[key] EXCEPT !.accessed = time]
  BY Zenon
<1>2. /\ HasFields(n) /\ n.entries = [c.entries EXCEPT ![key] = touched]
      /\ n.byTable = c.byTable /\ n.memory = c.memory /\ n.enabled = c.enabled
  BY <1>1, Zenon DEF IsQueryCache, HasFields, Touched
<1>3. /\ EntryKeys(n) = EntryKeys(c)
      /\ n.entries = [k \in EntryKeys(n) |-> n.entries[k]]
      /\ n.entries[key] = touched
      /\ \A k \in EntryKeys(c) : k # key => n.entries[k] = c.entries[k]
  BY <1>2, Zenon DEF IsQueryCache, EntryKeys
<1>4. IsEntry(touched) /\ SameAnswer(touched, c.entries[key]) /\ touched.size = c.entries[key].size
  <2>1. PICK e : e = c.entries[key]
    BY Zenon
  <2>2. IsEntry(e) /\ touched = [e EXCEPT !.accessed = time]
    BY <1>1, <2>1, Zenon DEF IsQueryCache
  <2>3. /\ EntryFields(touched) /\ touched.result = e.result /\ touched.tables = e.tables
        /\ touched.size = e.size /\ touched.by = e.by /\ touched.db = e.db
    BY <2>2, Zenon DEF IsEntry, EntryFields
  <2> QED
    BY <2>1, <2>2, <2>3, Zenon DEF IsEntry, SameAnswer
<1>5. \A k \in EntryKeys(c) :
        /\ IsEntry(c.entries[k]) /\ IsEntry(n.entries[k])
        /\ SameAnswer(n.entries[k], c.entries[k])
        /\ n.entries[k].size = c.entries[k].size /\ c.entries[k].size \in Nat
  <2>1. \A k \in EntryKeys(c) : IsEntry(c.entries[k]) /\ c.entries[k].size \in Nat
    BY Zenon DEF IsQueryCache, IsEntry
  <2> QED
    BY <1>3, <1>4, <2>1, Zenon DEF SameAnswer
<1>6. SizeOf(n, EntryKeys(n)) = SizeOf(c, EntryKeys(c))
  <2>1. PICK S : S = EntryKeys(c)
    BY Zenon
  <2>2. /\ IsFiniteSet(S) /\ S \subseteq EntryKeys(c) /\ S \subseteq EntryKeys(n)
        /\ \A k \in S : c.entries[k].size \in Nat /\ n.entries[k].size = c.entries[k].size
    BY <1>3, <1>5, <2>1, Zenon DEF IsQueryCache
  <2>3. SizeOf(n, S) = SizeOf(c, S)
    BY <2>2, SizeIs, Zenon
  <2> QED
    BY <1>3, <2>1, <2>3, Zenon
<1>7. \A k \in EntryKeys(n) : \A t \in n.entries[k].tables : k \in n.byTable[t]
  BY <1>2, <1>3, <1>5, Zenon DEF SameAnswer, IsQueryCache
<1>8. IsFiniteSet(EntryKeys(n)) /\ n.memory = SizeOf(n, EntryKeys(n))
  BY <1>2, <1>3, <1>6, Zenon DEF IsQueryCache
<1>9. IsQueryCache(n)
  <2>1. \A k \in EntryKeys(n) : IsEntry(n.entries[k])
    BY <1>3, <1>5, Zenon
  <2>2. HasFields(n)
    BY <1>2, Zenon
  <2> QED
    BY <1>3, <1>7, <1>8, <2>1, <2>2, Zenon DEF IsQueryCache
<1>10. Shrinks(c, c)
  BY Itself, Zenon
<1>11. /\ n.memory <= c.memory /\ n.memory \in Nat /\ c.memory \in Nat
       /\ Cardinality(EntryKeys(n)) <= Cardinality(EntryKeys(c))
       /\ EntryKeys(n) \subseteq EntryKeys(c)
  BY <1>2, <1>3, <1>10, Zenon DEF Shrinks
<1>12. \A k \in EntryKeys(n) : SameAnswer(n.entries[k], c.entries[k])
  BY <1>3, <1>5, Zenon
<1> QED
  BY <1>2, <1>9, <1>11, <1>12, Zenon DEF Shrinks

\* get adds nothing, and leaves no entry that it did not return.
LEMMA AfterGetIs ==
  ASSUME NEW c, IsQueryCache(c), NEW key, NEW time, NEW n, n = AfterGet(c, key, time)
  PROVE  /\ Shrinks(c, n) /\ n.enabled = c.enabled
         /\ ~Hit(c, key, time) => (c.enabled => key \notin EntryKeys(n))
<1>1. CASE Hit(c, key, time)
  <2>1. Touched(c, n, key, time) /\ key \in EntryKeys(c)
    BY <1>1, Zenon DEF AfterGet, Hit, Touched
  <2> QED
    BY <1>1, <2>1, TouchedIs, Zenon
<1>2. CASE ~Hit(c, key, time) /\ c.enabled /\ key \in EntryKeys(c)
  <2>1. PICK gone : gone = {key}
    BY Zenon
  <2>2. n = Forget(c, gone) /\ gone \subseteq EntryKeys(c)
    <3>1. isExpired(c.entries[key], time)
      BY <1>2, Zenon DEF Hit
    <3>2. n = Forget(c, {key})
      BY <1>2, <3>1, Zenon DEF AfterGet
    <3> QED
      BY <1>2, <2>1, <3>2
  <2>3. Left(c, n, gone) /\ n.enabled = c.enabled
    BY <2>2, ForgetIs, Zenon
  <2> QED
    BY <1>2, <2>1, <2>3, Zenon DEF Left
<1>3. CASE ~Hit(c, key, time) /\ ~(c.enabled /\ key \in EntryKeys(c))
  <2>1. n = c
    BY <1>3, Zenon DEF AfterGet
  <2> QED
    BY <1>3, <2>1, Itself, Zenon
<1> QED
  BY <1>1, <1>2, <1>3, Zenon

\* Evicting entries for the memory that is required frees it, or all of it.
LEMMA EvictedForMemory ==
  ASSUME NEW c, IsQueryCache(c), NEW required \in Nat, NEW n \in evictToFreeMemory(c, required)
  PROVE  /\ Shrinks(c, n) /\ n.enabled = c.enabled
         /\ n.memory = 0 \/ n.memory + required <= c.memory
<1>1. PICK gone \in Evictions(c) :
        n = Forget(c, gone) /\ (gone = EntryKeys(c) \/ SizeOf(c, gone) >= required)
  BY Zenon DEF evictToFreeMemory
<1>2. gone \subseteq EntryKeys(c)
  BY <1>1, Zenon DEF Evictions
<1>3. Left(c, n, gone) /\ n.enabled = c.enabled /\ n.memory = c.memory - SizeOf(c, gone)
  BY <1>1, <1>2, ForgetIs, Zenon
<1>4. Shrinks(c, n) /\ SizeOf(c, gone) \in Nat /\ c.memory \in Nat
  BY <1>3, Zenon DEF Left, Shrinks
<1>5. ASSUME gone = EntryKeys(c) PROVE n.memory = 0
  BY <1>3, <1>4, <1>5 DEF IsQueryCache
<1>6. ASSUME SizeOf(c, gone) >= required PROVE n.memory + required <= c.memory
  BY <1>3, <1>4, <1>6
<1> QED
  BY <1>1, <1>3, <1>4, <1>5, <1>6, Zenon

\* There is room for one more entry.
LEMMA EvictedForEntry ==
  ASSUME NEW c, IsQueryCache(c), NEW n \in evictToCount(c)
  PROVE  /\ Shrinks(c, n) /\ n.enabled = c.enabled
         /\ Cardinality(EntryKeys(n)) + 1 <= maxEntries
<1>1. PICK count : count = Cardinality(EntryKeys(c))
  BY Zenon
<1>2. count \in Nat /\ Shrinks(c, c) /\ maxEntries \in Nat
  BY <1>1, Itself, QueryCacheAssumption, Zenon
<1>3. CASE count < maxEntries
  <2>1. n = c
    BY <1>1, <1>3, Zenon DEF evictToCount
  <2>2. Cardinality(EntryKeys(n)) + 1 <= maxEntries
    BY <1>1, <1>2, <1>3, <2>1
  <2> QED
    BY <1>2, <2>1, <2>2, Zenon
<1>4. CASE ~(count < maxEntries)
  <2>1. n \in {Forget(c, gone) : gone \in {g \in Evictions(c) : Cardinality(g) = count + 1 - maxEntries}}
    BY <1>1, <1>4, Zenon DEF evictToCount
  <2>2. PICK gone \in Evictions(c) : n = Forget(c, gone) /\ Cardinality(gone) = count + 1 - maxEntries
    BY <2>1, Zenon
  <2>3. gone \subseteq EntryKeys(c)
    BY <2>2, Zenon DEF Evictions
  <2>4. Left(c, n, gone) /\ n.enabled = c.enabled
    BY <2>2, <2>3, ForgetIs, Zenon
  <2>5. IsFiniteSet(EntryKeys(c))
    BY Zenon DEF IsQueryCache
  <2>6. EntryKeys(n) = EntryKeys(c) \ gone /\ EntryKeys(c) \cap gone = gone
    BY <2>3, <2>4, Zenon DEF Left
  <2>7. Cardinality(EntryKeys(n)) = count - Cardinality(gone)
    BY <1>1, <2>5, <2>6, FS_Difference, Zenon
  <2>8. Cardinality(EntryKeys(n)) + 1 <= maxEntries
    BY <1>2, <2>2, <2>7
  <2> QED
    BY <2>4, <2>8, Zenon DEF Left
<1> QED
  BY <1>3, <1>4, Zenon

\* A new entry is found under its tables and counted.
LEMMA ExtendedIs ==
  ASSUME NEW c, IsQueryCache(c), NEW key, key \notin EntryKeys(c), NEW entry, IsEntry(entry),
         NEW n, n = Extended(c, key, entry)
  PROVE  /\ IsQueryCache(n) /\ EntryKeys(n) = EntryKeys(c) \cup {key}
         /\ n.memory = c.memory + entry.size
         /\ Cardinality(EntryKeys(n)) = Cardinality(EntryKeys(c)) + 1
         /\ n.entries[key] = entry /\ \A k \in EntryKeys(c) : n.entries[k] = c.entries[k]
<1>1. PICK S : S = EntryKeys(c) \cup {key}
  BY Zenon
<1>2. /\ HasFields(n)
      /\ n.entries = [k \in S |-> IF k = key THEN entry ELSE c.entries[k]]
      /\ n.byTable = [t \in TableNames |->
                        IF t \in entry.tables THEN c.byTable[t] \cup {key} ELSE c.byTable[t]]
      /\ n.memory = c.memory + entry.size
  BY <1>1, Zenon DEF Extended, HasFields
<1>3. /\ EntryKeys(n) = S /\ n.entries[key] = entry
      /\ \A k \in EntryKeys(c) : n.entries[k] = c.entries[k]
  BY <1>1, <1>2, Zenon DEF EntryKeys
<1>4. n.entries = [k \in EntryKeys(n) |-> n.entries[k]]
  BY <1>2, <1>3, Zenon
<1>5. /\ IsFiniteSet(EntryKeys(c)) /\ \A k \in EntryKeys(c) : IsEntry(c.entries[k])
      /\ \A k \in EntryKeys(c) : \A t \in c.entries[k].tables : k \in c.byTable[t]
      /\ c.memory = SizeOf(c, EntryKeys(c))
  BY Zenon DEF IsQueryCache
<1>6. \A k \in S : IsEntry(n.entries[k])
  BY <1>1, <1>3, <1>5, Zenon
<1>7. \A k \in S : n.entries[k].tables \subseteq TableNames
  BY <1>6, ReadsNames, Zenon DEF IsEntry
<1>8. \A k \in S : \A t \in n.entries[k].tables : k \in n.byTable[t]
  <2>1. \A k \in EntryKeys(c) : \A t \in n.entries[k].tables : k \in c.byTable[t]
    BY <1>3, <1>5, Zenon
  <2>2. \A t \in TableNames : c.byTable[t] \subseteq n.byTable[t] /\ (t \in entry.tables => key \in n.byTable[t])
    BY <1>2, Zenon
  <2> QED
    BY <1>1, <1>3, <1>7, <2>1, <2>2
<1>9. IsFiniteSet(S) /\ Cardinality(S) = Cardinality(EntryKeys(c)) + 1
  BY <1>1, <1>5, FS_AddElement
<1>10. PICK T : T = EntryKeys(c)
  BY Zenon
<1>11. SizeOf(n, S) = entry.size + SizeOf(n, T) /\ SizeOf(n, T) = SizeOf(c, T) /\ SizeOf(c, T) \in Nat
  <2>1. /\ IsFiniteSet(T) /\ key \notin T /\ T \cup {key} \subseteq EntryKeys(n) /\ S = T \cup {key}
        /\ T \subseteq EntryKeys(c) /\ T \subseteq EntryKeys(n)
    BY <1>1, <1>3, <1>5, <1>10
  <2>2. \A k \in T \cup {key} : n.entries[k].size \in Nat
    BY <1>6, <2>1, Zenon DEF IsEntry
  <2>3. \A k \in T : c.entries[k].size \in Nat /\ n.entries[k].size = c.entries[k].size
    BY <1>3, <1>5, <2>1, Zenon DEF IsEntry
  <2>4. SizeOf(n, T \cup {key}) = n.entries[key].size + SizeOf(n, T)
    BY <2>1, <2>2, SizeOfOne, Zenon
  <2>5. SizeOf(n, T) = SizeOf(c, T) /\ SizeOf(c, T) \in Nat
    BY <2>1, <2>3, SizeIs, Zenon
  <2> QED
    BY <1>3, <2>1, <2>4, <2>5, Zenon
<1>12. entry.size \in Nat
  BY Zenon DEF IsEntry
<1>13. n.memory = SizeOf(n, S)
  BY <1>2, <1>5, <1>10, <1>11, <1>12
<1>14. IsQueryCache(n)
  BY <1>2, <1>3, <1>4, <1>6, <1>8, <1>9, <1>13, Zenon DEF IsQueryCache
<1> QED
  BY <1>1, <1>2, <1>3, <1>9, <1>14, Zenon

\* put, of what get did not return: the other entries answer what they answered.
Put(c, n, key, entry) ==
  /\ IsQueryCache(n) /\ n.memory <= maxMemory /\ Cardinality(EntryKeys(n)) <= maxEntries
  /\ \A k \in EntryKeys(n) :
       \/ k = key /\ c.enabled /\ SameAnswer(n.entries[k], entry)
       \/ ~(k = key /\ c.enabled) /\ k \in EntryKeys(c) /\ SameAnswer(n.entries[k], c.entries[k])

\* A put that stores nothing only evicts.
LEMMA PutShrunk ==
  ASSUME NEW c, IsQueryCache(c), c.memory <= maxMemory, Cardinality(EntryKeys(c)) <= maxEntries,
         NEW n, Shrinks(c, n), NEW key, NEW entry, c.enabled => key \notin EntryKeys(n)
  PROVE  Put(c, n, key, entry)
<1>1. /\ Cardinality(EntryKeys(n)) \in Nat /\ Cardinality(EntryKeys(c)) \in Nat
      /\ n.memory \in Nat /\ c.memory \in Nat
  BY Itself, Zenon DEF Shrinks
<1>2. n.memory <= maxMemory /\ Cardinality(EntryKeys(n)) <= maxEntries
  BY <1>1, QueryCacheAssumption DEF Shrinks
<1>3. \A k \in EntryKeys(n) :
        ~(k = key /\ c.enabled) /\ k \in EntryKeys(c) /\ SameAnswer(n.entries[k], c.entries[k])
  BY Zenon DEF Shrinks
<1> QED
  BY <1>2, <1>3, Zenon DEF Put, Shrinks

\* put keeps the limits, whatever it evicts, and adds nothing but its entry.
LEMMA AfterPutIs ==
  ASSUME NEW c, IsQueryCache(c), c.memory <= maxMemory, Cardinality(EntryKeys(c)) <= maxEntries,
         NEW key, c.enabled => key \notin EntryKeys(c),
         NEW entry, entry.size \in Nat => IsEntry(entry),
         NEW n \in AfterPut(c, key, entry)
  PROVE  Put(c, n, key, entry)
<1>1. CASE ~Takes(c, entry)
  <2>1. n = c
    BY <1>1, Zenon DEF AfterPut
  <2> QED
    <3>1. Shrinks(c, n) /\ (c.enabled => key \notin EntryKeys(n))
      BY <2>1, Itself, Zenon
    <3> QED
      BY <3>1, PutShrunk, Zenon
<1>2. CASE Takes(c, entry)
  <2>1. c.enabled /\ key \notin EntryKeys(c)
    BY <1>2, Zenon DEF Takes
  <2>2. entry.size \in Nat /\ entry.size <= maxMemory /\ maxMemory \in Nat /\ maxEntries \in Nat
    BY <1>2, QueryCacheAssumption DEF Takes
  <2>3. PICK freed : /\ freed = (IF c.memory + entry.size > maxMemory
                                 THEN evictToFreeMemory(c, entry.size) ELSE {c})
                     /\ \E f \in freed : \E e \in evictToCount(f) : n = Extended(e, key, entry)
    <3> DEFINE free == IF c.memory + entry.size > maxMemory
                       THEN evictToFreeMemory(c, entry.size) ELSE {c}
    <3>1. n \in {Extended(e, key, entry) : e \in UNION {evictToCount(f) : f \in free}}
      BY <1>2, <2>1, Zenon DEF AfterPut
    <3> HIDE DEF free
    <3>2. \E f \in free : \E e \in evictToCount(f) : n = Extended(e, key, entry)
      BY <3>1, Zenon
    <3> QED
      BY <3>2, Zenon DEF free
  <2>4. PICK f \in freed : \E e \in evictToCount(f) : n = Extended(e, key, entry)
    BY <2>3, Zenon
  <2>5. PICK e \in evictToCount(f) : n = Extended(e, key, entry)
    BY <2>4, Zenon
  <2>6. c.memory \in Nat /\ Shrinks(c, c)
    BY Itself, Zenon DEF Shrinks
  <2>7. Shrinks(c, f) /\ f.memory + entry.size <= maxMemory
    <3>1. CASE c.memory + entry.size > maxMemory
      <4>1. f \in evictToFreeMemory(c, entry.size)
        BY <2>3, <2>4, <3>1, Zenon
      <4>2. Shrinks(c, f) /\ (f.memory = 0 \/ f.memory + entry.size <= c.memory)
        BY <2>2, <4>1, EvictedForMemory, Zenon
      <4>3. f.memory \in Nat
        BY <4>2, Zenon DEF Shrinks
      <4>4. f.memory + entry.size <= maxMemory
        BY <2>2, <2>6, <4>2, <4>3
      <4> QED
        BY <4>2, <4>4, Zenon
    <3>2. CASE ~(c.memory + entry.size > maxMemory)
      <4>1. f = c
        BY <2>3, <2>4, <3>2, Zenon
      <4>2. f.memory + entry.size <= maxMemory
        BY <2>2, <2>6, <3>2, <4>1
      <4> QED
        BY <2>6, <4>1, <4>2, Zenon
    <3> QED
      BY <3>1, <3>2, Zenon
  <2>8. IsQueryCache(f) /\ f.memory \in Nat
    BY <2>7, Zenon DEF Shrinks
  <2>9. Shrinks(f, e) /\ Cardinality(EntryKeys(e)) + 1 <= maxEntries
    BY <2>5, <2>8, EvictedForEntry, Zenon
  <2>10. Shrinks(c, e)
    BY <2>7, <2>9, ShrinksAgain, Zenon
  <2>11. IsQueryCache(e) /\ EntryKeys(e) \subseteq EntryKeys(c) /\ e.memory \in Nat /\ e.memory <= f.memory
    BY <2>9, <2>10, Zenon DEF Shrinks
  <2>12. IsEntry(entry) /\ key \notin EntryKeys(e)
    BY <2>1, <2>2, <2>11, Zenon
  <2>13. /\ IsQueryCache(n) /\ EntryKeys(n) = EntryKeys(e) \cup {key}
         /\ n.memory = e.memory + entry.size
         /\ Cardinality(EntryKeys(n)) = Cardinality(EntryKeys(e)) + 1
         /\ n.entries[key] = entry /\ \A k \in EntryKeys(e) : n.entries[k] = e.entries[k]
    BY <2>5, <2>11, <2>12, ExtendedIs
  <2>14. n.memory <= maxMemory /\ Cardinality(EntryKeys(n)) <= maxEntries
    BY <2>2, <2>7, <2>8, <2>9, <2>11, <2>13
  <2>15. ASSUME NEW k \in EntryKeys(n)
         PROVE  \/ k = key /\ c.enabled /\ SameAnswer(n.entries[k], entry)
                \/ ~(k = key /\ c.enabled) /\ k \in EntryKeys(c) /\ SameAnswer(n.entries[k], c.entries[k])
    <3>1. CASE k = key
      BY <2>1, <2>13, <3>1, Zenon DEF SameAnswer
    <3>2. CASE k # key
      <4>1. k \in EntryKeys(e)
        BY <2>13, <3>2, Zenon
      <4> QED
        BY <2>10, <2>13, <3>2, <4>1, Zenon DEF Shrinks
    <3> QED
      BY <3>1, <3>2, Zenon
  <2> QED
    BY <2>13, <2>14, <2>15, Zenon DEF Put
<1> QED
  BY <1>1, <1>2, Zenon

-----------------------------------------------------------------------------
\* The table cache.

\* A table that is loaded is the only new entry.
OnlyNew(c, n, key, records) ==
  /\ n.entries[key].records = records
  /\ \A k \in CachedKeys(n) : k # key => k \in CachedKeys(c) /\ n.entries[k] = c.entries[k]

\* loadTable adds nothing but its entry, whatever it evicts.
LEMMA LoadedIs ==
  ASSUME NEW c, NEW key, NEW records, NEW time, NEW n \in loadTable(c, key, records, time)
  PROVE  OnlyNew(c, n, key, records)
<1>1. PICK e \in evictForTable(c) : n = Loaded(e, key, records, time)
  BY Zenon DEF loadTable
<1>2. PICK gone : e = Dropped(c, gone)
  BY <1>1, Zenon DEF evictForTable
<1>3. e.entries = Restrict(c.entries, CachedKeys(c) \ gone)
  BY <1>2, Zenon DEF Dropped
<1>4. \A k \in CachedKeys(e) : k \in CachedKeys(c) /\ e.entries[k] = c.entries[k]
  BY <1>3, Zenon DEF CachedKeys, Restrict
<1>5. PICK new : new = [records |-> records, loaded |-> time, size |-> MemorySize(records)]
  BY Zenon
<1>6. n.entries = [k \in CachedKeys(e) \cup {key} |-> IF k = key THEN new ELSE e.entries[k]]
  BY <1>1, <1>5, Zenon DEF Loaded
<1>7. new.records = records
  BY <1>5, Zenon
<1>8. /\ CachedKeys(n) = CachedKeys(e) \cup {key} /\ n.entries[key] = new
      /\ \A k \in CachedKeys(n) : k # key => n.entries[k] = e.entries[k]
  BY <1>6, Zenon DEF CachedKeys
<1> QED
  BY <1>4, <1>7, <1>8, Zenon DEF OnlyNew

\* invalidateTable takes one entry away.
IsGone(c, n, key) ==
  \A k \in CachedKeys(n) : k # key /\ k \in CachedKeys(c) /\ n.entries[k] = c.entries[k]

\* invalidateTable takes away no other entry.
LEMMA InvalidatedIs ==
  ASSUME NEW c, NEW key, NEW n, n = Invalidated(c, key)
  PROVE  IsGone(c, n, key)
<1>1. CASE key \in CachedKeys(c)
  <2>1. n = Dropped(c, {key})
    BY <1>1, Zenon DEF Invalidated, isTableCached
  <2>2. n.entries = Restrict(c.entries, CachedKeys(c) \ {key})
    BY <2>1 DEF Dropped
  <2> QED
    BY <2>2, Zenon DEF CachedKeys, Restrict, IsGone
<1>2. CASE key \notin CachedKeys(c)
  <2>1. n = c
    BY <1>2, Zenon DEF Invalidated, isTableCached
  <2> QED
    BY <1>2, <2>1, Zenon DEF IsGone
<1> QED
  BY <1>1, <1>2, Zenon

-----------------------------------------------------------------------------
\* What a reader sees.

\* Transactions that are finished alike are seen alike.
FinishedAlike(states, other) ==
  /\ \A id : V!isCommitted(states, id) <=> V!isCommitted(other, id)
  /\ \A id : V!isAborted(states, id) <=> V!isAborted(other, id)

\* A reader sees the same where the same transactions have finished.
LEMMA SeenAlike ==
  ASSUME NEW states, NEW other, NEW reader, NEW records, FinishedAlike(states, other)
  PROVE  Seen(other, reader, records) = Seen(states, reader, records)
<1>1. \A record : V!isVisible(other, record, reader) <=> V!isVisible(states, record, reader)
  BY Zenon DEF V!isVisible, FinishedAlike
<1> QED
  BY <1>1, Zenon DEF Seen

\* A transaction without a record counts as committed: nobody notices when it
\* gets one.
LEMMA SeenAfterAutoCommit ==
  ASSUME NEW states \in Seq(V!TransactionStates), NEW reader, NEW records
  PROVE  Seen(Append(states, "COMMITTED"), reader, records) = Seen(states, reader, records)
<1>1. PICK other : other = Append(states, "COMMITTED")
  BY Zenon
<1>2. \A id : V!getTransactionState(states, id) \in {"INVALID", "COMMITTED"}
                <=> V!getTransactionState(other, id) \in {"INVALID", "COMMITTED"}
  BY <1>1 DEF V!getTransactionState
<1>3. \A id : V!getTransactionState(states, id) = "ABORTED"
                <=> V!getTransactionState(other, id) = "ABORTED"
  BY <1>1 DEF V!getTransactionState
<1>4. FinishedAlike(states, other)
  BY <1>2, <1>3, Zenon DEF V!isCommitted, V!isAborted, FinishedAlike
<1>5. Seen(other, reader, records) = Seen(states, reader, records)
  BY <1>4, SeenAlike
<1> QED
  BY <1>1, <1>5, Zenon

\* Records were created by a transaction.
AreCreated(records) == \A i \in DOMAIN records : records[i].createTxnId # V!INVALID_TXN_ID

\* A reader without a transaction sees the same once they have begun one.
LEMMA SeenAfterBegin ==
  ASSUME NEW states \in Seq(V!TransactionStates), NEW records, AreCreated(records)
  PROVE  Seen(Append(states, "ACTIVE"), Len(states) + 1, records)
           = Seen(states, V!INVALID_TXN_ID, records)
<1>1. PICK other, new : other = Append(states, "ACTIVE") /\ new = Len(states) + 1
  BY Zenon
<1>2. /\ new # 0 /\ V!getTransactionState(other, new) = "ACTIVE"
      /\ V!getTransactionState(states, new) = "INVALID"
      /\ \A id : id # new => V!getTransactionState(other, id) = V!getTransactionState(states, id)
  BY <1>1 DEF V!getTransactionState
<1>3. /\ ~V!isCommitted(other, new) /\ V!isCommitted(states, new)
      /\ ~V!isAborted(other, new) /\ ~V!isAborted(states, new)
      /\ \A id : id # new => (V!isCommitted(other, id) <=> V!isCommitted(states, id))
      /\ \A id : id # new => (V!isAborted(other, id) <=> V!isAborted(states, id))
  BY <1>2, Zenon DEF V!isCommitted, V!isAborted, V!INVALID_TXN_ID
<1>4. ASSUME NEW record, record.createTxnId # 0
      PROVE  V!isVisible(other, record, new) <=> V!isVisible(states, record, 0)
  BY <1>2, <1>3, <1>4, Zenon DEF V!isVisible, V!INVALID_TXN_ID
<1> QED
  BY <1>1, <1>4, Zenon DEF Seen, AreCreated, V!INVALID_TXN_ID

\* Nor does committing it change what they see.
LEMMA SeenAfterCommit ==
  ASSUME NEW states, NEW other, NEW reader, NEW records, AreCreated(records),
         reader # V!INVALID_TXN_ID,
         V!getTransactionState(states, reader) = "ACTIVE",
         V!getTransactionState(other, reader) = "COMMITTED",
         \A id : id # reader => V!getTransactionState(other, id) = V!getTransactionState(states, id)
  PROVE  Seen(other, V!INVALID_TXN_ID, records) = Seen(states, reader, records)
<1>1. /\ V!isCommitted(other, reader) /\ ~V!isCommitted(states, reader)
      /\ ~V!isAborted(other, reader) /\ ~V!isAborted(states, reader)
      /\ \A id : id # reader => (V!isCommitted(other, id) <=> V!isCommitted(states, id))
      /\ \A id : id # reader => (V!isAborted(other, id) <=> V!isAborted(states, id))
  BY Zenon DEF V!isCommitted, V!isAborted, V!INVALID_TXN_ID
<1>2. ASSUME NEW record, record.createTxnId # 0
      PROVE  V!isVisible(other, record, 0) <=> V!isVisible(states, record, reader)
  BY <1>1, <1>2, Zenon DEF V!isVisible, V!INVALID_TXN_ID
<1> QED
  BY <1>2, Zenon DEF Seen, AreCreated, V!INVALID_TXN_ID

-----------------------------------------------------------------------------
\* What a statement answers.

\* An entry holds what its statement answers on tables that all exist.
Fits(e, content, states, reader) ==
  /\ \A name \in e.tables : Exists(content, name)
  /\ e.result = AnswerIn(content, states, reader, Rewritten[e.by])

\* The tables of an entry have the same records, of which the reader of the first
\* one sees the same.
KeepsTable(content, other, name) ==
  Exists(content, name) =>
    Exists(other, name) /\ TableOf(other, name).records = TableOf(content, name).records

SameTables(e, content, other) == \A name \in e.tables : KeepsTable(content, other, name)

SameSight(content, states, reader, newStates, newReader) ==
  \A t \in DOMAIN content :
    Seen(newStates, newReader, content[t].records) = Seen(states, reader, content[t].records)

\* An entry still answers its statement when its tables and the view of them stay.
LEMMA FitsStill ==
  ASSUME NEW e, IsEntry(e), NEW content, NEW states, NEW reader, Fits(e, content, states, reader),
         NEW other, SameTables(e, content, other),
         NEW newStates, NEW newReader, SameSight(content, states, reader, newStates, newReader)
  PROVE  Fits(e, other, newStates, newReader)
<1>1. PICK q : q = Rewritten[e.by]
  BY Zenon
<1>2. e.tables = affectedTables(q) /\ e.by \in Selects
  BY <1>1, Zenon DEF IsEntry
<1>3. q.from \in e.tables
  BY <1>2, Zenon DEF affectedTables
<1>4. q.joins # << >> => q.joins[1].right \in e.tables
  <2>1. q = Rewrite(e.by)
    BY <1>1, <1>2, Zenon DEF Rewritten
  <2>2. q.joins \in Seq(Range(q.joins))
    BY <1>2, <2>1, SelectAssumption, Zenon
  <2>3. q.joins # << >> => 1 \in DOMAIN q.joins
    BY <2>2
  <2> QED
    BY <1>2, <2>3, Zenon DEF affectedTables
<1>5. \A name \in e.tables :
        Exists(content, name) /\ Exists(other, name)
          /\ TableOf(other, name).records = TableOf(content, name).records
  BY Zenon DEF Fits, SameTables, KeepsTable
<1>6. PICK records : records = TableOf(content, q.from).records /\ records = TableOf(other, q.from).records
  BY <1>3, <1>5, Zenon
<1>7. Seen(newStates, newReader, records) = Seen(states, reader, records)
  BY <1>3, <1>5, <1>6, Zenon DEF SameSight, Exists, TableOf
<1>8. /\ AnswerIn(content, states, reader, q) = Run(content, states, reader, q, records)
      /\ AnswerIn(other, newStates, newReader, q) = Run(other, newStates, newReader, q, records)
  BY <1>2, <1>5, <1>6, Zenon DEF AnswerIn
<1>9. Run(other, newStates, newReader, q, records) = Run(content, states, reader, q, records)
  BY <1>4, <1>5, <1>7, Zenon DEF Run
<1> QED
  BY <1>1, <1>5, <1>8, <1>9, Zenon DEF Fits

-----------------------------------------------------------------------------
\* The inductive invariant.

Record == [row : {<<v>> : v \in RowValues}, createTxnId : Nat \ {0}, deleteTxnId : Nat]

Table == [name : TableNames, records : Seq(Record)]

\* Tables are found under the lower case of the name they were created with.
IsContent(content) ==
  \A t \in DOMAIN content : content[t] \in Table /\ Lower[content[t].name] = t

Undo == [op : {"INSERT", "UPDATE", "DELETE"}, table : TableNames, at : SUBSET Nat, old : RowValues]

Txn == [state : V!TransactionStates, undo : Seq(Undo)]

TypeOK ==
  /\ database \in Databases
  /\ currentTxn \in Nat
  /\ DOMAIN txns = Databases /\ \A d \in Databases : txns[d] \in Seq(Txn)
  /\ DOMAIN tables = Databases /\ \A d \in Databases : IsContent(tables[d])
  /\ CachedKeys(cached) \subseteq Databases \X TableNames

\* The cache of results keeps its limits.
IsBounded(c) ==
  IsQueryCache(c) /\ c.memory <= maxMemory /\ Cardinality(EntryKeys(c)) <= maxEntries

\* Outside of the database in use, nobody has a transaction.
Reader(db, txn, d) == IF d = db THEN txn ELSE V!INVALID_TXN_ID

\* What is not in doubt answers its statement ...
AllFit(c, doubt, contents, logs, db, txn) ==
  \A k \in EntryKeys(c) \ doubt :
    Fits(c.entries[k], contents[c.entries[k].db], StatesOf(logs[c.entries[k].db]),
         Reader(db, txn, c.entries[k].db))

\* ... and is a copy of its table.
IsCopy(entry, content, name) ==
  Exists(content, name) /\ entry.records = TableOf(content, name).records

AreCopies(c, doubt, contents) ==
  \A k \in CachedKeys(c) \ doubt : IsCopy(c.entries[k], contents[k[1]], k[2])

SelectInv ==
  /\ TypeOK
  /\ IsBounded(queries)
  /\ AllFit(queries, doubtful.queries, tables, txns, database, currentTxn)
  /\ AreCopies(cached, doubtful.tables, tables)

-----------------------------------------------------------------------------
\* Steps that leave what an entry reads as it is.

\* Nothing that the entries of a database read has changed.
Stays(e, contents, logs, db, txn, contents2, logs2, db2, txn2) ==
  /\ SameTables(e, contents[e.db], contents2[e.db])
  /\ SameSight(contents[e.db], StatesOf(logs[e.db]), Reader(db, txn, e.db),
               StatesOf(logs2[e.db]), Reader(db2, txn2, e.db))

\* Entries with the same answer fit the same tables.
LEMMA FitsSame ==
  ASSUME NEW e, NEW f, SameAnswer(f, e), NEW content, NEW states, NEW reader,
         Fits(e, content, states, reader)
  PROVE  Fits(f, content, states, reader)
BY Zenon DEF Fits, SameAnswer

\* Entries that are left still fit, when what they read stays.
LEMMA AllFitStill ==
  ASSUME NEW c, IsQueryCache(c), NEW doubt, NEW contents, NEW logs, NEW db, NEW txn,
         AllFit(c, doubt, contents, logs, db, txn),
         NEW n, Shrinks(c, n), NEW doubt2, NEW contents2, NEW logs2, NEW db2, NEW txn2,
         \A k \in EntryKeys(n) \ doubt2 :
           k \notin doubt /\ Stays(c.entries[k], contents, logs, db, txn, contents2, logs2, db2, txn2)
  PROVE  AllFit(n, doubt2, contents2, logs2, db2, txn2)
<1> SUFFICES ASSUME NEW k \in EntryKeys(n) \ doubt2
             PROVE  Fits(n.entries[k], contents2[n.entries[k].db], StatesOf(logs2[n.entries[k].db]),
                         Reader(db2, txn2, n.entries[k].db))
  BY Zenon DEF AllFit
<1>1. PICK e, f : e = c.entries[k] /\ f = n.entries[k]
  BY Zenon
<1>2. k \in EntryKeys(c) \ doubt /\ SameAnswer(f, e) /\ IsEntry(e)
  BY <1>1, Zenon DEF Shrinks, IsQueryCache
<1>3. Fits(e, contents[e.db], StatesOf(logs[e.db]), Reader(db, txn, e.db))
  BY <1>1, <1>2, Zenon DEF AllFit
<1>4. /\ SameTables(e, contents[e.db], contents2[e.db])
      /\ SameSight(contents[e.db], StatesOf(logs[e.db]), Reader(db, txn, e.db),
                   StatesOf(logs2[e.db]), Reader(db2, txn2, e.db))
  BY <1>1, Zenon DEF Stays
<1>5. Fits(e, contents2[e.db], StatesOf(logs2[e.db]), Reader(db2, txn2, e.db))
  BY <1>2, <1>3, <1>4, FitsStill, Zenon
<1>6. Fits(f, contents2[e.db], StatesOf(logs2[e.db]), Reader(db2, txn2, e.db))
  BY <1>2, <1>5, FitsSame, Zenon
<1>7. f.db = e.db
  BY <1>2, Zenon DEF SameAnswer
<1> QED
  BY <1>1, <1>6, <1>7, Zenon

\* An entry stays when nothing it reads changes.
LEMMA SameStays ==
  ASSUME NEW e, NEW contents, NEW logs, NEW db, NEW txn, NEW contents2, NEW logs2, NEW db2, NEW txn2,
         contents2[e.db] = contents[e.db], StatesOf(logs2[e.db]) = StatesOf(logs[e.db]),
         Reader(db2, txn2, e.db) = Reader(db, txn, e.db)
  PROVE  Stays(e, contents, logs, db, txn, contents2, logs2, db2, txn2)
BY Zenon DEF Stays, SameTables, SameSight, KeepsTable

\* The tables, the transactions and the reader are the same.
LEMMA AllFitShrunk ==
  ASSUME NEW c, IsQueryCache(c), NEW doubt, NEW contents, NEW logs, NEW db, NEW txn,
         AllFit(c, doubt, contents, logs, db, txn),
         NEW n, Shrinks(c, n), NEW doubt2, \A k \in EntryKeys(n) \ doubt2 : k \notin doubt
  PROVE  AllFit(n, doubt2, contents, logs, db, txn)
<1>1. \A k \in EntryKeys(n) \ doubt2 :
        k \notin doubt /\ Stays(c.entries[k], contents, logs, db, txn, contents, logs, db, txn)
  BY SameStays, Zenon
<1> QED
  BY <1>1, AllFitStill, Zenon

\* A smaller cache is within the limits too.
LEMMA BoundedShrunk ==
  ASSUME NEW c, IsBounded(c), NEW n, Shrinks(c, n)
  PROVE  IsBounded(n)
<1>1. IsQueryCache(c) /\ IsQueryCache(n)
  BY Zenon DEF IsBounded, Shrinks
<1>2. /\ Cardinality(EntryKeys(c)) \in Nat /\ Cardinality(EntryKeys(n)) \in Nat
      /\ c.memory \in Nat /\ n.memory \in Nat
  BY <1>1, Itself, Zenon DEF Shrinks
<1>3. n.memory <= maxMemory /\ Cardinality(EntryKeys(n)) <= maxEntries
  BY <1>2, QueryCacheAssumption DEF IsBounded, Shrinks
<1> QED
  BY <1>1, <1>3, Zenon DEF IsBounded

\* Copies that are still in the cache, and not in doubt, are of the same records.
CopiesStay(c, doubt, contents, n, doubt2, contents2) ==
  \A k \in CachedKeys(n) \ doubt2 :
    /\ k \in CachedKeys(c) \ doubt /\ n.entries[k] = c.entries[k]
    /\ KeepsTable(contents[k[1]], contents2[k[1]], k[2])

\* Copies of tables that stay are still copies.
LEMMA CopiesStill ==
  ASSUME NEW c, NEW doubt, NEW contents, AreCopies(c, doubt, contents),
         NEW n, NEW doubt2, NEW contents2, CopiesStay(c, doubt, contents, n, doubt2, contents2)
  PROVE  AreCopies(n, doubt2, contents2)
BY Zenon DEF AreCopies, IsCopy, KeepsTable, CopiesStay

\* Fewer copies of the same tables.
LEMMA CopiesShrunk ==
  ASSUME NEW c, NEW doubt, NEW contents, AreCopies(c, doubt, contents),
         NEW n, NEW doubt2,
         \A k \in CachedKeys(n) \ doubt2 : k \in CachedKeys(c) \ doubt /\ n.entries[k] = c.entries[k]
  PROVE  AreCopies(n, doubt2, contents)
BY Zenon DEF AreCopies

\* The types do not depend on the query cache.
LEMMA TypeSame ==
  ASSUME TypeOK, UNCHANGED <<database, currentTxn, txns, tables>>,
         CachedKeys(cached') \subseteq Databases \X TableNames
  PROVE  TypeOK'
BY Zenon DEF TypeOK

\* An entry is in doubt as long as it is in the cache.
LEMMA DoubtIs ==
  ASSUME NEW moreQueries, NEW moreTables, Doubt(moreQueries, moreTables)
  PROVE  /\ \A k \in EntryKeys(queries') \ doubtful'.queries :
              k \notin doubtful.queries /\ k \notin moreQueries
         /\ \A k \in CachedKeys(cached') \ doubtful'.tables :
              k \notin doubtful.tables /\ k \notin moreTables
<1>1. /\ doubtful'.queries = (doubtful.queries \cup moreQueries) \cap EntryKeys(queries')
      /\ doubtful'.tables = (doubtful.tables \cup moreTables) \cap CachedKeys(cached')
  BY DEF Doubt
<1> QED
  BY <1>1, Zenon

\* A step of the query cache alone.
LEMMA QueriesShrink ==
  ASSUME SelectInv, UNCHANGED <<database, currentTxn, txns, tables, cached>>,
         Shrinks(queries, queries'), UNCHANGED doubtful \/ Doubt({}, {})
  PROVE  SelectInv'
<1>1. /\ \A k \in EntryKeys(queries') \ doubtful'.queries : k \notin doubtful.queries
      /\ \A k \in CachedKeys(cached') \ doubtful'.tables : k \notin doubtful.tables
  <2>1. CASE UNCHANGED doubtful
    BY <2>1, Zenon
  <2>2. CASE Doubt({}, {})
    BY <2>2, DoubtIs, Zenon
  <2> QED
    BY <2>1, <2>2, Zenon
<1>2. TypeOK'
  BY TypeSame, Zenon DEF SelectInv, TypeOK
<1>3. IsBounded(queries')
  BY BoundedShrunk, Zenon DEF SelectInv
<1>4. AllFit(queries', doubtful'.queries, tables, txns, database, currentTxn)
  <2>1. IsQueryCache(queries) /\ AllFit(queries, doubtful.queries, tables, txns, database, currentTxn)
    BY Zenon DEF SelectInv, IsBounded
  <2> QED
    BY <1>1, <2>1, AllFitShrunk, Zenon
<1>5. AreCopies(cached', doubtful'.tables, tables)
  <2>1. \A k \in CachedKeys(cached') \ doubtful'.tables :
          k \in CachedKeys(cached) \ doubtful.tables /\ cached'.entries[k] = cached.entries[k]
    BY <1>1, Zenon
  <2>2. AreCopies(cached, doubtful.tables, tables)
    BY Zenon DEF SelectInv
  <2> QED
    BY <2>1, <2>2, CopiesShrunk, Zenon
<1> QED
  BY <1>2, <1>3, <1>4, <1>5, Zenon DEF SelectInv

\* A SELECT that is answered from the query cache keeps the invariant.
LEMMA SelectCachedStep ==
  ASSUME SelectInv, NEW stmt \in Selects, SelectCached(stmt)
  PROVE  SelectInv'
<1>1. PICK key : queries' = AfterGet(queries, key, now)
  BY Zenon DEF SelectCached
<1>2. Shrinks(queries, queries')
  BY <1>1, AfterGetIs, Zenon DEF SelectInv, IsBounded
<1> QED
  BY <1>2, QueriesShrink, Zenon DEF SelectCached

\* A SELECT of a missing table keeps it.
LEMMA SelectRefusedStep ==
  ASSUME SelectInv, NEW stmt \in Selects, SelectRefused(stmt)
  PROVE  SelectInv'
<1>1. PICK key : queries' = AfterGet(queries, key, now)
  BY Zenon DEF SelectRefused
<1>2. Shrinks(queries, queries')
  BY <1>1, AfterGetIs, Zenon DEF SelectInv, IsBounded
<1>3. UNCHANGED <<database, currentTxn, txns, tables, cached>> /\ Doubt({}, {})
  BY Zenon DEF SelectRefused
<1> QED
  BY <1>2, <1>3, QueriesShrink, Zenon

\* Switching the query cache on and off keeps it.
LEMMA SetQueryCacheEnabledStep ==
  ASSUME SelectInv, NEW enabled \in BOOLEAN, SetQueryCacheEnabled(enabled)
  PROVE  SelectInv'
<1>1. Switched(queries, queries', enabled) /\ IsQueryCache(queries)
  BY Zenon DEF SetQueryCacheEnabled, Switched, SelectInv, IsBounded
<1>2. IsQueryCache(queries') /\ queries'.entries = queries.entries /\ queries'.memory = queries.memory
  BY <1>1, SwitchedIs, Zenon
<1>3. Shrinks(queries, queries) /\ EntryKeys(queries') = EntryKeys(queries)
  BY <1>1, <1>2, Itself, Zenon DEF EntryKeys
<1>4. Shrinks(queries, queries')
  BY <1>2, <1>3, Zenon DEF Shrinks
<1>5. UNCHANGED <<database, currentTxn, txns, tables, cached, doubtful>>
  BY Zenon DEF SetQueryCacheEnabled
<1> QED
  BY <1>4, <1>5, QueriesShrink, Zenon

\* Time, and a step that changes nothing, keep it.
LEMMA TickStep ==
  ASSUME SelectInv, Tick \/ UNCHANGED vars
  PROVE  SelectInv'
<1>1. UNCHANGED <<database, currentTxn, txns, tables, queries, cached, doubtful>>
  BY Zenon DEF Tick, vars
<1>2. Shrinks(queries, queries')
  BY <1>1, Itself, Zenon DEF SelectInv, IsBounded
<1> QED
  BY <1>1, <1>2, QueriesShrink, Zenon

\* Clearing the caches keeps it.
LEMMA ClearCachesStep ==
  ASSUME SelectInv, ClearCaches
  PROVE  SelectInv'
<1>1. /\ queries' = Cleared(queries) /\ cached' = NoTables
      /\ UNCHANGED <<database, currentTxn, txns, tables>>
  BY Zenon DEF ClearCaches
<1>2. IsQueryCache(queries') /\ EntryKeys(queries') = {} /\ queries'.memory = 0
  BY <1>1, ClearedIs, Zenon
<1>3. CachedKeys(cached') = {}
  BY <1>1 DEF NoTables, CachedKeys
<1>4. IsBounded(queries')
  BY <1>2, FS_EmptySet, QueryCacheAssumption DEF IsBounded
<1>5. TypeOK'
  BY <1>1, <1>3, TypeSame, Zenon DEF SelectInv
<1>6. /\ AllFit(queries', doubtful'.queries, tables', txns', database', currentTxn')
      /\ AreCopies(cached', doubtful'.tables, tables')
  BY <1>2, <1>3, Zenon DEF AllFit, AreCopies
<1> QED
  BY <1>4, <1>5, <1>6, Zenon DEF SelectInv

-----------------------------------------------------------------------------
\* A SELECT that is executed.

\* The cache that a statement scans: the old entries and the table, if loaded.
OldOrLoaded(c, n, k, d, table) ==
  \/ k \in CachedKeys(c) /\ n.entries[k] = c.entries[k]
  \/ k = <<d, table.name>> /\ n.entries[k].records = table.records

\* What a SELECT finds in the table cache was there, or has just been loaded.
LEMMA AfterLoadIs ==
  ASSUME NEW d, NEW q, NEW n \in AfterLoad(d, q), NEW table, table = TableOf(tables[d], q.from),
         NEW k \in CachedKeys(n)
  PROVE  OldOrLoaded(cached, n, k, d, table)
<1>1. CASE n = cached
  BY <1>1, Zenon DEF OldOrLoaded
<1>2. CASE n # cached
  <2>1. PICK key, records : key = <<d, table.name>> /\ records = table.records
    BY Zenon
  <2>2. n \in loadTable(cached, key, records, now)
    BY <1>2, <2>1, Zenon DEF AfterLoad
  <2>3. OnlyNew(cached, n, key, records)
    BY <2>2, LoadedIs, Zenon
  <2> QED
    BY <2>1, <2>3, Zenon DEF OnlyNew, OldOrLoaded
<1> QED
  BY <1>1, <1>2, Zenon

\* A table that is loaded is found under its name.
LEMMA TableFound ==
  ASSUME TypeOK, NEW d \in Databases, NEW name, Exists(tables[d], name),
         NEW table, table = TableOf(tables[d], name)
  PROVE  /\ table.name \in TableNames
         /\ Exists(tables[d], table.name) /\ TableOf(tables[d], table.name) = table
<1>1. PICK t : t = Lower[name]
  BY Zenon
<1>2. t \in DOMAIN tables[d] /\ table = tables[d][t]
  BY <1>1, Zenon DEF Exists, TableOf
<1>3. table \in Table /\ Lower[table.name] = t
  BY <1>2, Zenon DEF TypeOK, IsContent
<1>4. table.name \in TableNames
  BY <1>3, Zenon DEF Table
<1> QED
  BY <1>2, <1>3, <1>4, Zenon DEF Exists, TableOf

\* What is scanned is the table, unless its copy is in doubt.
LEMMA ScannedIs ==
  ASSUME SelectInv, NEW d \in Databases, NEW q, Exists(tables[d], q.from), NEW n \in AfterLoad(d, q),
         q.joins = << >> => <<d, q.from>> \notin doubtful.tables
  PROVE  ScannedFrom(d, q, n) = TableOf(tables[d], q.from).records
<1>1. PICK k, table : k = <<d, q.from>> /\ table = TableOf(tables[d], q.from)
  OBVIOUS
<1>2. CASE ~(q.joins = << >> /\ isTableCached(n, k))
  BY <1>1, <1>2, Zenon DEF ScannedFrom
<1>3. CASE q.joins = << >> /\ isTableCached(n, k)
  <2>1. ScannedFrom(d, q, n) = n.entries[k].records
    BY <1>1, <1>3, Zenon DEF ScannedFrom
  <2>2. OldOrLoaded(cached, n, k, d, table)
    BY <1>1, <1>3, AfterLoadIs, Zenon DEF isTableCached
  <2>3. ASSUME k \in CachedKeys(cached) PROVE cached.entries[k].records = table.records
    <3>1. k \in CachedKeys(cached) \ doubtful.tables
      BY <1>1, <1>3, <2>3, Zenon
    <3>2. IsCopy(cached.entries[k], tables[k[1]], k[2])
      BY <3>1, Zenon DEF SelectInv, AreCopies
    <3>3. k[1] = d /\ k[2] = q.from
      BY <1>1, Zenon
    <3> QED
      BY <1>1, <3>2, <3>3, Zenon DEF IsCopy
  <2> QED
    BY <1>1, <2>1, <2>2, <2>3, Zenon DEF OldOrLoaded
<1> QED
  BY <1>2, <1>3, Zenon

\* What SELECT does, with its intermediate results.
Executed(stmt, q, key, d, result, entry, missed) ==
  /\ q = Rewritten[stmt] /\ key = CacheKey(q) /\ d = database
  /\ result = Run(tables[d], States(d), currentTxn, q, ScannedFrom(d, q, cached'))
  /\ entry = [result |-> result, tables |-> affectedTables(q), size |-> ResultSize(result),
              created |-> now, accessed |-> now, by |-> stmt, db |-> d]
  /\ missed = AfterGet(queries, key, now)
  /\ ~Hit(queries, key, now)
  /\ \A name \in affectedTables(q) : Exists(tables[d], name)
  /\ cached' \in AfterLoad(d, q)
  /\ queries' \in (IF result.ok THEN AfterPut(missed, key, entry) ELSE {missed})
  /\ doubtful' = [queries |->
                     {k \in EntryKeys(queries') :
                        IF k = key /\ queries.enabled
                        THEN q.joins = << >> /\ <<d, q.from>> \in doubtful.tables
                        ELSE k \in doubtful.queries},
                   tables |->
                     {k \in doubtful.tables \cap CachedKeys(cached') :
                        cached'.entries[k] = cached.entries[k]}]
  /\ UNCHANGED <<database, currentTxn, txns, tables>>

\* The values that a SELECT which is executed goes through.
LEMMA ExecutedIs ==
  ASSUME NEW stmt \in Selects, SelectExecuted(stmt)
  PROVE  \E q, key, d, result, entry, missed : Executed(stmt, q, key, d, result, entry, missed)
<1>1. PICK q, key, d, missed : /\ q = Rewritten[stmt] /\ key = CacheKey(q) /\ d = database
                               /\ missed = AfterGet(queries, key, now)
  BY Zenon
<1>2. PICK result : result = Run(tables[d], States(d), currentTxn, q, ScannedFrom(d, q, cached'))
  BY Zenon
<1>3. PICK entry : entry = [result |-> result, tables |-> affectedTables(q),
                            size |-> ResultSize(result), created |-> now, accessed |-> now,
                            by |-> stmt, db |-> d]
  BY Zenon
<1>4. Executed(stmt, q, key, d, result, entry, missed)
  BY <1>1, <1>2, <1>3, Zenon DEF SelectExecuted, Executed
<1> QED
  BY <1>4, Zenon

\* The entry that is put into the cache holds the answer.
LEMMA EntryFits ==
  ASSUME SelectInv, NEW stmt \in Selects,
         NEW q, NEW key, NEW d, NEW result, NEW entry, NEW missed,
         Executed(stmt, q, key, d, result, entry, missed),
         ~(q.joins = << >> /\ <<d, q.from>> \in doubtful.tables)
  PROVE  Fits(entry, tables[d], StatesOf(txns[d]), currentTxn)
<1>1. entry.tables = affectedTables(q) /\ entry.by = stmt /\ entry.result = result
  BY Zenon DEF Executed
<1>2. q.from \in affectedTables(q) /\ d \in Databases
  BY Zenon DEF affectedTables, Executed, SelectInv, TypeOK
<1>3. \A name \in affectedTables(q) : Exists(tables[d], name)
  BY Zenon DEF Executed
<1>4. ScannedFrom(d, q, cached') = TableOf(tables[d], q.from).records
  BY <1>2, <1>3, ScannedIs, Zenon DEF Executed
<1>5. result = Run(tables[d], StatesOf(txns[d]), currentTxn, q, TableOf(tables[d], q.from).records)
  BY <1>4, Zenon DEF Executed, States
<1>6. result = AnswerIn(tables[d], StatesOf(txns[d]), currentTxn, q)
  BY <1>3, <1>5, Zenon DEF AnswerIn
<1>7. q = Rewritten[stmt]
  BY Zenon DEF Executed
<1> QED
  BY <1>1, <1>3, <1>6, <1>7, Zenon DEF Fits

\* It leaves the query cache within its limits, with its answer or without.
LEMMA ExecutedPuts ==
  ASSUME SelectInv, NEW stmt \in Selects,
         NEW q, NEW key, NEW d, NEW result, NEW entry, NEW missed,
         Executed(stmt, q, key, d, result, entry, missed)
  PROVE  /\ Shrinks(queries, missed) /\ missed.enabled = queries.enabled
         /\ Put(missed, queries', key, entry)
<1>1. /\ IsBounded(queries) /\ IsQueryCache(queries) /\ missed = AfterGet(queries, key, now)
      /\ ~Hit(queries, key, now)
  BY Zenon DEF SelectInv, IsBounded, Executed
<1>2. /\ Shrinks(queries, missed) /\ missed.enabled = queries.enabled
      /\ missed.enabled => key \notin EntryKeys(missed)
  BY <1>1, AfterGetIs, Zenon
<1>3. IsBounded(missed)
  BY <1>1, <1>2, BoundedShrunk, Zenon
<1>4. /\ IsQueryCache(missed) /\ missed.memory <= maxMemory
      /\ Cardinality(EntryKeys(missed)) <= maxEntries
  BY <1>3, Zenon DEF IsBounded
<1>5. entry.size \in Nat => IsEntry(entry)
  <2>1. /\ EntryFields(entry) /\ entry.db = d /\ entry.by = stmt /\ entry.tables = affectedTables(q)
    BY Zenon DEF Executed, EntryFields
  <2>2. d \in Databases /\ q = Rewritten[stmt]
    BY Zenon DEF Executed, SelectInv, TypeOK
  <2> QED
    BY <2>1, <2>2, Zenon DEF IsEntry
<1>6. CASE result.ok
  <2>1. queries' \in AfterPut(missed, key, entry)
    BY <1>6, Zenon DEF Executed
  <2>2. Put(missed, queries', key, entry)
    BY <1>2, <1>4, <1>5, <2>1, AfterPutIs, Zenon
  <2> QED
    BY <1>2, <2>2, Zenon
<1>7. CASE ~result.ok
  <2>1. queries' = missed
    BY <1>7, Zenon DEF Executed
  <2>2. Shrinks(missed, queries') /\ (missed.enabled => key \notin EntryKeys(queries'))
    BY <1>2, <1>4, <2>1, Itself, Zenon
  <2>3. Put(missed, queries', key, entry)
    BY <1>4, <2>2, PutShrunk, Zenon
  <2> QED
    BY <1>2, <2>3, Zenon
<1> QED
  BY <1>6, <1>7, Zenon

\* A SELECT that is executed keeps the invariant.
LEMMA SelectExecutedStep ==
  ASSUME SelectInv, NEW stmt \in Selects, SelectExecuted(stmt)
  PROVE  SelectInv'
<1>1. PICK q, key, d, result, entry, missed : Executed(stmt, q, key, d, result, entry, missed)
  BY ExecutedIs, Zenon
<1>2. /\ Shrinks(queries, missed) /\ missed.enabled = queries.enabled
      /\ Put(missed, queries', key, entry)
  BY <1>1, ExecutedPuts, Zenon
<1>3. /\ IsBounded(queries')
      /\ \A k \in EntryKeys(queries') :
           \/ k = key /\ missed.enabled /\ SameAnswer(queries'.entries[k], entry)
           \/ /\ ~(k = key /\ missed.enabled) /\ k \in EntryKeys(missed)
              /\ SameAnswer(queries'.entries[k], missed.entries[k])
  BY <1>2, Zenon DEF Put, IsBounded
<1>4. UNCHANGED <<database, currentTxn, txns, tables>> /\ d = database /\ cached' \in AfterLoad(d, q)
  BY <1>1, Zenon DEF Executed
<1>5. /\ doubtful'.queries = {k \in EntryKeys(queries') :
                                IF k = key /\ queries.enabled
                                THEN q.joins = << >> /\ <<d, q.from>> \in doubtful.tables
                                ELSE k \in doubtful.queries}
      /\ doubtful'.tables = {k \in doubtful.tables \cap CachedKeys(cached') :
                               cached'.entries[k] = cached.entries[k]}
  BY <1>1 DEF Executed
<1>6. ASSUME NEW k \in EntryKeys(queries') \ doubtful'.queries, NEW e, e = queries'.entries[k]
      PROVE  Fits(e, tables[e.db], StatesOf(txns[e.db]), Reader(database, currentTxn, e.db))
  <2>1. CASE k = key /\ missed.enabled
    <3>1. ~(q.joins = << >> /\ <<d, q.from>> \in doubtful.tables)
      BY <1>2, <1>5, <1>6, <2>1, Zenon
    <3>2. Fits(entry, tables[d], StatesOf(txns[d]), currentTxn)
      BY <1>1, <3>1, EntryFits, Zenon
    <3>3. SameAnswer(e, entry)
      BY <1>3, <1>6, <2>1, Zenon
    <3>4. entry.db = d
      BY <1>1 DEF Executed
    <3>5. e.db = d /\ Reader(database, currentTxn, e.db) = currentTxn
      BY <1>4, <3>3, <3>4, Zenon DEF SameAnswer, Reader
    <3>6. Fits(e, tables[d], StatesOf(txns[d]), currentTxn)
      BY <3>2, <3>3, FitsSame, Zenon
    <3> QED
      BY <3>5, <3>6, Zenon
  <2>2. CASE ~(k = key /\ missed.enabled)
    <3>1. k \in EntryKeys(missed) /\ SameAnswer(e, missed.entries[k]) /\ k \notin doubtful.queries
      BY <1>2, <1>3, <1>5, <1>6, <2>2, Zenon
    <3>2. PICK f : f = queries.entries[k] /\ k \in EntryKeys(queries) /\ SameAnswer(e, f)
      BY <1>2, <3>1, Zenon DEF Shrinks, SameAnswer
    <3>3. Fits(f, tables[f.db], StatesOf(txns[f.db]), Reader(database, currentTxn, f.db))
      BY <3>1, <3>2, Zenon DEF SelectInv, AllFit
    <3>4. e.db = f.db
      BY <3>2, Zenon DEF SameAnswer
    <3>5. Fits(e, tables[f.db], StatesOf(txns[f.db]), Reader(database, currentTxn, f.db))
      BY <3>2, <3>3, FitsSame, Zenon
    <3> QED
      BY <3>4, <3>5, Zenon
  <2> QED
    BY <2>1, <2>2, Zenon
<1>7. AllFit(queries', doubtful'.queries, tables, txns, database, currentTxn)
  BY <1>6, Zenon DEF AllFit
<1>8. PICK table : table = TableOf(tables[d], q.from)
  BY Zenon
<1>9. /\ table.name \in TableNames /\ d \in Databases
      /\ Exists(tables[d], table.name) /\ TableOf(tables[d], table.name) = table
  <2>1. Exists(tables[d], q.from) /\ d \in Databases /\ TypeOK
    BY <1>1, Zenon DEF Executed, affectedTables, SelectInv, TypeOK
  <2> QED
    BY <1>8, <2>1, TableFound, Zenon
<1>10. ASSUME NEW k \in CachedKeys(cached') PROVE OldOrLoaded(cached, cached', k, d, table)
  BY <1>4, <1>8, AfterLoadIs, Zenon
<1>11. CachedKeys(cached') \subseteq Databases \X TableNames
  <2>1. \A k \in CachedKeys(cached) : k \in Databases \X TableNames
    BY Zenon DEF SelectInv, TypeOK
  <2>2. <<d, table.name>> \in Databases \X TableNames
    BY <1>9
  <2>3. \A k \in CachedKeys(cached') : k \in Databases \X TableNames
    BY <1>10, <2>1, <2>2, Zenon DEF OldOrLoaded
  <2> QED
    BY <2>3, Zenon
<1>12. ASSUME NEW k \in CachedKeys(cached') \ doubtful'.tables
       PROVE  IsCopy(cached'.entries[k], tables[k[1]], k[2])
  <2>1. CASE k = <<d, table.name>> /\ cached'.entries[k].records = table.records
    <3>1. k[1] = d /\ k[2] = table.name
      BY <2>1, Zenon
    <3> QED
      BY <1>9, <2>1, <3>1, Zenon DEF IsCopy
  <2>2. CASE k \in CachedKeys(cached) /\ cached'.entries[k] = cached.entries[k]
    <3>1. k \notin doubtful.tables
      BY <1>5, <1>12, <2>2, Zenon
    <3> QED
      BY <2>2, <3>1, Zenon DEF SelectInv, AreCopies
  <2> QED
    BY <1>10, <1>12, <2>1, <2>2, Zenon DEF OldOrLoaded
<1>13. AreCopies(cached', doubtful'.tables, tables)
  BY <1>12, Zenon DEF AreCopies
<1>14. TypeOK'
  BY <1>4, <1>11, TypeSame, Zenon DEF SelectInv
<1> QED
  BY <1>3, <1>4, <1>7, <1>13, <1>14, Zenon DEF SelectInv

-----------------------------------------------------------------------------
\* Statements that change a table.

\* The states in a log of transactions.
LEMMA StatesTyped ==
  ASSUME NEW log \in Seq(Txn)
  PROVE  /\ StatesOf(log) \in Seq(V!TransactionStates) /\ Len(StatesOf(log)) = Len(log)
         /\ DOMAIN StatesOf(log) = DOMAIN log
<1>1. PICK states : states = StatesOf(log)
  BY Zenon
<1>2. DOMAIN states = 1..Len(log) /\ \A i \in 1..Len(log) : states[i] = log[i].state /\ log[i] \in Txn
  BY <1>1 DEF StatesOf
<1>3. \A txn \in Txn : txn.state \in V!TransactionStates
  BY Zenon DEF Txn
<1>4. states = [i \in 1..Len(log) |-> states[i]]
  BY <1>1 DEF StatesOf
<1>5. states \in Seq(V!TransactionStates) /\ Len(states) = Len(log)
  BY <1>2, <1>3, <1>4
<1> QED
  BY <1>1, <1>2, <1>5

\* The states in a log with one more transaction.
LEMMA StatesAppended ==
  ASSUME NEW log \in Seq(Txn), NEW txn \in Txn
  PROVE  Append(log, txn) \in Seq(Txn) /\ StatesOf(Append(log, txn)) = Append(StatesOf(log), txn.state)
<1>1. PICK longer : longer = Append(log, txn)
  BY Zenon
<1>2. /\ longer \in Seq(Txn) /\ Len(longer) = Len(log) + 1
      /\ longer[Len(log) + 1] = txn /\ \A i \in 1..Len(log) : longer[i] = log[i]
  BY <1>1
<1>3. PICK left, right : left = StatesOf(longer) /\ right = Append(StatesOf(log), txn.state)
  BY Zenon
<1>4. /\ left \in Seq(V!TransactionStates) /\ right \in Seq(V!TransactionStates)
      /\ Len(left) = Len(log) + 1 /\ Len(right) = Len(log) + 1
  <2>1. /\ StatesOf(log) \in Seq(V!TransactionStates) /\ Len(StatesOf(log)) = Len(log)
        /\ left \in Seq(V!TransactionStates) /\ Len(left) = Len(longer)
    BY <1>2, <1>3, StatesTyped, Zenon
  <2>2. txn.state \in V!TransactionStates
    BY Zenon DEF Txn
  <2> QED
    BY <1>2, <1>3, <2>1, <2>2
<1>5. \A i \in 1..(Len(log) + 1) : left[i] = right[i]
  BY <1>2, <1>3, StatesTyped DEF StatesOf
<1>6. left = right
  BY <1>4, <1>5
<1> QED
  BY <1>1, <1>2, <1>3, <1>6, Zenon

\* The logs of the transactions are well formed, and readers see what they saw.
LogsKept ==
  /\ DOMAIN txns' = Databases /\ \A d \in Databases : txns'[d] \in Seq(Txn)
  /\ \A d \in Databases : d # database => txns'[d] = txns[d]
  /\ \A reader, records :
       Seen(StatesOf(txns'[database]), reader, records) = Seen(StatesOf(txns[database]), reader, records)

\* The log of the database in use is replaced by one with the same states.
LEMMA LogReplaced ==
  ASSUME TypeOK, NEW log \in Seq(Txn), txns' = [txns EXCEPT ![database] = log],
         \A reader, records :
           Seen(StatesOf(log), reader, records) = Seen(StatesOf(txns[database]), reader, records)
  PROVE  LogsKept
<1>1. /\ DOMAIN txns' = Databases /\ txns'[database] = log /\ \A d \in Databases : txns[d] \in Seq(Txn)
      /\ \A d \in Databases : d # database => txns'[d] = txns[d]
  BY Zenon DEF TypeOK
<1> QED
  BY <1>1, Zenon DEF LogsKept

\* What a statement writes to the log changes nothing that readers see.
LEMMA AfterWriteIs ==
  ASSUME TypeOK, NEW undo \in Undo, AfterWrite(undo)
  PROVE  LogsKept
<1>1. PICK log : log = txns[database]
  BY Zenon
<1>2. log \in Seq(Txn) /\ database \in Databases /\ DOMAIN txns = Databases
  BY <1>1, Zenon DEF TypeOK
<1>3. CASE AutoCommit
  <2>1. PICK done : done = [state |-> "COMMITTED", undo |-> << >>]
    BY Zenon
  <2>2. done \in Txn /\ done.state = "COMMITTED"
    BY <2>1 DEF Txn, V!TransactionStates
  <2>3. txns' = [txns EXCEPT ![database] = Append(log, done)]
    BY <1>1, <1>3, <2>1, Zenon DEF AfterWrite, Logged
  <2>4. PICK longer : longer = Append(log, done)
    BY Zenon
  <2>5. longer \in Seq(Txn) /\ StatesOf(longer) = Append(StatesOf(log), "COMMITTED")
    BY <1>2, <2>2, <2>4, StatesAppended, Zenon
  <2>6. \A reader, records : Seen(StatesOf(longer), reader, records) = Seen(StatesOf(log), reader, records)
    <3>1. StatesOf(log) \in Seq(V!TransactionStates)
      BY <1>2, StatesTyped, Zenon
    <3> QED
      BY <2>5, <3>1, SeenAfterAutoCommit, Zenon
  <2> QED
    BY <1>1, <2>3, <2>4, <2>5, <2>6, LogReplaced, Zenon
<1>4. CASE ~AutoCommit /\ SessionActive
  <2>1. currentTxn \in DOMAIN log
    <3>1. DOMAIN StatesOf(log) = DOMAIN log
      BY <1>2, StatesTyped, Zenon
    <3>2. V!getTransactionState(StatesOf(log), currentTxn) = "ACTIVE"
      BY <1>1, <1>4, Zenon DEF SessionActive, States
    <3> QED
      BY <3>1, <3>2 DEF V!getTransactionState
  <2>2. PICK txn : txn = [state |-> log[currentTxn].state, undo |-> Append(log[currentTxn].undo, undo)]
    BY Zenon
  <2>3. txn \in Txn /\ txn.state = log[currentTxn].state
    <3>1. log[currentTxn] \in Txn
      BY <1>2, <2>1
    <3>2. log[currentTxn].state \in V!TransactionStates /\ log[currentTxn].undo \in Seq(Undo)
      BY <3>1, Zenon DEF Txn
    <3>3. Append(log[currentTxn].undo, undo) \in Seq(Undo)
      BY <3>2
    <3> QED
      BY <2>2, <3>2, <3>3 DEF Txn
  <2>4. PICK new : new = [log EXCEPT ![currentTxn] = txn]
    BY Zenon
  <2>5. txns' = [txns EXCEPT ![database] = new]
    BY <1>1, <1>4, <2>2, <2>4, Zenon DEF AfterWrite, Logged, WithUndo
  <2>6. /\ new \in Seq(Txn) /\ DOMAIN new = DOMAIN log
        /\ \A i \in DOMAIN log : new[i].state = log[i].state
    BY <1>2, <2>1, <2>3, <2>4
  <2>7. StatesOf(new) = StatesOf(log)
    BY <2>6 DEF StatesOf
  <2> QED
    BY <1>1, <2>5, <2>6, <2>7, LogReplaced, Zenon
<1>5. CASE ~AutoCommit /\ ~SessionActive
  <2>1. txns' = [txns EXCEPT ![database] = log]
    BY <1>1, <1>5, Zenon DEF AfterWrite, Logged
  <2> QED
    BY <1>1, <1>2, <2>1, LogReplaced, Zenon
<1> QED
  BY <1>3, <1>4, <1>5, Zenon

\* Only one table of the database in use changes.
TablesKept(t) ==
  /\ DOMAIN tables' = Databases /\ \A d \in Databases : IsContent(tables'[d])
  /\ \A d \in Databases : d # database => tables'[d] = tables[d]
  /\ \A u \in DOMAIN tables[database] :
       u # t => u \in DOMAIN tables'[database] /\ tables'[database][u].records = tables[database][u].records

\* A statement that changes one table and invalidates it.
LEMMA WriteStep ==
  ASSUME SelectInv, NEW name \in TableNames, Invalidate(name), DoubtOtherSpellings(name),
         TablesKept(Lower[name]), LogsKept, UNCHANGED <<database, currentTxn>>
  PROVE  SelectInv'
<1>1. PICK t : t = Lower[name]
  OBVIOUS
<1>2. PICK otherQueries, otherTables :
        /\ otherQueries = {k \in EntryKeys(queries) :
                             /\ ReadsTable(queries.entries[k], database, t)
                             /\ name \notin queries.entries[k].tables}
        /\ otherTables = {k \in CachedKeys(cached) :
                            k[1] = database /\ k[2] # name /\ Lower[k[2]] = t}
        /\ Doubt(otherQueries, otherTables)
  BY <1>1, Zenon DEF DoubtOtherSpellings
<1>3. /\ \A k \in EntryKeys(queries') \ doubtful'.queries :
           k \notin doubtful.queries /\ k \notin otherQueries
      /\ \A k \in CachedKeys(cached') \ doubtful'.tables :
           k \notin doubtful.tables /\ k \notin otherTables
  BY <1>2, DoubtIs, Zenon
<1>4. IsQueryCache(queries) /\ IsBounded(queries) /\ queries' = WithoutTable(queries, name)
  BY Zenon DEF SelectInv, IsBounded, Invalidate
<1>5. /\ Shrinks(queries, queries')
      /\ \A k \in EntryKeys(queries') :
           queries'.entries[k] = queries.entries[k] /\ name \notin queries'.entries[k].tables
  <2>1. Shrinks(queries, queries') /\ NoneReads(queries, queries', name)
    BY <1>4, WithoutTableIs, Zenon
  <2> QED
    BY <2>1, Zenon DEF NoneReads
<1>6. \A k \in CachedKeys(cached') :
        k # <<database, name>> /\ k \in CachedKeys(cached) /\ cached'.entries[k] = cached.entries[k]
  <2>1. PICK key : key = <<database, name>>
    BY Zenon
  <2>2. cached' = Invalidated(cached, key)
    BY <2>1, Zenon DEF Invalidate
  <2>3. IsGone(cached, cached', key)
    BY <2>2, InvalidatedIs, Zenon
  <2> QED
    BY <2>1, <2>3, Zenon DEF IsGone
<1>7. /\ \A d \in Databases : d # database => tables'[d] = tables[d] /\ txns'[d] = txns[d]
      /\ \A u \in DOMAIN tables[database] :
           u # t => u \in DOMAIN tables'[database] /\ tables'[database][u].records = tables[database][u].records
  BY <1>1, Zenon DEF TablesKept, LogsKept
<1>8. ASSUME NEW k \in EntryKeys(queries') \ doubtful'.queries
      PROVE  Stays(queries.entries[k], tables, txns, database, currentTxn,
                   tables', txns', database', currentTxn')
  <2>1. PICK e : e = queries.entries[k]
    OBVIOUS
  <2>2. k \in EntryKeys(queries) /\ name \notin e.tables /\ k \notin otherQueries /\ e.db \in Databases
    BY <1>3, <1>4, <1>5, <2>1, Zenon DEF Shrinks, IsQueryCache, IsEntry
  <2>3. CASE e.db # database
    <3>1. tables'[e.db] = tables[e.db] /\ StatesOf(txns'[e.db]) = StatesOf(txns[e.db])
      BY <1>7, <2>2, <2>3, Zenon
    <3>2. Reader(database', currentTxn', e.db) = Reader(database, currentTxn, e.db)
      BY Zenon
    <3> QED
      BY <2>1, <3>1, <3>2, SameStays, Zenon
  <2>4. CASE e.db = database
    <3>1. \A n \in e.tables : Lower[n] # t
      BY <1>2, <2>1, <2>2, <2>4, Zenon DEF ReadsTable
    <3>2. SameTables(e, tables[e.db], tables'[e.db])
      BY <1>7, <2>4, <3>1, Zenon DEF SameTables, KeepsTable, Exists, TableOf
    <3>3. SameSight(tables[e.db], StatesOf(txns[e.db]), Reader(database, currentTxn, e.db),
                    StatesOf(txns'[e.db]), Reader(database', currentTxn', e.db))
      BY <2>4, Zenon DEF SameSight, LogsKept
    <3> QED
      BY <2>1, <3>2, <3>3, Zenon DEF Stays
  <2> QED
    BY <2>3, <2>4, Zenon
<1>9. AllFit(queries', doubtful'.queries, tables', txns', database', currentTxn')
  <2>1. AllFit(queries, doubtful.queries, tables, txns, database, currentTxn)
    BY Zenon DEF SelectInv
  <2> QED
    BY <1>3, <1>4, <1>5, <1>8, <2>1, AllFitStill, Zenon
<1>10. ASSUME NEW k \in CachedKeys(cached') \ doubtful'.tables
       PROVE  /\ k \in CachedKeys(cached) \ doubtful.tables /\ cached'.entries[k] = cached.entries[k]
              /\ KeepsTable(tables[k[1]], tables'[k[1]], k[2])
  <2>1. /\ k # <<database, name>> /\ k \in CachedKeys(cached) /\ cached'.entries[k] = cached.entries[k]
        /\ k \notin doubtful.tables /\ k \notin otherTables
    BY <1>3, <1>6, Zenon
  <2>2. k \in Databases \X TableNames
    BY <2>1, Zenon DEF SelectInv, TypeOK
  <2>3. k[1] \in Databases /\ (k[1] = database => k[2] # name)
    BY <2>1, <2>2
  <2>4. CASE k[1] # database
    BY <1>7, <2>1, <2>3, <2>4, Zenon DEF KeepsTable
  <2>5. CASE k[1] = database
    <3>1. Lower[k[2]] # t
      BY <1>2, <2>1, <2>3, <2>5, Zenon
    <3> QED
      BY <1>7, <2>1, <2>5, <3>1, Zenon DEF KeepsTable, Exists, TableOf
  <2> QED
    BY <2>4, <2>5, Zenon
<1>11. AreCopies(cached', doubtful'.tables, tables')
  <2>1. AreCopies(cached, doubtful.tables, tables)
    BY Zenon DEF SelectInv
  <2>2. CopiesStay(cached, doubtful.tables, tables, cached', doubtful'.tables, tables')
    BY <1>10, Zenon DEF CopiesStay
  <2> QED
    BY <2>1, <2>2, CopiesStill, Zenon
<1>12. IsBounded(queries')
  BY <1>4, <1>5, BoundedShrunk, Zenon
<1>13. TypeOK'
  <2>1. CachedKeys(cached') \subseteq Databases \X TableNames
    BY <1>6 DEF SelectInv, TypeOK
  <2> QED
    BY <2>1, Zenon DEF SelectInv, TypeOK, TablesKept, LogsKept
<1> QED
  BY <1>9, <1>11, <1>12, <1>13, Zenon DEF SelectInv

\* A database of which one table changes.
LEMMA TablesReplaced ==
  ASSUME TypeOK, NEW t, NEW content, IsContent(content),
         tables' = [tables EXCEPT ![database] = content],
         \A u \in DOMAIN tables[database] :
           u # t => u \in DOMAIN content /\ content[u].records = tables[database][u].records
  PROVE  TablesKept(t)
<1>1. /\ DOMAIN tables' = Databases /\ tables'[database] = content /\ \A d \in Databases : IsContent(tables[d])
      /\ \A d \in Databases : d # database => tables'[d] = tables[d]
  BY Zenon DEF TypeOK
<1> QED
  BY <1>1, Zenon DEF TablesKept

\* A statement that changes records changes those of one table.
LEMMA RecordsChanged ==
  ASSUME TypeOK, NEW name \in TableNames, Here(name), NEW records \in Seq(Record),
         ChangeRecords(name, records)
  PROVE  TablesKept(Lower[name])
<1>1. PICK old, t : old = tables[database] /\ t = Lower[name]
  BY Zenon
<1>2. IsContent(old) /\ t \in DOMAIN old
  BY <1>1, Zenon DEF TypeOK, Here, Exists
<1>3. old[t] \in Table /\ Lower[old[t].name] = t
  BY <1>2, Zenon DEF IsContent
<1>4. PICK table : table = [name |-> old[t].name, records |-> records]
  BY Zenon
<1>5. table \in Table /\ table.name = old[t].name
  BY <1>3, <1>4, Zenon DEF Table
<1>6. PICK new : new = [old EXCEPT ![t] = table]
  BY Zenon
<1>7. tables' = [tables EXCEPT ![database] = new]
  BY <1>1, <1>4, <1>6, Zenon DEF ChangeRecords, WithRecords
<1>8. DOMAIN new = DOMAIN old /\ new[t] = table /\ \A u \in DOMAIN old : u # t => new[u] = old[u]
  BY <1>2, <1>6, Zenon
<1>9. IsContent(new)
  BY <1>2, <1>3, <1>5, <1>8, Zenon DEF IsContent
<1> QED
  BY <1>1, <1>7, <1>8, <1>9, TablesReplaced, Zenon

\* The undo record of a statement.
LEMMA UndoTyped ==
  ASSUME NEW op \in {"INSERT", "UPDATE", "DELETE"}, NEW name \in TableNames,
         NEW at \in SUBSET Nat, NEW old \in RowValues
  PROVE  UndoRecord(op, name, at, old) \in Undo
BY SelectAssumption DEF UndoRecord, Undo

\* What a statement finds in a table, and the transaction it writes as.
LEMMA FoundIs ==
  ASSUME TypeOK, NEW name, Here(name)
  PROVE  RecordsOf(name) \in Seq(Record) /\ TxnId \in Nat \ {0}
<1>1. PICK t : t = Lower[name] /\ t \in DOMAIN tables[database]
  BY Zenon DEF Here, Exists
<1>2. tables[database][t] \in Table
  BY <1>1, Zenon DEF TypeOK, IsContent
<1>3. RecordsOf(name) \in Seq(Record)
  BY <1>1, <1>2, Zenon DEF RecordsOf, TableOf, Table
<1>4. txns[database] \in Seq(Txn) /\ currentTxn \in Nat
  BY Zenon DEF TypeOK
<1>5. TxnId \in Nat \ {0}
  BY <1>4 DEF TxnId, AutoCommit, V!INVALID_TXN_ID
<1> QED
  BY <1>3, <1>5, Zenon

\* The record of an INSERT.
LEMMA NewRecordTyped ==
  ASSUME NEW v \in RowValues, TxnId \in Nat \ {0}
  PROVE  NewRecord(v) \in Record
BY Zenon DEF NewRecord, Record, V!INVALID_TXN_ID

\* INSERT keeps the invariant.
LEMMA InsertStep ==
  ASSUME SelectInv, NEW name \in TableNames, NEW v \in RowValues, Insert(name, v)
  PROVE  SelectInv'
<1>1. /\ TypeOK /\ Here(name) /\ Invalidate(name) /\ DoubtOtherSpellings(name)
      /\ UNCHANGED <<database, currentTxn>>
  BY Zenon DEF Insert, SelectInv
<1>2. PICK old, record : old = RecordsOf(name) /\ record = NewRecord(v)
  OBVIOUS
<1>3. old \in Seq(Record) /\ record \in Record
  BY <1>1, <1>2, FoundIs, NewRecordTyped, Zenon
<1>4. PICK new : new = Append(old, record)
  BY Zenon
<1>5. new \in Seq(Record) /\ {Len(old) + 1} \in SUBSET Nat
  BY <1>3, <1>4
<1>6. ChangeRecords(name, new)
  BY <1>2, <1>4, Zenon DEF Insert
<1>7. TablesKept(Lower[name])
  BY <1>1, <1>5, <1>6, RecordsChanged, Zenon
<1>8. PICK undo : undo = UndoRecord("INSERT", name, {Len(old) + 1}, v)
  BY Zenon
<1>9. AfterWrite(undo)
  BY <1>2, <1>8, Zenon DEF Insert
<1>10. undo \in Undo
  BY <1>5, <1>8, UndoTyped, Zenon
<1>11. LogsKept
  BY <1>1, <1>9, <1>10, AfterWriteIs, Zenon
<1> QED
  BY <1>1, <1>7, <1>11, WriteStep, Zenon

\* UPDATE keeps the invariant.
LEMMA UpdateStep ==
  ASSUME SelectInv, NEW name \in TableNames, NEW v \in RowValues, NEW w \in RowValues,
         Update(name, v, w)
  PROVE  SelectInv'
<1>1. /\ TypeOK /\ Here(name) /\ Invalidate(name) /\ DoubtOtherSpellings(name)
      /\ UNCHANGED <<database, currentTxn>>
  BY Zenon DEF Update, SelectInv
<1>2. PICK old, at : old = RecordsOf(name) /\ at = Targets(name, v)
  BY Zenon
<1>3. old \in Seq(Record) /\ at \subseteq DOMAIN old
  BY <1>1, <1>2, FoundIs, Zenon DEF Targets
<1>4. PICK new : new = [i \in DOMAIN old |-> IF i \in at THEN [old[i] EXCEPT !.row = <<w>>] ELSE old[i]]
  BY Zenon
<1>5. new \in Seq(Record) /\ at \in SUBSET Nat
  <2>1. ASSUME NEW i \in DOMAIN old PROVE new[i] \in Record
    <3>1. old[i] \in Record
      BY <1>3
    <3>2. [old[i] EXCEPT !.row = <<w>>] \in Record
      BY <3>1, Zenon DEF Record
    <3> QED
      BY <1>4, <3>1, <3>2
  <2>2. DOMAIN old = 1..Len(old) /\ Len(old) \in Nat
    BY <1>3
  <2>3. new = [i \in 1..Len(old) |-> new[i]]
    BY <1>4, <2>2, Zenon
  <2> QED
    BY <1>3, <2>1, <2>2, <2>3
<1>6. ChangeRecords(name, new)
  BY <1>2, <1>4, Zenon DEF Update
<1>7. TablesKept(Lower[name])
  BY <1>1, <1>5, <1>6, RecordsChanged, Zenon
<1>8. PICK undo : undo = UndoRecord("UPDATE", name, at, v)
  BY Zenon
<1>9. AfterWrite(undo)
  BY <1>2, <1>8, Zenon DEF Update
<1>10. undo \in Undo
  BY <1>5, <1>8, UndoTyped, Zenon
<1>11. LogsKept
  BY <1>1, <1>9, <1>10, AfterWriteIs, Zenon
<1> QED
  BY <1>1, <1>7, <1>11, WriteStep, Zenon

\* DELETE keeps the invariant.
LEMMA DeleteStep ==
  ASSUME SelectInv, NEW name \in TableNames, NEW v \in RowValues, Delete(name, v)
  PROVE  SelectInv'
<1>1. /\ TypeOK /\ Here(name) /\ Invalidate(name) /\ DoubtOtherSpellings(name)
      /\ UNCHANGED <<database, currentTxn>>
  BY Zenon DEF Delete, SelectInv
<1>2. PICK old, at, id : old = RecordsOf(name) /\ at = Targets(name, v) /\ id = TxnId
  OBVIOUS
<1>3. old \in Seq(Record) /\ at \subseteq DOMAIN old /\ id \in Nat
  BY <1>1, <1>2, FoundIs, Zenon DEF Targets
<1>4. PICK new : new = [i \in DOMAIN old |-> IF i \in at THEN [old[i] EXCEPT !.deleteTxnId = id] ELSE old[i]]
  BY Zenon
<1>5. new \in Seq(Record) /\ at \in SUBSET Nat
  <2>1. ASSUME NEW i \in DOMAIN old PROVE new[i] \in Record
    <3>1. old[i] \in Record
      BY <1>3
    <3>2. [old[i] EXCEPT !.deleteTxnId = id] \in Record
      BY <1>3, <3>1, Zenon DEF Record
    <3> QED
      BY <1>4, <3>1, <3>2, Zenon
  <2>2. DOMAIN old = 1..Len(old) /\ Len(old) \in Nat
    BY <1>3
  <2>3. new = [i \in 1..Len(old) |-> new[i]]
    BY <1>4, <2>2, Zenon
  <2> QED
    BY <1>3, <2>1, <2>2, <2>3
<1>6. ChangeRecords(name, new)
  BY <1>2, <1>4, Zenon DEF Delete
<1>7. TablesKept(Lower[name])
  BY <1>1, <1>5, <1>6, RecordsChanged, Zenon
<1>8. PICK undo : undo = UndoRecord("DELETE", name, at, v)
  BY Zenon
<1>9. AfterWrite(undo)
  BY <1>2, <1>8, Zenon DEF Delete
<1>10. undo \in Undo
  BY <1>5, <1>8, UndoTyped, Zenon
<1>11. LogsKept
  BY <1>1, <1>9, <1>10, AfterWriteIs, Zenon
<1> QED
  BY <1>1, <1>7, <1>11, WriteStep, Zenon

\* A transaction whose undo records no longer reach a table.
LEMMA DetachedTyped ==
  ASSUME NEW txn \in Txn, NEW t
  PROVE  Detached(txn, t) \in Txn /\ Detached(txn, t).state = txn.state
<1>1. PICK undo : undo = txn.undo
  BY Zenon
<1>2. undo \in Seq(Undo) /\ txn.state \in V!TransactionStates
  BY <1>1, Zenon DEF Txn
<1>3. PICK new : new = [i \in DOMAIN undo |->
                          IF undo[i].table = t THEN [undo[i] EXCEPT !.at = {}] ELSE undo[i]]
  BY Zenon
<1>4. \A u \in Undo : [u EXCEPT !.at = {}] \in Undo
  BY DEF Undo
<1>5. \A i \in 1..Len(undo) : new[i] \in Undo
  BY <1>2, <1>3, <1>4
<1>6. new = [i \in 1..Len(undo) |-> new[i]] /\ Len(undo) \in Nat
  BY <1>2, <1>3
<1>7. new \in Seq(Undo)
  BY <1>5, <1>6
<1>8. Detached(txn, t) = [state |-> txn.state, undo |-> new]
  BY <1>1, <1>3, Zenon DEF Detached
<1> QED
  BY <1>2, <1>7, <1>8 DEF Txn

\* DROP TABLE keeps the invariant.
LEMMA DropTableStep ==
  ASSUME SelectInv, NEW name \in TableNames, DropTable(name)
  PROVE  SelectInv'
<1>1. /\ TypeOK /\ Here(name) /\ Invalidate(name) /\ DoubtOtherSpellings(name)
      /\ UNCHANGED <<database, currentTxn>>
  BY Zenon DEF DropTable, SelectInv
<1>2. PICK old, t, log : old = tables[database] /\ t = Lower[name] /\ log = txns[database]
  BY Zenon
<1>3. IsContent(old) /\ log \in Seq(Txn)
  BY <1>1, <1>2, Zenon DEF TypeOK
<1>4. PICK new : new = Without(old, t)
  BY Zenon
<1>5. DOMAIN new = DOMAIN old \ {t} /\ \A u \in DOMAIN new : new[u] = old[u]
  BY <1>4, Zenon DEF Without, Restrict
<1>6. IsContent(new)
  BY <1>3, <1>5, Zenon DEF IsContent
<1>7. tables' = [tables EXCEPT ![database] = new]
  BY <1>2, <1>4, Zenon DEF DropTable
<1>8. TablesKept(t)
  <2>1. \A u \in DOMAIN tables[database] :
          u # t => u \in DOMAIN new /\ new[u].records = tables[database][u].records
    BY <1>2, <1>5
  <2> QED
    BY <1>1, <1>6, <1>7, <2>1, TablesReplaced, Zenon
<1>9. PICK after : after = [i \in DOMAIN log |-> Detached(log[i], t)]
  BY Zenon
<1>10. txns' = [txns EXCEPT ![database] = after]
  BY <1>2, <1>9, Zenon DEF DropTable
<1>11. \A i \in DOMAIN log : after[i] \in Txn /\ after[i].state = log[i].state
  <2>1. \A i \in DOMAIN log : log[i] \in Txn
    BY <1>3
  <2> QED
    BY <1>9, <2>1, DetachedTyped, Zenon
<1>12. after \in Seq(Txn) /\ DOMAIN after = DOMAIN log
  <2>1. DOMAIN log = 1..Len(log) /\ Len(log) \in Nat
    BY <1>3
  <2>2. after = [i \in 1..Len(log) |-> after[i]]
    BY <1>9, <2>1
  <2> QED
    BY <1>11, <2>1, <2>2
<1>13. StatesOf(after) = StatesOf(log)
  BY <1>11, <1>12, Zenon DEF StatesOf
<1>14. LogsKept
  BY <1>1, <1>2, <1>10, <1>12, <1>13, LogReplaced, Zenon
<1> QED
  BY <1>1, <1>2, <1>8, <1>14, WriteStep, Zenon

-----------------------------------------------------------------------------
\* Statements that leave the caches alone.

\* A database that its entries still fit.
DatabaseStays(d) ==
  /\ \A name : KeepsTable(tables[d], tables'[d], name)
  /\ SameSight(tables[d], StatesOf(txns[d]), Reader(database, currentTxn, d),
               StatesOf(txns'[d]), Reader(database', currentTxn', d))

\* A statement that leaves the caches alone keeps the invariant, when entries are in
\* doubt for every database that does not stay.
LEMMA QuietStep ==
  ASSUME SelectInv, TypeOK', CachesUnchanged, NEW dbs,
         DoubtAll(dbs) \/ (UNCHANGED doubtful /\ dbs = {}),
         \A d \in Databases : d \notin dbs => DatabaseStays(d)
  PROVE  SelectInv'
<1>1. queries' = queries /\ cached' = cached /\ IsQueryCache(queries)
  BY Zenon DEF CachesUnchanged, SelectInv, IsBounded
<1>2. /\ \A k \in EntryKeys(queries) \ doubtful'.queries :
           k \notin doubtful.queries /\ queries.entries[k].db \notin dbs
      /\ \A k \in CachedKeys(cached) \ doubtful'.tables :
           k \notin doubtful.tables /\ k[1] \notin dbs
  <2>1. CASE DoubtAll(dbs)
    <3>1. PICK moreQueries, moreTables :
            /\ moreQueries = {k \in EntryKeys(queries) : queries.entries[k].db \in dbs}
            /\ moreTables = {k \in CachedKeys(cached) : k[1] \in dbs}
            /\ Doubt(moreQueries, moreTables)
      BY <2>1, Zenon DEF DoubtAll
    <3>2. /\ \A k \in EntryKeys(queries') \ doubtful'.queries :
               k \notin doubtful.queries /\ k \notin moreQueries
          /\ \A k \in CachedKeys(cached') \ doubtful'.tables :
               k \notin doubtful.tables /\ k \notin moreTables
      BY <3>1, DoubtIs, Zenon
    <3> QED
      BY <1>1, <3>1, <3>2, Zenon
  <2>2. CASE UNCHANGED doubtful /\ dbs = {}
    BY <2>2, Zenon
  <2> QED
    BY <2>1, <2>2, Zenon
<1>3. ASSUME NEW k \in EntryKeys(queries') \ doubtful'.queries
      PROVE  k \notin doubtful.queries
               /\ Stays(queries.entries[k], tables, txns, database, currentTxn,
                        tables', txns', database', currentTxn')
  <2>1. PICK e : e = queries.entries[k]
    OBVIOUS
  <2>2. k \notin doubtful.queries /\ e.db \notin dbs /\ e.db \in Databases
    BY <1>1, <1>2, <2>1, Zenon DEF IsQueryCache, IsEntry
  <2>3. DatabaseStays(e.db)
    BY <2>2, Zenon
  <2> QED
    BY <2>1, <2>2, <2>3, Zenon DEF DatabaseStays, Stays, SameTables
<1>4. AllFit(queries', doubtful'.queries, tables', txns', database', currentTxn')
  <2>1. AllFit(queries, doubtful.queries, tables, txns, database, currentTxn)
    BY Zenon DEF SelectInv
  <2>2. Shrinks(queries, queries')
    BY <1>1, Itself, Zenon
  <2> QED
    BY <1>1, <1>3, <2>1, <2>2, AllFitStill, Zenon
<1>5. CopiesStay(cached, doubtful.tables, tables, cached', doubtful'.tables, tables')
  <2>1. \A k \in CachedKeys(cached) : k[1] \in Databases
    BY DEF SelectInv, TypeOK
  <2> QED
    BY <1>1, <1>2, <2>1, Zenon DEF CopiesStay, DatabaseStays
<1>6. AreCopies(cached', doubtful'.tables, tables')
  BY <1>5, CopiesStill, Zenon DEF SelectInv
<1> QED
  BY <1>1, <1>4, <1>6, Zenon DEF SelectInv

\* A database in which nothing happens, for the same reader.
LEMMA StillDatabase ==
  ASSUME NEW d, tables'[d] = tables[d], StatesOf(txns'[d]) = StatesOf(txns[d]),
         Reader(database', currentTxn', d) = Reader(database, currentTxn, d)
  PROVE  DatabaseStays(d)
BY Zenon DEF DatabaseStays, KeepsTable, SameSight

\* An INSERT that fails half-way keeps the invariant.
LEMMA InsertRefusedStep ==
  ASSUME SelectInv, NEW name \in TableNames, NEW v \in RowValues, InsertRefused(name, v)
  PROVE  SelectInv'
<1>1. /\ TypeOK /\ Here(name) /\ CachesUnchanged /\ DoubtAll({database})
      /\ UNCHANGED <<database, currentTxn>>
  BY Zenon DEF InsertRefused, SelectInv
<1>2. PICK old, record : old = RecordsOf(name) /\ record = NewRecord(v)
  BY Zenon
<1>3. old \in Seq(Record) /\ record \in Record
  BY <1>1, <1>2, FoundIs, NewRecordTyped, Zenon
<1>4. PICK new : new = Append(old, record)
  BY Zenon
<1>5. new \in Seq(Record) /\ {Len(old) + 1} \in SUBSET Nat
  BY <1>3, <1>4
<1>6. ChangeRecords(name, new)
  BY <1>2, <1>4, Zenon DEF InsertRefused
<1>7. TablesKept(Lower[name])
  BY <1>1, <1>5, <1>6, RecordsChanged, Zenon
<1>8. /\ DOMAIN txns' = Databases /\ \A d \in Databases : txns'[d] \in Seq(Txn)
      /\ \A d \in Databases : d # database => txns'[d] = txns[d]
  <2>1. CASE AutoCommit
    <3>1. PICK open, log : open = [state |-> "ACTIVE", undo |-> << >>] /\ log = txns[database]
      BY Zenon
    <3>2. open \in Txn
      BY <3>1 DEF Txn, V!TransactionStates
    <3>3. txns' = [txns EXCEPT ![database] = Append(log, open)]
      BY <2>1, <3>1, Zenon DEF InsertRefused
    <3>4. Append(log, open) \in Seq(Txn)
      <4>1. log \in Seq(Txn)
        BY <1>1, <3>1, Zenon DEF TypeOK
      <4> QED
        BY <3>2, <4>1
    <3> QED
      BY <1>1, <3>3, <3>4, Zenon DEF TypeOK
  <2>2. CASE ~AutoCommit
    <3>1. PICK undo : undo = UndoRecord("INSERT", name, {Len(old) + 1}, v)
      BY Zenon
    <3>2. AfterWrite(undo)
      BY <1>2, <2>2, <3>1, Zenon DEF InsertRefused
    <3>3. undo \in Undo
      BY <1>5, <3>1, UndoTyped, Zenon
    <3>4. LogsKept
      BY <1>1, <3>2, <3>3, AfterWriteIs, Zenon
    <3> QED
      BY <3>4, Zenon DEF LogsKept
  <2> QED
    BY <2>1, <2>2, Zenon
<1>9. TypeOK'
  BY <1>1, <1>7, <1>8, Zenon DEF TypeOK, TablesKept, CachesUnchanged
<1>10. ASSUME NEW d \in Databases, d \notin {database} PROVE DatabaseStays(d)
  <2>1. d # database
    BY <1>10, Zenon
  <2>2. tables'[d] = tables[d] /\ StatesOf(txns'[d]) = StatesOf(txns[d])
    BY <1>7, <1>8, <2>1, Zenon DEF TablesKept
  <2>3. Reader(database', currentTxn', d) = Reader(database, currentTxn, d)
    BY <1>1, Zenon
  <2> QED
    BY <2>2, <2>3, StillDatabase, Zenon
<1> QED
  BY <1>1, <1>9, <1>10, QuietStep, Zenon

\* CREATE TABLE keeps the invariant: no entry reads the new table.
LEMMA CreateTableStep ==
  ASSUME SelectInv, NEW name \in TableNames, CreateTable(name)
  PROVE  SelectInv'
<1>1. /\ TypeOK /\ ~Here(name) /\ CachesUnchanged /\ UNCHANGED <<database, currentTxn, txns, doubtful>>
  BY Zenon DEF CreateTable, SelectInv
<1>2. PICK old, t, new : old = tables[database] /\ t = Lower[name] /\ new = With(old, name)
  BY Zenon
<1>3. IsContent(old) /\ t \notin DOMAIN old
  BY <1>1, <1>2, Zenon DEF TypeOK, Here, Exists
<1>4. PICK table : table = [name |-> name, records |-> << >>]
  BY Zenon
<1>5. table \in Table /\ table.name = name
  BY <1>4 DEF Table
<1>6. new = [u \in DOMAIN old \cup {t} |-> IF u = t THEN table ELSE old[u]]
  BY <1>2, <1>4, Zenon DEF With
<1>7. DOMAIN new = DOMAIN old \cup {t} /\ new[t] = table /\ \A u \in DOMAIN old : new[u] = old[u]
  BY <1>3, <1>6, Zenon
<1>8. IsContent(new)
  BY <1>2, <1>3, <1>5, <1>7 DEF IsContent
<1>9. tables' = [tables EXCEPT ![database] = new]
  BY <1>2, Zenon DEF CreateTable
<1>10. TablesKept(t)
  <2>1. \A u \in DOMAIN tables[database] :
          u # t => u \in DOMAIN new /\ new[u].records = tables[database][u].records
    BY <1>2, <1>7
  <2> QED
    BY <1>1, <1>8, <1>9, <2>1, TablesReplaced, Zenon
<1>11. TypeOK'
  BY <1>1, <1>10, Zenon DEF TypeOK, TablesKept, CachesUnchanged
<1>12. ASSUME NEW d \in Databases PROVE DatabaseStays(d)
  <2>1. Reader(database', currentTxn', d) = Reader(database, currentTxn, d) /\ StatesOf(txns'[d]) = StatesOf(txns[d])
    BY <1>1, Zenon
  <2>2. CASE d # database
    <3>1. tables'[d] = tables[d]
      BY <1>10, <2>2, Zenon DEF TablesKept
    <3> QED
      BY <2>1, <3>1, StillDatabase, Zenon
  <2>3. CASE d = database
    <3>1. tables'[d] = new
      BY <1>1, <1>9, <2>3 DEF TypeOK
    <3>2. \A other : KeepsTable(tables[d], tables'[d], other)
      BY <1>2, <1>7, <2>3, <3>1 DEF KeepsTable, Exists, TableOf
    <3> QED
      BY <2>1, <3>2, Zenon DEF DatabaseStays, SameSight
  <2> QED
    BY <2>2, <2>3, Zenon
<1>13. \A d \in Databases : d \notin {} => DatabaseStays(d)
  BY <1>12, Zenon
<1> QED
  BY <1>1, <1>11, <1>13, QuietStep, Zenon

\* Records in tables were created by a transaction.
LEMMA CreatedOnes ==
  ASSUME TypeOK, NEW d \in Databases, NEW t \in DOMAIN tables[d]
  PROVE  AreCreated(tables[d][t].records)
<1>1. tables[d][t] \in Table
  BY Zenon DEF TypeOK, IsContent
<1>2. PICK records : records = tables[d][t].records /\ records \in Seq(Record)
  BY <1>1, Zenon DEF Table
<1>3. \A i \in DOMAIN records : records[i] \in Record
  BY <1>2
<1>4. \A r \in Record : r.createTxnId # 0
  BY DEF Record
<1> QED
  BY <1>2, <1>3, <1>4, Zenon DEF AreCreated, V!INVALID_TXN_ID

\* BEGIN keeps the invariant: a new transaction sees what a reader without one sees.
LEMMA BeginStep ==
  ASSUME SelectInv, Begin
  PROVE  SelectInv'
<1>1. TypeOK /\ CachesUnchanged /\ UNCHANGED <<database, tables>>
  BY Zenon DEF Begin, SelectInv
<1>2. PICK open, log : open = [state |-> "ACTIVE", undo |-> << >>] /\ log = txns[database]
  BY Zenon
<1>3. open \in Txn /\ log \in Seq(Txn) /\ open.state = "ACTIVE"
  <2>1. open \in Txn /\ open.state = "ACTIVE"
    BY <1>2 DEF Txn, V!TransactionStates
  <2> QED
    BY <1>1, <1>2, <2>1, Zenon DEF TypeOK
<1>4. PICK longer : longer = Append(log, open)
  BY Zenon
<1>5. longer \in Seq(Txn) /\ StatesOf(longer) = Append(StatesOf(log), "ACTIVE")
  BY <1>3, <1>4, StatesAppended, Zenon
<1>6. txns' = [txns EXCEPT ![database] = longer] /\ currentTxn' = Len(log) + 1
  BY <1>2, <1>4, Zenon DEF Begin
<1>7. /\ DOMAIN txns' = Databases /\ \A d \in Databases : txns'[d] \in Seq(Txn)
      /\ \A d \in Databases : d # database => txns'[d] = txns[d]
      /\ txns'[database] = longer
  BY <1>1, <1>5, <1>6 DEF TypeOK
<1>8. currentTxn' \in Nat
  BY <1>3, <1>6
<1>9. TypeOK'
  BY <1>1, <1>7, <1>8, Zenon DEF TypeOK, CachesUnchanged
<1>10. ASSUME NEW d \in Databases, d # database PROVE DatabaseStays(d)
  <2>1. tables'[d] = tables[d] /\ StatesOf(txns'[d]) = StatesOf(txns[d])
    BY <1>1, <1>7, <1>10, Zenon
  <2>2. Reader(database', currentTxn', d) = Reader(database, currentTxn, d)
    BY <1>1, <1>10, Zenon DEF Reader
  <2> QED
    BY <2>1, <2>2, StillDatabase, Zenon
<1>11. CASE AutoCommit
  <2>1. DatabaseStays(database)
    <3>1. \A name : KeepsTable(tables[database], tables'[database], name)
      BY <1>1, Zenon DEF KeepsTable
    <3>2. /\ Reader(database, currentTxn, database) = V!INVALID_TXN_ID
          /\ Reader(database', currentTxn', database) = Len(log) + 1
      BY <1>1, <1>6, <1>11, Zenon DEF Reader, AutoCommit
    <3>3. StatesOf(log) \in Seq(V!TransactionStates) /\ Len(StatesOf(log)) = Len(log)
      BY <1>3, StatesTyped, Zenon
    <3>4. ASSUME NEW t \in DOMAIN tables[database]
          PROVE  Seen(StatesOf(longer), Len(log) + 1, tables[database][t].records)
                   = Seen(StatesOf(log), V!INVALID_TXN_ID, tables[database][t].records)
      <4>1. PICK records : records = tables[database][t].records /\ AreCreated(records)
        BY <1>1, CreatedOnes, Zenon DEF TypeOK
      <4>2. Seen(Append(StatesOf(log), "ACTIVE"), Len(StatesOf(log)) + 1, records)
              = Seen(StatesOf(log), V!INVALID_TXN_ID, records)
        BY <3>3, <4>1, SeenAfterBegin
      <4> QED
        BY <1>5, <3>3, <4>1, <4>2, Zenon
    <3>5. SameSight(tables[database], StatesOf(txns[database]), Reader(database, currentTxn, database),
                    StatesOf(txns'[database]), Reader(database', currentTxn', database))
      BY <1>2, <1>7, <3>2, <3>4, Zenon DEF SameSight
    <3> QED
      BY <3>1, <3>5, Zenon DEF DatabaseStays
  <2>2. \A d \in Databases : d \notin {} => DatabaseStays(d)
    BY <1>10, <2>1, Zenon
  <2>3. UNCHANGED doubtful
    BY <1>11, Zenon DEF Begin
  <2> QED
    BY <1>1, <1>9, <2>2, <2>3, QuietStep, Zenon
<1>12. CASE ~AutoCommit
  <2>1. \A d \in Databases : d \notin {database} => DatabaseStays(d)
    BY <1>10, Zenon
  <2>2. DoubtAll({database})
    BY <1>12, Zenon DEF Begin
  <2> QED
    BY <1>1, <1>9, <2>1, <2>2, QuietStep, Zenon
<1> QED
  BY <1>11, <1>12, Zenon

\* The session's transaction is known in the database in use.
LEMMA SessionIsKnown ==
  ASSUME TypeOK, SessionActive
  PROVE  currentTxn \in DOMAIN txns[database] /\ currentTxn # V!INVALID_TXN_ID
<1>1. txns[database] \in Seq(Txn)
  BY Zenon DEF TypeOK
<1>2. PICK log : log = txns[database] /\ log \in Seq(Txn)
  BY <1>1, Zenon
<1>3. PICK states : states = StatesOf(log) /\ DOMAIN states = DOMAIN log
  BY <1>2, StatesTyped, Zenon
<1>4. V!getTransactionState(states, currentTxn) = "ACTIVE"
  BY <1>2, <1>3, Zenon DEF SessionActive, States
<1>5. currentTxn \in DOMAIN log
  BY <1>3, <1>4 DEF V!getTransactionState
<1> QED
  BY <1>2, <1>5 DEF V!INVALID_TXN_ID

\* The end of the session's transaction is all that changes in the logs.
LEMMA EndedIs ==
  ASSUME TypeOK, SessionActive, NEW state \in V!TransactionStates,
         txns' = [txns EXCEPT ![database] = Ended(txns[database], state)]
  PROVE  /\ DOMAIN txns' = Databases /\ \A d \in Databases : txns'[d] \in Seq(Txn)
         /\ \A d \in Databases : d # database => txns'[d] = txns[d]
         /\ DOMAIN txns'[database] = DOMAIN txns[database]
         /\ txns'[database][currentTxn].state = state
         /\ \A i \in DOMAIN txns[database] : i # currentTxn => txns'[database][i] = txns[database][i]
<1>1. PICK log : log = txns[database]
  OBVIOUS
<1>2. log \in Seq(Txn) /\ currentTxn \in DOMAIN log
  BY <1>1, SessionIsKnown, Zenon DEF TypeOK
<1>3. log[currentTxn] \in Txn
  BY <1>2
<1>4. PICK txn : txn = [state |-> state, undo |-> log[currentTxn].undo]
  BY Zenon
<1>5. txn \in Txn /\ txn.state = state
  BY <1>3, <1>4, Zenon DEF Txn
<1>6. PICK new : new = [log EXCEPT ![currentTxn] = txn]
  BY Zenon
<1>7. /\ new \in Seq(Txn) /\ DOMAIN new = DOMAIN log /\ new[currentTxn] = txn
      /\ \A i \in DOMAIN log : i # currentTxn => new[i] = log[i]
  BY <1>2, <1>5, <1>6
<1>8. txns' = [txns EXCEPT ![database] = new]
  BY <1>1, <1>4, <1>6, Zenon DEF Ended
<1>9. /\ DOMAIN txns' = Databases /\ \A d \in Databases : txns'[d] \in Seq(Txn)
      /\ \A d \in Databases : d # database => txns'[d] = txns[d]
      /\ txns'[database] = new
  BY <1>7, <1>8, Zenon DEF TypeOK
<1> QED
  BY <1>1, <1>5, <1>7, <1>9, Zenon

\* COMMIT keeps the invariant: afterwards everybody sees what the session saw.
LEMMA CommitStep ==
  ASSUME SelectInv, Commit
  PROVE  SelectInv'
<1>1. /\ TypeOK /\ SessionActive /\ CachesUnchanged /\ UNCHANGED <<database, tables, doubtful>>
      /\ txns' = [txns EXCEPT ![database] = Ended(txns[database], "COMMITTED")]
      /\ currentTxn' = V!INVALID_TXN_ID
  BY Zenon DEF Commit, SelectInv
<1>2. "COMMITTED" \in V!TransactionStates
  BY Zenon DEF V!TransactionStates
<1>3. /\ DOMAIN txns' = Databases /\ \A d \in Databases : txns'[d] \in Seq(Txn)
      /\ \A d \in Databases : d # database => txns'[d] = txns[d]
      /\ DOMAIN txns'[database] = DOMAIN txns[database]
      /\ txns'[database][currentTxn].state = "COMMITTED"
      /\ \A i \in DOMAIN txns[database] : i # currentTxn => txns'[database][i] = txns[database][i]
  BY <1>1, <1>2, EndedIs, Zenon
<1>4. TypeOK'
  <2>1. currentTxn' \in Nat
    BY <1>1, Zenon DEF V!INVALID_TXN_ID
  <2> QED
    BY <1>1, <1>3, <2>1, Zenon DEF TypeOK, CachesUnchanged
<1>5. ASSUME NEW d \in Databases, d # database PROVE DatabaseStays(d)
  <2>1. tables'[d] = tables[d] /\ StatesOf(txns'[d]) = StatesOf(txns[d])
    BY <1>1, <1>3, <1>5, Zenon
  <2>2. Reader(database', currentTxn', d) = Reader(database, currentTxn, d)
    BY <1>1, <1>5, Zenon DEF Reader
  <2> QED
    BY <2>1, <2>2, StillDatabase, Zenon
<1>6. DatabaseStays(database)
  <2>1. \A name : KeepsTable(tables[database], tables'[database], name)
    BY <1>1, Zenon DEF KeepsTable
  <2>2. PICK states, other : states = StatesOf(txns[database]) /\ other = StatesOf(txns'[database])
    BY Zenon
  <2>3. /\ Reader(database, currentTxn, database) = currentTxn
        /\ Reader(database', currentTxn', database) = V!INVALID_TXN_ID
    BY <1>1, Zenon DEF Reader
  <2>4. currentTxn \in DOMAIN txns[database] /\ currentTxn # V!INVALID_TXN_ID
    BY <1>1, SessionIsKnown, Zenon
  <2>5. /\ DOMAIN other = DOMAIN states /\ currentTxn \in DOMAIN states
        /\ other[currentTxn] = "COMMITTED"
        /\ \A i \in DOMAIN states : i # currentTxn => other[i] = states[i]
    BY <1>3, <2>2, <2>4 DEF StatesOf
  <2>6. /\ V!getTransactionState(states, currentTxn) = "ACTIVE"
        /\ V!getTransactionState(other, currentTxn) = "COMMITTED"
        /\ \A id : id # currentTxn => V!getTransactionState(other, id) = V!getTransactionState(states, id)
    BY <1>1, <2>2, <2>5, Zenon DEF V!getTransactionState, SessionActive, States
  <2>7. ASSUME NEW t \in DOMAIN tables[database]
        PROVE  Seen(other, V!INVALID_TXN_ID, tables[database][t].records)
                 = Seen(states, currentTxn, tables[database][t].records)
    <3>1. PICK records : records = tables[database][t].records /\ AreCreated(records)
      BY <1>1, CreatedOnes, Zenon DEF TypeOK
    <3>2. Seen(other, V!INVALID_TXN_ID, records) = Seen(states, currentTxn, records)
      BY <2>4, <2>6, <3>1, SeenAfterCommit
    <3> QED
      BY <3>1, <3>2, Zenon
  <2>8. SameSight(tables[database], StatesOf(txns[database]), Reader(database, currentTxn, database),
                  StatesOf(txns'[database]), Reader(database', currentTxn', database))
    BY <2>2, <2>3, <2>7, Zenon DEF SameSight
  <2> QED
    BY <2>1, <2>8, Zenon DEF DatabaseStays
<1>7. \A d \in Databases : d \notin {} => DatabaseStays(d)
  BY <1>5, <1>6, Zenon
<1> QED
  BY <1>1, <1>4, <1>7, QuietStep, Zenon

\* USE keeps the invariant.
LEMMA UseStep ==
  ASSUME SelectInv, NEW d \in Databases, Use(d)
  PROVE  SelectInv'
<1>1. TypeOK /\ database' = d /\ CachesUnchanged /\ UNCHANGED <<currentTxn, txns, tables>>
  BY Zenon DEF Use, SelectInv
<1>2. TypeOK'
  BY <1>1, Zenon DEF TypeOK, CachesUnchanged
<1>3. ASSUME NEW e \in Databases, Reader(database', currentTxn', e) = Reader(database, currentTxn, e)
      PROVE  DatabaseStays(e)
  <2>1. tables'[e] = tables[e] /\ StatesOf(txns'[e]) = StatesOf(txns[e])
    BY <1>1, Zenon
  <2> QED
    BY <1>3, <2>1, StillDatabase, Zenon
<1>4. CASE AutoCommit
  <2>1. \A e \in Databases : Reader(database', currentTxn', e) = Reader(database, currentTxn, e)
    BY <1>1, <1>4, Zenon DEF Reader, AutoCommit
  <2>2. \A e \in Databases : e \notin {} => DatabaseStays(e)
    BY <1>3, <2>1, Zenon
  <2>3. UNCHANGED doubtful
    BY <1>4, Zenon DEF Use
  <2> QED
    BY <1>1, <1>2, <2>2, <2>3, QuietStep, Zenon
<1>5. CASE ~AutoCommit
  <2>1. \A e \in Databases :
          e \notin {database, d} => Reader(database', currentTxn', e) = Reader(database, currentTxn, e)
    BY <1>1, Zenon DEF Reader
  <2>2. \A e \in Databases : e \notin {database, d} => DatabaseStays(e)
    BY <1>3, <2>1, Zenon
  <2>3. DoubtAll({database, d})
    BY <1>5, Zenon DEF Use
  <2> QED
    BY <1>1, <1>2, <2>2, <2>3, QuietStep, Zenon
<1> QED
  BY <1>4, <1>5, Zenon

\* What an undo record makes of a record is a record.
LEMMA RestoredTyped ==
  ASSUME currentTxn \in Nat, NEW undo \in Undo, NEW record \in Record
  PROVE  Restored(undo, record) \in Record
<1>1. <<undo.old>> \in {<<v>> : v \in RowValues}
  BY Zenon DEF Undo
<1>2. PICK old : old = <<undo.old>> /\ old \in {<<v>> : v \in RowValues}
  BY <1>1, Zenon
<1>3. /\ [record EXCEPT !.deleteTxnId = currentTxn] \in Record
      /\ [record EXCEPT !.deleteTxnId = 0] \in Record
  BY DEF Record
<1>4. [record EXCEPT !.row = old] \in Record
  BY <1>2 DEF Record
<1>5. [record EXCEPT !.row = <<undo.old>>] \in Record
  BY <1>2, <1>4, Zenon
<1> QED
  BY <1>3, <1>5, Zenon DEF Restored, V!INVALID_TXN_ID

\* Tables with these keys.
Versions(T) == {content \in [T -> Table] : IsContent(content)}

\* What an undo record makes of the tables are tables.
LEMMA UndoOneTyped ==
  ASSUME currentTxn \in Nat, NEW content, IsContent(content), NEW undo \in Undo
  PROVE  UndoOne(content, undo) \in Versions(DOMAIN content)
<1>1. PICK T, new : T = DOMAIN content /\ new = UndoOne(content, undo)
  OBVIOUS
<1>2. ASSUME NEW t \in T PROVE new[t] \in Table /\ Lower[new[t].name] = t
  <2>1. content[t] \in Table /\ Lower[content[t].name] = t
    BY <1>1, Zenon DEF IsContent
  <2>2. CASE t # undo.table
    <3>1. new[t] = content[t]
      BY <1>1, <2>2, Zenon DEF UndoOne
    <3> QED
      BY <2>1, <3>1, Zenon
  <2>3. CASE t = undo.table
    <3>1. PICK old : old = content[t].records
      OBVIOUS
    <3>2. old \in Seq(Record) /\ content[t].name \in TableNames
      BY <2>1, <3>1, Zenon DEF Table
    <3>3. PICK records : records = [i \in DOMAIN old |-> IF i \in undo.at THEN Restored(undo, old[i]) ELSE old[i]]
      BY Zenon
    <3>4. \A i \in DOMAIN old : old[i] \in Record
      BY <3>2
    <3>5. \A i \in DOMAIN old : (IF i \in undo.at THEN Restored(undo, old[i]) ELSE old[i]) \in Record
      BY <3>4, RestoredTyped, Zenon
    <3>6. records \in [DOMAIN old -> Record]
      BY <3>3, <3>5, Zenon
    <3>7. records \in Seq(Record)
      BY <3>2, <3>6
    <3>8. new[t] = [name |-> content[t].name, records |-> records]
      BY <1>1, <2>3, <3>1, <3>3, Zenon DEF UndoOne
    <3> QED
      BY <2>1, <3>2, <3>7, <3>8 DEF Table
  <2> QED
    BY <2>2, <2>3, Zenon
<1>3. DOMAIN new = T /\ new = [t \in T |-> new[t]]
  BY <1>1, Zenon DEF UndoOne
<1>4. new \in [T -> Table] /\ IsContent(new)
  BY <1>2, <1>3, Zenon DEF IsContent
<1> QED
  BY <1>1, <1>4, Zenon DEF Versions

\* All the undo records of a transaction.
LEMMA UndoneTyped ==
  ASSUME currentTxn \in Nat, NEW content, IsContent(content), NEW undo \in Seq(Undo)
  PROVE  IsContent(Undone(content, undo))
<1> DEFINE next(s, k) == UndoOne(s, undo[Len(undo) + 1 - k])
           IsRun(f) == f = [k \in 0 .. Len(undo) |-> IF k = 0 THEN content ELSE next(f[k - 1], k)]
<1>1. PICK n \in Nat : n = Len(undo)
  OBVIOUS
<1>2. PICK D : D = {content} \cup Versions(DOMAIN content)
  BY Zenon
<1>3. content \in D /\ \A s \in D : IsContent(s) /\ DOMAIN s = DOMAIN content
  <2>1. \A s \in Versions(DOMAIN content) : IsContent(s) /\ DOMAIN s = DOMAIN content
    BY Zenon DEF Versions
  <2> QED
    BY <1>2, <2>1, Zenon
<1>4. \A s \in D, k \in 1 .. n : next(s, k) \in D
  <2>1. \A k \in 1 .. n : undo[Len(undo) + 1 - k] \in Undo
    BY <1>1
  <2>2. ASSUME NEW s \in D, NEW k \in 1 .. n PROVE next(s, k) \in D
    <3>1. PICK u \in Undo : u = undo[Len(undo) + 1 - k]
      BY <2>1, Zenon
    <3>2. IsContent(s) /\ DOMAIN s = DOMAIN content
      BY <1>3, Zenon
    <3>3. UndoOne(s, u) \in Versions(DOMAIN content)
      BY <3>2, UndoOneTyped, Zenon
    <3> QED
      BY <1>2, <3>1, <3>3, Zenon
  <2> QED
    BY <2>2, Zenon
<1>5. Undone(content, undo) = (CHOOSE f : IsRun(f))[n]
  BY <1>1 DEF Undone
<1> HIDE DEF next
<1> DEFINE step == [k \in 1 .. n |-> [s \in D |-> next(s, k)]]
<1>6. PICK f : StepByStep(f, D, content, n, step)
  <2>1. step \in [1 .. n -> [D -> D]]
    BY <1>4
  <2> HIDE DEF step
  <2> QED
    BY <1>3, <2>1, RunExists, Zenon
<1>7. \A i \in 1 .. n : i \in 0 .. n /\ i - 1 \in 0 .. n /\ i # 0
  OBVIOUS
<1>8. 0 \in 0 .. n /\ n \in 0 .. n /\ \A i \in 0 .. n : i = 0 \/ i \in 1 .. n
  OBVIOUS
<1>9. IsRun(f)
  <2>1. \A i \in 1 .. n : \A s \in D : step[i][s] = next(s, i)
    BY Zenon
  <2> HIDE DEF step
  <2>2. \A i \in 1 .. n : f[i] = next(f[i - 1], i)
    BY <1>6, <1>7, <2>1, Zenon DEF StepByStep
  <2>3. \A i \in 0 .. n : f[i] = IF i = 0 THEN content ELSE next(f[i - 1], i)
    BY <1>6, <1>8, <2>2, Zenon DEF StepByStep
  <2>4. f = [i \in 0 .. n |-> f[i]]
    BY <1>6, Zenon DEF StepByStep
  <2> QED
    BY <1>1, <2>3, <2>4, Zenon
<1>10. PICK g : g = CHOOSE h : IsRun(h)
  BY Zenon
<1>11. g = [k \in 0 .. n |-> IF k = 0 THEN content ELSE next(g[k - 1], k)]
  BY <1>1, <1>9, <1>10, Zenon
<1>12. g[0] = content /\ \A i \in 1 .. n : g[i] = next(g[i - 1], i)
  BY <1>7, <1>8, <1>11, Zenon
<1>13. \A i \in 1 .. n : g[i - 1] \in D => g[i] \in D
  BY <1>4, <1>12, Zenon
<1>14. \A i \in 0 .. n : g[i] \in D
  BY <1>3, <1>12, <1>13, RunStays, Zenon
<1> QED
  BY <1>3, <1>5, <1>8, <1>10, <1>14, Zenon

\* ROLLBACK keeps the invariant.
LEMMA RollbackStep ==
  ASSUME SelectInv, Rollback
  PROVE  SelectInv'
<1>1. /\ TypeOK /\ SessionActive /\ CachesUnchanged /\ DoubtAll({database}) /\ UNCHANGED database
      /\ txns' = [txns EXCEPT ![database] = Ended(txns[database], "ABORTED")]
      /\ currentTxn' = V!INVALID_TXN_ID
  BY Zenon DEF Rollback, SelectInv
<1>2. "ABORTED" \in V!TransactionStates
  BY Zenon DEF V!TransactionStates
<1>3. /\ DOMAIN txns' = Databases /\ \A d \in Databases : txns'[d] \in Seq(Txn)
      /\ \A d \in Databases : d # database => txns'[d] = txns[d]
  BY <1>1, <1>2, EndedIs, Zenon
<1>4. PICK undo : undo = txns[database][currentTxn].undo
  BY Zenon
<1>5. undo \in Seq(Undo)
  <2>1. txns[database] \in Seq(Txn) /\ currentTxn \in DOMAIN txns[database]
    BY <1>1, SessionIsKnown, Zenon DEF TypeOK
  <2>2. txns[database][currentTxn] \in Txn
    BY <2>1
  <2> QED
    BY <1>4, <2>2, Zenon DEF Txn
<1>6. PICK new : new = Undone(tables[database], undo)
  BY Zenon
<1>7. IsContent(new)
  BY <1>1, <1>5, <1>6, UndoneTyped, Zenon DEF TypeOK
<1>8. tables' = [tables EXCEPT ![database] = new]
  BY <1>4, <1>6, Zenon DEF Rollback
<1>9. /\ DOMAIN tables' = Databases /\ \A d \in Databases : IsContent(tables'[d])
      /\ \A d \in Databases : d # database => tables'[d] = tables[d]
  BY <1>1, <1>7, <1>8 DEF TypeOK
<1>10. TypeOK'
  <2>1. currentTxn' \in Nat
    BY <1>1, Zenon DEF V!INVALID_TXN_ID
  <2> QED
    BY <1>1, <1>3, <1>9, <2>1, Zenon DEF TypeOK, CachesUnchanged
<1>11. ASSUME NEW d \in Databases, d \notin {database} PROVE DatabaseStays(d)
  <2>1. d # database
    BY <1>11
  <2>2. tables'[d] = tables[d] /\ StatesOf(txns'[d]) = StatesOf(txns[d])
    BY <1>3, <1>9, <2>1, Zenon
  <2>3. Reader(database', currentTxn', d) = Reader(database, currentTxn, d)
    BY <1>1, <2>1, Zenon DEF Reader
  <2> QED
    BY <2>2, <2>3, StillDatabase, Zenon
<1> QED
  BY <1>1, <1>10, <1>11, QuietStep, Zenon

\* The invariant holds at the start.
LEMMA InitHolds ==
  ASSUME Init
  PROVE  SelectInv
<1>1. PICK record : record = [row |-> <<CHOOSE v \in RowValues : TRUE>>, createTxnId |-> 1,
                              deleteTxnId |-> V!INVALID_TXN_ID]
  BY Zenon
<1>2. record \in Record
  <2>1. PICK v : v = CHOOSE w \in RowValues : TRUE
    BY Zenon
  <2>2. v \in RowValues
    BY <2>1, SelectAssumption, Zenon
  <2>3. record = [row |-> <<v>>, createTxnId |-> 1, deleteTxnId |-> 0]
    BY <1>1, <2>1, Zenon DEF V!INVALID_TXN_ID
  <2> QED
    BY <2>2, <2>3 DEF Record
<1>3. PICK first : first = [t \in {Lower[name] : name \in TableNames} |-> [name |-> t, records |-> <<record>>]]
  BY Zenon
<1>4. IsContent(first)
  <2>1. ASSUME NEW t \in DOMAIN first PROVE first[t] \in Table /\ Lower[first[t].name] = t
    <3>1. PICK name \in TableNames : t = Lower[name]
      BY <1>3, Zenon
    <3>2. t \in TableNames /\ Lower[t] = t
      BY <3>1, SelectAssumption, Zenon
    <3>3. <<record>> \in Seq(Record)
      BY <1>2
    <3>4. PICK records : records = <<record>> /\ records \in Seq(Record)
      BY <3>3, Zenon
    <3>5. first[t] = [name |-> t, records |-> records]
      BY <1>3, <3>4
    <3> QED
      BY <3>2, <3>4, <3>5 DEF Table
  <2> QED
    BY <2>1, Zenon DEF IsContent
<1>5. DOMAIN tables = Databases /\ \A d \in Databases : IsContent(tables[d])
  <2>1. tables = [d \in Databases |-> first]
    BY <1>1, <1>3, Zenon DEF Init
  <2> QED
    BY <1>4, <2>1, Zenon
<1>6. DOMAIN txns = Databases /\ \A d \in Databases : txns[d] \in Seq(Txn)
  <2>1. PICK txn : txn = [state |-> "COMMITTED", undo |-> << >>]
    BY Zenon
  <2>2. txn \in Txn
    BY <2>1 DEF Txn, V!TransactionStates
  <2>3. txns = [d \in Databases |-> <<txn>>]
    BY <2>1, Zenon DEF Init
  <2>4. <<txn>> \in Seq(Txn)
    BY <2>2
  <2> QED
    BY <2>3, <2>4, Zenon
<1>7. CachedKeys(cached) = {}
  BY DEF Init, CachedKeys, NoTables
<1>8. TypeOK
  <2>1. database \in Databases /\ currentTxn \in Nat
    BY SelectAssumption, Zenon DEF Init, V!INVALID_TXN_ID
  <2>2. CachedKeys(cached) \subseteq Databases \X TableNames
    BY <1>7
  <2> QED
    BY <1>5, <1>6, <2>1, <2>2, Zenon DEF TypeOK
<1>9. IsQueryCache(queries) /\ EntryKeys(queries) = {} /\ queries.memory = 0
  BY NothingQueried, Zenon DEF Init
<1>10. IsBounded(queries)
  <2>1. Cardinality(EntryKeys(queries)) = 0
    BY <1>9, FS_EmptySet
  <2>2. queries.memory <= maxMemory /\ Cardinality(EntryKeys(queries)) <= maxEntries
    BY <1>9, <2>1, QueryCacheAssumption
  <2> QED
    BY <1>9, <2>2, Zenon DEF IsBounded
<1>11. AllFit(queries, doubtful.queries, tables, txns, database, currentTxn)
  BY <1>9, Zenon DEF AllFit
<1>12. AreCopies(cached, doubtful.tables, tables)
  BY <1>7, Zenon DEF AreCopies
<1> QED
  BY <1>8, <1>10, <1>11, <1>12, Zenon DEF SelectInv

\* Every step keeps the invariant.
LEMMA SelectStep ==
  ASSUME SelectInv, [Next]_vars
  PROVE  SelectInv'
<1>1. CASE \E stmt \in Selects : SelectCached(stmt) \/ SelectRefused(stmt) \/ SelectExecuted(stmt)
  BY <1>1, SelectCachedStep, SelectRefusedStep, SelectExecutedStep, Zenon
<1>2. CASE \E name \in TableNames, v \in RowValues : Insert(name, v)
  BY <1>2, InsertStep, Zenon
<1>3. CASE \E name \in TableNames, v \in RowValues : InsertRefused(name, v)
  BY <1>3, InsertRefusedStep, Zenon
<1>4. CASE \E name \in TableNames, v, w \in RowValues : Update(name, v, w)
  BY <1>4, UpdateStep, Zenon
<1>5. CASE \E name \in TableNames, v \in RowValues : Delete(name, v)
  BY <1>5, DeleteStep, Zenon
<1>6. CASE \E name \in TableNames : DropTable(name) \/ CreateTable(name)
  BY <1>6, DropTableStep, CreateTableStep, Zenon
<1>7. CASE \E d \in Databases : Use(d)
  BY <1>7, UseStep, Zenon
<1>8. CASE \E enabled \in BOOLEAN : SetQueryCacheEnabled(enabled)
  BY <1>8, SetQueryCacheEnabledStep, Zenon
<1>9. CASE Begin
  BY <1>9, BeginStep, Zenon
<1>10. CASE Commit
  BY <1>10, CommitStep, Zenon
<1>11. CASE Rollback
  BY <1>11, RollbackStep, Zenon
<1>12. CASE ClearCaches
  BY <1>12, ClearCachesStep, Zenon
<1>13. CASE Tick \/ UNCHANGED vars
  BY <1>13, TickStep, Zenon
<1> QED
  BY <1>1, <1>2, <1>3, <1>4, <1>5, <1>6, <1>7, <1>8, <1>9, <1>10, <1>11, <1>12, <1>13, Zenon DEF Next

\* The invariant of SELECT and its caches holds in every state: an entry that is not
\* in doubt answers its statement in its own database, a cached table is a copy, and
\* the memory of the results is counted exactly and bounded.
THEOREM SelectInvariance == Spec => []SelectInv
<1>1. Init => SelectInv
  BY InitHolds, Zenon
<1>2. SelectInv /\ [Next]_vars => SelectInv'
  BY SelectStep, Zenon
<1> QED
  BY <1>1, <1>2, PTL DEF Spec

\* Entries of the query cache that are not in doubt hold what their statement
\* returns: every statement that succeeds and changes a table invalidates them.
THEOREM QueriesStayFresh == Spec => []QueryEntriesAreFresh
<1>1. SelectInv => QueryEntriesAreFresh
  <2> SUFFICES ASSUME SelectInv, NEW k \in EntryKeys(queries) \ doubtful.queries,
                      queries.entries[k].db = database
               PROVE  queries.entries[k].result = Answer(database, Rewritten[queries.entries[k].by])
    BY Zenon DEF QueryEntriesAreFresh
  <2>1. Fits(queries.entries[k], tables[database], StatesOf(txns[database]), Reader(database, currentTxn, database))
    BY Zenon DEF SelectInv, AllFit
  <2>2. Reader(database, currentTxn, database) = currentTxn
    BY Zenon DEF Reader
  <2> QED
    BY <2>1, <2>2, Zenon DEF Fits, Answer, States
<1> QED
  BY <1>1, SelectInvariance, PTL

\* Entries of the table cache that are not in doubt are the table, whichever
\* tables are loaded, evicted and invalidated.
THEOREM TablesStayFresh == Spec => []TableEntriesAreFresh
<1>1. SelectInv => TableEntriesAreFresh
  BY Zenon DEF SelectInv, AreCopies, IsCopy, TableEntriesAreFresh
<1> QED
  BY <1>1, SelectInvariance, PTL

\* The query cache counts its memory exactly and keeps to its limits, for every
\* limit and every size of the results.
THEOREM QueryMemoryStaysBounded == Spec => []QueryMemoryIsBounded
<1>1. SelectInv => QueryMemoryIsBounded
  BY Zenon DEF SelectInv, IsBounded, IsQueryCache, QueryMemoryIsBounded
<1> QED
  BY <1>1, SelectInvariance, PTL

=============================================================================

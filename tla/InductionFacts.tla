--------------------------- MODULE InductionFacts ---------------------------
(***************************************************************************)
(* Induction stated with sets, so that the provers can apply it: a         *)
(* property is the set of the numbers, or of the finite sets, that have    *)
(* it.  What recursive functions and sums over finite sets compute follows,*)
(* and facts of division.                                                  *)
(***************************************************************************)
EXTENDS Integers, FiniteSets, Functions, TLAPS, WellFoundedInduction,
        FiniteSetTheorems

-----------------------------------------------------------------------------
(* Induction.                                                              *)

LEMMA LeastNat ==
    ASSUME NEW T, T \subseteq Nat, T # {}
    PROVE  \E n \in T : \A m \in T : n <= m
<1> DEFINE R == OpToRel(<, Nat)
<1>1. IsWellFoundedOn(R, Nat)
  BY NatLessThanWellFounded
<1>2. \A m, n \in Nat : <<m, n>> \in R <=> m < n
  BY DEF OpToRel
<1> HIDE DEF R
<1>3. PICK n \in T : \A m \in T : ~ (<<m, n>> \in R)
  BY <1>1, WFMin
<1>4. \A m \in T : ~ (m < n) /\ m \in Nat /\ n \in Nat
  BY <1>2, <1>3
<1> QED  BY <1>4

(* Every natural is in a set that has zero and all successors: what is     *)
(* shown of a property is shown of the set of the numbers that have it.    *)
THEOREM SetInduction ==
    ASSUME NEW T, 0 \in T, \A n \in Nat : n \in T => n + 1 \in T
    PROVE  Nat \subseteq T
<1> SUFFICES ASSUME Nat \ T # {} PROVE FALSE
  OBVIOUS
<1>1. PICK n \in Nat \ T : \A m \in Nat \ T : n <= m
  BY LeastNat
<1>2. n # 0 /\ n - 1 \in Nat /\ n - 1 \notin Nat \ T
  BY <1>1
<1> QED  BY <1>2

\* T holds the finite sets that have the property.
THEOREM FiniteSetInduction ==
    ASSUME NEW S, IsFiniteSet(S), NEW T, {} \in T,
           \A U \in SUBSET S, x \in S : U \in T => U \cup {x} \in T
    PROVE  S \in T
<1> DEFINE Has == {n \in Nat : \A U \in SUBSET S : Cardinality(U) = n => U \in T}
<1>1. \A U \in SUBSET S : IsFiniteSet(U) /\ Cardinality(U) \in Nat
  BY FS_Subset, FS_CardinalityType
<1>2. 0 \in Has
  BY <1>1, FS_EmptySet
<1>3. ASSUME NEW n \in Nat, n \in Has PROVE n + 1 \in Has
  <2> SUFFICES ASSUME NEW U \in SUBSET S, Cardinality(U) = n + 1 PROVE U \in T
    OBVIOUS
  <2>1. PICK x : x \in U
    BY <1>1, FS_EmptySet
  <2>2. Cardinality(U \ {x}) = n
    <3>1. IsFiniteSet(U)
      BY <1>1
    <3>2. Cardinality(U \ {x}) = Cardinality(U) - 1
      BY <2>1, <3>1, FS_RemoveElement
    <3> QED  BY <3>2
  <2>3. U \ {x} \in T
    BY <1>3, <2>2
  <2>4. (U \ {x}) \cup {x} = U
    BY <2>1
  <2> QED  BY <2>1, <2>3, <2>4
<1>4. Nat \subseteq Has
  <2> HIDE DEF Has
  <2> QED  BY <1>2, <1>3, SetInduction
<1> QED  BY <1>1, <1>4

-----------------------------------------------------------------------------
(* Recursion over the numbers: there is a function with these values, and  *)
(* therefore a recursive definition is one.                                *)

Steps(S) == [S \X Nat -> S]
Follows(f, S, base, step) ==
    f \in [Nat -> S] /\ f[0] = base /\ \A n \in Nat : f[n + 1] = step[<<f[n], n>>]

(* There is a function with a given first value and a given step, so the   *)
(* recursive functions of the models, as History, satisfy their equations. *)
THEOREM Recursion ==
    ASSUME NEW S, NEW base \in S, NEW step \in Steps(S)
    PROVE  \E f : Follows(f, S, base, step)
<1> USE DEF Steps
<1> DEFINE Upto(n, f) == /\ f \in [0 .. n -> S] /\ f[0] = base
                         /\ \A i \in 0 .. n - 1 : f[i + 1] = step[<<f[i], i>>]
           Has == {n \in Nat : \E f : Upto(n, f)}
<1>1. 0 \in Has
  <2>1. Upto(0, [i \in 0 .. 0 |-> base])
    OBVIOUS
  <2> QED  BY <2>1
<1>2. ASSUME NEW n \in Nat, n \in Has PROVE n + 1 \in Has
  <2>1. PICK f : Upto(n, f)
    BY <1>2
  <2> DEFINE g == [i \in 0 .. n + 1 |-> IF i = n + 1 THEN step[<<f[n], n>>] ELSE f[i]]
  <2>2. f[n] \in S /\ step[<<f[n], n>>] \in S
    BY <2>1
  <2>3. g \in [0 .. n + 1 -> S]
    BY <2>1, <2>2
  <2>4. g[0] = base
    BY <2>1
  <2>5. ASSUME NEW i \in 0 .. n PROVE g[i + 1] = step[<<g[i], i>>]
    <3>1. CASE i = n
      <4>1. n \in 0 .. n + 1 /\ n + 1 \in 0 .. n + 1 /\ n # n + 1
        OBVIOUS
      <4>2. g[n + 1] = step[<<f[n], n>>] /\ g[n] = f[n]
        BY <4>1
      <4> QED  BY <3>1, <4>2
    <3>2. CASE i # n
      <4>1. i \in 0 .. n - 1 /\ i + 1 \in 0 .. n /\ i + 1 # n + 1 /\ i # n + 1
        BY <3>2
      <4>2. g[i + 1] = f[i + 1] /\ g[i] = f[i]
        BY <4>1
      <4> QED  BY <2>1, <4>1, <4>2
    <3> QED  BY <3>1, <3>2
  <2>6. Upto(n + 1, g)
    <3>1. (n + 1) - 1 = n
      OBVIOUS
    <3> HIDE DEF g
    <3> QED  BY <2>3, <2>4, <2>5, <3>1
  <2>7. \E u : Upto(n + 1, u)
    <3> HIDE DEF Upto, g
    <3> QED  BY <2>6
  <2> HIDE DEF Upto
  <2> QED  BY <2>7
<1>3. Nat \subseteq Has
  <2> HIDE DEF Has
  <2> QED  BY <1>1, <1>2, SetInduction
<1>4. ASSUME NEW m \in Nat, NEW n \in Nat, NEW f, NEW g, Upto(m, f), Upto(n, g),
             NEW i \in Nat, i <= m, i <= n
      PROVE  f[i] = g[i]
  <2> DEFINE Same == {j \in Nat : j <= m /\ j <= n => f[j] = g[j]}
  <2>1. 0 \in Same
    BY <1>4
  <2>2. ASSUME NEW j \in Nat, j \in Same PROVE j + 1 \in Same
    <3> SUFFICES ASSUME j + 1 <= m, j + 1 <= n PROVE f[j + 1] = g[j + 1]
      OBVIOUS
    <3>1. j <= m /\ j <= n /\ j \in 0 .. m - 1 /\ j \in 0 .. n - 1
      OBVIOUS
    <3> QED  BY <1>4, <2>2, <3>1
  <2>3. Nat \subseteq Same
    <3> HIDE DEF Same
    <3> QED  BY <2>1, <2>2, SetInduction
  <2> QED  BY <1>4, <2>3
<1> DEFINE F(n) == CHOOSE f : Upto(n, f)
           h == [n \in Nat |-> F(n)[n]]
<1>5. \A n \in Nat : Upto(n, F(n))
  BY <1>3
<1> HIDE DEF F
<1>6. h \in [Nat -> S]
  <2>1. \A n \in Nat : F(n)[n] \in S
    BY <1>5
  <2> QED  BY <2>1
<1>7. h[0] = base
  BY <1>5
<1>8. ASSUME NEW n \in Nat PROVE h[n + 1] = step[<<h[n], n>>]
  <2>1. h[n] = F(n)[n] /\ h[n + 1] = F(n + 1)[n + 1]
    OBVIOUS
  <2>2. Upto(n, F(n)) /\ Upto(n + 1, F(n + 1))
    BY <1>5
  <2>3. F(n + 1)[n + 1] = step[<<F(n + 1)[n], n>>]
    BY <2>2
  <2>4. F(n + 1)[n] = F(n)[n]
    <3> HIDE DEF Upto
    <3> QED  BY <1>4, <2>2
  <2> QED  BY <2>1, <2>3, <2>4
<1> QED  BY <1>6, <1>7, <1>8 DEF Follows

-----------------------------------------------------------------------------
(* Sums over finite sets.  The library takes the elements in an order that *)
(* CHOOSE fixes; the facts below are that the order does not matter.       *)

Some(s) == CHOOSE x \in s : TRUE
SumStep(f, s, g) == IF s = {} THEN 0 ELSE f[Some(s)] + g[s \ {Some(s)}]
SumTable(f, S, g) == g = [s \in SUBSET S |-> SumStep(f, s, g)]
IntOn(f, S) == \A x \in S : f[x] \in Int

LEMMA SomeIn == ASSUME NEW s, s # {} PROVE Some(s) \in s
BY DEF Some

LEMMA Smaller ==
    ASSUME NEW s, IsFiniteSet(s), NEW x \in s, NEW n \in Nat, Cardinality(s) <= n + 1
    PROVE  IsFiniteSet(s \ {x}) /\ Cardinality(s \ {x}) <= n
<1>1. IsFiniteSet(s \ {x}) /\ Cardinality(s \ {x}) = Cardinality(s) - 1
  BY FS_RemoveElement
<1>2. Cardinality(s) \in Nat
  BY FS_CardinalityType
<1> QED  BY <1>1, <1>2

\* There is such a g: the one on the sets of n elements extends to n + 1.
LEMMA AddsExists ==
    ASSUME NEW S, IsFiniteSet(S), NEW f
    PROVE  \E g : SumTable(f, S, g)
<1> DEFINE Small(n) == {s \in SUBSET S : Cardinality(s) <= n}
           Upto(n, g) == g = [s \in Small(n) |-> SumStep(f, s, g)]
           Has == {n \in Nat : \E g : Upto(n, g)}
<1>1. \A s \in SUBSET S : IsFiniteSet(s) /\ Cardinality(s) \in Nat
  BY FS_Subset, FS_CardinalityType
<1>2. 0 \in Has
  <2> DEFINE g == [s \in Small(0) |-> 0]
  <2>1. \A s \in Small(0) : s = {}
    BY <1>1, FS_EmptySet
  <2>2. \A s \in Small(0) : SumStep(f, s, g) = 0
    BY <2>1 DEF SumStep
  <2>3. [s \in Small(0) |-> SumStep(f, s, g)] = g
    <3> HIDE DEF Small
    <3> QED  BY <2>2
  <2>4. Upto(0, g)
    BY <2>3
  <2> HIDE DEF Upto, g
  <2> QED  BY <2>4
<1>3. ASSUME NEW n \in Nat, n \in Has PROVE n + 1 \in Has
  <2>1. PICK g : Upto(n, g)
    BY <1>3
  <2> DEFINE h == [s \in Small(n + 1) |-> SumStep(f, s, g)]
  <2>2. \A s \in Small(n) : s \in Small(n + 1) /\ h[s] = g[s]
    <3>1. \A s \in Small(n) : s \in Small(n + 1)
      BY <1>1
    <3>2. \A s \in Small(n) : g[s] = SumStep(f, s, g)
      BY <2>1
    <3> HIDE DEF Small
    <3> QED  BY <3>1, <3>2
  <2>3. ASSUME NEW s \in Small(n + 1) PROVE SumStep(f, s, g) = SumStep(f, s, h)
    <3>1. CASE s = {}
      BY <3>1 DEF SumStep
    <3>2. CASE s # {}
      <4>1. s \ {Some(s)} \in Small(n)
        BY <1>1, <3>2, SomeIn, Smaller
      <4>2. h[s \ {Some(s)}] = g[s \ {Some(s)}]
        BY <2>2, <4>1
      <4> HIDE DEF h
      <4> QED  BY <4>2 DEF SumStep
    <3> QED  BY <3>1, <3>2
  <2>4. [s \in Small(n + 1) |-> SumStep(f, s, h)] = h
    <3> DEFINE P(s) == SumStep(f, s, g)
               Q(s) == SumStep(f, s, h)
    <3>1. \A s \in Small(n + 1) : P(s) = Q(s)
      BY <2>3
    <3>2. h = [s \in Small(n + 1) |-> P(s)]
      OBVIOUS
    <3> HIDE DEF P, Q, h, Small
    <3>3. [s \in Small(n + 1) |-> Q(s)] = h
      BY <3>1, <3>2
    <3> QED  BY <3>3 DEF Q
  <2>5. Upto(n + 1, h)
    BY <2>4
  <2> HIDE DEF Upto, h
  <2> QED  BY <2>5
<1>4. Cardinality(S) \in Has
  <2> HIDE DEF Has
  <2> QED  BY <1>1, <1>2, <1>3, SetInduction
<1>5. Small(Cardinality(S)) = SUBSET S
  BY <1>1, FS_Subset
<1>6. PICK g : Upto(Cardinality(S), g)
  BY <1>4
<1>7. g = [s \in SUBSET S |-> SumStep(f, s, g)]
  <2> HIDE DEF Small
  <2> QED  BY <1>5, <1>6
<1> QED  BY <1>7 DEF SumTable

LEMMA SumAdds ==
    ASSUME NEW S, IsFiniteSet(S), NEW f
    PROVE  \E g : SumTable(f, S, g) /\ SumFunctionOnSet(f, S) = g[S]
<1> DEFINE g == CHOOSE u : SumTable(f, S, u)
<1>1. SumTable(f, S, g)
  BY AddsExists
<1>2. SumFunctionOnSet(f, S) = g[S]
  BY DEF SumFunctionOnSet, FoldFunctionOnSet, MapThenFoldSet, SumTable, SumStep, Some
<1> QED  BY <1>1, <1>2

\* Functions that agree have one sum, whatever set the sums were begun with.
LEMMA AddsAgree ==
    ASSUME NEW S, NEW T, NEW f, NEW h, NEW g, NEW k, SumTable(f, S, g), SumTable(h, T, k),
           NEW U, IsFiniteSet(U), U \subseteq S, U \subseteq T,
           \A x \in U : f[x] = h[x]
    PROVE  g[U] = k[U]
<1> DEFINE Has == {n \in Nat : \A s \in SUBSET U : Cardinality(s) <= n => g[s] = k[s]}
<1>1. \A s \in SUBSET U : IsFiniteSet(s) /\ Cardinality(s) \in Nat
  BY FS_Subset, FS_CardinalityType
<1>2. \A s \in SUBSET U : g[s] = SumStep(f, s, g) /\ k[s] = SumStep(h, s, k)
  BY DEF SumTable
<1>3. 0 \in Has
  <2>1. \A s \in SUBSET U : Cardinality(s) <= 0 => s = {}
    BY <1>1, FS_EmptySet
  <2> QED  BY <1>2, <2>1 DEF SumStep
<1>4. ASSUME NEW n \in Nat, n \in Has PROVE n + 1 \in Has
  <2> SUFFICES ASSUME NEW s \in SUBSET U, Cardinality(s) <= n + 1 PROVE g[s] = k[s]
    OBVIOUS
  <2>1. CASE s = {}
    BY <1>2, <2>1 DEF SumStep
  <2>2. CASE s # {}
    <3>1. Some(s) \in s
      BY <2>2, SomeIn
    <3>2. Cardinality(s \ {Some(s)}) <= n
      BY <1>1, <3>1, Smaller
    <3>3. g[s \ {Some(s)}] = k[s \ {Some(s)}]
      BY <1>4, <3>2
    <3>4. f[Some(s)] = h[Some(s)]
      BY <3>1
    <3> QED  BY <1>2, <2>2, <3>3, <3>4 DEF SumStep
  <2> QED  BY <2>1, <2>2
<1>5. Cardinality(U) \in Has
  <2> HIDE DEF Has
  <2> QED  BY <1>1, <1>3, <1>4, SetInduction
<1> QED  BY <1>1, <1>5

LEMMA Swap ==
    ASSUME NEW a \in Int, NEW b \in Int, NEW c \in Int, NEW p, NEW q, NEW r,
           p = a + q, q = b + c, r = a + c
    PROVE  p = b + r
OBVIOUS

\* Any element may be taken first.
LEMMA AddsAny ==
    ASSUME NEW S, IsFiniteSet(S), NEW f, NEW g, SumTable(f, S, g), IntOn(f, S)
    PROVE  \A s \in SUBSET S : g[s] \in Int /\ \A x \in s : g[s] = f[x] + g[s \ {x}]
<1> DEFINE Right(s) == g[s] \in Int /\ \A x \in s : g[s] = f[x] + g[s \ {x}]
           Has == {n \in Nat : \A s \in SUBSET S : Cardinality(s) <= n => Right(s)}
<1>1. \A s \in SUBSET S : IsFiniteSet(s) /\ Cardinality(s) \in Nat
  BY FS_Subset, FS_CardinalityType
<1>2. \A s \in SUBSET S : g[s] = SumStep(f, s, g)
  BY DEF SumTable
<1>0. Right({})
  <2>1. g[{}] = SumStep(f, {}, g)
    BY <1>2
  <2>2. SumStep(f, {}, g) = 0
    BY DEF SumStep
  <2> QED  BY <2>1, <2>2
<1>3. 0 \in Has
  <2>1. \A s \in SUBSET S : Cardinality(s) <= 0 => s = {}
    BY <1>1, FS_EmptySet
  <2> HIDE DEF Right
  <2> QED  BY <1>0, <2>1
<1>4. ASSUME NEW n \in Nat, n \in Has PROVE n + 1 \in Has
  <2> SUFFICES ASSUME NEW s \in SUBSET S, Cardinality(s) <= n + 1 PROVE Right(s)
    OBVIOUS
  <2>1. CASE s = {}
    BY <1>0, <2>1
  <2>2. CASE s # {}
    <3> DEFINE c == Some(s)
    <3>1. c \in s
      BY <2>2, SomeIn
    <3>2. ASSUME NEW x \in s PROVE Right(s \ {x}) /\ s \ {x} \in SUBSET S /\ f[x] \in Int
      <4>1. Cardinality(s \ {x}) <= n
        BY <1>1, Smaller
      <4> QED  BY <1>4, <4>1 DEF IntOn
    <3>3. g[s] = f[c] + g[s \ {c}]
      BY <1>2, <2>2 DEF SumStep
    <3> HIDE DEF c
    <3>4. g[s] \in Int
      BY <3>1, <3>2, <3>3
    <3>5. ASSUME NEW x \in s PROVE g[s] = f[x] + g[s \ {x}]
      <4>1. CASE x = c
        BY <3>3, <4>1
      <4>2. CASE x # c
        <5>1. g[s \ {c}] = f[x] + g[(s \ {c}) \ {x}]
          BY <3>1, <3>2, <4>2
        <5>2. g[s \ {x}] = f[c] + g[(s \ {x}) \ {c}]
          BY <3>1, <3>2, <4>2
        <5>3. (s \ {c}) \ {x} = (s \ {x}) \ {c}
          OBVIOUS
        <5>4. (s \ {x}) \ {c} \in SUBSET S /\ Cardinality((s \ {x}) \ {c}) <= n
          <6>1. IsFiniteSet(s \ {x}) /\ Cardinality(s \ {x}) <= n /\ c \in s \ {x}
            BY <1>1, <3>1, <4>2, Smaller
          <6>2. IsFiniteSet((s \ {x}) \ {c})
                /\ Cardinality((s \ {x}) \ {c}) = Cardinality(s \ {x}) - 1
            BY <6>1, FS_RemoveElement
          <6>3. Cardinality(s \ {x}) \in Nat
            BY <6>1, FS_CardinalityType
          <6> QED  BY <6>1, <6>2, <6>3
        <5>5. g[(s \ {x}) \ {c}] \in Int
          BY <1>4, <5>4
        <5>6. f[x] \in Int /\ f[c] \in Int
          BY <3>1, <3>2
        <5>7. g[s \ {c}] = f[x] + g[(s \ {x}) \ {c}]
          BY <5>1, <5>3
        <5> HIDE DEF Right
        <5> QED  BY <3>3, <5>2, <5>5, <5>6, <5>7, Swap
      <4> QED  BY <4>1, <4>2
    <3> QED  BY <3>4, <3>5
  <2> QED  BY <2>1, <2>2
<1>5. Cardinality(S) \in Has
  <2> HIDE DEF Has
  <2> QED  BY <1>1, <1>3, <1>4, SetInduction
<1>6. \A s \in SUBSET S : Cardinality(s) <= Cardinality(S)
  BY FS_Subset
<1> QED  BY <1>5, <1>6

\* No terms, no sum: the counters of no shards.
THEOREM SumOfEmpty == \A f : SumFunctionOnSet(f, {}) = 0
<1> SUFFICES ASSUME NEW f PROVE SumFunctionOnSet(f, {}) = 0
  OBVIOUS
<1>1. PICK g : SumTable(f, {}, g) /\ SumFunctionOnSet(f, {}) = g[{}]
  BY SumAdds, FS_EmptySet
<1>2. g[{}] = SumStep(f, {}, g)
  BY <1>1 DEF SumTable
<1> QED  BY <1>1, <1>2 DEF SumStep

\* Functions that agree on a finite set have one sum over it.
THEOREM SumOfEqual ==
    ASSUME NEW S, IsFiniteSet(S), NEW f, NEW h, \A x \in S : f[x] = h[x]
    PROVE  SumFunctionOnSet(f, S) = SumFunctionOnSet(h, S)
<1>1. PICK g : SumTable(f, S, g) /\ SumFunctionOnSet(f, S) = g[S]
  BY SumAdds
<1>2. PICK k : SumTable(h, S, k) /\ SumFunctionOnSet(h, S) = k[S]
  BY SumAdds
<1> QED  BY <1>1, <1>2, AddsAgree

\* A sum is an integer, and any element of the set can be split off.
THEOREM SumOfSplit ==
    ASSUME NEW S, IsFiniteSet(S), NEW f, IntOn(f, S)
    PROVE  /\ SumFunctionOnSet(f, S) \in Int
           /\ \A x \in S : SumFunctionOnSet(f, S) = f[x] + SumFunctionOnSet(f, S \ {x})
<1>1. PICK g : SumTable(f, S, g) /\ SumFunctionOnSet(f, S) = g[S]
  BY SumAdds
<1>2. \A s \in SUBSET S : g[s] \in Int /\ \A x \in s : g[s] = f[x] + g[s \ {x}]
  BY <1>1, AddsAny
<1>3. ASSUME NEW x \in S PROVE SumFunctionOnSet(f, S \ {x}) = g[S \ {x}]
  <2>1. IsFiniteSet(S \ {x})
    BY FS_Subset
  <2>2. PICK k : SumTable(f, S \ {x}, k) /\ SumFunctionOnSet(f, S \ {x}) = k[S \ {x}]
    BY <2>1, SumAdds
  <2> QED  BY <1>1, <2>1, <2>2, AddsAgree
<1> QED  BY <1>1, <1>2, <1>3

\* Only the value at one element differs.
THEOREM SumOfUpdate ==
    ASSUME NEW S, IsFiniteSet(S), NEW f, NEW h, IntOn(f, S), IntOn(h, S), NEW k \in S,
           \A x \in S : x # k => h[x] = f[x]
    PROVE  SumFunctionOnSet(h, S) = (SumFunctionOnSet(f, S) - f[k]) + h[k]
<1>1. IsFiniteSet(S \ {k}) /\ IntOn(f, S \ {k})
  BY FS_Subset DEF IntOn
<1>2. SumFunctionOnSet(f, S \ {k}) = SumFunctionOnSet(h, S \ {k})
  <2>1. \A x \in S \ {k} : f[x] = h[x]
    OBVIOUS
  <2> QED  BY <1>1, <2>1, SumOfEqual
<1>3. SumFunctionOnSet(f, S \ {k}) \in Int
  BY <1>1, SumOfSplit
<1>4. /\ SumFunctionOnSet(f, S) = f[k] + SumFunctionOnSet(f, S \ {k})
      /\ SumFunctionOnSet(h, S) = h[k] + SumFunctionOnSet(h, S \ {k})
  BY SumOfSplit
<1>5. f[k] \in Int /\ h[k] \in Int
  BY DEF IntOn
<1> QED  BY <1>2, <1>3, <1>4, <1>5

\* The sum of one element more.
LEMMA SumOfMore ==
    ASSUME NEW S, NEW f, NEW U, NEW x, NEW V, IsFiniteSet(S), IntOn(f, S),
           U \in SUBSET S, x \in S, x \notin U, V = U \cup {x}
    PROVE  SumFunctionOnSet(f, V) = f[x] + SumFunctionOnSet(f, U)
<1>1. V \in SUBSET S /\ V \ {x} = U /\ x \in V
  OBVIOUS
<1>2. IsFiniteSet(V)
  BY <1>1, FS_Subset
<1>3. IntOn(f, V)
  BY <1>1 DEF IntOn
<1>4. SumFunctionOnSet(f, V) = f[x] + SumFunctionOnSet(f, V \ {x})
  BY <1>1, <1>2, <1>3, SumOfSplit
<1> QED  BY <1>1, <1>4

Below(f, h, S) == \A x \in S : f[x] \in Nat /\ h[x] \in Nat /\ f[x] <= h[x]

\* Sums of naturals are naturals, and grow with their terms.
THEOREM SumOfLeq ==
    ASSUME NEW S, IsFiniteSet(S), NEW f, NEW h, Below(f, h, S)
    PROVE  /\ SumFunctionOnSet(f, S) \in Nat /\ SumFunctionOnSet(h, S) \in Nat
           /\ SumFunctionOnSet(f, S) <= SumFunctionOnSet(h, S)
<1> DEFINE Leq(a, b) == a \in Nat /\ b \in Nat /\ a <= b
           T == {U \in SUBSET S : Leq(SumFunctionOnSet(f, U), SumFunctionOnSet(h, U))}
<1>1. IntOn(f, S)
  BY DEF IntOn, Below
<1>2. IntOn(h, S)
  BY DEF IntOn, Below
<1>3. {} \in T
  BY SumOfEmpty
<1>4. ASSUME NEW U \in SUBSET S, NEW x \in S, U \in T PROVE U \cup {x} \in T
  <2>1. CASE x \in U
    <3>1. U \cup {x} = U
      BY <2>1
    <3> HIDE DEF T
    <3> QED  BY <1>4, <3>1
  <2>2. CASE x \notin U
    <3> DEFINE V == U \cup {x}
    <3>1. V = U \cup {x} /\ V \in SUBSET S
      OBVIOUS
    <3>2. Leq(SumFunctionOnSet(f, U), SumFunctionOnSet(h, U))
      BY <1>4
    <3> HIDE DEF V, T, Leq
    <3>3. SumFunctionOnSet(f, V) = f[x] + SumFunctionOnSet(f, U)
      BY <1>1, <2>2, <3>1, SumOfMore, Z3
    <3>4. SumFunctionOnSet(h, V) = h[x] + SumFunctionOnSet(h, U)
      BY <1>2, <2>2, <3>1, SumOfMore, Z3
    <3>5. f[x] \in Nat /\ h[x] \in Nat /\ f[x] <= h[x]
      BY DEF Below
    <3>6. Leq(SumFunctionOnSet(f, V), SumFunctionOnSet(h, V))
      BY <3>2, <3>3, <3>4, <3>5 DEF Leq
    <3> QED  BY <3>1, <3>6 DEF T
  <2> QED  BY <2>1, <2>2
<1>5. S \in T
  <2> HIDE DEF T
  <2> QED  BY <1>3, <1>4, FiniteSetInduction
<1> QED  BY <1>5

\* A sum of zeros is zero.
LEMMA SumOfZeros ==
    ASSUME NEW S, IsFiniteSet(S), NEW f, \A x \in S : f[x] = 0
    PROVE  SumFunctionOnSet(f, S) = 0
<1> DEFINE T == {U \in SUBSET S : SumFunctionOnSet(f, U) = 0}
<1>1. IntOn(f, S)
  BY DEF IntOn
<1>2. {} \in T
  BY SumOfEmpty
<1>3. ASSUME NEW U \in SUBSET S, NEW x \in S, U \in T PROVE U \cup {x} \in T
  <2>1. CASE x \in U
    <3>1. U \cup {x} = U
      BY <2>1
    <3> HIDE DEF T
    <3> QED  BY <1>3, <3>1
  <2>2. CASE x \notin U
    <3> DEFINE V == U \cup {x}
    <3>1. SumFunctionOnSet(f, V) = f[x] + SumFunctionOnSet(f, U)
      <4>1. V = U \cup {x} /\ U \in SUBSET S /\ x \in S
        OBVIOUS
      <4> HIDE DEF V
      <4> QED  BY <1>1, <2>2, <4>1, SumOfMore, Z3
    <3>2. SumFunctionOnSet(f, U) = 0 /\ f[x] = 0 /\ U \cup {x} \in SUBSET S
      BY <1>3
    <3>3. SumFunctionOnSet(f, U \cup {x}) = 0
      BY <3>1, <3>2
    <3> QED  BY <3>2, <3>3
  <2> QED  BY <2>1, <2>2
<1>4. S \in T
  <2> HIDE DEF T
  <2> QED  BY <1>2, <1>3, FiniteSetInduction
<1> QED  BY <1>4

-----------------------------------------------------------------------------
(* Division by a variable.                                                 *)

LEMMA QuotientIs ==
    ASSUME NEW a \in Nat, NEW w \in Nat \ {0}
    PROVE  /\ a \div w \in Nat
           /\ (a \div w) * w <= a /\ a < (a \div w + 1) * w
<1>1. a = w * (a \div w) + (a % w)
  OBVIOUS
<1>3. a % w \in Int /\ 0 <= a % w /\ a % w < w
  OBVIOUS
<1>4. a \div w \in Int
  OBVIOUS
<1>2. a \div w >= 0
  OBVIOUS
<1> DEFINE q == a \div w
           r == a % w
<1>6. a = w * q + r /\ r \in Int /\ 0 <= r /\ r < w /\ q \in Int /\ q >= 0
  BY <1>1, <1>2, <1>3, <1>4
<1> HIDE DEF q, r
<1>7. w * q = q * w /\ (q + 1) * w = q * w + w /\ q * w \in Int
  BY <1>6
<1>8. q \in Nat /\ q * w <= a /\ a < (q + 1) * w
  BY <1>6, <1>7
<1> QED  BY <1>8 DEF q

LEMMA QuotientBelow ==
    ASSUME NEW q \in Nat, NEW w \in Nat \ {0}, NEW n \in Nat, NEW a \in Nat,
           q * w <= a, a < n * w
    PROVE  q < n
<1>1. SUFFICES ASSUME q >= n PROVE FALSE
  OBVIOUS
<1>2. PICK d \in Nat : q = n + d
  <2>1. q - n \in Nat /\ q = n + (q - n)
    BY <1>1
  <2> QED  BY <2>1
<1>3. q * w = n * w + d * w /\ d * w >= 0 /\ n * w \in Int
  BY <1>2
<1> QED  BY <1>3

LEMMA RemainderIs ==
    ASSUME NEW a \in Nat, NEW w \in Nat \ {0}
    PROVE  /\ a \div w \in Nat /\ a % w \in Nat /\ a % w < w
           /\ a = w * (a \div w) + (a % w)
<1>1. a = w * (a \div w) + (a % w)
  OBVIOUS
<1>2. a % w \in Int /\ 0 <= a % w /\ a % w < w
  OBVIOUS
<1>3. a \div w \in Nat
  BY QuotientIs
<1> QED  BY <1>1, <1>2, <1>3

\* A remainder is determined by the number.
LEMMA OneRemainder ==
    ASSUME NEW w \in Nat \ {0}, NEW p \in Nat, NEW q \in Nat, NEW r \in Nat, NEW s \in Nat,
           r < w, s < w, w * p + r = w * q + s
    PROVE  r = s
<1>1. ASSUME NEW i \in Nat, NEW j \in Nat, NEW u \in Nat, NEW v \in Nat, u < w, v < w,
             w * i + u = w * j + v, i < j
      PROVE  FALSE
  <2>1. PICK d \in Nat : j = (i + d) + 1
    <3>1. (j - i) - 1 \in Nat /\ j = (i + ((j - i) - 1)) + 1
      BY <1>1
    <3> QED  BY <3>1
  <2>2. w * j = (w * i + w * d) + w /\ w * i \in Int /\ w * d \in Nat
    BY <2>1
  <2> QED  BY <1>1, <2>2
<1>2. p = q
  <2>1. p < q \/ p = q \/ q < p
    OBVIOUS
  <2> QED  BY <1>1, <2>1
<1>3. w * q \in Int
  OBVIOUS
<1> QED  BY <1>2, <1>3

LEMMA RemainderOf ==
    ASSUME NEW w \in Nat \ {0}, NEW q \in Nat, NEW r \in Nat, r < w, NEW a, a = w * q + r
    PROVE  a \in Nat /\ a % w = r
<1>1. w * q \in Nat
  OBVIOUS
<1>2. a \in Nat
  BY <1>1
<1>3. /\ a \div w \in Nat /\ a % w \in Nat /\ a % w < w
      /\ a = w * (a \div w) + (a % w)
  BY <1>2, RemainderIs
<1> DEFINE i == a \div w
           u == a % w
<1>4. i \in Nat /\ u \in Nat /\ u < w /\ w * i + u = w * q + r
  BY <1>3
<1> HIDE DEF i, u
<1>5. u = r
  BY <1>4, OneRemainder
<1> QED  BY <1>2, <1>5 DEF u

LEMMA RemainderAndOne ==
    ASSUME NEW w \in Nat \ {0}, NEW q \in Nat, NEW r \in Nat, r < w, NEW g \in Nat, g = w * q
    PROVE  (r + 1) % w = ((g + r) + 1) % w
<1>1. CASE r + 1 < w
  <2> DEFINE s == r + 1
             b == (g + r) + 1
  <2>1. s \in Nat /\ s < w /\ b = g + s
    BY <1>1
  <2> HIDE DEF s, b
  <2>2. b = w * q + s
    BY <2>1
  <2>3. b % w = s
    BY <2>1, <2>2, RemainderOf
  <2>4. s = w * 0 + s
    BY <2>1
  <2>5. s % w = s
    BY <2>1, <2>4, RemainderOf
  <2> QED  BY <2>3, <2>5 DEF s, b
<1>2. CASE r + 1 = w
  <2> DEFINE p == q + 1
             b == (g + r) + 1
  <2>1. p \in Nat /\ w * p = g + w
    OBVIOUS
  <2>2. b = g + w
    BY <1>2
  <2> HIDE DEF p, b
  <2>3. b = w * p + 0 /\ 0 < w
    BY <2>1, <2>2
  <2>4. b % w = 0
    BY <2>1, <2>3, RemainderOf
  <2>5. w = w * 1 + 0
    OBVIOUS
  <2>6. w % w = 0
    BY <2>3, <2>5, RemainderOf
  <2> QED  BY <1>2, <2>4, <2>6 DEF b
<1> QED  BY <1>1, <1>2

\* Counting on from a remainder.
LEMMA NextRemainder ==
    ASSUME NEW a \in Nat, NEW w \in Nat \ {0}
    PROVE  ((a % w) + 1) % w = (a + 1) % w
<1> DEFINE q == a \div w
           r == a % w
           g == w * q
<1>1. q \in Nat /\ r \in Nat /\ r < w /\ a = g + r
  BY RemainderIs
<1> HIDE DEF q, r
<1>2. g \in Nat
  BY <1>1
<1>3. g = w * q
  OBVIOUS
<1> HIDE DEF g
<1>4. (r + 1) % w = ((g + r) + 1) % w
  BY <1>1, <1>2, <1>3, RemainderAndOne
<1> QED  BY <1>1, <1>4 DEF r

\* A counter that wraps at a multiple of w keeps the remainder by w.
LEMMA RemainderOfRemainder ==
    ASSUME NEW a \in Nat, NEW w \in Nat \ {0}, NEW m \in Nat \ {0}, m % w = 0, NEW r, r = a % m
    PROVE  r % w = a % w
<1> DEFINE q == a \div m
           f == m \div w
           i == r \div w
           s == r % w
<1>1. q \in Nat /\ r \in Nat /\ a = m * q + r
  BY RemainderIs
<1>2. f \in Nat /\ m = w * f
  BY RemainderIs
<1>3. i \in Nat /\ s \in Nat /\ s < w /\ r = w * i + s
  BY <1>1, RemainderIs
<1> HIDE DEF q, f, i, s
<1> DEFINE j == f * q + i
<1>4. j \in Nat
  BY <1>1, <1>2, <1>3
<1>5. m * q = w * (f * q) /\ f * q \in Nat
  BY <1>1, <1>2
<1>6. w * j = w * (f * q) + w * i /\ w * (f * q) \in Int /\ w * i \in Int
  BY <1>3, <1>5
<1>7. a = w * j + s
  BY <1>1, <1>3, <1>5, <1>6
<1> HIDE DEF j
<1>8. a % w = s
  BY <1>3, <1>4, <1>7, RemainderOf
<1> QED  BY <1>8 DEF s
=============================================================================

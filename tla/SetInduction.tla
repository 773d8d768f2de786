---------------------------- MODULE SetInduction ----------------------------
(***************************************************************************)
(* Facts that the proofs of several modules rest on: induction over the    *)
(* natural numbers, runs, and the size of an image.                        *)
(*                                                                         *)
(* The library states induction for a property, as an operator, which none *)
(* of the provers instantiates. Here the property is a set of numbers.     *)
(***************************************************************************)
EXTENDS Integers, FiniteSets, TLAPS, FiniteSetTheorems, FunctionTheorems,
        WellFoundedInduction

\* A set of natural numbers that is not empty has a least element: the
\* intervals 0 .. n are finite sets, and strict inclusion of finite sets is
\* well-founded.
LEMMA LeastNatural ==
  ASSUME NEW S, S \subseteq Nat, S # {}
  PROVE  \E n \in S : \A m \in S : n <= m
<1> DEFINE R == StrictSubsetOrdering(Nat)
           T == {0 .. n : n \in S}
<1>1. IsWellFoundedOn(R, FiniteSubsetsOf(Nat))
  BY FS_StrictSubsetOrderingWellFounded
<1>2. T \subseteq FiniteSubsetsOf(Nat)
  <2>1. SUFFICES ASSUME NEW n \in S PROVE 0 .. n \in FiniteSubsetsOf(Nat)
    OBVIOUS
  <2>2. n \in Nat /\ 0 .. n \subseteq Nat
    OBVIOUS
  <2>3. IsFiniteSet(0 .. n)
    BY <2>2, FS_Interval
  <2> QED BY <2>2, <2>3 DEF FiniteSubsetsOf
<1>3. T # {}
  OBVIOUS
<1>4. PICK t \in T : \A s \in T : ~ (<<s, t>> \in R)
  <2> HIDE DEF R, T
  <2> QED BY <1>1, <1>2, <1>3, WFMin
<1>5. PICK n \in S : t = 0 .. n
  OBVIOUS
<1>6. ASSUME NEW m \in S, m < n PROVE FALSE
  <2>1. 0 .. m \in T /\ <<0 .. m, 0 .. n>> \notin R
    BY <1>4, <1>5
  <2>2. 0 .. m \subseteq Nat /\ 0 .. n \subseteq Nat /\ 0 .. m \subseteq 0 .. n
    BY <1>6
  <2>3. 0 .. m # 0 .. n
    BY <1>6, n \in 0 .. n, n \notin 0 .. m
  <2> QED BY <2>1, <2>2, <2>3 DEF StrictSubsetOrdering
<1> QED BY <1>6

\* Induction over the natural numbers for a set P.
LEMMA SetInduction ==
  ASSUME NEW P, 0 \in P, \A n \in Nat : n \in P => n + 1 \in P
  PROVE  Nat \subseteq P
<1> SUFFICES ASSUME Nat \ P # {} PROVE FALSE
  OBVIOUS
<1>1. PICK n \in Nat \ P : \A m \in Nat \ P : n <= m
  BY LeastNatural, Nat \ P \subseteq Nat
<1>2. n # 0 /\ n - 1 \in Nat /\ ~ n <= n - 1
  OBVIOUS
<1>3. n - 1 \in P
  BY <1>1, <1>2
<1> QED BY <1>2, <1>3, (n - 1) + 1 = n

\* A run of n steps exists: what is defined by recursion over 0 .. n is a
\* function.
LEMMA RunExists ==
  ASSUME NEW S, NEW b \in S, NEW n \in Nat, NEW op \in [1 .. n -> [S -> S]]
  PROVE  \E f \in [0 .. n -> S] :
           f[0] = b /\ \A i \in 1 .. n : f[i] = op[i][f[i - 1]]
<1> DEFINE Runs(f, k) == f[0] = b /\ \A i \in 1 .. k : f[i] = op[i][f[i-1]]
           P == {k \in Nat : k <= n => \E f \in [0 .. k -> S] : Runs(f, k)}
<1>1. 0 \in P
  <2>1. Runs([i \in 0 .. 0 |-> b], 0)
    OBVIOUS
  <2>2. [i \in 0 .. 0 |-> b] \in [0 .. 0 -> S]
    OBVIOUS
  <2> HIDE DEF Runs
  <2> QED BY <2>1, <2>2
<1>2. ASSUME NEW k \in Nat, k \in P PROVE k + 1 \in P
  <2>1. SUFFICES ASSUME k + 1 <= n PROVE \E f \in [0 .. k + 1 -> S] : Runs(f, k + 1)
    OBVIOUS
  <2>2. PICK f \in [0 .. k -> S] : Runs(f, k)
    <3> HIDE DEF Runs
    <3> QED BY <2>1, <1>2
  <2> DEFINE g == [i \in 0 .. k + 1 |-> IF i <= k THEN f[i] ELSE op[k + 1][f[k]]]
  <2>3. op[k + 1][f[k]] \in S
    <3>1. k + 1 \in 1 .. n /\ k \in 0 .. k
      BY <2>1
    <3>2. op[k + 1] \in [S -> S] /\ f[k] \in S
      BY <3>1
    <3> QED BY <3>2
  <2>4. g \in [0 .. k + 1 -> S]
    BY <2>3
  <2>5. g[0] = b
    BY <2>2
  <2>6. ASSUME NEW i \in 1 .. k + 1 PROVE g[i] = op[i][g[i-1]]
    <3>1. CASE i <= k
      <4>1. i \in 1 .. k /\ i - 1 <= k /\ i - 1 \in 0 .. k + 1 /\ i \in 0 .. k + 1
        BY <3>1
      <4>2. g[i] = f[i] /\ g[i - 1] = f[i - 1]
        BY <4>1, <3>1
      <4> QED BY <4>1, <4>2, <2>2
    <3>2. CASE i = k + 1
      <4>1. i - 1 = k /\ ~ (i <= k) /\ i \in 0 .. k + 1 /\ k \in 0 .. k + 1
        BY <3>2
      <4>2. g[i] = op[k + 1][f[k]] /\ g[i - 1] = f[k]
        BY <4>1
      <4> QED BY <4>2, <3>2
    <3>3. i <= k \/ i = k + 1
      OBVIOUS
    <3> QED BY <3>1, <3>2, <3>3
  <2> HIDE DEF g
  <2> QED BY <2>4, <2>5, <2>6
<1>3. n \in P
  <2> HIDE DEF P
  <2> QED BY <1>1, <1>2, SetInduction
<1> HIDE DEF Runs
<1>4. \E f \in [0 .. n -> S] : Runs(f, n)
  BY <1>3
<1> QED BY <1>4 DEF Runs

\* The image of a finite set has no more elements than the set.
LEMMA ImageBound ==
  ASSUME NEW S, IsFiniteSet(S), NEW f, NEW T \in SUBSET {f[x] : x \in S}
  PROVE  IsFiniteSet(T) /\ Cardinality(T) <= Cardinality(S)
<1> DEFINE I == {f[x] : x \in S}
           g == [x \in S |-> f[x]]
<1>1. g \in Surjection(S, I)
  <2>1. g \in [S -> I] /\ \A t \in I : \E x \in S : g[x] = t
    OBVIOUS
  <2> HIDE DEF g, I
  <2> QED BY <2>1, Fun_IsSurj
<1>2. IsFiniteSet(I) /\ Cardinality(I) <= Cardinality(S)
  <2> HIDE DEF g, I
  <2> QED BY <1>1, FS_Surjection
<1>3. IsFiniteSet(T) /\ Cardinality(T) <= Cardinality(I)
  BY <1>2, FS_Subset
<1>4. Cardinality(T) \in Nat /\ Cardinality(I) \in Nat /\ Cardinality(S) \in Nat
  BY <1>2, <1>3, FS_CardinalityType
<1> QED BY <1>2, <1>3, <1>4

\* The union of two finite sets has no more elements than both.
LEMMA UnionBound ==
  ASSUME NEW S, IsFiniteSet(S), NEW T, IsFiniteSet(T)
  PROVE  /\ IsFiniteSet(S \cup T)
         /\ Cardinality(S \cup T) <= Cardinality(S) + Cardinality(T)
<1>1. /\ IsFiniteSet(S \cup T)
      /\ Cardinality(S \cup T)
           = Cardinality(S) + Cardinality(T) - Cardinality(S \cap T)
  BY FS_Union
<1>2. IsFiniteSet(S \cap T)
  BY FS_Intersection
<1>3. /\ Cardinality(S) \in Nat /\ Cardinality(T) \in Nat
      /\ Cardinality(S \cap T) \in Nat
  BY <1>2, FS_CardinalityType
<1> QED BY <1>1, <1>3

=============================================================================

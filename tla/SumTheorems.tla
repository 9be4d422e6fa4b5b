----------------------------- MODULE SumTheorems -----------------------------
(***************************************************************************)
(* Sums over a finite set, as the models write them with SumFunctionOnSet, *)
(* for sets and numbers of any size.  The community modules define such a  *)
(* sum as a fold, a function chosen by its recursive equation; here that   *)
(* function is shown to exist.  The induction is by least counterexample:  *)
(* a set of naturals, or of parts of a finite set, that is not empty has a *)
(* minimal member (WFMin), which takes no operator as a parameter.         *)
(***************************************************************************)
EXTENDS Integers, FiniteSets, Functions, FiniteSetTheorems, WellFoundedInduction, TLAPS

\* The recursive equation of a sum, and the partial sums that keep to it.
Some(s) == CHOOSE x \in s : TRUE

Step(w, g, s) == IF s = {} THEN 0 ELSE w[Some(s)] + g[s \ {Some(s)}]

Partials(w, S) == CHOOSE g : g = [s \in SUBSET S |-> Step(w, g, s)]

\* A sum is the last of the partial sums over the parts of its set.
LEMMA SumIsPartial ==
    ASSUME NEW w, NEW S
    PROVE  SumFunctionOnSet(w, S) = Partials(w, S)[S]
BY DEF SumFunctionOnSet, FoldFunctionOnSet, MapThenFoldSet, Partials, Step, Some

\* Induction over the naturals, for a set of them.
LEMMA NaturalsByStep ==
    ASSUME NEW T, 0 \in T, \A n \in Nat : n \in T => n + 1 \in T
    PROVE  Nat \subseteq T
<1> DEFINE Missed == Nat \ T
<1> SUFFICES ASSUME Missed # {} PROVE FALSE
  OBVIOUS
<1>1. PICK m \in Missed : \A k \in Missed : ~(<<k, m>> \in OpToRel(<, Nat))
  <2> HIDE DEF Missed
  <2>1. Missed \subseteq Nat
    BY DEF Missed
  <2> QED
    BY <2>1, NatLessThanWellFounded, WFMin
<1>2. \A k \in Missed : ~(k < m)
  BY <1>1 DEF OpToRel
<1>3. m \in Nat /\ m # 0
  OBVIOUS
<1>4. m - 1 \in Nat /\ m - 1 < m /\ (m - 1) + 1 = m
  BY <1>3
<1> QED
  BY <1>2, <1>4

\* Induction over the parts of a finite set: what holds of a part once it holds of
\* all smaller ones holds of every part.
LEMMA FiniteSetsByParts ==
    ASSUME NEW S, IsFiniteSet(S), NEW T,
           \A s \in SUBSET S : (\A u \in SUBSET s : u # s => u \in T) => s \in T
    PROVE  SUBSET S \subseteq T
<1> DEFINE Missed == (SUBSET S) \ T
           R == StrictSubsetOrdering(S)
<1> SUFFICES ASSUME Missed # {} PROVE FALSE
  OBVIOUS
<1>1. PICK m \in Missed : \A k \in Missed : ~(<<k, m>> \in R)
  <2>1. IsWellFoundedOn(R, SUBSET S)
    <3>1. FiniteSubsetsOf(S) = SUBSET S
      BY FS_FiniteSubsetsOfFinite
    <3>2. IsWellFoundedOn(R, FiniteSubsetsOf(S))
      BY FS_StrictSubsetOrderingWellFounded
    <3> QED
      BY <3>1, <3>2
  <2>2. Missed \subseteq SUBSET S
    OBVIOUS
  <2> HIDE DEF Missed, R
  <2> QED
    BY <2>1, <2>2, WFMin
<1>2. ASSUME NEW u \in SUBSET m, u # m
      PROVE  u \in T
  BY <1>1, <1>2 DEF StrictSubsetOrdering
<1> QED
  BY <1>1, <1>2

-----------------------------------------------------------------------------
\* The element that a sum takes next is one of the set.
LEMMA SomeIsIn == ASSUME NEW s, s # {} PROVE Some(s) \in s
BY DEF Some

\* There is a function that keeps to the recursive equation.
LEMMA PartialsExist ==
    ASSUME NEW S, IsFiniteSet(S), NEW w, \A x \in S : w[x] \in Int
    PROVE  \E g : g = [s \in SUBSET S |-> Step(w, g, s)]
<1> DEFINE Upto(n) == {s \in SUBSET S : Cardinality(s) <= n}
           T == {n \in Nat : \E g \in [SUBSET S -> Int] : \A s \in Upto(n) : g[s] = Step(w, g, s)}
<1>0. \A s \in SUBSET S : IsFiniteSet(s) /\ Cardinality(s) \in Nat
  BY FS_Subset, FS_CardinalityType
<1>1. 0 \in T
  <2> DEFINE g == [s \in SUBSET S |-> 0]
  <2>1. ASSUME NEW s \in Upto(0) PROVE s = {}
    BY <1>0, FS_EmptySet
  <2>2. \A s \in Upto(0) : g[s] = Step(w, g, s)
    BY <2>1 DEF Step
  <2>3. g \in [SUBSET S -> Int]
    OBVIOUS
  <2> HIDE DEF g, Upto
  <2> QED
    BY <2>2, <2>3
<1>2. ASSUME NEW n \in Nat, n \in T
      PROVE  n + 1 \in T
  <2>1. PICK g \in [SUBSET S -> Int] : \A s \in Upto(n) : g[s] = Step(w, g, s)
    BY <1>2
  <2> DEFINE h == [s \in SUBSET S |-> IF Cardinality(s) <= n THEN g[s] ELSE Step(w, g, s)]
  <2>2. \A s \in SUBSET S : Step(w, g, s) \in Int
    BY SomeIsIn DEF Step
  <2>3. h \in [SUBSET S -> Int]
    BY <2>2
  <2>4. ASSUME NEW s \in Upto(n + 1), s # {}
        PROVE  s \ {Some(s)} \in Upto(n)
    <3>1. IsFiniteSet(s) /\ Some(s) \in s /\ Cardinality(s) <= n + 1 /\ Cardinality(s) \in Nat
      BY <1>0, <2>4, SomeIsIn
    <3>2. Cardinality(s \ {Some(s)}) = Cardinality(s) - 1
      BY <3>1, FS_RemoveElement
    <3> QED
      BY <3>1, <3>2
  <2>5. ASSUME NEW s \in Upto(n + 1)
        PROVE  h[s] = Step(w, h, s)
    <3>1. h[s] = Step(w, g, s)
      BY <2>1
    <3>2. s # {} => h[s \ {Some(s)}] = g[s \ {Some(s)}]
      BY <2>4
    <3> QED
      BY <3>1, <3>2 DEF Step
  <2> HIDE DEF h
  <2> QED
    BY <2>3, <2>5
<1>3. Cardinality(S) \in T
  <2> HIDE DEF T
  <2> QED
    BY <1>0, <1>1, <1>2, NaturalsByStep
<1>4. PICK g \in [SUBSET S -> Int] : \A s \in Upto(Cardinality(S)) : g[s] = Step(w, g, s)
  BY <1>3
<1>5. \A s \in SUBSET S : s \in Upto(Cardinality(S))
  BY FS_Subset
<1>6. g = [s \in SUBSET S |-> Step(w, g, s)]
  BY <1>4, <1>5
<1> QED
  BY <1>6

\* So the chosen one does, and its values are integers.
LEMMA PartialsDefined ==
    ASSUME NEW S, IsFiniteSet(S), NEW w, \A x \in S : w[x] \in Int
    PROVE  /\ \A s \in SUBSET S : Partials(w, S)[s] = Step(w, Partials(w, S), s)
           /\ \A s \in SUBSET S : Partials(w, S)[s] \in Int
<1> DEFINE P == Partials(w, S)
           T == {s \in SUBSET S : P[s] \in Int}
<1>1. P = [s \in SUBSET S |-> Step(w, P, s)]
  BY PartialsExist DEF Partials
<1>2. \A s \in SUBSET S : P[s] = Step(w, P, s)
  <2> HIDE DEF P
  <2> QED
    BY <1>1
<1>3. ASSUME NEW s \in SUBSET S, \A u \in SUBSET s : u # s => u \in T
      PROVE  s \in T
  <2> HIDE DEF P
  <2>1. CASE s # {}
    <3>1. Some(s) \in s
      BY <2>1, SomeIsIn
    <3>2. P[s \ {Some(s)}] \in Int /\ w[Some(s)] \in Int
      BY <1>3, <3>1
    <3>3. P[s] = w[Some(s)] + P[s \ {Some(s)}]
      BY <1>2, <2>1 DEF Step
    <3> QED
      BY <3>2, <3>3
  <2>2. CASE s = {}
    <3>1. P[s] = 0
      BY <1>2, <2>2 DEF Step
    <3> QED
      BY <3>1
  <2> QED
    BY <2>1, <2>2
<1>4. SUBSET S \subseteq T
  <2> HIDE DEF T
  <2> QED
    BY <1>3, FiniteSetsByParts
<1> QED
  BY <1>2, <1>4

\* What is summed over a set does not depend on what is summed elsewhere.
LEMMA PartialsAgree ==
    ASSUME NEW S, IsFiniteSet(S), NEW w, \A x \in S : w[x] \in Int,
           NEW R \in SUBSET S, NEW v, \A x \in R : v[x] = w[x]
    PROVE  \A s \in SUBSET R : Partials(v, R)[s] = Partials(w, S)[s]
<1> DEFINE P == Partials(w, S)
           Q == Partials(v, R)
           T == {s \in SUBSET R : Q[s] = P[s]}
<1>0. IsFiniteSet(R) /\ \A x \in R : v[x] \in Int
  BY FS_Subset
<1>1. \A s \in SUBSET S : P[s] = Step(w, P, s)
  BY PartialsDefined
<1>2. \A s \in SUBSET R : Q[s] = Step(v, Q, s)
  BY <1>0, PartialsDefined
<1> HIDE DEF P, Q
<1>3. ASSUME NEW s \in SUBSET R, \A u \in SUBSET s : u # s => u \in T
      PROVE  s \in T
  <2>1. CASE s # {}
    <3>1. Some(s) \in s
      BY <2>1, SomeIsIn
    <3>2. P[s \ {Some(s)}] = Q[s \ {Some(s)}] /\ w[Some(s)] = v[Some(s)]
      BY <1>3, <3>1
    <3> QED
      BY <1>1, <1>2, <2>1, <3>2 DEF Step
  <2> QED
    BY <1>1, <1>2, <2>1 DEF Step
<1>4. SUBSET R \subseteq T
  <2> HIDE DEF T
  <2> QED
    BY <1>0, <1>3, FiniteSetsByParts
<1> QED
  BY <1>4 DEF P, Q

\* Any element may be the first: addition does not mind the order.
LEMMA PartialsTakeAny ==
    ASSUME NEW S, IsFiniteSet(S), NEW w, \A x \in S : w[x] \in Int
    PROVE  \A s \in SUBSET S : \A x \in s : Partials(w, S)[s] = w[x] + Partials(w, S)[s \ {x}]
<1> DEFINE P == Partials(w, S)
           T == {s \in SUBSET S : \A x \in s : P[s] = w[x] + P[s \ {x}]}
<1>1. \A s \in SUBSET S : P[s] = Step(w, P, s) /\ P[s] \in Int
  BY PartialsDefined
<1> HIDE DEF P
<1>2. ASSUME NEW s \in SUBSET S, \A u \in SUBSET s : u # s => u \in T
      PROVE  s \in T
  <2> SUFFICES ASSUME NEW x \in s PROVE P[s] = w[x] + P[s \ {x}]
    OBVIOUS
  <2> DEFINE y == Some(s)
  <2>1. y \in s /\ P[s] = w[y] + P[s \ {y}]
    BY <1>1, SomeIsIn DEF Step
  <2> HIDE DEF y
  <2>2. CASE x # y
    <3>1. P[s \ {y}] = w[x] + P[(s \ {y}) \ {x}]
      BY <1>2, <2>1, <2>2
    <3>2. P[s \ {x}] = w[y] + P[(s \ {x}) \ {y}]
      BY <1>2, <2>1, <2>2
    <3>3. (s \ {y}) \ {x} = (s \ {x}) \ {y}
      OBVIOUS
    <3>4. P[(s \ {x}) \ {y}] \in Int /\ w[x] \in Int /\ w[y] \in Int
      BY <1>1, <2>1
    <3>5. P[s] = w[y] + (w[x] + P[(s \ {x}) \ {y}])
      BY <2>1, <3>1, <3>3
    <3>6. w[y] + (w[x] + P[(s \ {x}) \ {y}]) = w[x] + (w[y] + P[(s \ {x}) \ {y}])
      BY <3>4
    <3> QED
      BY <3>2, <3>5, <3>6
  <2> QED
    BY <2>1, <2>2
<1>3. SUBSET S \subseteq T
  <2> HIDE DEF T
  <2> QED
    BY <1>2, FiniteSetsByParts
<1> QED
  BY <1>3 DEF P

-----------------------------------------------------------------------------
\* The sum over nothing is zero.
THEOREM SumOfNone == \A w : SumFunctionOnSet(w, {}) = 0
<1> TAKE w
<1>1. Partials(w, {})[{}] = Step(w, Partials(w, {}), {})
  BY PartialsDefined, FS_EmptySet
<1> QED
  BY <1>1, SumIsPartial DEF Step

\* A sum of integers is an integer.
THEOREM SumIsInt ==
    ASSUME NEW S, IsFiniteSet(S), NEW w, \A x \in S : w[x] \in Int
    PROVE  SumFunctionOnSet(w, S) \in Int
BY PartialsDefined, SumIsPartial

\* A sum is what any element adds to the sum over the others.
THEOREM SumTakes ==
    ASSUME NEW S, IsFiniteSet(S), NEW w, \A x \in S : w[x] \in Int, NEW x \in S
    PROVE  SumFunctionOnSet(w, S) = w[x] + SumFunctionOnSet(w, S \ {x})
<1>1. SumFunctionOnSet(w, S) = w[x] + Partials(w, S)[S \ {x}]
  BY PartialsTakeAny, SumIsPartial
<1>2. Partials(w, S \ {x})[S \ {x}] = Partials(w, S)[S \ {x}]
  BY PartialsAgree
<1> QED
  BY <1>1, <1>2, SumIsPartial

\* A sum depends on what is summed over the set, and on nothing else.
THEOREM SumAgrees ==
    ASSUME NEW S, IsFiniteSet(S), NEW w, \A x \in S : w[x] \in Int, NEW v, \A x \in S : v[x] = w[x]
    PROVE  SumFunctionOnSet(v, S) = SumFunctionOnSet(w, S)
BY PartialsAgree, SumIsPartial

\* A sum of naturals is a natural.
THEOREM SumIsNat ==
    ASSUME NEW S, IsFiniteSet(S), NEW w, \A x \in S : w[x] \in Nat
    PROVE  SumFunctionOnSet(w, S) \in Nat
<1> DEFINE T == {s \in SUBSET S : SumFunctionOnSet(w, s) \in Nat}
<1>1. ASSUME NEW s \in SUBSET S, \A u \in SUBSET s : u # s => u \in T
      PROVE  s \in T
  <2>1. CASE s # {}
    <3>1. PICK x \in s : TRUE
      BY <2>1
    <3>2. SumFunctionOnSet(w, s) = w[x] + SumFunctionOnSet(w, s \ {x})
      BY FS_Subset, SumTakes
    <3>3. SumFunctionOnSet(w, s \ {x}) \in Nat
      BY <1>1, <3>1
    <3>4. w[x] \in Nat
      BY <3>1
    <3>5. SumFunctionOnSet(w, s) \in Nat
      BY <3>2, <3>3, <3>4
    <3> QED
      BY <3>5
  <2>2. CASE s = {}
    BY <2>2, SumOfNone
  <2> QED
    BY <2>1, <2>2
<1>2. SUBSET S \subseteq T
  <2> HIDE DEF T
  <2> QED
    BY <1>1, FiniteSetsByParts
<1> QED
  BY <1>2

\* A sum is no less than the sum of what is less.
THEOREM SumIsMonotone ==
    ASSUME NEW S, IsFiniteSet(S), NEW w, NEW v, \A x \in S : w[x] \in Int /\ v[x] \in Int /\ v[x] <= w[x]
    PROVE  SumFunctionOnSet(v, S) <= SumFunctionOnSet(w, S)
<1> DEFINE T == {s \in SUBSET S : SumFunctionOnSet(v, s) <= SumFunctionOnSet(w, s)}
<1>1. ASSUME NEW s \in SUBSET S, \A u \in SUBSET s : u # s => u \in T
      PROVE  s \in T
  <2>1. CASE s # {}
    <3>1. PICK x \in s : TRUE
      BY <2>1
    <3>2. /\ SumFunctionOnSet(w, s) = w[x] + SumFunctionOnSet(w, s \ {x})
          /\ SumFunctionOnSet(v, s) = v[x] + SumFunctionOnSet(v, s \ {x})
      BY FS_Subset, SumTakes
    <3>3. /\ SumFunctionOnSet(v, s \ {x}) <= SumFunctionOnSet(w, s \ {x})
          /\ SumFunctionOnSet(v, s \ {x}) \in Int /\ SumFunctionOnSet(w, s \ {x}) \in Int
      BY <1>1, <3>1, FS_Subset, SumIsInt
    <3> QED
      BY <3>2, <3>3
  <2>2. CASE s = {}
    BY <2>2, SumOfNone
  <2> QED
    BY <2>1, <2>2
<1>2. SUBSET S \subseteq T
  <2> HIDE DEF T
  <2> QED
    BY <1>1, FiniteSetsByParts
<1> QED
  BY <1>2

\* A sum of naturals over a part is no more than over the whole.
THEOREM SumOfPart ==
    ASSUME NEW S, IsFiniteSet(S), NEW w, \A x \in S : w[x] \in Nat, NEW U \in SUBSET S
    PROVE  SumFunctionOnSet(w, U) <= SumFunctionOnSet(w, S)
<1> DEFINE T == {s \in SUBSET S : SumFunctionOnSet(w, s \cap U) <= SumFunctionOnSet(w, s)}
<1>1. ASSUME NEW s \in SUBSET S, \A u \in SUBSET s : u # s => u \in T
      PROVE  s \in T
  <2>1. CASE s # {}
    <3>1. PICK x \in s : TRUE
      BY <2>1
    <3> DEFINE rest == s \ {x}
    <3>2. SumFunctionOnSet(w, rest \cap U) <= SumFunctionOnSet(w, rest)
      BY <1>1, <3>1
    <3>3. IsFiniteSet(s) /\ IsFiniteSet(s \cap U) /\ IsFiniteSet(rest) /\ IsFiniteSet(rest \cap U)
      BY FS_Subset
    <3>4. SumFunctionOnSet(w, s) = w[x] + SumFunctionOnSet(w, rest)
      BY <3>1, <3>3, SumTakes
    <3>5. /\ SumFunctionOnSet(w, rest) \in Nat /\ SumFunctionOnSet(w, rest \cap U) \in Nat
          /\ w[x] \in Nat
      BY <3>1, <3>3, SumIsNat
    <3>6. CASE x \in U
      <4>1. (s \cap U) \ {x} = rest \cap U
        OBVIOUS
      <4>2. SumFunctionOnSet(w, s \cap U) = w[x] + SumFunctionOnSet(w, (s \cap U) \ {x})
        BY <3>1, <3>3, <3>6, SumTakes
      <4>3. SumFunctionOnSet(w, s \cap U) = w[x] + SumFunctionOnSet(w, rest \cap U)
        BY <4>1, <4>2
      <4>4. SumFunctionOnSet(w, s \cap U) <= SumFunctionOnSet(w, s)
        <5> HIDE DEF rest
        <5> QED
          BY <3>2, <3>4, <3>5, <4>3
      <4> QED
        BY <4>4
    <3>7. CASE x \notin U
      <4>1. s \cap U = rest \cap U
        BY <3>7
      <4>2. SumFunctionOnSet(w, s \cap U) = SumFunctionOnSet(w, rest \cap U)
        BY <4>1
      <4>3. SumFunctionOnSet(w, s \cap U) <= SumFunctionOnSet(w, s)
        <5> HIDE DEF rest
        <5> QED
          BY <3>2, <3>4, <3>5, <4>2
      <4> QED
        BY <4>3
    <3> QED
      BY <3>6, <3>7
  <2>2. CASE s = {}
    <3>1. s \cap U = s
      BY <2>2
    <3>2. SumFunctionOnSet(w, s) = 0
      BY <2>2, SumOfNone
    <3> QED
      BY <3>1, <3>2
  <2> QED
    BY <2>1, <2>2
<1>2. SUBSET S \subseteq T
  <2> HIDE DEF T
  <2> QED
    BY <1>1, FiniteSetsByParts
<1>3. S \cap U = U
  OBVIOUS
<1> QED
  BY <1>2, <1>3
=============================================================================

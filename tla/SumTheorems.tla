----------------------------- MODULE SumTheorems -----------------------------
(***************************************************************************)
(* Facts about MapThenSumSet of FiniteSetsExt, for a function with integer     *)
(* values: the sum of an empty set, of a set without one element, of a subset,  *)
(* and after a change at one argument.  budget.BudgetLedger adds up its          *)
(* reservations in a loop; MapThenSumSet takes the elements in the order CHOOSE  *)
(* gives them, and TotalTake says that the order makes no difference.           *)
(*                                                                         *)
(* The induction is by a minimal counterexample, a number (LeastNat) or a set     *)
(* (LeastSubset), which the library provides without an operator as a parameter.  *)
(***************************************************************************)
EXTENDS Integers, FiniteSets, FiniteSetsExt, FiniteSetTheorems, TLAPS

Total(f, S) == MapThenSumSet(LAMBDA x : f[x], S)

(* The recursive function inside MapThenSumSet. *)
Pick(s) == CHOOSE x \in s : TRUE
Body(f, g, s) == IF s = {} THEN 0 ELSE f[Pick(s)] + g[s \ {Pick(s)}]
IsTally(f, S, g) == g = [s \in SUBSET S |-> Body(f, g, s)]
Tally(f, S) == CHOOSE g : IsTally(f, S, g)

(* g is that function for U, and has the sum of every subset. *)
GivesTotals(f, U, g) ==
    /\ g \in [SUBSET U -> Int]
    /\ IsTally(f, U, g)
    /\ \A S \in SUBSET U : Total(f, S) = g[S]

-----------------------------------------------------------------------------
(* Minimal elements.                                                        *)

(* A set that is not empty has the element that is taken first. *)
LEMMA PickIn == \A s : s # {} => Pick(s) \in s
  BY DEF Pick

(* A set of numbers that is not empty has a least one. *)
LEMMA LeastNat ==
  ASSUME NEW T \in SUBSET Nat, T # {}
  PROVE  \E n \in T : \A m \in T : ~(m < n)
  <1> DEFINE R == OpToRel(<, Nat)
  <1>1. IsWellFoundedOn(R, Nat)
    BY NatLessThanWellFounded, Zenon
  <1>2. \A m, n \in Nat : m < n => <<m, n>> \in R
    BY DEF OpToRel
  <1> HIDE DEF R
  <1>3. \E n \in T : \A m \in T : ~(<<m, n>> \in R)
    BY <1>1, WFMin
  <1> QED
    BY <1>2, <1>3

(* A set of subsets of a finite set has one that contains no other of them. *)
LEMMA LeastSubset ==
  ASSUME NEW U, IsFiniteSet(U), NEW T \in SUBSET (SUBSET U), T # {}
  PROVE  \E s \in T : \A t \in T : ~(t \subseteq s /\ t # s)
  <1>1. IsWellFoundedOn(StrictSubsetOrdering(U), FiniteSubsetsOf(U))
    BY FS_StrictSubsetOrderingWellFounded
  <1>2. FiniteSubsetsOf(U) = SUBSET U
    BY FS_Subset DEF FiniteSubsetsOf
  <1>3. \E s \in T : \A t \in T : ~(<<t, s>> \in StrictSubsetOrdering(U))
    BY <1>1, <1>2, WFMin
  <1> QED
    BY <1>3 DEF StrictSubsetOrdering

-----------------------------------------------------------------------------
(* The recursive function exists and is unique.                               *)

(* Its value for the whole set is the sum. *)
LEMMA TotalIsTally == \A f, S : Total(f, S) = Tally(f, S)[S]
  BY DEF Total, Tally, IsTally, Body, Pick, MapThenSumSet, MapThenFoldSet

(* Two such functions agree on the sets both are defined for. *)
LEMMA TallyUnique ==
  ASSUME NEW f, NEW U, NEW V, IsFiniteSet(U), NEW g, IsTally(f, U, g), NEW h, IsTally(f, V, h),
         NEW r \in (SUBSET U) \cap (SUBSET V)
  PROVE  g[r] = h[r]
  <1> DEFINE T == {s \in (SUBSET U) \cap (SUBSET V) : g[s] # h[s]}
  <1> SUFFICES ASSUME T # {} PROVE FALSE
    OBVIOUS
  <1>1. T \in SUBSET (SUBSET U)
    OBVIOUS
  <1> HIDE DEF T
  <1>0. PICK s \in T : \A t \in T : ~(t \subseteq s /\ t # s)
    BY <1>1, LeastSubset
  <1> USE DEF T
  <1>2. g[s] = Body(f, g, s) /\ h[s] = Body(f, h, s)
    BY DEF IsTally
  <1>3. s # {}
    BY <1>2 DEF Body
  <1>4. Pick(s) \in s
    BY <1>3, PickIn
  <1>5. s \ {Pick(s)} \notin T
    BY <1>0, <1>4
  <1>6. g[s \ {Pick(s)}] = h[s \ {Pick(s)}]
    BY <1>5
  <1> QED
    BY <1>2, <1>3, <1>6 DEF Body

(* There is such a function on the subsets of a finite set: one that satisfies     *)
(* the equation up to n elements is changed into one for n + 1.                *)
LEMMA TallyExists ==
  ASSUME NEW U, IsFiniteSet(U), NEW f \in [U -> Int]
  PROVE  \E g \in [SUBSET U -> Int] : IsTally(f, U, g)
  <1> DEFINE Upto(g, n) == \A s \in SUBSET U : Cardinality(s) <= n => g[s] = Body(f, g, s)
             T == {n \in Nat : ~ \E g \in [SUBSET U -> Int] : Upto(g, n)}
  <1>1. \A s \in SUBSET U : IsFiniteSet(s) /\ Cardinality(s) \in Nat /\ Cardinality(s) <= Cardinality(U)
    BY FS_Subset, FS_CardinalityType
  <1>2. Cardinality(U) \in Nat
    BY FS_CardinalityType
  <1>3. ASSUME NEW s \in SUBSET U, s # {}
        PROVE  /\ Pick(s) \in s
               /\ s \ {Pick(s)} \in SUBSET U
               /\ Cardinality(s \ {Pick(s)}) = Cardinality(s) - 1
    BY <1>1, <1>3, PickIn, FS_RemoveElement
  <1>4. T = {}
    <2> SUFFICES ASSUME T # {} PROVE FALSE
      OBVIOUS
    <2>1. T \in SUBSET Nat
      OBVIOUS
    <2> HIDE DEF T
    <2>2. PICK n \in T : \A m \in T : ~(m < n)
      BY <2>1, LeastNat
    <2>a. n \in Nat
      BY <2>1
    <2>3. CASE n = 0
      <3> DEFINE g == [s \in SUBSET U |-> 0]
      <3>1. g \in [SUBSET U -> Int]
        OBVIOUS
      <3>2. \A s \in SUBSET U : Cardinality(s) <= 0 => s = {}
        BY <1>1, FS_EmptySet
      <3>3. Upto(g, 0)
        BY <3>2 DEF Body
      <3> QED
        BY <2>3, <3>1, <3>3 DEF T
    <2>4. CASE n # 0
      <3>1. n - 1 \in Nat /\ n - 1 \notin T
        BY <2>a, <2>2, <2>4
      <3>2. PICK g \in [SUBSET U -> Int] : Upto(g, n - 1)
        BY <3>1 DEF T
      <3> DEFINE h == [s \in SUBSET U |-> IF Cardinality(s) = n THEN Body(f, g, s) ELSE g[s]]
      <3>3. ASSUME NEW s \in SUBSET U PROVE Body(f, g, s) \in Int
        <4>1. CASE s = {}
          BY <4>1 DEF Body
        <4>2. CASE s # {}
          <5>1. f[Pick(s)] \in Int /\ g[s \ {Pick(s)}] \in Int
            BY <1>3, <4>2
          <5> QED
            BY <4>2, <5>1 DEF Body
        <4> QED
          BY <4>1, <4>2
      <3>4. h \in [SUBSET U -> Int]
        BY <3>3
      <3>5. ASSUME NEW s \in SUBSET U, Cardinality(s) <= n
            PROVE  Body(f, h, s) = Body(f, g, s)
        <4>1. CASE s = {}
          BY <4>1 DEF Body
        <4>2. CASE s # {}
          <5>1. s \ {Pick(s)} \in SUBSET U /\ Cardinality(s \ {Pick(s)}) # n
            BY <1>1, <1>3, <2>a, <3>5, <4>2
          <5>2. h[s \ {Pick(s)}] = g[s \ {Pick(s)}]
            BY <5>1
          <5> QED
            BY <4>2, <5>2 DEF Body
        <4> QED
          BY <4>1, <4>2
      <3>6. ASSUME NEW s \in SUBSET U, Cardinality(s) <= n
            PROVE  h[s] = Body(f, g, s)
        <4>1. CASE Cardinality(s) = n
          BY <4>1
        <4>2. CASE Cardinality(s) # n
          <5>1. Cardinality(s) <= n - 1
            BY <1>1, <2>a, <3>6, <4>2
          <5> QED
            BY <3>2, <4>2, <5>1
        <4> QED
          BY <4>1, <4>2
      <3>7. Upto(h, n)
        BY <3>5, <3>6
      <3> QED
        BY <3>4, <3>7 DEF T
    <2> QED
      BY <2>3, <2>4
  <1>5. PICK g \in [SUBSET U -> Int] : Upto(g, Cardinality(U))
    BY <1>2, <1>4
  <1>6. \A s \in SUBSET U : g[s] = Body(f, g, s)
    BY <1>1, <1>5
  <1> QED
    BY <1>6 DEF IsTally

(* One function on the subsets of U gives the sums of all of them. *)
LEMMA TotalTally ==
  ASSUME NEW U, IsFiniteSet(U), NEW f \in [U -> Int]
  PROVE  \E g : GivesTotals(f, U, g)
  <1>1. PICK g \in [SUBSET U -> Int] : IsTally(f, U, g)
    BY TallyExists
  <1>2. ASSUME NEW S \in SUBSET U PROVE Total(f, S) = g[S]
    <2> DEFINE h == [s \in SUBSET S |-> g[s]]
    <2>1. ASSUME NEW s \in SUBSET S PROVE Body(f, h, s) = Body(f, g, s)
      BY PickIn DEF Body
    <2>2. ASSUME NEW s \in SUBSET S PROVE h[s] = Body(f, g, s)
      BY <1>1 DEF IsTally
    <2>3. IsTally(f, S, h)
      BY <2>1, <2>2 DEF IsTally
    <2> HIDE DEF h
    <2>4. IsTally(f, S, Tally(f, S))
      BY <2>3 DEF Tally
    <2> QED
      BY <1>1, <2>4, TallyUnique, TotalIsTally
  <1> QED
    BY <1>1, <1>2 DEF GivesTotals

-----------------------------------------------------------------------------
(* What a sum is.                                                           *)

(* The sum of nothing is 0, and every sum is an integer. *)
LEMMA TotalType ==
  ASSUME NEW U, IsFiniteSet(U), NEW f \in [U -> Int]
  PROVE  Total(f, {}) = 0 /\ \A S \in SUBSET U : Total(f, S) \in Int
  <1>0. PICK g : GivesTotals(f, U, g)
    BY TotalTally
  <1>1. /\ g \in [SUBSET U -> Int]
        /\ IsTally(f, U, g)
        /\ \A S \in SUBSET U : Total(f, S) = g[S]
    BY <1>0 DEF GivesTotals
  <1>2. g[{}] = 0
    BY <1>1 DEF IsTally, Body
  <1>3. Total(f, {}) = g[{}]
    BY <1>1
  <1> QED
    BY <1>1, <1>2, <1>3

(* The sum does not depend on the order in which the elements are taken: any     *)
(* element may be the first.                                                *)
LEMMA TotalTake ==
  ASSUME NEW U, IsFiniteSet(U), NEW f \in [U -> Int],
         NEW R \in SUBSET U, NEW y \in R
  PROVE  Total(f, R) = f[y] + Total(f, R \ {y})
  <1>0. PICK g : GivesTotals(f, U, g)
    BY TotalTally
  <1>1. /\ g \in [SUBSET U -> Int]
        /\ IsTally(f, U, g)
        /\ \A S \in SUBSET U : Total(f, S) = g[S]
    BY <1>0 DEF GivesTotals
  <1> DEFINE T == {S \in SUBSET U : \E x \in S : g[S] # f[x] + g[S \ {x}]}
  <1>2. T = {}
    <2> SUFFICES ASSUME T # {} PROVE FALSE
      OBVIOUS
    <2>1. T \in SUBSET (SUBSET U)
      OBVIOUS
    <2> HIDE DEF T
    <2>2. PICK S \in T : \A t \in T : ~(t \subseteq S /\ t # S)
      BY <2>1, LeastSubset
    <2>3. S \in SUBSET U
      BY <2>1
    <2>4. PICK x \in S : g[S] # f[x] + g[S \ {x}]
      BY DEF T
    <2> DEFINE z == Pick(S)
    <2>5. z \in S
      BY PickIn
    <2>6. g[S] = f[z] + g[S \ {z}]
      BY <1>1, <2>3 DEF IsTally, Body
    <2> HIDE DEF z
    <2>7. x # z
      BY <2>4, <2>6
    <2>8. S \ {z} \notin T /\ S \ {x} \notin T
      BY <2>2, <2>4, <2>5
    <2>9. g[S \ {z}] = f[x] + g[(S \ {z}) \ {x}]
      BY <2>3, <2>4, <2>7, <2>8 DEF T
    <2>10. g[S \ {x}] = f[z] + g[(S \ {x}) \ {z}]
      BY <2>3, <2>5, <2>7, <2>8 DEF T
    <2>11. (S \ {x}) \ {z} = (S \ {z}) \ {x}
      OBVIOUS
    <2> DEFINE a == f[x]
               b == f[z]
               rest == g[(S \ {z}) \ {x}]
    <2>12. a \in Int /\ b \in Int /\ rest \in Int
      BY <1>1, <2>3, <2>4, <2>5
    <2>13. g[S] = b + (a + rest) /\ g[S \ {x}] = b + rest /\ g[S] # a + g[S \ {x}]
      BY <2>4, <2>6, <2>9, <2>10, <2>11
    <2> HIDE DEF a, b, rest
    <2> QED
      BY <2>12, <2>13
  <1>3. g[R] = f[y] + g[R \ {y}]
    BY <1>2
  <1> QED
    BY <1>1, <1>3

(* The sum only depends on the values at the elements. *)
LEMMA TotalAgree ==
  ASSUME NEW U, IsFiniteSet(U), NEW f \in [U -> Int], NEW h \in [U -> Int],
         NEW R \in SUBSET U, \A x \in R : f[x] = h[x]
  PROVE  Total(f, R) = Total(h, R)
  <1> DEFINE T == {S \in SUBSET R : Total(f, S) # Total(h, S)}
  <1>1. T = {}
    <2> SUFFICES ASSUME T # {} PROVE FALSE
      OBVIOUS
    <2>1. T \in SUBSET (SUBSET U)
      OBVIOUS
    <2>2. PICK S \in T : \A t \in T : ~(t \subseteq S /\ t # S)
      <3> HIDE DEF T
      <3> QED
        BY <2>1, LeastSubset
    <2>3. S \in SUBSET R /\ S \in SUBSET U /\ Total(f, S) # Total(h, S)
      OBVIOUS
    <2>4. S # {}
      BY <2>3, TotalType
    <2>5. PICK x : x \in S
      BY <2>4
    <2>6. Total(f, S \ {x}) = Total(h, S \ {x})
      BY <2>2, <2>3, <2>5
    <2>7. Total(f, S) = f[x] + Total(f, S \ {x}) /\ Total(h, S) = h[x] + Total(h, S \ {x})
      BY <2>3, <2>5, TotalTake
    <2> QED
      BY <2>3, <2>5, <2>6, <2>7
  <1> QED
    BY <1>1

(* A sum of zeros is 0. *)
LEMMA TotalZero ==
  ASSUME NEW U, IsFiniteSet(U), NEW f \in [U -> Int],
         NEW R \in SUBSET U, \A x \in R : f[x] = 0
  PROVE  Total(f, R) = 0
  <1> DEFINE T == {S \in SUBSET R : Total(f, S) # 0}
  <1>1. T = {}
    <2> SUFFICES ASSUME T # {} PROVE FALSE
      OBVIOUS
    <2>1. T \in SUBSET (SUBSET U)
      OBVIOUS
    <2>2. PICK S \in T : \A t \in T : ~(t \subseteq S /\ t # S)
      <3> HIDE DEF T
      <3> QED
        BY <2>1, LeastSubset
    <2>3. S \in SUBSET R /\ S \in SUBSET U /\ Total(f, S) # 0
      OBVIOUS
    <2>4. PICK x : x \in S
      BY <2>3, TotalType
    <2>5. Total(f, S \ {x}) = 0
      BY <2>2, <2>3, <2>4
    <2>6. Total(f, S) = f[x] + Total(f, S \ {x})
      BY <2>3, <2>4, TotalTake
    <2> QED
      BY <2>3, <2>4, <2>5, <2>6
  <1> QED
    BY <1>1

(* The sum after a change at one element. *)
LEMMA TotalUpdate ==
  ASSUME NEW U, IsFiniteSet(U), NEW f \in [U -> Int], NEW h \in [U -> Int],
         NEW R \in SUBSET U, NEW y \in R, \A x \in R \ {y} : f[x] = h[x]
  PROVE  Total(h, R) = Total(f, R) - f[y] + h[y]
  <1>1. Total(f, R) = f[y] + Total(f, R \ {y}) /\ Total(h, R) = h[y] + Total(h, R \ {y})
    BY TotalTake
  <1>2. Total(f, R \ {y}) = Total(h, R \ {y})
    BY TotalAgree
  <1>3. f[y] \in Int /\ h[y] \in Int /\ Total(f, R \ {y}) \in Int
    BY TotalType
  <1> QED
    BY <1>1, <1>2, <1>3

(* A part of a sum of natural numbers is not larger than the whole. *)
LEMMA TotalMonotone ==
  ASSUME NEW U, IsFiniteSet(U), NEW f \in [U -> Nat], NEW R \in SUBSET U, NEW Q \in SUBSET R
  PROVE  Total(f, Q) <= Total(f, R)
  <1>0. f \in [U -> Int]
    OBVIOUS
  <1> DEFINE T == {S \in SUBSET R : Q \subseteq S /\ ~(Total(f, Q) <= Total(f, S))}
  <1>1. T = {}
    <2> SUFFICES ASSUME T # {} PROVE FALSE
      OBVIOUS
    <2>1. T \in SUBSET (SUBSET U)
      OBVIOUS
    <2>2. PICK S \in T : \A t \in T : ~(t \subseteq S /\ t # S)
      <3> HIDE DEF T
      <3> QED
        BY <2>1, LeastSubset
    <2>3. S \in SUBSET R /\ S \in SUBSET U /\ Q \subseteq S /\ ~(Total(f, Q) <= Total(f, S))
      OBVIOUS
    <2>4. Total(f, Q) \in Int /\ Total(f, S) \in Int
      BY <1>0, <2>3, TotalType
    <2>5. PICK x : x \in S \ Q
      BY <2>3, <2>4
    <2>6. Total(f, Q) <= Total(f, S \ {x})
      BY <2>2, <2>3, <2>5
    <2>7. Total(f, S) = f[x] + Total(f, S \ {x}) /\ f[x] \in Nat /\ Total(f, S \ {x}) \in Int
      BY <1>0, <2>3, <2>5, TotalTake, TotalType
    <2> QED
      BY <2>3, <2>4, <2>6, <2>7
  <1> QED
    BY <1>1
=============================================================================

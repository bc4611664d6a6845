----------------------------- MODULE FiniteSums -----------------------------
(***************************************************************************)
(* Induction over the natural numbers, and sums over finite sets as the    *)
(* community modules define them: what the proofs about ledgers and about  *)
(* the length of calls need.                                               *)
(*                                                                         *)
(* The library states induction for an operator P(_).  Here it is stated   *)
(* for a set of numbers, which a first-order prover can instantiate; it    *)
(* follows from the minimal element of a well-founded relation.  On it     *)
(* rests that MapThenSumSet, a fold by a recursive function, satisfies its *)
(* equation on every finite set, and from there that the order in which it *)
(* takes the elements does not matter.                                     *)
(***************************************************************************)
EXTENDS FiniteSets, FiniteSetsExt, FiniteSetTheorems, WellFoundedInduction, TLAPS

\* A set of natural numbers that is not empty has a least one.
LEMMA LeastNumber ==
  ASSUME NEW T \in SUBSET Nat, T # {}
  PROVE  \E n \in T : \A m \in T : ~(m < n)
<1> DEFINE R == OpToRel(<, Nat)
<1>1. IsWellFoundedOn(R, Nat)
  BY NatLessThanWellFounded
<1>2. \E n \in T : \A m \in T : <<m, n>> \notin R
  <2> HIDE DEF R
  <2> QED BY <1>1, WFMin
<1> QED
  BY <1>2 DEF OpToRel

\* What holds of 0, and of n + 1 whenever it holds of n, holds of every number.
LEMMA Induction ==
  ASSUME NEW T \in SUBSET Nat, 0 \in T, \A n \in T : n + 1 \in T
  PROVE  T = Nat
<1> DEFINE C == Nat \ T
<1> SUFFICES ASSUME C # {} PROVE FALSE
  OBVIOUS
<1>1. PICK n \in C : \A m \in C : ~(m < n)
  <2> C \in SUBSET Nat
    OBVIOUS
  <2> HIDE DEF C
  <2> QED BY LeastNumber
<1>2. n # 0 /\ n - 1 \in Nat /\ n - 1 \notin C
  BY <1>1
<1> QED
  BY <1>1, <1>2

\* A set of integers that has a bound and is not empty has a greatest one.
LEMMA GreatestNumber ==
  ASSUME NEW T \in SUBSET Int, NEW b \in Int, T # {}, \A n \in T : n <= b
  PROVE  \E n \in T : \A m \in T : m <= n
<1> DEFINE D == {b - n : n \in T}
<1>1. D \in SUBSET Nat /\ D # {}
  <2>1. \A n \in T : b - n \in Nat
    OBVIOUS
  <2>2. PICK n \in T : TRUE
    OBVIOUS
  <2>3. b - n \in D
    OBVIOUS
  <2> QED
    BY <2>1, <2>3
<1>2. PICK d \in D : \A e \in D : ~(e < d)
  <2> HIDE DEF D
  <2> QED BY <1>1, LeastNumber
<1>3. PICK n \in T : d = b - n
  OBVIOUS
<1>4. ASSUME NEW m \in T PROVE m <= n
  <2>1. ~(b - m < b - n)
    BY <1>2, <1>3
  <2> QED
    BY <2>1
<1> QED
  BY <1>4

-----------------------------------------------------------------------------
\* the sum of f over S, as MapThenSumSet computes it
Total(f, S) == MapThenSumSet(LAMBDA x : f[x], S)

\* the element it takes first
Pick(s) == CHOOSE x \in s : TRUE

\* g is the function of the fold's definition, on the sets of D
IsTotal(g, f, S, D) ==
  g = [s \in D |-> IF s = {} THEN 0 ELSE f[Pick(s)] + g[s \ {Pick(s)}]]

\* What the definition says: some such function on the subsets of S, applied to S.
LEMMA TotalIsChosen ==
  ASSUME NEW f, NEW S
  PROVE  Total(f, S) = (CHOOSE g : IsTotal(g, f, S, SUBSET S))[S]
BY DEF Total, MapThenSumSet, MapThenFoldSet, IsTotal, Pick

\* A set that is not empty has an element to take.
LEMMA PickIsMember == \A s : s # {} => Pick(s) \in s
BY DEF Pick

\* the subsets with at most n elements
Small(S, n) == {s \in SUBSET S : Cardinality(s) <= n}

\* Subsets of a finite set are finite, and an element less is one less.
LEMMA SmallerSets ==
  ASSUME NEW S, IsFiniteSet(S), NEW s \in SUBSET S
  PROVE  /\ IsFiniteSet(s) /\ Cardinality(s) \in Nat
         /\ Cardinality(s) = 0 <=> s = {}
         /\ \A x \in s : /\ s \ {x} \in SUBSET S
                         /\ Cardinality(s \ {x}) = Cardinality(s) - 1
<1>1. IsFiniteSet(s)
  BY FS_Subset
<1>2. Cardinality(s) \in Nat
  BY <1>1, FS_CardinalityType
<1>3. Cardinality(s) = 0 <=> s = {}
  BY <1>1, FS_EmptySet
<1>4. \A x \in s : Cardinality(s \ {x}) = Cardinality(s) - 1
  BY <1>1, FS_RemoveElement
<1> QED
  BY <1>1, <1>2, <1>3, <1>4

\* There is such a function on the subsets of a finite set: by induction on their size.
LEMMA TotalExists ==
  ASSUME NEW f, NEW S, IsFiniteSet(S)
  PROVE  \E g : IsTotal(g, f, S, SUBSET S)
<1> DEFINE T == {n \in Nat : \E g : IsTotal(g, f, S, Small(S, n))}
<1>1. 0 \in T
  <2> DEFINE g == [s \in Small(S, 0) |-> 0]
  <2>1. \A s \in Small(S, 0) : s = {}
    BY SmallerSets DEF Small
  <2>2. IsTotal(g, f, S, Small(S, 0))
    BY <2>1 DEF IsTotal
  <2> QED
    BY <2>2
<1>2. ASSUME NEW n \in T PROVE n + 1 \in T
  <2>1. PICK g : IsTotal(g, f, S, Small(S, n))
    OBVIOUS
  <2> DEFINE h == [s \in Small(S, n + 1) |->
                     IF s = {} THEN 0 ELSE f[Pick(s)] + g[s \ {Pick(s)}]]
  <2>2. ASSUME NEW s \in Small(S, n + 1), s # {}
        PROVE  s \ {Pick(s)} \in Small(S, n) /\ s \ {Pick(s)} \in Small(S, n + 1)
    BY <2>2, SmallerSets, PickIsMember DEF Small
  <2>3. \A s \in Small(S, n) : s \in Small(S, n + 1) /\ h[s] = g[s]
    <3> SUFFICES ASSUME NEW s \in Small(S, n) PROVE s \in Small(S, n + 1) /\ h[s] = g[s]
      OBVIOUS
    <3>1. s \in Small(S, n + 1)
      BY SmallerSets DEF Small
    <3>2. g[s] = IF s = {} THEN 0 ELSE f[Pick(s)] + g[s \ {Pick(s)}]
      BY <2>1 DEF IsTotal
    <3> QED
      BY <3>1, <3>2
  <2>4. \A s \in Small(S, n + 1) :
          h[s] = IF s = {} THEN 0 ELSE f[Pick(s)] + h[s \ {Pick(s)}]
    BY <2>2, <2>3
  <2>5. IsTotal(h, f, S, Small(S, n + 1))
    <3> h = [s \in Small(S, n + 1) |-> h[s]]
      OBVIOUS
    <3> HIDE DEF h
    <3> QED BY <2>4 DEF IsTotal
  <2> QED
    BY <2>5
<1>3. Cardinality(S) \in T
  <2>1. T = Nat
    <3> T \in SUBSET Nat
      OBVIOUS
    <3> HIDE DEF T
    <3> QED BY <1>1, <1>2, Induction
  <2> QED
    BY <2>1, FS_CardinalityType
<1>4. Small(S, Cardinality(S)) = SUBSET S
  BY FS_Subset DEF Small
<1> QED
  BY <1>3, <1>4

\* Two such functions agree where both are defined.
LEMMA TotalUnique ==
  ASSUME NEW f, NEW S, IsFiniteSet(S), NEW U \in SUBSET S
  PROVE  \A g, h : IsTotal(g, f, S, SUBSET S) /\ IsTotal(h, f, U, SUBSET U) => g[U] = h[U]
<1> SUFFICES ASSUME NEW g, NEW h, IsTotal(g, f, S, SUBSET S), IsTotal(h, f, U, SUBSET U)
             PROVE  g[U] = h[U]
  OBVIOUS
<1> DEFINE T == {n \in Nat : \A s \in SUBSET U : Cardinality(s) = n => g[s] = h[s]}
<1>1. \A s \in SUBSET U :
        /\ g[s] = IF s = {} THEN 0 ELSE f[Pick(s)] + g[s \ {Pick(s)}]
        /\ h[s] = IF s = {} THEN 0 ELSE f[Pick(s)] + h[s \ {Pick(s)}]
  BY DEF IsTotal
<1>2. 0 \in T
  BY <1>1, SmallerSets
<1>3. ASSUME NEW n \in T PROVE n + 1 \in T
  <2> SUFFICES ASSUME NEW s \in SUBSET U, Cardinality(s) = n + 1
               PROVE  g[s] = h[s]
    OBVIOUS
  <2>1. s # {} /\ s \ {Pick(s)} \in SUBSET U /\ Cardinality(s \ {Pick(s)}) = n
    BY SmallerSets, PickIsMember
  <2> QED
    BY <1>1, <2>1
<1>4. T = Nat
  <2> T \in SUBSET Nat
    OBVIOUS
  <2> HIDE DEF T
  <2> QED BY <1>2, <1>3, Induction
<1> QED
  BY <1>4, SmallerSets

\* the function that the definition chooses
ChosenTotal(f, S) == CHOOSE g : IsTotal(g, f, S, SUBSET S)

\* It is one.
LEMMA ChosenIsTotal ==
  ASSUME NEW f, NEW S, IsFiniteSet(S)
  PROVE  IsTotal(ChosenTotal(f, S), f, S, SUBSET S)
BY TotalExists DEF ChosenTotal

\* On a subset it yields the sum over that subset.
LEMMA TotalRestricts ==
  ASSUME NEW f, NEW S, IsFiniteSet(S), NEW U \in SUBSET S
  PROVE  ChosenTotal(f, S)[U] = Total(f, U)
<1>1. IsFiniteSet(U)
  BY FS_Subset
<1>2. IsTotal(ChosenTotal(f, S), f, S, SUBSET S) /\ IsTotal(ChosenTotal(f, U), f, U, SUBSET U)
  BY <1>1, ChosenIsTotal
<1>3. ChosenTotal(f, S)[U] = ChosenTotal(f, U)[U]
  BY <1>2, TotalUnique
<1>4. Total(f, U) = ChosenTotal(f, U)[U]
  BY TotalIsChosen DEF ChosenTotal
<1> QED
  BY <1>3, <1>4

\* The equation of the fold: the element taken first, and the sum of the rest.
LEMMA TotalUnfolds ==
  ASSUME NEW f, NEW S, IsFiniteSet(S)
  PROVE  Total(f, S) = IF S = {} THEN 0 ELSE f[Pick(S)] + Total(f, S \ {Pick(S)})
<1>1. \A g : IsTotal(g, f, S, SUBSET S)
               => g[S] = IF S = {} THEN 0 ELSE f[Pick(S)] + g[S \ {Pick(S)}]
  BY DEF IsTotal
<1>2. ChosenTotal(f, S)[S] = Total(f, S)
  BY TotalRestricts
<1>3. ChosenTotal(f, S)[S \ {Pick(S)}] = Total(f, S \ {Pick(S)})
  BY TotalRestricts
<1> QED
  BY <1>1, <1>2, <1>3, ChosenIsTotal

\* A sum over nothing is zero.
LEMMA TotalOfNone == \A f : Total(f, {}) = 0
BY TotalUnfolds, FS_EmptySet

\* A sum of natural numbers is one.
LEMMA TotalIsNatural ==
  ASSUME NEW S, IsFiniteSet(S), NEW f, \A x \in S : f[x] \in Nat
  PROVE  Total(f, S) \in Nat
<1> DEFINE T == {n \in Nat : \A s \in SUBSET S : Cardinality(s) = n => Total(f, s) \in Nat}
<1>1. 0 \in T
  BY SmallerSets, TotalOfNone
<1>2. ASSUME NEW n \in T PROVE n + 1 \in T
  <2> SUFFICES ASSUME NEW s \in SUBSET S, Cardinality(s) = n + 1
               PROVE  Total(f, s) \in Nat
    OBVIOUS
  <2>1. /\ IsFiniteSet(s) /\ s # {} /\ Pick(s) \in s
        /\ s \ {Pick(s)} \in SUBSET S /\ Cardinality(s \ {Pick(s)}) = n
    BY SmallerSets, PickIsMember
  <2> QED
    BY <2>1, TotalUnfolds
<1>3. T = Nat
  <2> T \in SUBSET Nat
    OBVIOUS
  <2> HIDE DEF T
  <2> QED BY <1>1, <1>2, Induction
<1> QED
  BY <1>3, SmallerSets

\* Sums of equal terms are equal.
LEMMA TotalAgrees ==
  ASSUME NEW S, IsFiniteSet(S), NEW f, NEW g, \A x \in S : f[x] = g[x]
  PROVE  Total(f, S) = Total(g, S)
<1> DEFINE T == {n \in Nat : \A s \in SUBSET S : Cardinality(s) = n => Total(f, s) = Total(g, s)}
<1>1. 0 \in T
  BY SmallerSets, TotalOfNone
<1>2. ASSUME NEW n \in T PROVE n + 1 \in T
  <2> SUFFICES ASSUME NEW s \in SUBSET S, Cardinality(s) = n + 1
               PROVE  Total(f, s) = Total(g, s)
    OBVIOUS
  <2>1. /\ IsFiniteSet(s) /\ s # {} /\ Pick(s) \in s
        /\ s \ {Pick(s)} \in SUBSET S /\ Cardinality(s \ {Pick(s)}) = n
    BY SmallerSets, PickIsMember
  <2> QED
    BY <2>1, TotalUnfolds
<1>3. T = Nat
  <2> T \in SUBSET Nat
    OBVIOUS
  <2> HIDE DEF T
  <2> QED BY <1>1, <1>2, Induction
<1> QED
  BY <1>3, SmallerSets

\* Any element can be taken first.
LEMMA TotalTakesOut ==
  ASSUME NEW S, IsFiniteSet(S), NEW f, \A x \in S : f[x] \in Nat, NEW y \in S
  PROVE  Total(f, S) = f[y] + Total(f, S \ {y})
<1> DEFINE T == {n \in Nat : \A s \in SUBSET S : Cardinality(s) = n
                    => \A x \in s : Total(f, s) = f[x] + Total(f, s \ {x})}
<1>1. 0 \in T
  BY SmallerSets
<1>2. ASSUME NEW n \in T PROVE n + 1 \in T
  <2> SUFFICES ASSUME NEW s \in SUBSET S, Cardinality(s) = n + 1, NEW x \in s
               PROVE  Total(f, s) = f[x] + Total(f, s \ {x})
    OBVIOUS
  <2> DEFINE p == Pick(s)
  <2>1. IsFiniteSet(s) /\ p \in s /\ Total(f, s) = f[p] + Total(f, s \ {p})
    BY SmallerSets, PickIsMember, TotalUnfolds
  <2>2. CASE x = p
    BY <2>1, <2>2
  <2>3. CASE x # p
    <3>1. /\ s \ {p} \in SUBSET S /\ Cardinality(s \ {p}) = n
          /\ s \ {x} \in SUBSET S /\ Cardinality(s \ {x}) = n
      BY <2>1, SmallerSets
    <3>2. Total(f, s \ {p}) = f[x] + Total(f, (s \ {p}) \ {x})
      BY <2>3, <3>1
    <3>3. Total(f, s \ {x}) = f[p] + Total(f, (s \ {x}) \ {p})
      BY <2>1, <2>3, <3>1
    <3>4. (s \ {p}) \ {x} = (s \ {x}) \ {p}
      OBVIOUS
    <3>5. Total(f, (s \ {p}) \ {x}) \in Nat
      <4>1. IsFiniteSet((s \ {p}) \ {x})
        BY <2>1, FS_Subset
      <4> QED
        BY <4>1, TotalIsNatural
    <3>6. f[x] \in Nat /\ f[p] \in Nat
      BY <2>1
    <3> HIDE DEF p
    <3> QED
      BY <2>1, <3>2, <3>3, <3>4, <3>5, <3>6
  <2> QED
    BY <2>2, <2>3
<1>3. T = Nat
  <2> T \in SUBSET Nat
    OBVIOUS
  <2> HIDE DEF T
  <2> QED BY <1>1, <1>2, Induction
<1> QED
  BY <1>3, SmallerSets

\* A new element adds its term.
LEMMA TotalOfOneMore ==
  ASSUME NEW S, IsFiniteSet(S), NEW f, \A x \in S : f[x] \in Nat,
         NEW y, y \notin S, f[y] \in Nat
  PROVE  Total(f, S \union {y}) = Total(f, S) + f[y]
<1>1. IsFiniteSet(S \union {y}) /\ (S \union {y}) \ {y} = S
  BY FS_AddElement
<1>2. Total(f, S \union {y}) = f[y] + Total(f, S)
  <2> DEFINE U == S \union {y}
  <2>1. \A x \in U : f[x] \in Nat
    OBVIOUS
  <2>2. IsFiniteSet(U) /\ y \in U /\ U \ {y} = S
    BY <1>1
  <2> HIDE DEF U
  <2>3. Total(f, U) = f[y] + Total(f, U \ {y})
    BY <2>1, <2>2, TotalTakesOut
  <2> QED
    BY <2>2, <2>3 DEF U
<1>3. Total(f, S) \in Nat
  BY TotalIsNatural
<1> QED
  BY <1>2, <1>3

\* One term that is greater by one makes the sum greater by one.
LEMMA TotalRises ==
  ASSUME NEW S, IsFiniteSet(S), NEW f, NEW g, NEW y \in S,
         \A x \in S : f[x] \in Nat /\ g[x] \in Nat,
         g[y] = f[y] + 1, \A x \in S \ {y} : g[x] = f[x]
  PROVE  Total(g, S) = Total(f, S) + 1
<1>1. IsFiniteSet(S \ {y})
  BY FS_Subset
<1>2. Total(f, S \ {y}) = Total(g, S \ {y}) /\ Total(f, S \ {y}) \in Nat
  BY <1>1, TotalAgrees, TotalIsNatural
<1>3. Total(f, S) = f[y] + Total(f, S \ {y})
  BY TotalTakesOut
<1>4. Total(g, S) = g[y] + Total(g, S \ {y})
  BY TotalTakesOut
<1> QED
  BY <1>2, <1>3, <1>4

\* Terms of at most k make a sum of at most k for each element.
LEMMA TotalIsBounded ==
  ASSUME NEW S, IsFiniteSet(S), NEW k \in Nat, NEW f, \A x \in S : f[x] \in 0..k
  PROVE  Total(f, S) <= k * Cardinality(S)
<1> DEFINE T == {n \in Nat : \A s \in SUBSET S : Cardinality(s) = n => Total(f, s) <= k * n}
<1>1. 0 \in T
  <2>1. \A s \in SUBSET S : Cardinality(s) = 0 => Total(f, s) = 0
    BY SmallerSets, TotalOfNone
  <2> QED
    BY <2>1
<1>2. ASSUME NEW n \in T PROVE n + 1 \in T
  <2> SUFFICES ASSUME NEW s \in SUBSET S, Cardinality(s) = n + 1
               PROVE  Total(f, s) <= k * (n + 1)
    OBVIOUS
  <2> DEFINE rest == s \ {Pick(s)}
  <2>1. /\ IsFiniteSet(s) /\ s # {} /\ Pick(s) \in s
        /\ rest \in SUBSET S /\ Cardinality(rest) = n /\ IsFiniteSet(rest)
    BY SmallerSets, PickIsMember
  <2>2. Total(f, s) = f[Pick(s)] + Total(f, rest)
    BY <2>1, TotalUnfolds
  <2>3. Total(f, rest) <= k * n
    BY <2>1
  <2>4. Total(f, rest) \in Nat
    BY <2>1, TotalIsNatural
  <2>5. f[Pick(s)] \in 0..k
    BY <2>1
  <2>6. k * (n + 1) = k * n + k /\ k * n \in Nat
    OBVIOUS
  <2> HIDE DEF rest
  <2> QED
    BY <2>2, <2>3, <2>4, <2>5, <2>6
<1>3. T = Nat
  <2> T \in SUBSET Nat
    OBVIOUS
  <2> HIDE DEF T
  <2> QED BY <1>1, <1>2, Induction
<1>4. Cardinality(S) \in T
  BY <1>3, SmallerSets
<1> QED
  BY <1>4
=============================================================================

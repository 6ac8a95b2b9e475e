------------------------------ MODULE SumProofs ------------------------------
(***************************************************************************)
(* Sums over finite sets: MapThenSumSet of the community modules does not  *)
(* depend on the order in which it takes the elements.  The line totals of *)
(* the session budget are such sums.  The inductions are arguments about   *)
(* a least number, and a set with fewest elements, that would be wrong.    *)
(***************************************************************************)
EXTENDS Naturals, FiniteSetsExt, FiniteSetTheorems, NaturalsInduction,
        WellFoundedInduction, TLAPS

\* The element that MapThenSumSet takes out of a set first.
Pick(s) == CHOOSE x \in s : TRUE

\* One step of the recursion that defines MapThenSumSet, for the weights w.
SumStep(g, w, s) == IF s = {} THEN 0 ELSE w[Pick(s)] + g[s \ {Pick(s)}]

\* g solves that recursion on the subsets of S.
Sums(S, w, g) == g = [s \in SUBSET S |-> SumStep(g, w, s)]

Sum(w, S) == MapThenSumSet(LAMBDA x : w[x], S)

-----------------------------------------------------------------------------
\* Least elements.

Less == {ss \in Nat \X Nat : ss[1] < ss[2]}

LEMMA LessWellFounded == IsWellFoundedOn(Less, Nat)
BY NatLessThanWellFounded, Zenon DEF OpToRel, Less

\* A set of natural numbers that is not empty has a least element.
LEMMA LeastNumber ==
  ASSUME NEW S \in SUBSET Nat, S # {}
  PROVE  \E n \in S : \A m \in S : ~(m < n)
<1>1. PICK x \in S : \A y \in S : <<y, x>> \notin Less
  BY WFMin, LessWellFounded
<1>2. ASSUME NEW m \in S, m < x PROVE <<m, x>> \in Less
  <2>1. m \in Nat /\ x \in Nat
    OBVIOUS
  <2> QED BY <1>2, <2>1 DEF Less
<1> QED BY <1>1, <1>2

\* Among some subsets of a finite set one has fewest elements.
LEMMA SmallestSubset ==
  ASSUME NEW S, IsFiniteSet(S), NEW Some \in SUBSET (SUBSET S), Some # {}
  PROVE  \E s \in Some : \A r \in Some : ~(Cardinality(r) < Cardinality(s))
<1> DEFINE Sizes == {Cardinality(s) : s \in Some}
<1>1. Sizes \in SUBSET Nat
  BY FS_Subset, FS_CardinalityType
<1>2. PICK n \in Sizes : \A m \in Sizes : ~(m < n)
  <2> Sizes # {}
    OBVIOUS
  <2> HIDE DEF Sizes
  <2> QED BY <1>1, LeastNumber
<1> QED BY <1>2

\* Taking an element out leaves a smaller subset.
LEMMA PickedSmaller ==
  ASSUME NEW S, IsFiniteSet(S), NEW s \in SUBSET S, s # {}
  PROVE  /\ Pick(s) \in s /\ s \ {Pick(s)} \in SUBSET S
         /\ Cardinality(s) \in Nat \ {0}
         /\ Cardinality(s \ {Pick(s)}) = Cardinality(s) - 1
<1>1. IsFiniteSet(s)
  BY FS_Subset
<1>2. Pick(s) \in s
  BY DEF Pick
<1>3. Cardinality(s) \in Nat
  BY <1>1, FS_CardinalityType
<1>4. Cardinality(s) # 0
  BY <1>1, FS_EmptySet
<1> QED BY <1>1, <1>2, <1>3, <1>4, FS_RemoveElement

-----------------------------------------------------------------------------
\* The recursion has a solution, which is unique: first on the subsets with at
\* most n elements, then on all of them.

Small(S, n) == {s \in SUBSET S : Cardinality(s) \in Nat /\ Cardinality(s) <= n}
PartialSums(S, w, n, g) == g = [s \in Small(S, n) |-> SumStep(g, w, s)]

LEMMA FirstStage ==
  ASSUME NEW S, IsFiniteSet(S), NEW w
  PROVE  \E g : PartialSums(S, w, 0, g)
<1> DEFINE g == [s \in Small(S, 0) |-> 0]
<1>1. \A s \in Small(S, 0) : s = {}
  <2> SUFFICES ASSUME NEW s \in Small(S, 0), s # {} PROVE FALSE
    OBVIOUS
  <2>1. Cardinality(s) = 0
    BY DEF Small
  <2> QED BY <2>1, PickedSmaller DEF Small
<1>2. \A s \in Small(S, 0) : SumStep(g, w, s) = 0
  BY <1>1 DEF SumStep
<1> QED BY <1>2 DEF PartialSums

LEMMA NextStage ==
  ASSUME NEW S, IsFiniteSet(S), NEW w, NEW n \in Nat, NEW g, PartialSums(S, w, n, g)
  PROVE  \E h : PartialSums(S, w, n + 1, h)
<1> DEFINE h == [s \in Small(S, n + 1) |-> SumStep(g, w, s)]
<1>1. Small(S, n) \subseteq Small(S, n + 1)
  BY DEF Small
<1>2. \A s \in Small(S, n) : h[s] = g[s]
  BY <1>1 DEF PartialSums
<1>3. \A s \in Small(S, n + 1) : s # {} => s \ {Pick(s)} \in Small(S, n)
  <2> SUFFICES ASSUME NEW s \in Small(S, n + 1), s # {} PROVE s \ {Pick(s)} \in Small(S, n)
    OBVIOUS
  <2>1. s \in SUBSET S /\ Cardinality(s) <= n + 1
    BY DEF Small
  <2>2. /\ s \ {Pick(s)} \in SUBSET S
        /\ Cardinality(s) \in Nat \ {0}
        /\ Cardinality(s \ {Pick(s)}) = Cardinality(s) - 1
    BY <2>1, PickedSmaller
  <2>3. Cardinality(s \ {Pick(s)}) \in Nat /\ Cardinality(s \ {Pick(s)}) <= n
    BY <2>1, <2>2
  <2> QED BY <2>2, <2>3 DEF Small
<1>4. \A s \in Small(S, n + 1) : SumStep(h, w, s) = SumStep(g, w, s)
  <2> HIDE DEF h
  <2> QED BY <1>2, <1>3 DEF SumStep
<1>5. h = [s \in Small(S, n + 1) |-> SumStep(h, w, s)]
  BY <1>4
<1> QED BY <1>5 DEF PartialSums

LEMMA EveryStage ==
  ASSUME NEW S, IsFiniteSet(S), NEW w, NEW n \in Nat
  PROVE  \E g : PartialSums(S, w, n, g)
<1> DEFINE Bad == {m \in Nat : ~ \E g : PartialSums(S, w, m, g)}
<1> SUFFICES ASSUME Bad # {} PROVE FALSE
  OBVIOUS
<1>1. PICK m \in Bad : \A k \in Bad : ~(k < m)
  <2> Bad \in SUBSET Nat
    OBVIOUS
  <2> HIDE DEF Bad
  <2> QED BY LeastNumber
<1>2. m # 0
  BY FirstStage
<1>3. m - 1 \in Nat /\ m - 1 < m /\ (m - 1) + 1 = m
  BY <1>2
<1>4. \E g : PartialSums(S, w, m - 1, g)
  BY <1>1, <1>3
<1>5. \E g : PartialSums(S, w, m, g)
  BY <1>3, <1>4, NextStage
<1> QED BY <1>5

LEMMA SumsExist ==
  ASSUME NEW S, IsFiniteSet(S), NEW w
  PROVE  \E g : Sums(S, w, g)
<1>1. Cardinality(S) \in Nat
  BY FS_CardinalityType
<1>2. Small(S, Cardinality(S)) = SUBSET S
  BY <1>1, FS_Subset, FS_CardinalityType DEF Small
<1>3. PICK g : PartialSums(S, w, Cardinality(S), g)
  BY <1>1, EveryStage
<1>4. Sums(S, w, g)
  BY <1>2, <1>3, Zenon DEF PartialSums, Sums
<1> QED BY <1>4

\* Solutions for the same weights agree, also on a subset.
LEMMA SumsAgree ==
  ASSUME NEW S, IsFiniteSet(S), NEW T \in SUBSET S, NEW w, NEW v,
         \A x \in T : w[x] = v[x],
         NEW g, Sums(S, w, g), NEW h, Sums(T, v, h)
  PROVE  \A s \in SUBSET T : g[s] = h[s]
<1> DEFINE Bad == {s \in SUBSET T : g[s] # h[s]}
<1> SUFFICES ASSUME Bad # {} PROVE FALSE
  OBVIOUS
<1>1. PICK s \in Bad : \A r \in Bad : ~(Cardinality(r) < Cardinality(s))
  <2> Bad \in SUBSET (SUBSET S)
    OBVIOUS
  <2> HIDE DEF Bad
  <2> QED BY SmallestSubset
<1>2. g[s] = SumStep(g, w, s) /\ h[s] = SumStep(h, v, s)
  BY DEF Sums
<1>3. s # {}
  BY <1>2 DEF SumStep
<1>4. /\ Pick(s) \in s /\ s \ {Pick(s)} \in SUBSET S
      /\ Cardinality(s) \in Nat \ {0}
      /\ Cardinality(s \ {Pick(s)}) = Cardinality(s) - 1
  BY <1>3, PickedSmaller
<1>5. Cardinality(s \ {Pick(s)}) < Cardinality(s)
  BY <1>4
<1>6. g[s \ {Pick(s)}] = h[s \ {Pick(s)}]
  BY <1>1, <1>5
<1>7. w[Pick(s)] = v[Pick(s)]
  BY <1>4
<1> QED BY <1>2, <1>3, <1>6, <1>7 DEF SumStep

\* The values of a solution are natural numbers if the weights are.
LEMMA SumsInNat ==
  ASSUME NEW S, IsFiniteSet(S), NEW w, \A x \in S : w[x] \in Nat, NEW g, Sums(S, w, g)
  PROVE  \A s \in SUBSET S : g[s] \in Nat
<1> DEFINE Bad == {s \in SUBSET S : g[s] \notin Nat}
<1> SUFFICES ASSUME Bad # {} PROVE FALSE
  OBVIOUS
<1>1. PICK s \in Bad : \A r \in Bad : ~(Cardinality(r) < Cardinality(s))
  <2> Bad \in SUBSET (SUBSET S)
    OBVIOUS
  <2> HIDE DEF Bad
  <2> QED BY SmallestSubset
<1>2. g[s] = SumStep(g, w, s)
  BY DEF Sums
<1>3. s # {}
  BY <1>2 DEF SumStep
<1>4. /\ Pick(s) \in s /\ s \ {Pick(s)} \in SUBSET S
      /\ Cardinality(s) \in Nat \ {0}
      /\ Cardinality(s \ {Pick(s)}) = Cardinality(s) - 1
  BY <1>3, PickedSmaller
<1>5. Cardinality(s \ {Pick(s)}) < Cardinality(s)
  BY <1>4
<1>6. g[s \ {Pick(s)}] \in Nat
  BY <1>1, <1>4, <1>5
<1>7. w[Pick(s)] \in Nat
  BY <1>4
<1>8. g[s] = w[Pick(s)] + g[s \ {Pick(s)}]
  BY <1>2, <1>3 DEF SumStep
<1>9. g[s] \in Nat
  BY <1>6, <1>7, <1>8
<1> QED BY <1>9

LEMMA AddInAnyOrder == \A a, b, c \in Nat : a + (b + c) = b + (a + c)
OBVIOUS

\* Any element may be taken out first, not only the one that Pick takes.
LEMMA SumsInAnyOrder ==
  ASSUME NEW S, IsFiniteSet(S), NEW w, \A x \in S : w[x] \in Nat, NEW g, Sums(S, w, g)
  PROVE  \A s \in SUBSET S : \A x \in s : g[s] = w[x] + g[s \ {x}]
<1> DEFINE Bad == {s \in SUBSET S : ~ \A x \in s : g[s] = w[x] + g[s \ {x}]}
<1> SUFFICES ASSUME Bad # {} PROVE FALSE
  OBVIOUS
<1>1. PICK s \in Bad : \A r \in Bad : ~(Cardinality(r) < Cardinality(s))
  <2> Bad \in SUBSET (SUBSET S)
    OBVIOUS
  <2> HIDE DEF Bad
  <2> QED BY SmallestSubset
<1>2. PICK x \in s : g[s] # w[x] + g[s \ {x}]
  OBVIOUS
<1> DEFINE p == Pick(s)
<1>3. /\ p \in s /\ s \ {p} \in SUBSET S
      /\ Cardinality(s) \in Nat \ {0}
      /\ Cardinality(s \ {p}) = Cardinality(s) - 1
  BY PickedSmaller
<1>4. g[s] = w[p] + g[s \ {p}]
  BY <1>3 DEF Sums, SumStep
<1> HIDE DEF p
<1>5. x # p
  BY <1>2, <1>4
<1>6. Cardinality(s \ {x}) = Cardinality(s) - 1
  BY FS_Subset, FS_RemoveElement
<1>7. s \ {p} \notin Bad /\ s \ {x} \notin Bad
  BY <1>1, <1>3, <1>6
<1> DEFINE rest == g[(s \ {x}) \ {p}]
<1>8. (s \ {p}) \ {x} = (s \ {x}) \ {p}
  OBVIOUS
<1>9. g[s \ {p}] = w[x] + rest
  BY <1>3, <1>5, <1>7, <1>8
<1>10. g[s \ {x}] = w[p] + rest
  BY <1>3, <1>5, <1>7
<1>11. w[x] \in Nat /\ w[p] \in Nat /\ rest \in Nat
  BY <1>3, SumsInNat
<1> HIDE DEF rest
<1>12. w[p] + (w[x] + rest) = w[x] + (w[p] + rest)
  BY <1>11, AddInAnyOrder
<1> QED BY <1>2, <1>4, <1>9, <1>10, <1>12

-----------------------------------------------------------------------------
\* What a module that uses MapThenSumSet needs to know of it.

\* Sum is the last value of the recursion's solution ...
LEMMA SumSolves ==
  ASSUME NEW S, IsFiniteSet(S), NEW w
  PROVE  \E g : Sums(S, w, g) /\ Sum(w, S) = g[S]
<1> DEFINE g == CHOOSE h : Sums(S, w, h)
<1>1. Sums(S, w, g)
  BY SumsExist
<1>2. Sum(w, S) = g[S]
  BY DEF Sum, MapThenSumSet, MapThenFoldSet, Sums, SumStep, Pick
<1> QED BY <1>1, <1>2

\* ... and so is whatever satisfies that recursion for the same weights.
LEMMA SumIsUnique ==
  ASSUME NEW S, IsFiniteSet(S), NEW w, NEW v, \A x \in S : w[x] = v[x],
         NEW h, Sums(S, v, h)
  PROVE  h[S] = Sum(w, S)
<1>1. PICK g : Sums(S, w, g) /\ Sum(w, S) = g[S]
  BY SumSolves
<1>2. \A s \in SUBSET S : g[s] = h[s]
  BY <1>1, SumsAgree
<1> QED BY <1>1, <1>2

LEMMA SumOnSubset ==
  ASSUME NEW S, IsFiniteSet(S), NEW T \in SUBSET S, NEW w, NEW g, Sums(S, w, g)
  PROVE  Sum(w, T) = g[T]
<1>1. IsFiniteSet(T)
  BY FS_Subset
<1>2. PICK h : Sums(T, w, h) /\ Sum(w, T) = h[T]
  BY <1>1, SumSolves
<1>3. \A s \in SUBSET T : g[s] = h[s]
  BY <1>2, SumsAgree
<1> QED BY <1>2, <1>3

\* A sum depends on the weights of its elements only.
LEMMA SumSame ==
  ASSUME NEW S, IsFiniteSet(S), NEW w, NEW v, \A x \in S : w[x] = v[x]
  PROVE  Sum(w, S) = Sum(v, S)
<1>1. PICK h : Sums(S, v, h) /\ Sum(v, S) = h[S]
  BY SumSolves
<1> QED BY <1>1, SumIsUnique

LEMMA SumEmpty == ASSUME NEW w PROVE Sum(w, {}) = 0
<1>1. IsFiniteSet({})
  BY FS_EmptySet
<1>2. PICK g : Sums({}, w, g) /\ Sum(w, {}) = g[{}]
  BY <1>1, SumSolves
<1>3. g[{}] = 0
  BY <1>2 DEF Sums, SumStep
<1> QED BY <1>2, <1>3

LEMMA SumNat ==
  ASSUME NEW S, IsFiniteSet(S), NEW w, \A x \in S : w[x] \in Nat
  PROVE  Sum(w, S) \in Nat
<1>1. PICK g : Sums(S, w, g) /\ Sum(w, S) = g[S]
  BY SumSolves
<1> QED BY <1>1, SumsInNat

\* Taking any element out of a sum ...
LEMMA SumRemove ==
  ASSUME NEW S, IsFiniteSet(S), NEW w, \A x \in S : w[x] \in Nat, NEW x \in S
  PROVE  Sum(w, S) = w[x] + Sum(w, S \ {x})
<1>1. PICK g : Sums(S, w, g) /\ Sum(w, S) = g[S]
  BY SumSolves
<1>2. g[S] = w[x] + g[S \ {x}]
  BY <1>1, SumsInAnyOrder
<1>3. Sum(w, S \ {x}) = g[S \ {x}]
  BY <1>1, SumOnSubset
<1> QED BY <1>1, <1>2, <1>3

\* ... and putting one in.
LEMMA SumAdd ==
  ASSUME NEW S, IsFiniteSet(S), NEW w, NEW x, x \notin S,
         \A y \in S \cup {x} : w[y] \in Nat
  PROVE  Sum(w, S \cup {x}) = w[x] + Sum(w, S)
<1>1. IsFiniteSet(S \cup {x})
  BY FS_AddElement
<1>2. (S \cup {x}) \ {x} = S
  OBVIOUS
<1> QED BY <1>1, <1>2, SumRemove

\* A part sums to no more than the whole.
LEMMA SumMonotone ==
  ASSUME NEW S, IsFiniteSet(S), NEW T \in SUBSET S, NEW w, \A x \in S : w[x] \in Nat
  PROVE  Sum(w, T) <= Sum(w, S)
<1> DEFINE Bad == {s \in SUBSET S : T \subseteq s /\ ~(Sum(w, T) <= Sum(w, s))}
<1> SUFFICES ASSUME Bad # {} PROVE FALSE
  OBVIOUS
<1>1. PICK s \in Bad : \A r \in Bad : ~(Cardinality(r) < Cardinality(s))
  <2> Bad \in SUBSET (SUBSET S)
    OBVIOUS
  <2> HIDE DEF Bad
  <2> QED BY SmallestSubset
<1>2. IsFiniteSet(s) /\ IsFiniteSet(T)
  BY FS_Subset
<1>3. Sum(w, s) \in Nat /\ Sum(w, T) \in Nat
  BY <1>2, SumNat
<1>4. PICK x \in s : x \notin T
  BY <1>3
<1>5. IsFiniteSet(s \ {x}) /\ Cardinality(s) \in Nat \ {0}
      /\ Cardinality(s \ {x}) = Cardinality(s) - 1
  BY <1>2, FS_RemoveElement, PickedSmaller
<1>6. s \ {x} \notin Bad
  BY <1>1, <1>5
<1>7. Sum(w, T) <= Sum(w, s \ {x})
  BY <1>4, <1>6
<1>8. Sum(w, s) = w[x] + Sum(w, s \ {x})
  BY <1>2, SumRemove
<1>9. Sum(w, s \ {x}) \in Nat /\ w[x] \in Nat
  BY <1>5, SumNat
<1>10. Sum(w, T) <= Sum(w, s)
  BY <1>3, <1>7, <1>8, <1>9
<1> QED BY <1>10

\* Weights that are zero add nothing ...
LEMMA SumOfZeros ==
  ASSUME NEW S, IsFiniteSet(S), NEW w, \A x \in S : w[x] = 0
  PROVE  Sum(w, S) = 0
<1> DEFINE Bad == {s \in SUBSET S : Sum(w, s) # 0}
<1> SUFFICES ASSUME Bad # {} PROVE FALSE
  OBVIOUS
<1>1. PICK s \in Bad : \A r \in Bad : ~(Cardinality(r) < Cardinality(s))
  <2> Bad \in SUBSET (SUBSET S)
    OBVIOUS
  <2> HIDE DEF Bad
  <2> QED BY SmallestSubset
<1>2. IsFiniteSet(s) /\ \A x \in s : w[x] = 0
  BY FS_Subset
<1>3. s # {}
  BY SumEmpty
<1>4. PICK x \in s : TRUE
  BY <1>3
<1>5. Cardinality(s) \in Nat \ {0} /\ Cardinality(s \ {x}) = Cardinality(s) - 1
  BY <1>2, <1>3, PickedSmaller, FS_RemoveElement
<1>6. Sum(w, s \ {x}) = 0
  BY <1>1, <1>5
<1>7. Sum(w, s) = w[x] + Sum(w, s \ {x})
  BY <1>2, SumRemove
<1>8. Sum(w, s) = 0
  BY <1>2, <1>6, <1>7
<1> QED BY <1>8

\* ... and two sets that are disjoint add up.
LEMMA SumOfBoth ==
  ASSUME NEW S, IsFiniteSet(S), NEW w, \A x \in S : w[x] \in Nat,
         NEW A \in SUBSET S, NEW C \in SUBSET S, A \cap C = {}
  PROVE  Sum(w, A \cup C) = Sum(w, A) + Sum(w, C)
<1> DEFINE Bad == {s \in SUBSET C : Sum(w, A \cup s) # Sum(w, A) + Sum(w, s)}
<1> SUFFICES ASSUME Bad # {} PROVE FALSE
  OBVIOUS
<1>0. IsFiniteSet(A) /\ IsFiniteSet(C)
  BY FS_Subset
<1>1. PICK s \in Bad : \A r \in Bad : ~(Cardinality(r) < Cardinality(s))
  <2> Bad \in SUBSET (SUBSET C)
    OBVIOUS
  <2> HIDE DEF Bad
  <2> QED BY <1>0, SmallestSubset
<1>2. IsFiniteSet(s) /\ IsFiniteSet(A \cup s)
  BY <1>0, FS_Subset, FS_Union
<1>3. Sum(w, A) \in Nat
  BY <1>0, SumNat
<1>4. s # {}
  <2> SUFFICES ASSUME s = {} PROVE FALSE
    OBVIOUS
  <2>1. Sum(w, s) = 0 /\ A \cup s = A
    BY SumEmpty
  <2> QED BY <1>1, <1>3, <2>1
<1>5. PICK x \in s : TRUE
  BY <1>4
<1>6. IsFiniteSet(s \ {x}) /\ Cardinality(s) \in Nat \ {0}
      /\ Cardinality(s \ {x}) = Cardinality(s) - 1
  BY <1>2, <1>4, FS_RemoveElement, FS_CardinalityType, FS_EmptySet
<1>7. Sum(w, A \cup (s \ {x})) = Sum(w, A) + Sum(w, s \ {x})
  BY <1>1, <1>6
<1>8. Sum(w, s) = w[x] + Sum(w, s \ {x}) /\ Sum(w, s \ {x}) \in Nat /\ w[x] \in Nat
  BY <1>2, <1>6, SumRemove, SumNat
<1>9. Sum(w, A \cup s) = w[x] + Sum(w, A \cup (s \ {x}))
  <2>1. (A \cup s) \ {x} = A \cup (s \ {x})
    OBVIOUS
  <2>2. \A y \in A \cup s : w[y] \in Nat
    OBVIOUS
  <2>3. Sum(w, A \cup s) = w[x] + Sum(w, (A \cup s) \ {x})
    BY <1>2, <2>2, SumRemove
  <2> QED BY <2>1, <2>3
<1>10. Sum(w, A \cup s) = Sum(w, A) + Sum(w, s)
  BY <1>3, <1>7, <1>8, <1>9
<1> QED BY <1>10

-----------------------------------------------------------------------------
\* The two line totals, of any records that have the fields, are such sums.

LEMMA AddedSum ==
  ASSUME NEW S, IsFiniteSet(S), NEW r, NEW ids \in SUBSET S
  PROVE  MapThenSumSet(LAMBDA i : r[i].added, ids) = Sum([i \in S |-> r[i].added], ids)
<1> DEFINE w == [i \in S |-> r[i].added]
           g == CHOOSE h : h = [s \in SUBSET ids |->
                  IF s = {} THEN 0 ELSE r[Pick(s)].added + h[s \ {Pick(s)}]]
<1>1. IsFiniteSet(ids)
  BY FS_Subset
<1>2. ASSUME NEW s \in SUBSET ids, NEW h
      PROVE  SumStep(h, w, s) = IF s = {} THEN 0 ELSE r[Pick(s)].added + h[s \ {Pick(s)}]
  BY DEF SumStep, Pick
<1>3. PICK h : Sums(ids, w, h)
  BY <1>1, SumsExist
<1>4. h = [s \in SUBSET ids |-> IF s = {} THEN 0 ELSE r[Pick(s)].added + h[s \ {Pick(s)}]]
  BY <1>2, <1>3 DEF Sums
<1>5. g = [s \in SUBSET ids |-> IF s = {} THEN 0 ELSE r[Pick(s)].added + g[s \ {Pick(s)}]]
  BY <1>4
<1>6. Sums(ids, w, g)
  BY <1>2, <1>5 DEF Sums
<1>7. MapThenSumSet(LAMBDA i : r[i].added, ids) = g[ids]
  BY DEF MapThenSumSet, MapThenFoldSet, Pick
<1> QED BY <1>1, <1>6, <1>7, SumIsUnique

LEMMA DeletedSum ==
  ASSUME NEW S, IsFiniteSet(S), NEW r, NEW ids \in SUBSET S
  PROVE  MapThenSumSet(LAMBDA i : r[i].deleted, ids) = Sum([i \in S |-> r[i].deleted], ids)
<1> DEFINE w == [i \in S |-> r[i].deleted]
           g == CHOOSE h : h = [s \in SUBSET ids |->
                  IF s = {} THEN 0 ELSE r[Pick(s)].deleted + h[s \ {Pick(s)}]]
<1>1. IsFiniteSet(ids)
  BY FS_Subset
<1>2. ASSUME NEW s \in SUBSET ids, NEW h
      PROVE  SumStep(h, w, s) = IF s = {} THEN 0 ELSE r[Pick(s)].deleted + h[s \ {Pick(s)}]
  BY DEF SumStep, Pick
<1>3. PICK h : Sums(ids, w, h)
  BY <1>1, SumsExist
<1>4. h = [s \in SUBSET ids |-> IF s = {} THEN 0 ELSE r[Pick(s)].deleted + h[s \ {Pick(s)}]]
  BY <1>2, <1>3 DEF Sums
<1>5. g = [s \in SUBSET ids |-> IF s = {} THEN 0 ELSE r[Pick(s)].deleted + g[s \ {Pick(s)}]]
  BY <1>4
<1>6. Sums(ids, w, g)
  BY <1>2, <1>5 DEF Sums
<1>7. MapThenSumSet(LAMBDA i : r[i].deleted, ids) = g[ids]
  BY DEF MapThenSumSet, MapThenFoldSet, Pick
<1> QED BY <1>1, <1>6, <1>7, SumIsUnique
=============================================================================

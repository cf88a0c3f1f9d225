------------------------------ MODULE FoldTheorems ------------------------------
(***************************************************************************)
(* What folds compute, where no induction over data can be cited.  First the  *)
(* sum of a function over a finite set, whichever order the elements are      *)
(* taken in: SumFunctionOnSet of module Functions.  Then the fold of an        *)
(* operator over a sequence, FoldLeft of module SequencesExt, for which the    *)
(* module is instantiated with the operator and with what is claimed of the   *)
(* accumulator; a module that only sums leaves both open.  Each induction is   *)
(* an argument about a smallest counterexample.                               *)
(***************************************************************************)
EXTENDS Functions, Sequences, FiniteSetTheorems, TLAPS

CONSTANTS
  Op(_, _, _),         \* Op(c, a, x): the accumulator a after element x, in context c
  Claim(_, _, _, _)    \* Claim(c, q, i, a): a is right after the first i elements of q

\* The element a fold takes first.
Pick(T) == CHOOSE x \in T : TRUE

\* g is the recursive function of the fold of f over the subsets of S.
Folding(f, S, g) ==
  g = [T \in SUBSET S |-> IF T = {} THEN 0 ELSE f[Pick(T)] + g[T \ {Pick(T)}]]

\* Among the subsets of a finite set that have a property, one is smallest.
LEMMA SmallestSubset ==
  ASSUME NEW S, IsFiniteSet(S), NEW C, C \subseteq SUBSET S, C # {}
  PROVE  \E T \in C : IsFiniteSet(T) /\ \A U \in C : U \subseteq T => U = T
<1> DEFINE R == StrictSubsetOrdering(S)
<1>1. IsWellFoundedOn(R, FiniteSubsetsOf(S)) /\ FiniteSubsetsOf(S) = SUBSET S
  BY FS_StrictSubsetOrderingWellFounded, FS_FiniteSubsetsOfFinite
<1>2. PICK T \in C : \A U \in C : <<U, T>> \notin R
  <2> HIDE DEF R
  <2> QED BY <1>1, WFMin
<1>3. \A U \in C : U \subseteq T => U = T
  BY <1>2 DEF StrictSubsetOrdering
<1>4. IsFiniteSet(T)
  BY FS_Subset
<1>5. QED
  BY <1>3, <1>4

\* And a set of numbers has a least one.
LEMMA LeastNumber ==
  ASSUME NEW C, C \subseteq Nat, C # {}
  PROVE  \E i \in C : \A j \in C : i <= j
<1>1. PICK n \in C : n \in Nat
  OBVIOUS
<1> DEFINE D == {T \in SUBSET (0..n) : \E i \in C : T = 0..i}
<1>2. D \subseteq SUBSET (0..n) /\ D # {} /\ IsFiniteSet(0..n)
  <2>1. D \subseteq SUBSET (0..n)
    OBVIOUS
  <2>2. 0..n \in D
    BY <1>1
  <2>3. IsFiniteSet(0..n)
    BY <1>1, FS_Interval
  <2>4. QED
    BY <2>1, <2>2, <2>3
<1>3. PICK T \in D : \A U \in D : U \subseteq T => U = T
  <2> DEFINE S == 0..n
  <2>1. IsFiniteSet(S) /\ D \subseteq SUBSET S /\ D # {}
    BY <1>2
  <2> HIDE DEF D, S
  <2>2. \E T \in D : IsFiniteSet(T) /\ \A U \in D : U \subseteq T => U = T
    BY <2>1, SmallestSubset
  <2>3. QED
    BY <2>2
<1>4. PICK i \in C : T = 0..i /\ i \in Nat
  OBVIOUS
<1>5. i <= n
  BY <1>1, <1>3, <1>4
<1>6. ASSUME NEW j \in C, j < i PROVE FALSE
  <2>1. j \in Nat /\ 0..j \subseteq 0..i /\ i \in 0..i /\ i \notin 0..j
    BY <1>4, <1>6
  <2>2. 0..j \in D
    BY <1>1, <1>5, <2>1
  <2>3. QED
    BY <1>3, <1>4, <2>1, <2>2
<1>7. QED
  BY <1>4, <1>6

LEMMA PickIsMember == ASSUME NEW T, T # {} PROVE Pick(T) \in T
  BY DEF Pick

LEMMA FoldingIsUnique ==
  ASSUME NEW f, NEW S, IsFiniteSet(S), NEW g, NEW h, Folding(f, S, g), Folding(f, S, h)
  PROVE  g = h
<1> DEFINE C == {T \in SUBSET S : g[T] # h[T]}
<1>1. SUFFICES ASSUME C # {} PROVE FALSE
  BY DEF Folding
<1>2. PICK T \in C : \A U \in C : U \subseteq T => U = T
  <2>1. C \subseteq SUBSET S
    OBVIOUS
  <2> HIDE DEF C
  <2>2. QED
    BY <1>1, <2>1, SmallestSubset
<1>3. T # {}
  BY DEF Folding
<1>4. Pick(T) \in T /\ T \ {Pick(T)} \in SUBSET S /\ T \ {Pick(T)} # T
  BY <1>3, PickIsMember
<1>5. g[T \ {Pick(T)}] = h[T \ {Pick(T)}]
  BY <1>2, <1>4
<1>6. g[T] = h[T]
  BY <1>3, <1>5 DEF Folding
<1>7. QED
  BY <1>6

LEMMA FoldingRestricts ==
  ASSUME NEW f, NEW S, NEW g, Folding(f, S, g), NEW U \in SUBSET S
  PROVE  Folding(f, U, [T \in SUBSET U |-> g[T]])
<1> DEFINE h == [T \in SUBSET U |-> g[T]]
<1>1. \A T \in SUBSET U : T # {} => g[T \ {Pick(T)}] = h[T \ {Pick(T)}]
  OBVIOUS
<1>2. \A T \in SUBSET U : h[T] = IF T = {} THEN 0 ELSE f[Pick(T)] + h[T \ {Pick(T)}]
  BY <1>1 DEF Folding
<1>3. h = [T \in SUBSET U |-> h[T]]
  OBVIOUS
<1> HIDE DEF h
<1>4. Folding(f, U, h)
  BY <1>2, <1>3 DEF Folding
<1>5. QED
  BY <1>4 DEF h

LEMMA FoldingExists ==
  ASSUME NEW f, NEW S, IsFiniteSet(S)
  PROVE  \E g : Folding(f, S, g)
<1> DEFINE C == {T \in SUBSET S : ~\E g : Folding(f, T, g)}
<1>1. SUFFICES ASSUME C # {} PROVE FALSE
  OBVIOUS
<1>2. PICK M \in C : IsFiniteSet(M) /\ \A U \in C : U \subseteq M => U = M
  <2>1. C \subseteq SUBSET S
    OBVIOUS
  <2> HIDE DEF C
  <2>2. QED
    BY <1>1, <2>1, SmallestSubset
<1>3. \A U \in SUBSET M : U # M => \E g : Folding(f, U, g)
  BY <1>2
<1> DEFINE Fold(U) == CHOOSE g : Folding(f, U, g)
           Less(T) == T \ {Pick(T)}
           h == [T \in SUBSET M |-> IF T = {} THEN 0 ELSE f[Pick(T)] + Fold(Less(T))[Less(T)]]
<1>4. \A U \in SUBSET M : U # M => Folding(f, U, Fold(U))
  BY <1>3
<1>5. \A T \in SUBSET M : T # {} => Less(T) \in SUBSET M /\ Less(T) # M
  BY PickIsMember
<1>6. ASSUME NEW U \in SUBSET M, U # M PROVE h[U] = Fold(U)[U]
  <2>1. CASE U = {}
    <3> HIDE DEF Fold, Less
    <3> QED BY <1>4, <1>6, <2>1 DEF Folding
  <2>2. CASE U # {}
    <3>1. Less(U) \in SUBSET M /\ Less(U) # M /\ Less(U) \subseteq U
      BY <1>5, <2>2
    <3> DEFINE r == [T \in SUBSET Less(U) |-> Fold(U)[T]]
    <3>2. Folding(f, U, Fold(U)) /\ Folding(f, Less(U), Fold(Less(U)))
      BY <1>4, <1>6, <3>1
    <3>3. IsFiniteSet(Less(U))
      BY <1>2, <3>1, FS_Subset
    <3>4. Folding(f, Less(U), r)
      <4> HIDE DEF Fold, Less
      <4> QED BY <3>1, <3>2, FoldingRestricts
    <3>5. r = Fold(Less(U))
      <4> HIDE DEF Fold, Less, r
      <4> QED BY <3>2, <3>3, <3>4, FoldingIsUnique
    <3>6. Fold(U)[Less(U)] = Fold(Less(U))[Less(U)]
      <4>1. r[Less(U)] = Fold(U)[Less(U)]
        OBVIOUS
      <4>2. QED
        BY <3>5, <4>1
    <3>7. Fold(U)[U] = f[Pick(U)] + Fold(U)[Less(U)]
      <4> HIDE DEF Fold
      <4> QED BY <2>2, <3>2 DEF Folding
    <3>8. h[U] = f[Pick(U)] + Fold(Less(U))[Less(U)]
      <4> HIDE DEF Fold, Less
      <4> QED BY <2>2
    <3>9. QED
      BY <3>6, <3>7, <3>8
  <2>3. QED
    BY <2>1, <2>2
<1>7. \A T \in SUBSET M : h[T] = IF T = {} THEN 0 ELSE f[Pick(T)] + h[Less(T)]
  <2> SUFFICES ASSUME NEW T \in SUBSET M, T # {}
               PROVE  h[T] = f[Pick(T)] + h[Less(T)]
    <3>1. h[{}] = 0
      <4> HIDE DEF Fold, Less
      <4> QED OBVIOUS
    <3> HIDE DEF h, Less
    <3>2. QED
      BY <3>1
  <2>1. h[Less(T)] = Fold(Less(T))[Less(T)]
    <3> HIDE DEF h, Fold, Less
    <3> QED BY <1>5, <1>6
  <2>2. h[T] = f[Pick(T)] + Fold(Less(T))[Less(T)]
    <3> HIDE DEF Fold, Less
    <3> QED OBVIOUS
  <2>3. QED
    BY <2>1, <2>2
<1>8. Folding(f, M, h)
  <2>1. h = [T \in SUBSET M |-> h[T]]
    OBVIOUS
  <2> HIDE DEF h
  <2>2. QED
    BY <1>7, <2>1 DEF Folding
<1>9. QED
  BY <1>2, <1>8

\* The two equations of a sum.
LEMMA SumUnfolds ==
  ASSUME NEW f, NEW S, IsFiniteSet(S)
  PROVE  SumFunctionOnSet(f, S) =
           IF S = {} THEN 0 ELSE f[Pick(S)] + SumFunctionOnSet(f, S \ {Pick(S)})
<1> DEFINE It(U) == CHOOSE g : Folding(f, U, g)
<1>1. \A U : SumFunctionOnSet(f, U) = It(U)[U]
  BY DEF SumFunctionOnSet, FoldFunctionOnSet, MapThenFoldSet, Folding, Pick
<1>2. Folding(f, S, It(S))
  BY FoldingExists
<1>3. CASE S = {}
  <2> HIDE DEF It
  <2>1. It(S)[S] = 0
    BY <1>2, <1>3 DEF Folding
  <2>2. QED
    BY <1>1, <1>3, <2>1
<1>4. CASE S # {}
  <2> DEFINE U == S \ {Pick(S)}
             r == [T \in SUBSET U |-> It(S)[T]]
  <2>1. IsFiniteSet(U) /\ U \in SUBSET S
    BY FS_Subset
  <2>2. Folding(f, U, It(U))
    BY <2>1, FoldingExists
  <2>3. Folding(f, U, r)
    <3> HIDE DEF It, U
    <3> QED BY <1>2, <2>1, FoldingRestricts
  <2>4. It(U) = r
    <3> HIDE DEF It, U, r
    <3> QED BY <2>1, <2>2, <2>3, FoldingIsUnique
  <2>5. It(U)[U] = It(S)[U]
    <3>1. r[U] = It(S)[U]
      OBVIOUS
    <3>2. QED
      BY <2>4, <3>1
  <2>6. It(S)[S] = f[Pick(S)] + It(S)[U]
    <3> HIDE DEF It
    <3> QED BY <1>2, <1>4 DEF Folding
  <2>7. QED
    BY <1>1, <1>4, <2>5, <2>6
<1>5. QED
  BY <1>3, <1>4

-------------------------------------------------------------------------------
(* The laws that proofs about sums cite.                                      *)

LEMMA SumOfNothing == ASSUME NEW f PROVE SumFunctionOnSet(f, {}) = 0
  BY SumUnfolds, FS_EmptySet

\* Functions that agree on the set have the same sum over it.
LEMMA SumIsExtensional ==
  ASSUME NEW S, IsFiniteSet(S), NEW f, NEW g, \A x \in S : f[x] = g[x]
  PROVE  SumFunctionOnSet(f, S) = SumFunctionOnSet(g, S)
<1> DEFINE C == {T \in SUBSET S : SumFunctionOnSet(f, T) # SumFunctionOnSet(g, T)}
<1>1. SUFFICES ASSUME C # {} PROVE FALSE
  OBVIOUS
<1>2. PICK M \in C : IsFiniteSet(M) /\ \A U \in C : U \subseteq M => U = M
  <2>1. C \subseteq SUBSET S
    OBVIOUS
  <2> HIDE DEF C
  <2>2. QED
    BY <1>1, <2>1, SmallestSubset
<1> DEFINE L == M \ {Pick(M)}
<1>3. CASE M = {}
  BY <1>3, SumOfNothing
<1>4. CASE M # {}
  <2>1. Pick(M) \in M /\ L \in SUBSET S /\ L \subseteq M /\ L # M
    BY <1>4, PickIsMember
  <2>2. SumFunctionOnSet(f, L) = SumFunctionOnSet(g, L)
    BY <1>2, <2>1
  <2>3. /\ SumFunctionOnSet(f, M) = f[Pick(M)] + SumFunctionOnSet(f, L)
        /\ SumFunctionOnSet(g, M) = g[Pick(M)] + SumFunctionOnSet(g, L)
    BY <1>2, <1>4, SumUnfolds
  <2>4. QED
    BY <2>1, <2>2, <2>3
<1>5. QED
  BY <1>3, <1>4

LEMMA SumType ==
  ASSUME NEW S, IsFiniteSet(S), NEW f, \A x \in S : f[x] \in Int
  PROVE  SumFunctionOnSet(f, S) \in Int
<1> DEFINE C == {T \in SUBSET S : SumFunctionOnSet(f, T) \notin Int}
<1>1. SUFFICES ASSUME C # {} PROVE FALSE
  OBVIOUS
<1>2. PICK M \in C : IsFiniteSet(M) /\ \A U \in C : U \subseteq M => U = M
  <2>1. C \subseteq SUBSET S
    OBVIOUS
  <2> HIDE DEF C
  <2>2. QED
    BY <1>1, <2>1, SmallestSubset
<1> DEFINE L == M \ {Pick(M)}
<1>3. CASE M = {}
  BY <1>3, SumOfNothing
<1>4. CASE M # {}
  <2>1. Pick(M) \in M /\ L \in SUBSET S /\ L \subseteq M /\ L # M
    BY <1>4, PickIsMember
  <2>2. SumFunctionOnSet(f, L) \in Int /\ f[Pick(M)] \in Int
    BY <1>2, <2>1
  <2>3. SumFunctionOnSet(f, M) = f[Pick(M)] + SumFunctionOnSet(f, L)
    BY <1>2, <1>4, SumUnfolds
  <2>4. QED
    BY <2>2, <2>3
<1>5. QED
  BY <1>3, <1>4

\* Any element may be taken first.
LEMMA SumRemovesElement ==
  ASSUME NEW S, IsFiniteSet(S), NEW f, \A x \in S : f[x] \in Int, NEW x \in S
  PROVE  SumFunctionOnSet(f, S) = f[x] + SumFunctionOnSet(f, S \ {x})
<1> DEFINE Sum(T) == SumFunctionOnSet(f, T)
           Wrong(T) == \E y \in T : Sum(T) # f[y] + Sum(T \ {y})
           C == {T \in SUBSET S : Wrong(T)}
<1>1. SUFFICES ASSUME C # {} PROVE FALSE
  OBVIOUS
<1>2. PICK M \in C : IsFiniteSet(M) /\ \A U \in C : U \subseteq M => U = M
  <2>1. C \subseteq SUBSET S
    OBVIOUS
  <2> HIDE DEF C
  <2>2. QED
    BY <1>1, <2>1, SmallestSubset
<1>3. PICK y \in M : Sum(M) # f[y] + Sum(M \ {y})
  OBVIOUS
<1> DEFINE p == Pick(M)
<1>4. p \in M /\ Sum(M) = f[p] + Sum(M \ {p})
  BY <1>2, PickIsMember, SumUnfolds
<1>5. p # y
  BY <1>3, <1>4
<1>6. Sum(M \ {p}) = f[y] + Sum((M \ {p}) \ {y})
  BY <1>2, <1>4, <1>5
<1>7. Sum(M \ {y}) = f[p] + Sum((M \ {y}) \ {p})
  BY <1>2, <1>4, <1>5
<1>8. (M \ {p}) \ {y} = (M \ {y}) \ {p}
  OBVIOUS
<1>9. Sum((M \ {y}) \ {p}) \in Int
  <2>1. IsFiniteSet((M \ {y}) \ {p}) /\ (M \ {y}) \ {p} \subseteq S
    BY <1>2, FS_Subset
  <2>2. QED
    BY <2>1, SumType
<1>10. f[p] \in Int /\ f[y] \in Int
  BY <1>4
<1>11. Sum(M) = f[p] + (f[y] + Sum((M \ {y}) \ {p}))
  BY <1>4, <1>6, <1>8
<1> HIDE DEF p, Sum
<1>12. f[y] + Sum(M \ {y}) = f[p] + (f[y] + Sum((M \ {y}) \ {p}))
  BY <1>7, <1>9, <1>10
<1>13. QED
  BY <1>3, <1>11, <1>12

LEMMA SumIsNatural ==
  ASSUME NEW S, IsFiniteSet(S), NEW f, \A x \in S : f[x] \in Nat
  PROVE  SumFunctionOnSet(f, S) \in Nat
<1> DEFINE C == {T \in SUBSET S : SumFunctionOnSet(f, T) \notin Nat}
<1>1. SUFFICES ASSUME C # {} PROVE FALSE
  OBVIOUS
<1>2. PICK M \in C : IsFiniteSet(M) /\ \A U \in C : U \subseteq M => U = M
  <2>1. C \subseteq SUBSET S
    OBVIOUS
  <2> HIDE DEF C
  <2>2. QED
    BY <1>1, <2>1, SmallestSubset
<1>3. CASE M = {}
  BY <1>3, SumOfNothing
<1>4. CASE M # {}
  <2>1. PICK x \in M : TRUE
    BY <1>4
  <2>2. SumFunctionOnSet(f, M) = f[x] + SumFunctionOnSet(f, M \ {x})
    BY <1>2, SumRemovesElement
  <2>3. SumFunctionOnSet(f, M \ {x}) \in Nat /\ f[x] \in Nat
    BY <1>2
  <2>4. QED
    BY <2>2, <2>3
<1>5. QED
  BY <1>3, <1>4

\* No number is above a sum it is part of.
LEMMA TermIsBounded ==
  ASSUME NEW S, IsFiniteSet(S), NEW f, \A x \in S : f[x] \in Nat, NEW x \in S
  PROVE  f[x] <= SumFunctionOnSet(f, S)
<1>1. SumFunctionOnSet(f, S) = f[x] + SumFunctionOnSet(f, S \ {x})
  BY SumRemovesElement
<1>2. IsFiniteSet(S \ {x})
  BY FS_RemoveElement
<1>3. SumFunctionOnSet(f, S \ {x}) \in Nat
  BY <1>2, SumIsNatural
<1> DEFINE rest == SumFunctionOnSet(f, S \ {x})
           v == f[x]
<1>4. rest \in Nat /\ v \in Nat
  BY <1>3
<1> HIDE DEF rest, v
<1>5. v <= v + rest
  BY <1>4
<1>6. QED
  BY <1>1, <1>5 DEF rest, v

\* The sum of sums.
LEMMA SumAdds ==
  ASSUME NEW S, IsFiniteSet(S), NEW f, NEW g, NEW h,
         \A x \in S : f[x] \in Int /\ g[x] \in Int /\ h[x] = f[x] + g[x]
  PROVE  SumFunctionOnSet(h, S) = SumFunctionOnSet(f, S) + SumFunctionOnSet(g, S)
<1> DEFINE Sum(e, T) == SumFunctionOnSet(e, T)
           C == {T \in SUBSET S : Sum(h, T) # Sum(f, T) + Sum(g, T)}
<1>1. SUFFICES ASSUME C # {} PROVE FALSE
  OBVIOUS
<1>2. PICK M \in C : IsFiniteSet(M) /\ \A U \in C : U \subseteq M => U = M
  <2>1. C \subseteq SUBSET S
    OBVIOUS
  <2> HIDE DEF C
  <2>2. QED
    BY <1>1, <2>1, SmallestSubset
<1>3. CASE M = {}
  BY <1>3, SumOfNothing
<1>4. CASE M # {}
  <2>1. PICK x \in M : TRUE
    BY <1>4
  <2>2. /\ \A z \in M : f[z] \in Int
        /\ \A z \in M : g[z] \in Int
        /\ \A z \in M : h[z] \in Int
    OBVIOUS
  <2>3. /\ Sum(f, M) = f[x] + Sum(f, M \ {x}) /\ Sum(g, M) = g[x] + Sum(g, M \ {x})
        /\ Sum(h, M) = h[x] + Sum(h, M \ {x})
    BY <1>2, <2>2, SumRemovesElement
  <2>4. Sum(h, M \ {x}) = Sum(f, M \ {x}) + Sum(g, M \ {x})
    BY <1>2
  <2>5. Sum(f, M \ {x}) \in Int /\ Sum(g, M \ {x}) \in Int
    <3>1. IsFiniteSet(M \ {x})
      BY <1>2, FS_RemoveElement
    <3>2. QED
      BY <2>2, <3>1, SumType
  <2>6. Sum(h, M) # Sum(f, M) + Sum(g, M) /\ h[x] = f[x] + g[x] /\ f[x] \in Int /\ g[x] \in Int
    OBVIOUS
  <2> HIDE DEF Sum
  <2>7. QED
    BY <2>3, <2>4, <2>5, <2>6
<1>5. QED
  BY <1>3, <1>4

LEMMA SumIsMonotonic ==
  ASSUME NEW S, IsFiniteSet(S), NEW f, NEW g,
         \A x \in S : f[x] \in Int /\ g[x] \in Int /\ f[x] <= g[x]
  PROVE  SumFunctionOnSet(f, S) <= SumFunctionOnSet(g, S)
<1> DEFINE d == [x \in S |-> g[x] - f[x]]
<1>1. \A x \in S : f[x] \in Int /\ d[x] \in Int /\ g[x] = f[x] + d[x]
  OBVIOUS
<1>2. \A x \in S : d[x] \in Nat
  OBVIOUS
<1> HIDE DEF d
<1>3. SumFunctionOnSet(d, S) \in Nat
  BY <1>2, SumIsNatural
<1>4. SumFunctionOnSet(g, S) = SumFunctionOnSet(f, S) + SumFunctionOnSet(d, S)
  BY <1>1, SumAdds
<1>5. SumFunctionOnSet(f, S) \in Int
  BY SumType
<1>6. QED
  BY <1>3, <1>4, <1>5

\* What is zero need not be summed.
LEMMA SumIgnoresZeros ==
  ASSUME NEW S, IsFiniteSet(S), NEW T \in SUBSET S, NEW f, \A x \in S : f[x] \in Int,
         \A x \in S \ T : f[x] = 0
  PROVE  SumFunctionOnSet(f, S) = SumFunctionOnSet(f, T)
<1> DEFINE C == {U \in SUBSET S : T \subseteq U /\ SumFunctionOnSet(f, U) # SumFunctionOnSet(f, T)}
<1>1. SUFFICES ASSUME C # {} PROVE FALSE
  OBVIOUS
<1>2. PICK M \in C : IsFiniteSet(M) /\ \A U \in C : U \subseteq M => U = M
  <2>1. C \subseteq SUBSET S
    OBVIOUS
  <2> HIDE DEF C
  <2>2. QED
    BY <1>1, <2>1, SmallestSubset
<1>3. PICK x \in M \ T : TRUE
  OBVIOUS
<1>4. SumFunctionOnSet(f, M) = f[x] + SumFunctionOnSet(f, M \ {x})
  BY <1>2, SumRemovesElement
<1>5. SumFunctionOnSet(f, M \ {x}) = SumFunctionOnSet(f, T)
  BY <1>2, <1>3
<1>6. SumFunctionOnSet(f, T) \in Int /\ f[x] = 0
  BY <1>3, FS_Subset, SumType
<1>7. QED
  BY <1>4, <1>5, <1>6

-------------------------------------------------------------------------------
(* Folds over sequences.                                                      *)

\* The element a fold over a sequence takes last: Max of module FiniteSetsExt.
Top(T) == CHOOSE x \in T : \A y \in T : x >= y

\* FoldLeft(LAMBDA a, x : Op(c, a, x), base, q).
Along(c, base, q) ==
  MapThenFoldSet(LAMBDA x, y : Op(c, y, x), base, LAMBDA i : q[i], LAMBDA S : Top(S), DOMAIN q)

\* g is the recursive function of that fold over the subsets of S.
Unrolled(c, base, q, S, g) ==
  g = [T \in SUBSET S |-> IF T = {} THEN base ELSE Op(c, g[T \ {Top(T)}], q[Top(T)])]

LEMMA TopIsMember ==
  ASSUME NEW n \in Nat, NEW T \in SUBSET (1..n), T # {}
  PROVE  Top(T) \in T
<1> DEFINE C == {k \in Nat : n - k \in T}
<1>1. C \subseteq Nat /\ C # {}
  <2>1. PICK x \in T : TRUE
    OBVIOUS
  <2>2. n - x \in Nat /\ n - (n - x) = x
    OBVIOUS
  <2>3. QED
    BY <2>1, <2>2
<1>2. PICK k \in C : \A j \in C : k <= j
  <2> HIDE DEF C
  <2> QED BY <1>1, LeastNumber
<1>3. \A y \in T : n - k >= y
  <2> SUFFICES ASSUME NEW y \in T PROVE n - k >= y
    OBVIOUS
  <2>1. n - y \in C
    OBVIOUS
  <2>2. QED
    BY <1>2, <2>1, SMTT(30)
<1>4. QED
  BY <1>3 DEF Top

\* A finite set of which every part has a top.
Ranked(S) == IsFiniteSet(S) /\ \A T \in SUBSET S : T # {} => Top(T) \in T

LEMMA IndicesAreRanked == ASSUME NEW n \in Nat PROVE Ranked(1..n)
<1>1. IsFiniteSet(1..n)
  BY FS_Interval
<1>2. QED
  BY <1>1, TopIsMember DEF Ranked

LEMMA PartIsRanked == ASSUME NEW S, Ranked(S), NEW T, T \subseteq S PROVE Ranked(T)
<1>1. IsFiniteSet(T)
  BY FS_Subset DEF Ranked
<1>2. QED
  BY <1>1 DEF Ranked

LEMMA TopOfInterval ==
  ASSUME NEW i \in Nat, i > 0
  PROVE  Top(1..i) = i /\ (1..i) \ {Top(1..i)} = 1..(i - 1)
<1>1. i \in 1..i /\ \A y \in 1..i : i >= y
  OBVIOUS
<1>2. \A x \in 1..i : (\A y \in 1..i : x >= y) => x = i
  BY <1>1
<1>3. Top(1..i) = i
  BY <1>1, <1>2 DEF Top
<1>4. (1..i) \ {i} = 1..(i - 1)
  OBVIOUS
<1>5. QED
  BY <1>3, <1>4

LEMMA UnrolledIsUnique ==
  ASSUME NEW c, NEW base, NEW q, NEW S, Ranked(S), NEW g, NEW h,
         Unrolled(c, base, q, S, g), Unrolled(c, base, q, S, h)
  PROVE  g = h
<1> DEFINE C == {T \in SUBSET S : g[T] # h[T]}
<1>1. SUFFICES ASSUME C # {} PROVE FALSE
  BY DEF Unrolled
<1>2. PICK T \in C : \A U \in C : U \subseteq T => U = T
  <2>1. C \subseteq SUBSET S /\ IsFiniteSet(S)
    BY DEF Ranked
  <2> HIDE DEF C
  <2>2. QED
    BY <1>1, <2>1, SmallestSubset
<1>3. T # {}
  BY DEF Unrolled
<1>4. Top(T) \in T /\ T \ {Top(T)} \in SUBSET S /\ T \ {Top(T)} # T
  BY <1>3 DEF Ranked
<1>5. g[T \ {Top(T)}] = h[T \ {Top(T)}]
  BY <1>2, <1>4
<1>6. g[T] = h[T]
  BY <1>3, <1>5 DEF Unrolled
<1>7. QED
  BY <1>6

LEMMA UnrolledRestricts ==
  ASSUME NEW c, NEW base, NEW q, NEW S, Ranked(S), NEW g,
         Unrolled(c, base, q, S, g), NEW U \in SUBSET S
  PROVE  Unrolled(c, base, q, U, [T \in SUBSET U |-> g[T]])
<1> DEFINE h == [T \in SUBSET U |-> g[T]]
<1>1. \A T \in SUBSET U : T # {} => g[T \ {Top(T)}] = h[T \ {Top(T)}]
  OBVIOUS
<1>2. \A T \in SUBSET U : h[T] = IF T = {} THEN base ELSE Op(c, h[T \ {Top(T)}], q[Top(T)])
  BY <1>1 DEF Unrolled
<1>3. h = [T \in SUBSET U |-> h[T]]
  OBVIOUS
<1> HIDE DEF h
<1>4. Unrolled(c, base, q, U, h)
  BY <1>2, <1>3 DEF Unrolled
<1>5. QED
  BY <1>4 DEF h

LEMMA UnrolledExists ==
  ASSUME NEW c, NEW base, NEW q, NEW S, Ranked(S)
  PROVE  \E g : Unrolled(c, base, q, S, g)
<1> DEFINE C == {T \in SUBSET S : ~\E g : Unrolled(c, base, q, T, g)}
<1>1. SUFFICES ASSUME C # {} PROVE FALSE
  OBVIOUS
<1>2. PICK M \in C : \A U \in C : U \subseteq M => U = M
  <2>1. C \subseteq SUBSET S /\ IsFiniteSet(S)
    BY DEF Ranked
  <2> HIDE DEF C
  <2>2. QED
    BY <1>1, <2>1, SmallestSubset
<1>3. \A U \in SUBSET M : U # M => \E g : Unrolled(c, base, q, U, g)
  BY <1>2
<1> DEFINE Whole(U) == CHOOSE g : Unrolled(c, base, q, U, g)
           Less(T) == T \ {Top(T)}
           h == [T \in SUBSET M |-> IF T = {} THEN base ELSE Op(c, Whole(Less(T))[Less(T)], q[Top(T)])]
<1>4. \A U \in SUBSET M : U # M => Unrolled(c, base, q, U, Whole(U))
  BY <1>3
<1>5. \A T \in SUBSET M : T # {} => Less(T) \in SUBSET M /\ Less(T) # M /\ Less(T) \subseteq T
  BY DEF Ranked
<1>6. ASSUME NEW U \in SUBSET M, U # M PROVE h[U] = Whole(U)[U]
  <2>1. CASE U = {}
    <3> HIDE DEF Whole, Less
    <3> QED BY <1>4, <1>6, <2>1 DEF Unrolled
  <2>2. CASE U # {}
    <3>1. Less(U) \in SUBSET M /\ Less(U) # M /\ Less(U) \subseteq U
      BY <1>5, <2>2
    <3> DEFINE r == [T \in SUBSET Less(U) |-> Whole(U)[T]]
    <3>2. Unrolled(c, base, q, U, Whole(U)) /\ Unrolled(c, base, q, Less(U), Whole(Less(U)))
      BY <1>4, <1>6, <3>1
    <3>3. Ranked(U) /\ Ranked(Less(U))
      <4>1. U \subseteq S /\ Less(U) \subseteq S
        BY <3>1
      <4>2. QED
        BY <4>1, PartIsRanked
    <3>4. Unrolled(c, base, q, Less(U), r)
      <4> HIDE DEF Whole, Less
      <4> QED BY <3>1, <3>2, <3>3, UnrolledRestricts
    <3>5. r = Whole(Less(U))
      <4> HIDE DEF Whole, Less, r
      <4> QED BY <3>2, <3>3, <3>4, UnrolledIsUnique
    <3>6. Whole(U)[Less(U)] = Whole(Less(U))[Less(U)]
      <4>1. r[Less(U)] = Whole(U)[Less(U)]
        OBVIOUS
      <4>2. QED
        BY <3>5, <4>1
    <3>7. Whole(U)[U] = Op(c, Whole(U)[Less(U)], q[Top(U)])
      <4> HIDE DEF Whole
      <4> QED BY <2>2, <3>2 DEF Unrolled
    <3>8. h[U] = Op(c, Whole(Less(U))[Less(U)], q[Top(U)])
      <4> HIDE DEF Whole, Less
      <4> QED BY <2>2
    <3>9. QED
      BY <3>6, <3>7, <3>8
  <2>3. QED
    BY <2>1, <2>2
<1>7. \A T \in SUBSET M : h[T] = IF T = {} THEN base ELSE Op(c, h[Less(T)], q[Top(T)])
  <2> SUFFICES ASSUME NEW T \in SUBSET M, T # {}
               PROVE  h[T] = Op(c, h[Less(T)], q[Top(T)])
    <3>1. h[{}] = base
      <4> HIDE DEF Whole, Less
      <4> QED OBVIOUS
    <3> HIDE DEF h, Less
    <3>2. QED
      BY <3>1
  <2>1. h[Less(T)] = Whole(Less(T))[Less(T)]
    <3> HIDE DEF h, Whole, Less
    <3> QED BY <1>5, <1>6
  <2>2. h[T] = Op(c, Whole(Less(T))[Less(T)], q[Top(T)])
    <3> HIDE DEF Whole, Less
    <3> QED OBVIOUS
  <2>3. QED
    BY <2>1, <2>2
<1>8. Unrolled(c, base, q, M, h)
  <2>1. h = [T \in SUBSET M |-> h[T]]
    OBVIOUS
  <2> HIDE DEF h
  <2>2. QED
    BY <1>7, <2>1 DEF Unrolled
<1>9. QED
  BY <1>2, <1>8

\* The fold is the last of the accumulators it goes through.
LEMMA FoldSteps ==
  ASSUME NEW c, NEW base, NEW S, NEW q \in Seq(S)
  PROVE  \E g : /\ g[0] = base /\ Along(c, base, q) = g[Len(q)]
               /\ \A i \in 1..Len(q) : g[i] = Op(c, g[i - 1], q[i])
<1> DEFINE n == Len(q)
           It == CHOOSE f : Unrolled(c, base, q, 1..n, f)
           g == [i \in 0..n |-> It[1..i]]
<1>1. DOMAIN q = 1..n /\ n \in Nat
  OBVIOUS
<1>2. Along(c, base, q) = It[1..n]
  BY <1>1 DEF Along, MapThenFoldSet, Unrolled
<1>3. Unrolled(c, base, q, 1..n, It)
  BY <1>1, IndicesAreRanked, UnrolledExists
<1>4. g[0] = base
  <2>1. It[{}] = base
    <3> HIDE DEF It
    <3> QED BY <1>3 DEF Unrolled
  <2>2. 1..0 = {} /\ 0 \in 0..n
    BY <1>1
  <2> HIDE DEF It, n
  <2>3. QED
    BY <2>1, <2>2
<1>5. ASSUME NEW i \in 1..n PROVE g[i] = Op(c, g[i - 1], q[i])
  <2>0. i \in Nat /\ i > 0 /\ i - 1 \in 0..n /\ i \in 0..n /\ i \in 1..i
    BY <1>1
  <2>1. 1..i # {} /\ 1..i \in SUBSET (1..n)
    <3>1. \A x \in 1..i : x \in 1..n
      BY <1>1, <2>0
    <3>2. QED
      BY <2>0, <3>1
  <2>2. Top(1..i) = i /\ (1..i) \ {Top(1..i)} = 1..(i - 1)
    BY <2>0, TopOfInterval
  <2>3. It[1..i] = Op(c, It[(1..i) \ {Top(1..i)}], q[Top(1..i)])
    <3> HIDE DEF It, n
    <3> QED BY <1>3, <2>1 DEF Unrolled
  <2> HIDE DEF It, n
  <2>4. QED
    BY <2>0, <2>2, <2>3
<1>6. Along(c, base, q) = g[n]
  <2> HIDE DEF It
  <2> QED BY <1>1, <1>2
<1> HIDE DEF g
<1>7. QED
  BY <1>4, <1>5, <1>6

\* What is right of the base, and stays right with each element, is right of the fold.
LEMMA FoldClaim ==
  ASSUME NEW c, NEW base, NEW S, NEW q \in Seq(S), Claim(c, q, 0, base),
         \A i \in 1..Len(q) : \A a : Claim(c, q, i - 1, a) => Claim(c, q, i, Op(c, a, q[i]))
  PROVE  Claim(c, q, Len(q), Along(c, base, q))
<1>1. PICK g : /\ g[0] = base /\ Along(c, base, q) = g[Len(q)]
               /\ \A i \in 1..Len(q) : g[i] = Op(c, g[i - 1], q[i])
  BY FoldSteps
<1> DEFINE C == {i \in Nat : i <= Len(q) /\ ~Claim(c, q, i, g[i])}
<1>2. SUFFICES ASSUME C # {} PROVE FALSE
  BY <1>1
<1>3. PICK i \in C : \A j \in C : i <= j
  <2>1. C \subseteq Nat
    OBVIOUS
  <2> HIDE DEF C
  <2>2. QED
    BY <1>2, <2>1, LeastNumber
<1>4. i # 0
  BY <1>1
<1>5. i \in 1..Len(q) /\ i - 1 \in Nat /\ i - 1 <= Len(q) /\ i - 1 \notin C
  BY <1>3, <1>4
<1>6. Claim(c, q, i - 1, g[i - 1])
  BY <1>5
<1>7. Claim(c, q, i, g[i])
  BY <1>1, <1>5, <1>6
<1>8. QED
  BY <1>7

\* The fold over nothing, and over one element more.
LEMMA FoldOfNothing ==
  ASSUME NEW c, NEW base
  PROVE  Along(c, base, <<>>) = base
<1> DEFINE q == <<>>
<1>1. q \in Seq(Nat)
  OBVIOUS
<1>2. Len(q) = 0
  OBVIOUS
<1> HIDE DEF q
<1>3. PICK g : /\ g[0] = base /\ Along(c, base, q) = g[Len(q)]
               /\ \A i \in 1..Len(q) : g[i] = Op(c, g[i - 1], q[i])
  BY <1>1, FoldSteps
<1>4. QED
  BY <1>2, <1>3 DEF q
===============================================================================

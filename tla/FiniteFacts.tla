---------------------------- MODULE FiniteFacts -----------------------------
(***************************************************************************)
(* What the proofs about lists and limits share: the first of a set of     *)
(* positions, induction over the subsets of a finite set, and sums over    *)
(* finite sets.  The induction is stated for a set of subsets, not for a   *)
(* predicate, so that it can be cited.                                     *)
(***************************************************************************)
EXTENDS Lowest, FiniteSetsExt, FiniteSetTheorems, WellFoundedInduction, TLAPS

-----------------------------------------------------------------------------
(* A nonempty set of subsets of a finite set has a smallest member.        *)
LEMMA SmallestSubset ==
  ASSUME NEW S, IsFiniteSet(S), NEW B, B \subseteq SUBSET S, B # {}
  PROVE  \E T \in B : \A U \in B : U \subseteq T => U = T
<1> DEFINE R == StrictSubsetOrdering(S)
<1>1. FiniteSubsetsOf(S) = SUBSET S
  BY FS_FiniteSubsetsOfFinite
<1>2. IsWellFoundedOn(R, SUBSET S)
  <2>1. IsWellFoundedOn(R, FiniteSubsetsOf(S))
    BY FS_StrictSubsetOrderingWellFounded
  <2> QED BY <1>1, <2>1
<1>3. PICK T \in B : \A U \in B : ~(<<U, T>> \in R)
  <2> HIDE DEF R
  <2> QED BY <1>2, WFMin
<1>4. ASSUME NEW U \in B, U \subseteq T, U # T
      PROVE  FALSE
  <2>1. <<U, T>> \in R
    BY <1>4 DEF StrictSubsetOrdering
  <2> QED BY <1>3, <2>1
<1> QED BY <1>4

(* Induction over the subsets of a finite set.                             *)
LEMMA SubsetInduction ==
  ASSUME NEW S, IsFiniteSet(S), NEW P, {} \in P,
         \A T \in P \cap SUBSET S : \A x \in S \ T : T \cup {x} \in P
  PROVE  S \in P
<1>1. SUFFICES ASSUME S \notin P
               PROVE  FALSE
  OBVIOUS
<1> DEFINE B == (SUBSET S) \ P
<1>2. PICK T \in B : \A U \in B : U \subseteq T => U = T
  <2>1. B \subseteq SUBSET S /\ B # {}
    BY <1>1
  <2> HIDE DEF B
  <2> QED BY <2>1, SmallestSubset
<1>3. PICK x \in T : TRUE
  BY <1>2
<1>4. T \ {x} \in P
  BY <1>2, <1>3
<1>5. (T \ {x}) \cup {x} \in P
  <2>1. T \ {x} \in P \cap SUBSET S /\ x \in S \ (T \ {x})
    BY <1>2, <1>3, <1>4
  <2> QED BY <2>1
<1>6. (T \ {x}) \cup {x} = T
  BY <1>3
<1> QED BY <1>5, <1>6

(* A nonempty set of positions has a lowest element.                       *)
LEMMA LowestExists ==
  ASSUME NEW S, S \subseteq Nat, S # {}
  PROVE  /\ Lowest(S) \in S
         /\ \A m \in S : Lowest(S) <= m
<1>1. PICK b \in S : TRUE
  OBVIOUS
<1> DEFINE I == 0 .. b
           T == {0 .. k : k \in {k \in S : k <= b}}
<1>2. IsFiniteSet(I)
  BY <1>1, FS_Interval
<1>3. T \subseteq SUBSET I /\ T # {}
  BY <1>1
<1>4. PICK x \in T : \A y \in T : y \subseteq x => y = x
  <2> HIDE DEF I, T
  <2> QED BY <1>2, <1>3, SmallestSubset
<1>5. PICK n \in S : n <= b /\ x = 0 .. n
  BY <1>4
<1>6. ASSUME NEW m \in S, m < n
      PROVE  FALSE
  <2>1. 0 .. m \in T /\ 0 .. m \subseteq 0 .. n /\ n \in 0 .. n /\ n \notin 0 .. m
    BY <1>5, <1>6
  <2> QED BY <1>4, <1>5, <2>1
<1>7. \A m \in S : n <= m
  BY <1>6
<1> QED BY <1>7 DEF Lowest

(* A set of numbers has a member below which it has none.                  *)
LEMMA LeastExists ==
  ASSUME NEW S, S \subseteq Nat, S # {}
  PROVE  \E n \in S : n \in Nat /\ \A m \in Nat : m < n => m \notin S
<1> DEFINE n == Lowest(S)
<1>1. n \in S /\ \A m \in S : n <= m
  BY LowestExists
<1> HIDE DEF n
<1> QED BY <1>1

-----------------------------------------------------------------------------
(* Sums.  SumFunctionOnSet folds with a recursive function over all the    *)
(* subsets of a set; Sums says that g is that function.  One exists for    *)
(* every finite set, and two of them agree where both are defined.         *)
AnyOf(S) == CHOOSE x \in S : TRUE

Sums(f, S, g) ==
  g = [T \in SUBSET S |-> IF T = {} THEN 0 ELSE f[AnyOf(T)] + g[T \ {AnyOf(T)}]]

LEMMA SumsAgree ==
  ASSUME NEW f, NEW S, IsFiniteSet(S), NEW T \in SUBSET S, NEW g, NEW h,
         Sums(f, S, g), Sums(f, T, h)
  PROVE  \A U \in SUBSET T : g[U] = h[U]
<1> DEFINE B == {U \in SUBSET T : g[U] # h[U]}
<1>1. SUFFICES ASSUME B # {}
               PROVE  FALSE
  OBVIOUS
<1>2. PICK U \in B : \A V \in B : V \subseteq U => V = U
  <2>1. IsFiniteSet(T) /\ B \subseteq SUBSET T
    BY FS_Subset
  <2> HIDE DEF B
  <2> QED BY <1>1, <2>1, SmallestSubset
<1>3. /\ g[U] = IF U = {} THEN 0 ELSE f[AnyOf(U)] + g[U \ {AnyOf(U)}]
      /\ h[U] = IF U = {} THEN 0 ELSE f[AnyOf(U)] + h[U \ {AnyOf(U)}]
  BY <1>2 DEF Sums
<1>4. U # {} /\ AnyOf(U) \in U
  BY <1>2, <1>3 DEF AnyOf
<1>5. g[U \ {AnyOf(U)}] = h[U \ {AnyOf(U)}]
  BY <1>2, <1>4
<1> QED BY <1>2, <1>3, <1>5

LEMMA SumsExist ==
  ASSUME NEW f, NEW S, IsFiniteSet(S)
  PROVE  \E g : Sums(f, S, g)
<1> DEFINE B == {T \in SUBSET S : ~\E g : Sums(f, T, g)}
<1>1. SUFFICES ASSUME B # {}
               PROVE  FALSE
  OBVIOUS
<1>2. PICK T \in B : \A V \in B : V \subseteq T => V = T
  <2>1. B \subseteq SUBSET S
    OBVIOUS
  <2> HIDE DEF B
  <2> QED BY <1>1, <2>1, SmallestSubset
<1> DEFINE k(U) == CHOOSE g : Sums(f, U, g)
           v(U) == k(U)[U]
           h == [U \in SUBSET T |-> IF U = {} THEN 0 ELSE f[AnyOf(U)] + v(U \ {AnyOf(U)})]
<1>3. ASSUME NEW U \in SUBSET T, U # T
      PROVE  Sums(f, U, k(U))
  <2>1. \E g : Sums(f, U, g)
    BY <1>2, <1>3
  <2> QED BY <2>1
<1>4. \A U \in SUBSET T : U # {} => /\ AnyOf(U) \in U
                                    /\ U \ {AnyOf(U)} \in SUBSET T
                                    /\ U \ {AnyOf(U)} # T
  BY DEF AnyOf
<1>5. ASSUME NEW U \in SUBSET T, U # T
      PROVE  h[U] = v(U)
  <2>1. k(U)[U] = IF U = {} THEN 0 ELSE f[AnyOf(U)] + k(U)[U \ {AnyOf(U)}]
    <3>1. Sums(f, U, k(U))
      BY <1>3, <1>5
    <3> HIDE DEF k
    <3> QED BY <3>1 DEF Sums
  <2>2. ASSUME U # {}
        PROVE  k(U)[U \ {AnyOf(U)}] = v(U \ {AnyOf(U)})
    <3> DEFINE W == U \ {AnyOf(U)}
    <3>1. W \in SUBSET U /\ W \in SUBSET T /\ W # T
      BY <1>4, <2>2
    <3>2. Sums(f, U, k(U)) /\ Sums(f, W, k(W))
      BY <1>3, <1>5, <3>1
    <3>3. IsFiniteSet(U)
      BY <1>2, FS_Subset
    <3> HIDE DEF W, k
    <3>4. k(U)[W] = k(W)[W]
      BY <3>1, <3>2, <3>3, SumsAgree
    <3> QED BY <3>4 DEF W
  <2> QED BY <2>1, <2>2
<1>6. h = [U \in SUBSET T |-> IF U = {} THEN 0 ELSE f[AnyOf(U)] + h[U \ {AnyOf(U)}]]
  <2> HIDE DEF v
  <2> QED BY <1>4, <1>5
<1>7. Sums(f, T, h)
  <2> HIDE DEF h
  <2> QED BY <1>6 DEF Sums
<1> QED BY <1>2, <1>7

LEMMA SumIs ==
  ASSUME NEW f, NEW S, IsFiniteSet(S), NEW g, Sums(f, S, g), NEW T \in SUBSET S
  PROVE  SumFunctionOnSet(f, T) = g[T]
<1> DEFINE h == CHOOSE h : Sums(f, T, h)
<1>1. SumFunctionOnSet(f, T) = h[T]
  BY DEF SumFunctionOnSet, FoldFunctionOnSet, MapThenFoldSet, Sums, AnyOf
<1>2. IsFiniteSet(T)
  BY FS_Subset
<1>3. Sums(f, T, h)
  BY <1>2, SumsExist
<1> HIDE DEF h
<1>4. T \in SUBSET T
  OBVIOUS
<1> QED BY <1>1, <1>3, <1>4, SumsAgree

(* The sum over no elements.                                               *)
LEMMA SumEmpty ==
  ASSUME NEW f
  PROVE  SumFunctionOnSet(f, {}) = 0
<1>1. IsFiniteSet({}) /\ {} \in SUBSET {}
  BY FS_EmptySet
<1>2. PICK g : Sums(f, {}, g)
  BY <1>1, SumsExist
<1>3. g[{}] = 0
  BY <1>2 DEF Sums
<1> QED BY <1>1, <1>2, <1>3, SumIs

LEMMA SumAny ==
  ASSUME NEW f, NEW S, IsFiniteSet(S), S # {}
  PROVE  /\ AnyOf(S) \in S
         /\ SumFunctionOnSet(f, S) = f[AnyOf(S)] + SumFunctionOnSet(f, S \ {AnyOf(S)})
<1>1. PICK g : Sums(f, S, g)
  BY SumsExist
<1>2. AnyOf(S) \in S
  BY DEF AnyOf
<1>3. g[S] = f[AnyOf(S)] + g[S \ {AnyOf(S)}]
  BY <1>1 DEF Sums
<1>4. S \in SUBSET S /\ S \ {AnyOf(S)} \in SUBSET S
  OBVIOUS
<1>5. SumFunctionOnSet(f, S) = g[S]
  BY <1>1, <1>4, SumIs
<1>6. SumFunctionOnSet(f, S \ {AnyOf(S)}) = g[S \ {AnyOf(S)}]
  BY <1>1, <1>4, SumIs
<1> QED BY <1>2, <1>3, <1>5, <1>6

(* A sum of natural numbers is one.                                        *)
LEMMA SumNat ==
  ASSUME NEW f, NEW S, IsFiniteSet(S), \A x \in S : f[x] \in Nat
  PROVE  SumFunctionOnSet(f, S) \in Nat
<1> DEFINE B == {T \in SUBSET S : SumFunctionOnSet(f, T) \notin Nat}
<1>1. SUFFICES ASSUME B # {}
               PROVE  FALSE
  OBVIOUS
<1>2. PICK T \in B : \A V \in B : V \subseteq T => V = T
  <2>1. B \subseteq SUBSET S
    OBVIOUS
  <2> HIDE DEF B
  <2> QED BY <1>1, <2>1, SmallestSubset
<1>3. T # {} /\ IsFiniteSet(T)
  <2>1. T \in SUBSET S /\ SumFunctionOnSet(f, T) \notin Nat
    BY <1>2
  <2>2. T # {}
    BY <2>1, SumEmpty
  <2> QED BY <2>1, <2>2, FS_Subset
<1>4. AnyOf(T) \in T /\ SumFunctionOnSet(f, T) = f[AnyOf(T)] + SumFunctionOnSet(f, T \ {AnyOf(T)})
  BY <1>3, SumAny
<1>5. SumFunctionOnSet(f, T \ {AnyOf(T)}) \in Nat
  BY <1>2, <1>4
<1>6. f[AnyOf(T)] \in Nat /\ SumFunctionOnSet(f, T) \notin Nat
  BY <1>2, <1>4
<1> QED BY <1>4, <1>5, <1>6

(* One summand taken out, whichever it is.                                 *)
LEMMA SumRemove ==
  ASSUME NEW f, NEW S, IsFiniteSet(S), \A x \in S : f[x] \in Nat, NEW x \in S
  PROVE  SumFunctionOnSet(f, S) = f[x] + SumFunctionOnSet(f, S \ {x})
<1> DEFINE Sum(T) == SumFunctionOnSet(f, T)
           B == {T \in SUBSET S : \E y \in T : Sum(T) # f[y] + Sum(T \ {y})}
<1>1. SUFFICES ASSUME B # {}
               PROVE  FALSE
  OBVIOUS
<1>2. PICK T \in B : \A V \in B : V \subseteq T => V = T
  <2>1. B \subseteq SUBSET S
    OBVIOUS
  <2> HIDE DEF B
  <2> QED BY <1>1, <2>1, SmallestSubset
<1>3. PICK y \in T : Sum(T) # f[y] + Sum(T \ {y})
  BY <1>2
<1> DEFINE a == AnyOf(T)
<1>4. \A U \in SUBSET S : IsFiniteSet(U) /\ Sum(U) \in Nat
  BY FS_Subset, SumNat
<1>5. a \in T /\ Sum(T) = f[a] + Sum(T \ {a})
  BY <1>2, <1>3, <1>4, SumAny
<1>6. a # y
  BY <1>3, <1>5
<1> HIDE DEF a
<1>7. Sum(T \ {a}) = f[y] + Sum((T \ {a}) \ {y})
  BY <1>2, <1>3, <1>5, <1>6
<1>8. Sum(T \ {y}) = f[a] + Sum((T \ {y}) \ {a})
  BY <1>2, <1>3, <1>5, <1>6
<1>9. (T \ {a}) \ {y} = (T \ {y}) \ {a}
  OBVIOUS
<1>10. f[a] \in Nat /\ f[y] \in Nat /\ Sum((T \ {y}) \ {a}) \in Nat
  BY <1>2, <1>3, <1>4, <1>5
<1>11. Sum(T) = f[y] + Sum(T \ {y})
  <2> HIDE DEF Sum
  <2> QED BY <1>5, <1>7, <1>8, <1>9, <1>10
<1> QED BY <1>3, <1>11

LEMMA SumAdd ==
  ASSUME NEW f, NEW S, IsFiniteSet(S), NEW x, x \notin S,
         \A y \in S \cup {x} : f[y] \in Nat
  PROVE  SumFunctionOnSet(f, S \cup {x}) = f[x] + SumFunctionOnSet(f, S)
<1>1. IsFiniteSet(S \cup {x}) /\ (S \cup {x}) \ {x} = S
  BY FS_AddElement
<1> QED BY <1>1, SumRemove

(* The sum over two sets that have nothing in common.                      *)
LEMMA SumUnion ==
  ASSUME NEW f, NEW S, IsFiniteSet(S), NEW T, IsFiniteSet(T), S \cap T = {},
         \A y \in S \cup T : f[y] \in Nat
  PROVE  SumFunctionOnSet(f, S \cup T) = SumFunctionOnSet(f, S) + SumFunctionOnSet(f, T)
<1> DEFINE Sum(U) == SumFunctionOnSet(f, U)
           P == {U \in SUBSET T : Sum(S \cup U) = Sum(S) + Sum(U)}
<1>1. Sum(S) \in Nat
  BY SumNat
<1>2. {} \in P
  BY <1>1, SumEmpty
<1>3. ASSUME NEW U \in P \cap SUBSET T, NEW x \in T \ U
      PROVE  U \cup {x} \in P
  <2>1. IsFiniteSet(U) /\ IsFiniteSet(S \cup U) /\ x \notin S \cup U
    BY <1>3, FS_Subset, FS_Union
  <2>2. Sum((S \cup U) \cup {x}) = f[x] + Sum(S \cup U)
    BY <2>1, SumAdd
  <2>3. Sum(U \cup {x}) = f[x] + Sum(U)
    BY <2>1, SumAdd
  <2>4. Sum(U) \in Nat /\ f[x] \in Nat
    BY <2>1, SumNat
  <2>5. (S \cup U) \cup {x} = S \cup (U \cup {x})
    OBVIOUS
  <2>6. Sum(S \cup U) = Sum(S) + Sum(U)
    BY <1>3
  <2>7. Sum(S \cup (U \cup {x})) = Sum(S) + Sum(U \cup {x})
    <3> HIDE DEF Sum
    <3> QED BY <1>1, <2>2, <2>3, <2>4, <2>5, <2>6
  <2> QED BY <1>3, <2>7
<1>4. T \in P
  <2> HIDE DEF P
  <2> QED BY <1>2, <1>3, SubsetInduction
<1> QED BY <1>4

(* More summands, a larger sum.                                            *)
LEMMA SumMonotone ==
  ASSUME NEW f, NEW S, NEW T, IsFiniteSet(T), S \subseteq T, \A y \in T : f[y] \in Nat
  PROVE  SumFunctionOnSet(f, S) <= SumFunctionOnSet(f, T)
<1>1. /\ IsFiniteSet(S) /\ IsFiniteSet(T \ S)
      /\ S \cap (T \ S) = {} /\ S \cup (T \ S) = T
  BY FS_Subset
<1>2. SumFunctionOnSet(f, T) = SumFunctionOnSet(f, S) + SumFunctionOnSet(f, T \ S)
  BY <1>1, SumUnion
<1>3. SumFunctionOnSet(f, S) \in Nat /\ SumFunctionOnSet(f, T \ S) \in Nat
  BY <1>1, SumNat
<1> QED BY <1>2, <1>3

(* Only the values at the summands matter.                                 *)
LEMMA SumSame ==
  ASSUME NEW f, NEW g, NEW S, IsFiniteSet(S), \A x \in S : f[x] \in Nat /\ f[x] = g[x]
  PROVE  SumFunctionOnSet(f, S) = SumFunctionOnSet(g, S)
<1> DEFINE P == {T \in SUBSET S : SumFunctionOnSet(f, T) = SumFunctionOnSet(g, T)}
<1>1. {} \in P
  BY SumEmpty
<1>2. ASSUME NEW T \in P \cap SUBSET S, NEW x \in S \ T
      PROVE  T \cup {x} \in P
  <2>1. IsFiniteSet(T)
    BY FS_Subset
  <2>2. SumFunctionOnSet(f, T \cup {x}) = f[x] + SumFunctionOnSet(f, T)
    BY <2>1, SumAdd
  <2>3. SumFunctionOnSet(g, T \cup {x}) = g[x] + SumFunctionOnSet(g, T)
    BY <2>1, SumAdd
  <2> QED BY <1>2, <2>2, <2>3
<1> HIDE DEF P
<1>3. S \in P
  BY <1>1, <1>2, SubsetInduction
<1> QED BY <1>3 DEF P
=============================================================================

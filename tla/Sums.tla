-------------------------------- MODULE Sums --------------------------------
(***************************************************************************)
(* What a sum over a finite set, SumFunctionOnSet, is: nothing over no     *)
(* elements, and over more elements each one's value added to the sum over *)
(* the rest.                                                               *)
(*                                                                         *)
(* The induction is on the subsets of a finite set, and needs no predicate *)
(* as a parameter: a set of subsets that is not empty has a smallest one.  *)
(***************************************************************************)
EXTENDS FiniteSetTheorems, TLAPS

LEMMA SmallestSubset ==
    ASSUME NEW S, IsFiniteSet(S), NEW T, T \subseteq SUBSET S, T # {}
    PROVE  \E U \in T : \A V \in T : V \subseteq U => V = U
<1>1. IsWellFoundedOn(StrictSubsetOrdering(S), SUBSET S)
  BY FS_StrictSubsetOrderingWellFounded, FS_FiniteSubsetsOfFinite
<1>2. PICK U \in T : \A V \in T : <<V, U>> \notin StrictSubsetOrdering(S)
  BY <1>1, WFMin
<1>3. ASSUME NEW V \in T, V \subseteq U, V # U PROVE FALSE
  <2>1. <<V, U>> \in (SUBSET S) \X (SUBSET S)
    OBVIOUS
  <2>2. <<V, U>> \in StrictSubsetOrdering(S)
    BY <1>3, <2>1 DEF StrictSubsetOrdering
  <2> QED
    BY <1>2, <2>2
<1> QED
  BY <1>3

-----------------------------------------------------------------------------
(* A sum over all subsets at once, from the element that the definition    *)
(* takes first.                                                            *)
First(U) == CHOOSE x \in U : TRUE

SumsOver(g, F, S) ==
    g = [U \in SUBSET S |-> IF U = {} THEN 0 ELSE F[First(U)] + g[U \ {First(U)}]]

LEMMA FirstIsOne == ASSUME NEW U, U # {} PROVE First(U) \in U
BY DEF First

LEMMA SumIsChosen ==
    ASSUME NEW F, NEW S
    PROVE  SumFunctionOnSet(F, S) = (CHOOSE g : SumsOver(g, F, S))[S]
BY DEF SumFunctionOnSet, FoldFunctionOnSet, MapThenFoldSet, SumsOver, First

LEMMA SumsAgree ==
    ASSUME NEW F, NEW S, IsFiniteSet(S), NEW A \in SUBSET S, NEW B \in SUBSET S,
           NEW g, SumsOver(g, F, A), NEW h, SumsOver(h, F, B)
    PROVE  \A U \in SUBSET (A \cap B) : g[U] = h[U]
<1> DEFINE Bad == {U \in SUBSET (A \cap B) : g[U] # h[U]}
<1> SUFFICES ASSUME Bad # {} PROVE FALSE
  OBVIOUS
<1>1. PICK U \in Bad : \A V \in Bad : V \subseteq U => V = U
  <2>1. Bad \subseteq SUBSET S
    OBVIOUS
  <2> HIDE DEF Bad
  <2> QED
    BY <2>1, SmallestSubset
<1>2. CASE U = {}
  BY <1>1, <1>2 DEF SumsOver
<1>3. CASE U # {}
  <2> DEFINE V == U \ {First(U)}
  <2>1. First(U) \in U /\ V \subseteq U /\ V # U
    BY <1>3, FirstIsOne
  <2>2. g[V] = h[V]
    BY <1>1, <2>1
  <2>3. g[U] = F[First(U)] + g[V] /\ h[U] = F[First(U)] + h[V]
    BY <1>1, <1>3 DEF SumsOver
  <2> QED
    BY <1>1, <2>2, <2>3
<1> QED
  BY <1>2, <1>3

LEMMA SumsExist ==
    ASSUME NEW F, NEW S, IsFiniteSet(S)
    PROVE  \E g : SumsOver(g, F, S)
<1> DEFINE Bad == {U \in SUBSET S : ~ \E g : SumsOver(g, F, U)}
<1> SUFFICES ASSUME Bad # {} PROVE FALSE
  OBVIOUS
<1>1. PICK U \in Bad : \A V \in Bad : V \subseteq U => V = U
  <2>1. Bad \subseteq SUBSET S
    OBVIOUS
  <2> HIDE DEF Bad
  <2> QED
    BY <2>1, SmallestSubset
<1> DEFINE Of(V) == CHOOSE g : SumsOver(g, F, V)
           Value(V) == IF V = {} THEN 0 ELSE F[First(V)] + Of(V \ {First(V)})[V \ {First(V)}]
           h == [V \in SUBSET U |-> Value(V)]
<1>2. \A V \in SUBSET U : V # U => SumsOver(Of(V), F, V)
  <2> SUFFICES ASSUME NEW V \in SUBSET U, V # U PROVE \E g : SumsOver(g, F, V)
    OBVIOUS
  <2> QED
    BY <1>1
<1>3. ASSUME NEW V \in SUBSET U, V # {}
      PROVE  h[V] = F[First(V)] + h[V \ {First(V)}]
  <2> DEFINE W == V \ {First(V)}
  <2>1. First(V) \in V /\ W \in SUBSET U /\ W # U
    BY <1>3, FirstIsOne
  <2>2. SumsOver(Of(W), F, W)
    BY <1>2, <2>1
  <2>3. Of(W)[W] = Value(W)
    <3>1. CASE W = {}
      BY <2>2, <3>1 DEF SumsOver
    <3>2. CASE W # {}
      <4> DEFINE X == W \ {First(W)}
      <4>1. First(W) \in W /\ X \in SUBSET U /\ X # U /\ X \in SUBSET W
        BY <2>1, <3>2, FirstIsOne
      <4>2. SumsOver(Of(X), F, X)
        BY <1>2, <4>1
      <4>3. Of(W)[W] = F[First(W)] + Of(W)[X]
        BY <2>2, <3>2 DEF SumsOver
      <4>4. Of(W)[X] = Of(X)[X]
        <5>1. W \in SUBSET S /\ X \in SUBSET S /\ X \in SUBSET (W \cap X)
          BY <1>1, <2>1, <4>1
        <5> HIDE DEF X, W, Of
        <5> QED
          BY <2>2, <4>2, <5>1, SumsAgree
      <4> QED
        BY <3>2, <4>3, <4>4
    <3> QED
      BY <3>1, <3>2
  <2>4. h[V] = Value(V) /\ h[W] = Value(W)
    BY <2>1
  <2>5. Value(V) = F[First(V)] + Of(W)[W]
    BY <1>3
  <2> HIDE DEF h, Value, Of
  <2> QED
    BY <2>3, <2>4, <2>5
<1>4. h[{}] = 0
  OBVIOUS
<1>5. h = [V \in SUBSET U |-> IF V = {} THEN 0 ELSE F[First(V)] + h[V \ {First(V)}]]
  <2>1. h = [V \in SUBSET U |-> h[V]]
    OBVIOUS
  <2> HIDE DEF h
  <2>2. \A V \in SUBSET U : h[V] = IF V = {} THEN 0 ELSE F[First(V)] + h[V \ {First(V)}]
    BY <1>3, <1>4
  <2> QED
    BY <2>1, <2>2
<1>6. SumsOver(h, F, U)
  <2> HIDE DEF h
  <2> QED
    BY <1>5 DEF SumsOver
<1> QED
  BY <1>1, <1>6

(* The sum over a set that is not empty, one step of its definition.       *)
LEMMA SumUnfolds ==
    ASSUME NEW F, NEW S, IsFiniteSet(S)
    PROVE  SumFunctionOnSet(F, S) =
               IF S = {} THEN 0
               ELSE F[First(S)] + SumFunctionOnSet(F, S \ {First(S)})
<1> DEFINE Of(V) == CHOOSE g : SumsOver(g, F, V)
<1>1. ASSUME NEW V \in SUBSET S PROVE SumsOver(Of(V), F, V)
  <2>1. IsFiniteSet(V)
    BY FS_Subset
  <2> QED
    BY <2>1, SumsExist
<1>2. \A V : SumFunctionOnSet(F, V) = Of(V)[V]
  BY SumIsChosen
<1>3. Of(S)[S] = IF S = {} THEN 0 ELSE F[First(S)] + Of(S)[S \ {First(S)}]
  <2>1. SumsOver(Of(S), F, S)
    BY <1>1
  <2> HIDE DEF Of
  <2> QED
    BY <2>1 DEF SumsOver
<1>4. S # {} => Of(S)[S \ {First(S)}] = Of(S \ {First(S)})[S \ {First(S)}]
  <2> DEFINE W == S \ {First(S)}
  <2>1. SumsOver(Of(S), F, S) /\ SumsOver(Of(W), F, W)
    BY <1>1
  <2>2. W \in SUBSET S /\ S \in SUBSET S /\ W \in SUBSET (S \cap W)
    OBVIOUS
  <2> HIDE DEF W, Of
  <2>3. Of(S)[W] = Of(W)[W]
    BY <2>1, <2>2, SumsAgree
  <2> QED
    BY <2>3 DEF W
<1> HIDE DEF Of
<1> QED
  BY <1>2, <1>3, <1>4

LEMMA SumOverNothing == ASSUME NEW F PROVE SumFunctionOnSet(F, {}) = 0
BY SumUnfolds, FS_EmptySet

(* The sum of numbers is a number, of naturals a natural.                  *)
LEMMA SumType ==
    ASSUME NEW F, NEW S, IsFiniteSet(S), NEW D, D \in {Nat, Int},
           \A x \in S : F[x] \in D
    PROVE  SumFunctionOnSet(F, S) \in D
<1> DEFINE Sum(U) == SumFunctionOnSet(F, U)
           Bad == {U \in SUBSET S : Sum(U) \notin D}
<1> SUFFICES ASSUME Bad # {} PROVE FALSE
  OBVIOUS
<1>1. \A U \in SUBSET S : Sum(U) = IF U = {} THEN 0 ELSE F[First(U)] + Sum(U \ {First(U)})
  BY SumUnfolds, FS_Subset
<1>2. PICK U \in Bad : \A V \in Bad : V \subseteq U => V = U
  <2>1. Bad \subseteq SUBSET S
    OBVIOUS
  <2> HIDE DEF Bad
  <2> QED
    BY <2>1, SmallestSubset
<1> HIDE DEF Sum
<1>3. U # {}
  <2>1. 0 \in D
    OBVIOUS
  <2> QED
    BY <1>1, <1>2, <2>1
<1>4. First(U) \in U /\ U \in SUBSET S /\ U \ {First(U)} \in SUBSET S
  BY <1>2, <1>3, FirstIsOne
<1>5. Sum(U \ {First(U)}) \in D
  BY <1>2, <1>4
<1>6. F[First(U)] \in D
  BY <1>4
<1> QED
  BY <1>1, <1>2, <1>3, <1>4, <1>5, <1>6

(* The sum over a set is any one element's value and the sum over the      *)
(* others.                                                                 *)
LEMMA SumTakes ==
    ASSUME NEW F, NEW S, IsFiniteSet(S), \A x \in S : F[x] \in Int,
           NEW x \in S
    PROVE  SumFunctionOnSet(F, S) = F[x] + SumFunctionOnSet(F, S \ {x})
<1> DEFINE Sum(U) == SumFunctionOnSet(F, U)
           Bad == {U \in SUBSET S : \E y \in U : Sum(U) # F[y] + Sum(U \ {y})}
<1> SUFFICES ASSUME Bad # {} PROVE FALSE
  OBVIOUS
<1>1. \A U \in SUBSET S : Sum(U) = IF U = {} THEN 0 ELSE F[First(U)] + Sum(U \ {First(U)})
  BY SumUnfolds, FS_Subset
<1>2. \A U \in SUBSET S : Sum(U) \in Int
  BY SumType, FS_Subset
<1>3. PICK U \in Bad : \A V \in Bad : V \subseteq U => V = U
  <2>1. Bad \subseteq SUBSET S
    OBVIOUS
  <2> HIDE DEF Bad
  <2> QED
    BY <2>1, SmallestSubset
<1>4. PICK y \in U : Sum(U) # F[y] + Sum(U \ {y})
  BY <1>3
<1> HIDE DEF Sum
<1>5. First(U) \in U /\ U \in SUBSET S
  BY <1>3, <1>4, FirstIsOne
<1>6. Sum(U) = F[First(U)] + Sum(U \ {First(U)})
  BY <1>1, <1>4, <1>5
<1>7. y # First(U)
  BY <1>4, <1>6
<1> DEFINE a == First(U)
           V == U \ {a}
           W == U \ {y}
           X == (U \ {a}) \ {y}
<1>8. V \in SUBSET S /\ W \in SUBSET S /\ X \in SUBSET S
      /\ V # U /\ W # U /\ V \subseteq U /\ W \subseteq U /\ y \in V /\ a \in W
      /\ X = V \ {y} /\ X = W \ {a}
  BY <1>4, <1>5, <1>7
<1>9. V \notin Bad /\ W \notin Bad
  BY <1>3, <1>8
<1>10. Sum(V) = F[y] + Sum(X) /\ Sum(W) = F[a] + Sum(X)
  BY <1>8, <1>9
<1>11. F[a] \in Int /\ F[y] \in Int /\ Sum(X) \in Int
  BY <1>2, <1>5, <1>4, <1>8
<1>12. Sum(U) = F[a] + Sum(V)
  BY <1>6
<1> HIDE DEF V, W, X, a, Bad
<1>13. Sum(U) = F[y] + Sum(W)
  BY <1>10, <1>11, <1>12
<1> QED
  BY <1>4, <1>13 DEF W

LEMMA SumAdds ==
    ASSUME NEW F, NEW S, IsFiniteSet(S), NEW x, x \notin S,
           \A y \in S \cup {x} : F[y] \in Int
    PROVE  SumFunctionOnSet(F, S \cup {x}) = F[x] + SumFunctionOnSet(F, S)
<1>1. IsFiniteSet(S \cup {x}) /\ (S \cup {x}) \ {x} = S
  BY FS_AddElement
<1> QED
  BY <1>1, SumTakes

(* It looks at the values of the elements only.                            *)
LEMMA SumSame ==
    ASSUME NEW F, NEW G, NEW S, IsFiniteSet(S), \A x \in S : F[x] = G[x]
    PROVE  SumFunctionOnSet(F, S) = SumFunctionOnSet(G, S)
<1> DEFINE Sum(U) == SumFunctionOnSet(F, U)
           Other(U) == SumFunctionOnSet(G, U)
           Bad == {U \in SUBSET S : Sum(U) # Other(U)}
<1> SUFFICES ASSUME Bad # {} PROVE FALSE
  OBVIOUS
<1>1. \A U \in SUBSET S : Sum(U) = IF U = {} THEN 0 ELSE F[First(U)] + Sum(U \ {First(U)})
  BY SumUnfolds, FS_Subset
<1>2. \A U \in SUBSET S : Other(U) = IF U = {} THEN 0 ELSE G[First(U)] + Other(U \ {First(U)})
  BY SumUnfolds, FS_Subset
<1>3. PICK U \in Bad : \A V \in Bad : V \subseteq U => V = U
  <2>1. Bad \subseteq SUBSET S
    OBVIOUS
  <2> HIDE DEF Bad
  <2> QED
    BY <2>1, SmallestSubset
<1> HIDE DEF Sum, Other
<1>4. U # {}
  BY <1>1, <1>2, <1>3
<1>5. First(U) \in U /\ U \in SUBSET S /\ U \ {First(U)} \in SUBSET S
  BY <1>3, <1>4, FirstIsOne
<1>6. Sum(U \ {First(U)}) = Other(U \ {First(U)})
  BY <1>3, <1>5
<1> QED
  BY <1>1, <1>2, <1>3, <1>4, <1>5, <1>6

(* What every summand is at most, the sum is at most.                      *)
LEMMA SumAtMost ==
    ASSUME NEW F, NEW G, NEW S, IsFiniteSet(S), NEW k \in Nat,
           \A x \in S : F[x] \in Nat /\ G[x] \in Nat /\ F[x] <= k * G[x]
    PROVE  SumFunctionOnSet(F, S) <= k * SumFunctionOnSet(G, S)
<1> DEFINE Sum(U) == SumFunctionOnSet(F, U)
           Other(U) == SumFunctionOnSet(G, U)
           Bad == {U \in SUBSET S : ~ (Sum(U) <= k * Other(U))}
<1> SUFFICES ASSUME Bad # {} PROVE FALSE
  OBVIOUS
<1>1. \A U \in SUBSET S : Sum(U) = IF U = {} THEN 0 ELSE F[First(U)] + Sum(U \ {First(U)})
  BY SumUnfolds, FS_Subset
<1>2. \A U \in SUBSET S : Other(U) = IF U = {} THEN 0 ELSE G[First(U)] + Other(U \ {First(U)})
  BY SumUnfolds, FS_Subset
<1>3. \A U \in SUBSET S : Sum(U) \in Nat /\ Other(U) \in Nat
  BY SumType, FS_Subset
<1>4. PICK U \in Bad : \A V \in Bad : V \subseteq U => V = U
  <2>1. Bad \subseteq SUBSET S
    OBVIOUS
  <2> HIDE DEF Bad
  <2> QED
    BY <2>1, SmallestSubset
<1>5. U \in SUBSET S /\ ~ (Sum(U) <= k * Other(U))
  BY <1>4
<1>6. U # {}
  <2>1. U = {} => Sum(U) = 0 /\ Other(U) = 0
    BY <1>1, <1>2, <1>5
  <2> HIDE DEF Sum, Other
  <2> QED
    BY <1>5, <2>1
<1> DEFINE x == First(U)
           V == U \ {x}
<1>7. x \in U /\ V \in SUBSET S /\ V # U /\ V \subseteq U
  BY <1>5, <1>6, FirstIsOne
<1>8. Sum(V) <= k * Other(V)
  BY <1>4, <1>7
<1>9. Sum(U) = F[x] + Sum(V) /\ Other(U) = G[x] + Other(V)
  BY <1>1, <1>2, <1>5, <1>6
<1>10. /\ Sum(V) \in Nat /\ Other(V) \in Nat
       /\ F[x] \in Nat /\ G[x] \in Nat /\ F[x] <= k * G[x]
  BY <1>3, <1>5, <1>7
<1> HIDE DEF Sum, Other, Bad, x, V
<1>11. k * (G[x] + Other(V)) = k * G[x] + k * Other(V)
  BY <1>10
<1>12. k * G[x] \in Nat /\ k * Other(V) \in Nat
  BY <1>10
<1> QED
  BY <1>5, <1>8, <1>9, <1>10, <1>11, <1>12

(* A sum of something is not nothing.                                      *)
LEMMA SumOfSome ==
    ASSUME NEW F, NEW S, IsFiniteSet(S), S # {}, \A x \in S : F[x] \in Nat \ {0}
    PROVE  SumFunctionOnSet(F, S) \in Nat \ {0}
<1>1. PICK x \in S : TRUE
  OBVIOUS
<1>2. SumFunctionOnSet(F, S) = F[x] + SumFunctionOnSet(F, S \ {x})
  BY SumTakes
<1>3. SumFunctionOnSet(F, S \ {x}) \in Nat
  BY SumType, FS_Subset
<1> QED
  BY <1>2, <1>3
=============================================================================

----------------------------- MODULE SumTheorems -----------------------------
(***************************************************************************)
(* What SumFunctionOnSet of the community modules computes, for every      *)
(* finite set: the lemmas that proofs about budgets and sizes cite.        *)
(*                                                                         *)
(* Induction over a finite set is used in the form of a smallest           *)
(* counterexample (FS_StrictSubsetOrderingWellFounded and WFMin). That the *)
(* recursive function inside the fold exists is shown by a witness that    *)
(* needs no recursion: the number of units, f[x] of them for each x.       *)
(***************************************************************************)
EXTENDS Functions, FiniteSetTheorems, TLAPS

Counts(f, S) == \A x \in S : f[x] \in Nat

\* f[x] things for every x.
Units(f, S) == UNION {{x} \X (1..f[x]) : x \in S}

-----------------------------------------------------------------------------
(* A set of subsets of a finite set that is not empty has a smallest one.   *)

LEMMA SmallestSubset ==
  ASSUME NEW S, IsFiniteSet(S), NEW Bad \in SUBSET (SUBSET S), Bad # {}
  PROVE  \E T \in Bad : \A x \in T : T \ {x} \notin Bad
<1>1. FiniteSubsetsOf(S) = SUBSET S
  BY FS_FiniteSubsetsOfFinite
<1>2. IsWellFoundedOn(StrictSubsetOrdering(S), SUBSET S)
  BY <1>1, FS_StrictSubsetOrderingWellFounded
<1>3. PICK T \in Bad : \A U \in Bad : ~ (<<U, T>> \in StrictSubsetOrdering(S))
  BY <1>2, WFMin
<1>4. ASSUME NEW x \in T, T \ {x} \in Bad
      PROVE  FALSE
  <2>1. ~ (<<T \ {x}, T>> \in StrictSubsetOrdering(S))
    BY <1>3, <1>4
  <2>2. T \ {x} \in SUBSET S /\ T \in SUBSET S /\ T \ {x} # T
    BY <1>4
  <2> QED BY <2>1, <2>2 DEF StrictSubsetOrdering
<1> QED BY <1>3, <1>4

-----------------------------------------------------------------------------
(* The units. *)

LEMMA UnitsSplit ==
  ASSUME NEW S, NEW f, NEW x \in S
  PROVE  /\ Units(f, S) = Units(f, S \ {x}) \cup ({x} \X (1..f[x]))
         /\ Units(f, S \ {x}) \cap ({x} \X (1..f[x])) = {}
  BY DEF Units

LEMMA UnitsFinite ==
  ASSUME NEW S, IsFiniteSet(S), NEW f, Counts(f, S)
  PROVE  \A T \in SUBSET S : IsFiniteSet(Units(f, T))
<1> DEFINE Bad == {T \in SUBSET S : ~IsFiniteSet(Units(f, T))}
<1> SUFFICES ASSUME Bad # {} PROVE FALSE
  OBVIOUS
<1>1. PICK T \in Bad : \A x \in T : T \ {x} \notin Bad
  BY SmallestSubset
<1>2. T # {}
  BY <1>1, FS_EmptySet DEF Units
<1>3. PICK x : x \in T
  BY <1>2
<1>4. IsFiniteSet(Units(f, T \ {x}))
  BY <1>1, <1>3
<1>5. IsFiniteSet({x} \X (1..f[x]))
  <2>1. f[x] \in Nat
    BY <1>1, <1>3 DEF Counts
  <2>2. IsFiniteSet(1..f[x])
    BY <2>1, FS_Interval
  <2> QED BY <2>2, FS_Singleton, FS_Product
<1>6. Units(f, T) = Units(f, T \ {x}) \cup ({x} \X (1..f[x]))
  BY <1>3, UnitsSplit
<1>7. IsFiniteSet(Units(f, T))
  <2> DEFINE A == Units(f, T \ {x})
             B == {x} \X (1..f[x])
  <2>1. IsFiniteSet(A) /\ IsFiniteSet(B) /\ Units(f, T) = A \cup B
    BY <1>4, <1>5, <1>6
  <2> HIDE DEF A, B
  <2> QED BY <2>1, FS_Union
<1> QED BY <1>1, <1>7

LEMMA UnitsCount ==
  ASSUME NEW S, IsFiniteSet(S), NEW f, Counts(f, S), NEW x \in S
  PROVE  Cardinality(Units(f, S)) = f[x] + Cardinality(Units(f, S \ {x}))
<1> DEFINE A == Units(f, S \ {x})
           B == {x} \X (1..f[x])
<1>1. f[x] \in Nat
  BY DEF Counts
<1>2. IsFiniteSet(B) /\ Cardinality(B) = f[x]
  <2>1. IsFiniteSet(1..f[x]) /\ Cardinality(1..f[x]) = f[x]
    BY <1>1, FS_Interval
  <2>2. IsFiniteSet({x}) /\ Cardinality({x}) = 1
    BY FS_Singleton
  <2> DEFINE one == {x}
             all == 1..f[x]
             n == Cardinality(all)
  <2>3. IsFiniteSet(one) /\ Cardinality(one) = 1 /\ IsFiniteSet(all) /\ n = f[x]
    BY <2>1, <2>2
  <2> HIDE DEF one, all, B
  <2>4. IsFiniteSet(one \X all) /\ Cardinality(one \X all) = Cardinality(one) * Cardinality(all)
    BY <2>3, FS_Product
  <2>5. IsFiniteSet(B) /\ Cardinality(B) = Cardinality(one) * n
    BY <2>4 DEF B, one, all, n
  <2> HIDE DEF n
  <2>6. Cardinality(one) * n = n
    BY <1>1, <2>3
  <2> QED BY <2>3, <2>5, <2>6
<1>3. IsFiniteSet(A) /\ Cardinality(A) \in Nat
  BY UnitsFinite, FS_CardinalityType
<1>4. Units(f, S) = A \cup B /\ A \cap B = {}
  BY UnitsSplit
<1> HIDE DEF A, B
<1>5. Cardinality(A \cup B) = Cardinality(A) + Cardinality(B) - Cardinality(A \cap B)
  BY <1>2, <1>3, FS_Union
<1>6. Cardinality(A \cap B) = 0
  BY <1>4, FS_EmptySet
<1>7. Cardinality(Units(f, S)) = f[x] + Cardinality(A)
  BY <1>1, <1>2, <1>3, <1>4, <1>5, <1>6
<1> QED BY <1>7 DEF A

-----------------------------------------------------------------------------
(* The sum. *)

\* The fold counts the units.
LEMMA SumIsUnits ==
  ASSUME NEW S, IsFiniteSet(S), NEW f, Counts(f, S)
  PROVE  SumFunctionOnSet(f, S) = Cardinality(Units(f, S))
<1> DEFINE P(s) == CHOOSE x \in s : TRUE
           Body(g) == [s \in SUBSET S |-> IF s = {} THEN 0 ELSE f[P(s)] + g[s \ {P(s)}]]
           iter == CHOOSE g : g = Body(g)
           h == [s \in SUBSET S |-> Cardinality(Units(f, s))]
<1>1. SumFunctionOnSet(f, S) = iter[S]
  BY DEF SumFunctionOnSet, FoldFunctionOnSet, MapThenFoldSet
<1>2. ASSUME NEW T \in SUBSET S, T # {}
      PROVE  P(T) \in T /\ h[T] = f[P(T)] + h[T \ {P(T)}]
  <2>1. P(T) \in T
    BY <1>2
  <2>2. IsFiniteSet(T) /\ Counts(f, T)
    BY FS_Subset DEF Counts
  <2> QED BY <2>1, <2>2, UnitsCount
<1>3. h[{}] = 0
  BY FS_EmptySet DEF Units
<1>4. h = Body(h)
  BY <1>2, <1>3
<1> HIDE DEF h
<1>5. iter = Body(iter)
  BY <1>4
<1> HIDE DEF iter
<1> DEFINE Bad == {T \in SUBSET S : iter[T] # h[T]}
<1>6. ASSUME Bad # {}
      PROVE  FALSE
  <2>1. PICK T \in Bad : \A x \in T : T \ {x} \notin Bad
    BY <1>6, SmallestSubset
  <2>2. CASE T = {}
    BY <1>3, <1>5, <2>1, <2>2
  <2>3. CASE T # {}
    <3>1. P(T) \in T /\ h[T] = f[P(T)] + h[T \ {P(T)}]
      BY <1>2, <2>1, <2>3
    <3>2. iter[T \ {P(T)}] = h[T \ {P(T)}]
      BY <2>1, <3>1
    <3>3. iter[T] = f[P(T)] + iter[T \ {P(T)}]
      BY <1>5, <2>1, <2>3
    <3> QED BY <2>1, <3>1, <3>2, <3>3
  <2> QED BY <2>2, <2>3
<1>7. iter[S] = h[S]
  BY <1>6
<1> QED BY <1>1, <1>7 DEF h

LEMMA SumType ==
  ASSUME NEW S, IsFiniteSet(S), NEW f, Counts(f, S)
  PROVE  SumFunctionOnSet(f, S) \in Nat
<1>1. IsFiniteSet(Units(f, S))
  BY UnitsFinite
<1> QED BY <1>1, SumIsUnits, FS_CardinalityType

LEMMA SumOfNothing ==
  ASSUME NEW f
  PROVE  SumFunctionOnSet(f, {}) = 0
<1>1. Units(f, {}) = {}
  BY DEF Units
<1> QED BY <1>1, SumIsUnits, FS_EmptySet DEF Counts

\* One element taken out.
LEMMA SumSplit ==
  ASSUME NEW S, IsFiniteSet(S), NEW f, Counts(f, S), NEW x \in S
  PROVE  SumFunctionOnSet(f, S) = f[x] + SumFunctionOnSet(f, S \ {x})
<1>1. IsFiniteSet(S \ {x}) /\ Counts(f, S \ {x})
  BY FS_Difference DEF Counts
<1> QED BY <1>1, SumIsUnits, UnitsCount

\* One element put in.
LEMMA SumAdd ==
  ASSUME NEW S, IsFiniteSet(S), NEW x, x \notin S, NEW f, Counts(f, S \cup {x})
  PROVE  SumFunctionOnSet(f, S \cup {x}) = f[x] + SumFunctionOnSet(f, S)
<1>1. IsFiniteSet(S \cup {x})
  BY FS_AddElement
<1>2. (S \cup {x}) \ {x} = S
  OBVIOUS
<1> QED BY <1>1, <1>2, SumSplit

\* No value is more.
LEMMA SumMonotone ==
  ASSUME NEW S, IsFiniteSet(S), NEW f, Counts(f, S), NEW g, Counts(g, S),
         \A x \in S : f[x] <= g[x]
  PROVE  SumFunctionOnSet(f, S) <= SumFunctionOnSet(g, S)
<1>1. Units(f, S) \subseteq Units(g, S)
  BY DEF Units, Counts
<1>2. IsFiniteSet(Units(g, S))
  BY UnitsFinite
<1> QED BY <1>1, <1>2, FS_Subset, SumIsUnits

\* The same values.
LEMMA SumSame ==
  ASSUME NEW S, IsFiniteSet(S), NEW f, Counts(f, S), NEW g, \A x \in S : f[x] = g[x]
  PROVE  SumFunctionOnSet(f, S) = SumFunctionOnSet(g, S)
<1>1. Units(f, S) = Units(g, S)
  BY DEF Units
<1>2. Counts(g, S)
  BY DEF Counts
<1> QED BY <1>1, <1>2, SumIsUnits

\* The value of one element alone is another.
LEMMA SumChange ==
  ASSUME NEW S, IsFiniteSet(S), NEW f, Counts(f, S), NEW g, NEW x \in S, g[x] \in Nat,
         \A y \in S \ {x} : g[y] = f[y]
  PROVE  SumFunctionOnSet(g, S) = SumFunctionOnSet(f, S) - f[x] + g[x]
<1>1. IsFiniteSet(S \ {x}) /\ Counts(f, S \ {x}) /\ Counts(g, S)
  BY FS_Difference DEF Counts
<1>2. SumFunctionOnSet(f, S \ {x}) = SumFunctionOnSet(g, S \ {x})
  BY <1>1, SumSame
<1>3. SumFunctionOnSet(f, S) = f[x] + SumFunctionOnSet(f, S \ {x})
  BY SumSplit
<1>4. SumFunctionOnSet(g, S) = g[x] + SumFunctionOnSet(g, S \ {x})
  BY <1>1, SumSplit
<1>5. SumFunctionOnSet(f, S \ {x}) \in Nat /\ f[x] \in Nat
  BY <1>1, SumType DEF Counts
<1> QED BY <1>2, <1>3, <1>4, <1>5

\* All values are zero.
LEMMA SumOfZeroes ==
  ASSUME NEW S, IsFiniteSet(S), NEW f, \A x \in S : f[x] = 0
  PROVE  SumFunctionOnSet(f, S) = 0
<1>1. Units(f, S) = {} /\ Counts(f, S)
  BY DEF Units, Counts
<1> QED BY <1>1, SumIsUnits, FS_EmptySet

\* A part of the set, as values that are zero elsewhere.
LEMMA SumRestrict ==
  ASSUME NEW S, IsFiniteSet(S), NEW T \in SUBSET S, NEW f, Counts(f, T), NEW g,
         \A x \in S : g[x] = IF x \in T THEN f[x] ELSE 0
  PROVE  SumFunctionOnSet(g, S) = SumFunctionOnSet(f, T)
<1>1. Units(g, S) = Units(f, T) /\ Counts(g, S)
  BY DEF Units, Counts
<1>2. IsFiniteSet(T)
  BY FS_Subset
<1> QED BY <1>1, <1>2, SumIsUnits

\* A sum of values.
LEMMA SumPlus ==
  ASSUME NEW S, IsFiniteSet(S), NEW f, Counts(f, S), NEW g, Counts(g, S), NEW h,
         \A x \in S : h[x] = f[x] + g[x]
  PROVE  SumFunctionOnSet(h, S) = SumFunctionOnSet(f, S) + SumFunctionOnSet(g, S)
<1> DEFINE Bad == {T \in SUBSET S : SumFunctionOnSet(h, T)
                                      # SumFunctionOnSet(f, T) + SumFunctionOnSet(g, T)}
<1> SUFFICES ASSUME Bad # {} PROVE FALSE
  OBVIOUS
<1>1. PICK T \in Bad : \A x \in T : T \ {x} \notin Bad
  BY SmallestSubset
<1>2. IsFiniteSet(T) /\ Counts(f, T) /\ Counts(g, T) /\ Counts(h, T)
  BY FS_Subset DEF Counts
<1>3. CASE T = {}
  BY <1>1, <1>3, SumOfNothing
<1>4. CASE T # {}
  <2>1. PICK x \in T : TRUE
    BY <1>4
  <2>2. SumFunctionOnSet(h, T \ {x}) = SumFunctionOnSet(f, T \ {x}) + SumFunctionOnSet(g, T \ {x})
    BY <1>1, <2>1
  <2>3. SumFunctionOnSet(h, T) = h[x] + SumFunctionOnSet(h, T \ {x})
    BY <1>2, <2>1, SumSplit
  <2>4. SumFunctionOnSet(f, T) = f[x] + SumFunctionOnSet(f, T \ {x})
    BY <1>2, <2>1, SumSplit
  <2>5. SumFunctionOnSet(g, T) = g[x] + SumFunctionOnSet(g, T \ {x})
    BY <1>2, <2>1, SumSplit
  <2>6. IsFiniteSet(T \ {x}) /\ Counts(f, T \ {x}) /\ Counts(g, T \ {x})
    BY <1>2, FS_Difference DEF Counts
  <2>7. SumFunctionOnSet(f, T \ {x}) \in Nat /\ SumFunctionOnSet(g, T \ {x}) \in Nat
    BY <2>6, SumType
  <2>8. f[x] \in Nat /\ g[x] \in Nat /\ h[x] = f[x] + g[x]
    BY <1>2, <2>1 DEF Counts
  <2>9. SumFunctionOnSet(h, T) = SumFunctionOnSet(f, T) + SumFunctionOnSet(g, T)
    BY <2>2, <2>3, <2>4, <2>5, <2>7, <2>8
  <2> QED BY <1>1, <2>9
<1> QED BY <1>3, <1>4
=============================================================================

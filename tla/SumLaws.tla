------------------------------ MODULE SumLaws ------------------------------
(***************************************************************************)
(* The laws of a sum over a finite set (SumFunctionOnSet of the community   *)
(* module Functions), which the proofs about budgets rest on: a day's spend *)
(* is a sum over the ledger's rows.                                         *)
(*                                                                          *)
(* The sum is a fold over a recursive function, so its laws need induction  *)
(* over the set.  It is done with the least-element form of well-founded    *)
(* induction: among the finite subsets that break a law there would be a    *)
(* smallest one.                                                            *)
(***************************************************************************)
EXTENDS Integers, FiniteSets, Functions, FiniteSetTheorems, TLAPS

(* What holds of a subset of a finite set as soon as it holds of all its     *)
(* strict subsets holds of every subset: a smallest exception cannot be.     *)
LEMMA SubsetInduction ==
    ASSUME NEW S, IsFiniteSet(S), NEW P,
           \A T \in SUBSET S : (\A U \in SUBSET T : U # T => U \in P) => T \in P
    PROVE  \A T \in SUBSET S : T \in P
<1> DEFINE Bad == {T \in SUBSET S : T \notin P}
           F == FiniteSubsetsOf(S)
<1>1. SUFFICES ASSUME Bad # {} PROVE FALSE
    OBVIOUS
<1>2. Bad \subseteq F
    BY FS_Subset DEF FiniteSubsetsOf
<1>3. IsWellFoundedOn(StrictSubsetOrdering(S), F)
    BY FS_StrictSubsetOrderingWellFounded
<1>4. PICK T \in Bad : \A U \in Bad : ~ (<<U, T>> \in StrictSubsetOrdering(S))
    <2>. HIDE DEF Bad, F
    <2>. QED BY <1>1, <1>2, <1>3, WFMin
<1>5. \A U \in SUBSET T : U # T => U \in P
    BY <1>4 DEF StrictSubsetOrdering
<1>. QED BY <1>4, <1>5

-----------------------------------------------------------------------------
(* The element the fold takes from a set, and the function the fold defines  *)
(* on the subsets of S.                                                      *)
Pick(s) == CHOOSE x \in s : TRUE

Sums(f, S, g) ==
    g = [s \in SUBSET S |-> IF s = {} THEN 0 ELSE f[Pick(s)] + g[s \ {Pick(s)}]]

(* The sum is the value of that function at the whole set. *)
LEMMA SumIsFold ==
    ASSUME NEW f, NEW S
    PROVE  SumFunctionOnSet(f, S) = (CHOOSE g : Sums(f, S, g))[S]
BY DEF SumFunctionOnSet, FoldFunctionOnSet, MapThenFoldSet, Sums, Pick

(* What the function is at a subset. *)
LEMMA SumsValue ==
    ASSUME NEW f, NEW S, NEW g, Sums(f, S, g), NEW T \in SUBSET S
    PROVE  /\ T = {} => g[T] = 0
           /\ T # {} => g[T] = f[Pick(T)] + g[T \ {Pick(T)}]
BY DEF Sums

(* The element taken from a nonempty set is one of its elements. *)
LEMMA PickIn == ASSUME NEW T, T # {} PROVE Pick(T) \in T
BY DEF Pick

(* The functions for two sets agree on the subsets of both. *)
LEMMA SumsAgree ==
    ASSUME NEW f, NEW S, IsFiniteSet(S), NEW R \in SUBSET S,
           NEW g, Sums(f, S, g), NEW h, Sums(f, R, h)
    PROVE  \A T \in SUBSET R : g[T] = h[T]
<1> DEFINE P == {T \in SUBSET R : g[T] = h[T]}
<1>1. ASSUME NEW T \in SUBSET R, \A U \in SUBSET T : U # T => U \in P
      PROVE  T \in P
    <2>1. CASE T = {}
        BY <2>1, SumsValue
    <2>2. CASE T # {}
        <3>1. Pick(T) \in T
            BY <2>2, PickIn
        <3>2. T \ {Pick(T)} \in P
            BY <1>1, <3>1
        <3>. QED BY <2>2, <3>2, SumsValue
    <2>. QED BY <2>1, <2>2
<1>2. IsFiniteSet(R)
    BY FS_Subset
<1>. HIDE DEF P
<1>3. \A T \in SUBSET R : T \in P
    BY <1>1, <1>2, SubsetInduction
<1>. QED BY <1>3 DEF P

(* In particular on the smaller set itself. *)
LEMMA SumsAgreeOn ==
    ASSUME NEW f, NEW S, IsFiniteSet(S), NEW R \in SUBSET S,
           NEW g, Sums(f, S, g), NEW h, Sums(f, R, h)
    PROVE  g[R] = h[R]
BY SumsAgree

(* A finite set has such a function: it is built from those of its strict    *)
(* subsets.                                                                  *)
LEMMA SumsExists ==
    ASSUME NEW f, NEW S, IsFiniteSet(S)
    PROVE  \E g : Sums(f, S, g)
<1> DEFINE P == {T \in SUBSET S : \E g : Sums(f, T, g)}
<1>1. ASSUME NEW T \in SUBSET S, \A U \in SUBSET T : U # T => U \in P
      PROVE  T \in P
    <2> DEFINE G(U) == CHOOSE g : Sums(f, U, g)
               h == [s \in SUBSET T |-> IF s = {} THEN 0
                        ELSE f[Pick(s)] + G(s \ {Pick(s)})[s \ {Pick(s)}]]
    <2>1. ASSUME NEW U \in SUBSET T, U # T PROVE Sums(f, U, G(U))
        BY <1>1, <2>1
    <2> HIDE DEF G
    <2>2. ASSUME NEW U \in SUBSET T, U # T PROVE h[U] = G(U)[U]
        <3>1. Sums(f, U, G(U)) /\ IsFiniteSet(U)
            BY <2>1, <2>2, FS_Subset
        <3>2. CASE U = {}
            <4>1. h[U] = 0
                BY <3>2
            <4>2. G(U)[U] = 0
                BY <3>1, <3>2, SumsValue
            <4>. QED BY <4>1, <4>2
        <3>3. CASE U # {}
            <4> DEFINE V == U \ {Pick(U)}
            <4>1. V \in SUBSET U /\ V # T /\ V \in SUBSET T
                BY <2>2, <3>3, PickIn
            <4>2. Sums(f, V, G(V))
                BY <2>1, <4>1
            <4>3. G(U)[V] = G(V)[V]
                <5>. HIDE DEF V, h
                <5>. QED BY <3>1, <4>1, <4>2, SumsAgreeOn
            <4>4. G(U)[U] = f[Pick(U)] + G(U)[V]
                BY <3>1, <3>3, SumsValue
            <4>5. h[U] = f[Pick(U)] + G(V)[V]
                BY <3>3
            <4>. QED BY <4>3, <4>4, <4>5
        <3>. QED BY <3>2, <3>3
    <2>3. h = [s \in SUBSET T |-> IF s = {} THEN 0 ELSE f[Pick(s)] + h[s \ {Pick(s)}]]
        <3>1. ASSUME NEW s \in SUBSET T, s # {}
              PROVE  G(s \ {Pick(s)})[s \ {Pick(s)}] = h[s \ {Pick(s)}]
            BY <2>2, <3>1, PickIn
        <3> HIDE DEF h
        <3>2. h = [s \in SUBSET T |-> IF s = {} THEN 0
                        ELSE f[Pick(s)] + G(s \ {Pick(s)})[s \ {Pick(s)}]]
            BY DEF h
        <3>. QED BY <3>1, <3>2
    <2>4. Sums(f, T, h)
        BY <2>3 DEF Sums
    <2>. QED BY <2>4
<1>. HIDE DEF P
<1>2. \A T \in SUBSET S : T \in P
    BY <1>1, SubsetInduction
<1>. QED BY <1>2 DEF P

-----------------------------------------------------------------------------
(* The sum over a nonempty set is that of one element and of the rest. *)
LEMMA SumUnfolds ==
    ASSUME NEW f, NEW T, IsFiniteSet(T)
    PROVE  /\ T = {} => SumFunctionOnSet(f, T) = 0
           /\ T # {} => SumFunctionOnSet(f, T) =
                            f[Pick(T)] + SumFunctionOnSet(f, T \ {Pick(T)})
<1> DEFINE G(U) == CHOOSE g : Sums(f, U, g)
           V == T \ {Pick(T)}
<1>1. IsFiniteSet(V)
    BY FS_Subset
<1>2. Sums(f, T, G(T)) /\ Sums(f, V, G(V))
    BY <1>1, SumsExists
<1>3. SumFunctionOnSet(f, T) = G(T)[T] /\ SumFunctionOnSet(f, V) = G(V)[V]
    BY SumIsFold
<1> HIDE DEF G
<1>4. G(T)[V] = G(V)[V]
    <2>1. V \in SUBSET T
        OBVIOUS
    <2>. HIDE DEF V
    <2>. QED BY <1>2, <2>1, SumsAgreeOn
<1>. QED BY <1>2, <1>3, <1>4, SumsValue

(* Nothing sums to zero. *)
LEMMA SumEmpty == ASSUME NEW f PROVE SumFunctionOnSet(f, {}) = 0
BY FS_EmptySet, SumUnfolds

(* A sum of natural numbers is a natural number. *)
LEMMA SumType ==
    ASSUME NEW S, IsFiniteSet(S), NEW f, \A x \in S : f[x] \in Nat
    PROVE  SumFunctionOnSet(f, S) \in Nat
<1> DEFINE P == {T \in SUBSET S : SumFunctionOnSet(f, T) \in Nat}
<1>1. ASSUME NEW T \in SUBSET S, \A U \in SUBSET T : U # T => U \in P
      PROVE  T \in P
    <2>1. CASE T = {}
        BY <2>1, SumEmpty
    <2>2. CASE T # {}
        <3>1. Pick(T) \in T /\ IsFiniteSet(T)
            BY <2>2, PickIn, FS_Subset
        <3>2. T \ {Pick(T)} \in P
            BY <1>1, <3>1
        <3>3. SumFunctionOnSet(f, T) = f[Pick(T)] + SumFunctionOnSet(f, T \ {Pick(T)})
            BY <2>2, <3>1, SumUnfolds
        <3>. QED BY <3>1, <3>2, <3>3
    <2>. QED BY <2>1, <2>2
<1>. HIDE DEF P
<1>2. \A T \in SUBSET S : T \in P
    BY <1>1, SubsetInduction
<1>. QED BY <1>2 DEF P

(* ... over any part of the set. *)
LEMMA SumTypeOfPart ==
    ASSUME NEW S, IsFiniteSet(S), NEW f, \A x \in S : f[x] \in Nat, NEW T \in SUBSET S
    PROVE  SumFunctionOnSet(f, T) \in Nat
BY SumType, FS_Subset

(* Any element can be taken out of a sum, not only the one the fold takes. *)
LEMMA SumRemove ==
    ASSUME NEW S, IsFiniteSet(S), NEW f, \A x \in S : f[x] \in Nat, NEW x \in S
    PROVE  SumFunctionOnSet(f, S) = f[x] + SumFunctionOnSet(f, S \ {x})
<1> DEFINE P == {T \in SUBSET S :
            \A y \in T : SumFunctionOnSet(f, T) = f[y] + SumFunctionOnSet(f, T \ {y})}
<1>1. ASSUME NEW T \in SUBSET S, \A U \in SUBSET T : U # T => U \in P
      PROVE  T \in P
    <2> SUFFICES ASSUME NEW y \in T
                 PROVE  SumFunctionOnSet(f, T) = f[y] + SumFunctionOnSet(f, T \ {y})
        OBVIOUS
    <2> DEFINE c == Pick(T)
    <2>1. c \in T /\ IsFiniteSet(T)
        BY PickIn, FS_Subset
    <2>2. SumFunctionOnSet(f, T) = f[c] + SumFunctionOnSet(f, T \ {c})
        BY SumUnfolds, <2>1
    <2> HIDE DEF c
    <2>3. CASE y = c
        BY <2>2, <2>3
    <2>4. CASE y # c
        <3>1. T \ {c} \in P /\ T \ {y} \in P
            BY <1>1, <2>1
        <3>2. SumFunctionOnSet(f, T \ {c}) = f[y] + SumFunctionOnSet(f, (T \ {c}) \ {y})
            BY <2>1, <2>4, <3>1
        <3>3. SumFunctionOnSet(f, T \ {y}) = f[c] + SumFunctionOnSet(f, (T \ {y}) \ {c})
            BY <2>1, <2>4, <3>1
        <3>4. (T \ {c}) \ {y} = (T \ {y}) \ {c}
            OBVIOUS
        <3>5. SumFunctionOnSet(f, (T \ {c}) \ {y}) \in Nat
            BY SumTypeOfPart
        <3>6. f[c] \in Nat /\ f[y] \in Nat
            BY <2>1
        <3> DEFINE r == SumFunctionOnSet(f, (T \ {c}) \ {y})
        <3>7. /\ SumFunctionOnSet(f, T \ {c}) = f[y] + r
              /\ SumFunctionOnSet(f, T \ {y}) = f[c] + r
              /\ r \in Nat
            BY <3>2, <3>3, <3>4, <3>5
        <3> HIDE DEF r
        <3>. QED BY <2>2, <3>6, <3>7
    <2>. QED BY <2>3, <2>4
<1>. HIDE DEF P
<1>2. \A T \in SUBSET S : T \in P
    BY <1>1, SubsetInduction
<1>. QED BY <1>2 DEF P

(* The arithmetic of the next lemma: both sides of two inequalities add up. *)
LEMMA ScaledStep ==
    ASSUME NEW a \in Nat, NEW b \in Nat, NEW A \in Nat, NEW B \in Nat, NEW c \in Nat, NEW d \in Nat,
           a * c <= b * d, A * c <= B * d
    PROVE  (a + A) * c <= (b + B) * d
<1>1. (a + A) * c = a * c + A * c
    OBVIOUS
<1>2. (b + B) * d = b * d + B * d
    OBVIOUS
<1>3. a * c \in Nat /\ A * c \in Nat /\ b * d \in Nat /\ B * d \in Nat
    OBVIOUS
<1>. QED BY <1>1, <1>2, <1>3

(* An inequality between scaled values holds between the scaled sums. *)
LEMMA SumScaled ==
    ASSUME NEW S, IsFiniteSet(S), NEW f, NEW g, NEW c \in Nat, NEW d \in Nat,
           \A x \in S : f[x] \in Nat /\ g[x] \in Nat /\ f[x] * c <= g[x] * d
    PROVE  SumFunctionOnSet(f, S) * c <= SumFunctionOnSet(g, S) * d
<1> DEFINE P == {T \in SUBSET S : SumFunctionOnSet(f, T) * c <= SumFunctionOnSet(g, T) * d}
<1>1. ASSUME NEW T \in SUBSET S, \A U \in SUBSET T : U # T => U \in P
      PROVE  T \in P
    <2>1. CASE T = {}
        BY <2>1, SumEmpty
    <2>2. CASE T # {}
        <3> DEFINE U == T \ {Pick(T)}
        <3>1. Pick(T) \in T /\ IsFiniteSet(T)
            BY <2>2, PickIn, FS_Subset
        <3>2. U \in P
            BY <1>1, <3>1
        <3>3. /\ SumFunctionOnSet(f, T) = f[Pick(T)] + SumFunctionOnSet(f, U)
              /\ SumFunctionOnSet(g, T) = g[Pick(T)] + SumFunctionOnSet(g, U)
            BY <2>2, <3>1, SumUnfolds
        <3>4. SumFunctionOnSet(f, U) \in Nat /\ SumFunctionOnSet(g, U) \in Nat
            BY SumTypeOfPart
        <3>5. /\ f[Pick(T)] \in Nat /\ g[Pick(T)] \in Nat
              /\ f[Pick(T)] * c <= g[Pick(T)] * d
              /\ SumFunctionOnSet(f, U) * c <= SumFunctionOnSet(g, U) * d
            BY <3>1, <3>2
        <3>6. (f[Pick(T)] + SumFunctionOnSet(f, U)) * c <= (g[Pick(T)] + SumFunctionOnSet(g, U)) * d
            <4>. HIDE DEF U
            <4>. QED BY <3>4, <3>5, ScaledStep
        <3>. QED BY <3>3, <3>6
    <2>. QED BY <2>1, <2>2
<1>. HIDE DEF P
<1>2. \A T \in SUBSET S : T \in P
    BY <1>1, SubsetInduction
<1>. QED BY <1>2 DEF P

(* Only the values on the set matter. *)
LEMMA SumSame ==
    ASSUME NEW S, IsFiniteSet(S), NEW f, NEW g, \A x \in S : f[x] = g[x]
    PROVE  SumFunctionOnSet(f, S) = SumFunctionOnSet(g, S)
<1> DEFINE P == {T \in SUBSET S : SumFunctionOnSet(f, T) = SumFunctionOnSet(g, T)}
<1>1. ASSUME NEW T \in SUBSET S, \A U \in SUBSET T : U # T => U \in P
      PROVE  T \in P
    <2>1. CASE T = {}
        BY <2>1, SumEmpty
    <2>2. CASE T # {}
        <3>1. Pick(T) \in T /\ IsFiniteSet(T)
            BY <2>2, PickIn, FS_Subset
        <3>2. T \ {Pick(T)} \in P
            BY <1>1, <3>1
        <3>. QED BY <2>2, <3>1, <3>2, SumUnfolds
    <2>. QED BY <2>1, <2>2
<1>. HIDE DEF P
<1>2. \A T \in SUBSET S : T \in P
    BY <1>1, SubsetInduction
<1>. QED BY <1>2 DEF P

(* A part does not sum to more than the whole. *)
LEMMA SumSubset ==
    ASSUME NEW S, IsFiniteSet(S), NEW f, \A x \in S : f[x] \in Nat, NEW R \in SUBSET S
    PROVE  SumFunctionOnSet(f, R) <= SumFunctionOnSet(f, S)
<1> DEFINE P == {T \in SUBSET S : R \subseteq T => SumFunctionOnSet(f, R) <= SumFunctionOnSet(f, T)}
<1>1. ASSUME NEW T \in SUBSET S, \A U \in SUBSET T : U # T => U \in P
      PROVE  T \in P
    <2> SUFFICES ASSUME R \subseteq T PROVE SumFunctionOnSet(f, R) <= SumFunctionOnSet(f, T)
        OBVIOUS
    <2>0. SumFunctionOnSet(f, R) \in Nat
        BY SumTypeOfPart
    <2>1. CASE T = R
        BY <2>0, <2>1
    <2>2. CASE T # R
        <3>1. PICK x \in T : x \notin R
            BY <2>2
        <3>2. T \ {x} \in P /\ IsFiniteSet(T)
            BY <1>1, <3>1, FS_Subset
        <3>3. SumFunctionOnSet(f, T) = f[x] + SumFunctionOnSet(f, T \ {x})
            BY <3>2, SumRemove
        <3>4. SumFunctionOnSet(f, T \ {x}) \in Nat /\ f[x] \in Nat
            BY SumTypeOfPart
        <3>. QED BY <2>0, <3>1, <3>2, <3>3, <3>4
    <2>. QED BY <2>1, <2>2
<1>. HIDE DEF P
<1>2. \A T \in SUBSET S : T \in P
    BY <1>1, SubsetInduction
<1>. QED BY <1>2 DEF P

(* A sum over part of a set, whose terms have not changed, has not grown. *)
LEMMA SumShrinks ==
    ASSUME NEW S, IsFiniteSet(S), NEW f, \A x \in S : f[x] \in Nat,
           NEW R \in SUBSET S, NEW g, \A x \in R : g[x] = f[x]
    PROVE  /\ SumFunctionOnSet(g, R) \in Nat
           /\ SumFunctionOnSet(g, R) <= SumFunctionOnSet(f, S)
<1>1. SumFunctionOnSet(g, R) = SumFunctionOnSet(f, R)
    BY FS_Subset, SumSame
<1>2. SumFunctionOnSet(f, R) <= SumFunctionOnSet(f, S) /\ SumFunctionOnSet(f, R) \in Nat
    BY SumSubset, SumTypeOfPart
<1>. QED BY <1>1, <1>2

(* A new member adds its own term to a sum whose other terms are the same. *)
LEMMA SumGrows ==
    ASSUME NEW S, IsFiniteSet(S), NEW f, \A x \in S : f[x] \in Nat,
           NEW y, y \notin S, NEW g, g[y] \in Nat, \A x \in S : g[x] = f[x],
           NEW W, W = S \cup {y}
    PROVE  SumFunctionOnSet(g, W) = SumFunctionOnSet(f, S) + g[y]
<1>1. IsFiniteSet(W) /\ y \in W /\ W \ {y} = S /\ \A x \in W : g[x] \in Nat
    BY FS_AddElement
<1>2. SumFunctionOnSet(g, W) = g[y] + SumFunctionOnSet(g, W \ {y})
    BY <1>1, SumRemove
<1>3. SumFunctionOnSet(g, S) = SumFunctionOnSet(f, S)
    BY SumSame
<1>4. SumFunctionOnSet(f, S) \in Nat
    BY SumType
<1>. QED BY <1>1, <1>2, <1>3, <1>4
=============================================================================

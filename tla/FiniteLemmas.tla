----------------------------- MODULE FiniteLemmas -----------------------------
(***************************************************************************)
(* Facts about finite sets of numbers, folds over them and sums that the   *)
(* proofs about the dispatcher rest on.  The induction over finite sets is *)
(* stated with a set of good sets in the place of a predicate.             *)
(***************************************************************************)
EXTENDS Integers, FiniteSets, FiniteSetsExt, Functions, FiniteSetTheorems, WellFoundedInduction, TLAPS

-----------------------------------------------------------------------------
(* Sets of numbers, counted from below. *)

Below(S, k) == {m \in S : m < k}

(* The members of a finite set of numbers have different ranks below its size. *)
LEMMA Ranks ==
    ASSUME NEW S \in SUBSET Nat, IsFiniteSet(S)
    PROVE  /\ Cardinality(S) \in Nat
           /\ \A k \in S : Cardinality(Below(S, k)) \in 0 .. Cardinality(S) - 1
           /\ \A k, l \in S : k < l => Cardinality(Below(S, k)) < Cardinality(Below(S, l))
<1>1. Cardinality(S) \in Nat
  BY FS_CardinalityType
<1>2. ASSUME NEW T \in SUBSET S, NEW l \in S, l \notin T
      PROVE  Cardinality(T) \in 0 .. Cardinality(S) - 1
  <2>1. IsFiniteSet(S \ {l}) /\ Cardinality(S \ {l}) = Cardinality(S) - 1
    BY FS_RemoveElement
  <2>2. T \in SUBSET (S \ {l})
    BY <1>2
  <2>3. IsFiniteSet(T) /\ Cardinality(T) <= Cardinality(S \ {l})
    BY <2>1, <2>2, FS_Subset
  <2>4. Cardinality(T) \in Nat
    BY <2>3, FS_CardinalityType
  <2> QED
    BY <1>1, <2>1, <2>3, <2>4
<1>3. ASSUME NEW k \in S PROVE Cardinality(Below(S, k)) \in 0 .. Cardinality(S) - 1
  <2>1. Below(S, k) \in SUBSET S /\ k \notin Below(S, k)
    BY DEF Below
  <2> QED
    BY <2>1, <1>2
<1>4. ASSUME NEW k \in S, NEW l \in S, k < l
      PROVE  Cardinality(Below(S, k)) < Cardinality(Below(S, l))
  <2>1. Below(S, l) \in SUBSET S /\ k \in Below(S, l)
    BY <1>4 DEF Below
  <2>2. IsFiniteSet(Below(S, l))
    BY <2>1, FS_Subset
  <2>3. Below(S, k) \in SUBSET (Below(S, l) \ {k})
    <3>1. \A m \in Below(S, k) : m \in S /\ m < k /\ m \in Nat
      BY DEF Below
    <3>2. \A m \in Below(S, k) : m # k /\ m < l
      BY <1>4, <3>1
    <3> QED
      BY <3>1, <3>2 DEF Below
  <2>4. /\ IsFiniteSet(Below(S, l) \ {k})
        /\ Cardinality(Below(S, l) \ {k}) = Cardinality(Below(S, l)) - 1
    BY <2>1, <2>2, FS_RemoveElement
  <2>5. Cardinality(Below(S, k)) <= Cardinality(Below(S, l) \ {k})
    BY <2>3, <2>4, FS_Subset
  <2>6. Cardinality(Below(S, k)) \in Int /\ Cardinality(Below(S, l)) \in Int
    BY <1>3
  <2> QED
    BY <2>4, <2>5, <2>6
<1> QED
  BY <1>1, <1>3, <1>4

(* Different members have different ranks, so every rank is taken. *)
LEMMA RanksTaken ==
    ASSUME NEW S \in SUBSET Nat, IsFiniteSet(S)
    PROVE  /\ \A k, l \in S : Cardinality(Below(S, k)) = Cardinality(Below(S, l)) => k = l
           /\ \A n \in 0 .. Cardinality(S) - 1 : \E k \in S : Cardinality(Below(S, k)) = n
<1> DEFINE rank == [k \in S |-> Cardinality(Below(S, k))]
           T == 0 .. Cardinality(S) - 1
<1>1. \A k, l \in S : Cardinality(Below(S, k)) = Cardinality(Below(S, l)) => k = l
  <2> SUFFICES ASSUME NEW k \in S, NEW l \in S, k # l
               PROVE  Cardinality(Below(S, k)) # Cardinality(Below(S, l))
    OBVIOUS
  <2>1. k < l \/ l < k
    OBVIOUS
  <2>2. Cardinality(Below(S, k)) \in Int /\ Cardinality(Below(S, l)) \in Int
    BY Ranks
  <2> QED
    BY <2>1, <2>2, Ranks
<1>2. rank \in Injection(S, T)
  BY <1>1, Ranks DEF Injection, IsInjective
<1>3. IsFiniteSet(T) /\ Cardinality(T) = Cardinality(S)
  <2>1. Cardinality(S) \in Nat
    BY Ranks
  <2>2. IsFiniteSet(T)
    BY <2>1, FS_Interval
  <2>3. Cardinality(T) = Cardinality(S)
    BY <2>1, FS_Interval
  <2> QED
    BY <2>2, <2>3
<1>4. rank \in Surjection(S, T)
  <2> HIDE DEF rank, T
  <2> QED
    BY <1>2, <1>3, FS_Injection
<1> QED
  BY <1>1, <1>4 DEF Surjection

-----------------------------------------------------------------------------
(* Folds.  A set of finite sets that holds every finite set whose proper *)
(* subsets it holds, holds them all.                                     *)
LEMMA FiniteInduction ==
    ASSUME NEW S, IsFiniteSet(S), NEW Good,
           \A T \in SUBSET S : (\A U \in SUBSET T : U # T => U \in Good) => T \in Good
    PROVE  \A T \in SUBSET S : T \in Good
<1> DEFINE Bad == {T \in SUBSET S : T \notin Good}
<1> SUFFICES ASSUME Bad # {} PROVE FALSE
  OBVIOUS
<1>1. Bad \subseteq FiniteSubsetsOf(S)
  BY FS_Subset DEF FiniteSubsetsOf
<1>2. PICK T \in Bad : \A U \in Bad : <<U, T>> \notin StrictSubsetOrdering(S)
  <2> DEFINE R == StrictSubsetOrdering(S)
             F == FiniteSubsetsOf(S)
  <2>1. IsWellFoundedOn(R, F)
    BY FS_StrictSubsetOrderingWellFounded
  <2>2. Bad \subseteq F /\ Bad # {}
    BY <1>1
  <2> HIDE DEF Bad, R, F
  <2>3. \E T \in Bad : \A U \in Bad : ~(<<U, T>> \in R)
    BY <2>1, <2>2, WFMin
  <2> QED
    BY <2>3 DEF R
<1>3. \A U \in SUBSET T : U # T => U \in Good
  BY <1>2 DEF StrictSubsetOrdering
<1> QED
  BY <1>3

(* The one way a fold over the values of a function goes: op is "sum" or "product". *)
FoldStep(op, f, x, v) == IF op = "sum" THEN f[x] + v ELSE f[x].rtf * v
FoldBase(op) == IF op = "sum" THEN 0 ELSE 1
Chosen(T) == CHOOSE x \in T : TRUE
IsFold(op, f, S, g) ==
    g = [T \in SUBSET S |-> IF T = {} THEN FoldBase(op) ELSE FoldStep(op, f, Chosen(T), g[T \ {Chosen(T)}])]
FoldOf(op, f, S) == (CHOOSE g : IsFold(op, f, S, g))[S]
SumOn(f, S) == FoldOf("sum", f, S)

LEMMA SumIsFold ==
    ASSUME NEW f, NEW S PROVE FoldFunctionOnSet(+, 0, f, S) = SumOn(f, S)
  BY Zenon DEF FoldFunctionOnSet, MapThenFoldSet, SumOn, FoldOf, IsFold, FoldStep, FoldBase, Chosen

LEMMA ChosenIn == \A T : T # {} => Chosen(T) \in T
  BY DEF Chosen

Unfolds(op, f, S, g) ==
    \A T \in SUBSET S :
      g[T] = IF T = {} THEN FoldBase(op) ELSE FoldStep(op, f, Chosen(T), g[T \ {Chosen(T)}])

LEMMA FoldsUnfold == \A op, f, S, g : IsFold(op, f, S, g) => Unfolds(op, f, S, g)
<1> SUFFICES ASSUME NEW op, NEW f, NEW S, NEW g, IsFold(op, f, S, g), NEW T \in SUBSET S
             PROVE  g[T] = IF T = {} THEN FoldBase(op) ELSE FoldStep(op, f, Chosen(T), g[T \ {Chosen(T)}])
  BY Zenon DEF Unfolds
<1> DEFINE E(X) == IF X = {} THEN FoldBase(op) ELSE FoldStep(op, f, Chosen(X), g[X \ {Chosen(X)}])
<1>1. g = [X \in SUBSET S |-> E(X)]
  BY DEF IsFold
<1> HIDE DEF E
<1>2. g[T] = E(T)
  BY <1>1
<1> QED
  BY <1>2 DEF E

(* Two folds agree on the sets on which both are defined and on which their functions do. *)
LEMMA FoldsAgree ==
    ASSUME NEW op, NEW f, NEW e, NEW S, NEW R, NEW g, NEW h, Unfolds(op, f, S, g), Unfolds(op, e, R, h),
           IsFiniteSet(S), S \subseteq R, \A x \in S : f[x] = e[x]
    PROVE  \A T \in SUBSET S : g[T] = h[T]
<1> DEFINE Good == {T \in SUBSET S : g[T] = h[T]}
<1>1. ASSUME NEW T \in SUBSET S, \A U \in SUBSET T : U # T => U \in Good
      PROVE  T \in Good
  <2>1. /\ g[T] = IF T = {} THEN FoldBase(op) ELSE FoldStep(op, f, Chosen(T), g[T \ {Chosen(T)}])
        /\ h[T] = IF T = {} THEN FoldBase(op) ELSE FoldStep(op, e, Chosen(T), h[T \ {Chosen(T)}])
    <3>1. T \in SUBSET R
      OBVIOUS
    <3> QED
      BY <3>1 DEF Unfolds
  <2>2. CASE T = {}
    BY <2>1, <2>2
  <2>3. CASE T # {}
    <3>1. Chosen(T) \in T /\ f[Chosen(T)] = e[Chosen(T)]
      BY <2>3, ChosenIn
    <3>2. g[T \ {Chosen(T)}] = h[T \ {Chosen(T)}]
      BY <1>1, <3>1
    <3> QED
      BY <2>1, <2>3, <3>1, <3>2 DEF FoldStep
  <2> QED
    BY <2>2, <2>3
<1> HIDE DEF Good
<1>2. \A T \in SUBSET S : T \in Good
  BY <1>1, FiniteInduction
<1> QED
  BY <1>2 DEF Good

LEMMA FoldExists ==
    ASSUME NEW op, NEW f, NEW S, IsFiniteSet(S)
    PROVE  \A T \in SUBSET S : \E g : IsFold(op, f, T, g)
<1> DEFINE Good == {T \in SUBSET S : \E g : IsFold(op, f, T, g)}
           H(T) == CHOOSE g : IsFold(op, f, T, g)
           Val(T) == IF T = {} THEN FoldBase(op) ELSE FoldStep(op, f, Chosen(T), H(T \ {Chosen(T)})[T \ {Chosen(T)}])
<1>1. ASSUME NEW T \in SUBSET S, \A U \in SUBSET T : U # T => U \in Good
      PROVE  T \in Good
  <2> DEFINE g == [U \in SUBSET T |-> Val(U)]
  <2>1. \A U \in SUBSET T : U # T => IsFold(op, f, U, H(U))
    BY <1>1
  <2>2. ASSUME NEW U \in SUBSET T, U # T PROVE g[U] = H(U)[U]
    <3>1. IsFold(op, f, U, H(U)) /\ U \in SUBSET U
      BY <2>1, <2>2
    <3>2. H(U)[U] = IF U = {} THEN FoldBase(op) ELSE FoldStep(op, f, Chosen(U), H(U)[U \ {Chosen(U)}])
      <4> HIDE DEF H
      <4> QED
        BY <3>1, FoldsUnfold DEF Unfolds
    <3>3. CASE U = {}
      <4> HIDE DEF H
      <4> QED
        BY <3>2, <3>3
    <3>4. CASE U # {}
      <4> DEFINE V == U \ {Chosen(U)}
      <4>1. V \in SUBSET T /\ V # T /\ V \in SUBSET S /\ V \subseteq U
        BY <2>2
      <4>2. IsFold(op, f, V, H(V)) /\ IsFiniteSet(V)
        BY <2>1, <4>1, FS_Subset
      <4>3. H(V)[V] = H(U)[V]
        <5> HIDE DEF H, V
        <5>1. Unfolds(op, f, V, H(V)) /\ Unfolds(op, f, U, H(U))
          BY <3>1, <4>2, FoldsUnfold
        <5> QED
          BY <4>1, <4>2, <5>1, FoldsAgree
      <4>4. g[U] = FoldStep(op, f, Chosen(U), H(V)[V])
        <5> HIDE DEF H
        <5> QED
          BY <3>4
      <4> HIDE DEF H, g
      <4> QED
        BY <3>2, <3>4, <4>3, <4>4
    <3> QED
      BY <3>3, <3>4
  <2>3. ASSUME NEW U \in SUBSET T
        PROVE  g[U] = IF U = {} THEN FoldBase(op) ELSE FoldStep(op, f, Chosen(U), g[U \ {Chosen(U)}])
    <3> DEFINE V == U \ {Chosen(U)}
    <3>1. g[U] = IF U = {} THEN FoldBase(op) ELSE FoldStep(op, f, Chosen(U), H(V)[V])
      <4> HIDE DEF H
      <4> QED
        OBVIOUS
    <3>2. CASE U = {}
      <4> HIDE DEF H, g
      <4> QED
        BY <3>1, <3>2
    <3>3. CASE U # {}
      <4>1. V \in SUBSET T /\ V # T
        BY <3>3, ChosenIn
      <4> HIDE DEF H, g
      <4> QED
        BY <2>2, <3>1, <3>3, <4>1
    <3> QED
      BY <3>2, <3>3
  <2>4. g = [U \in SUBSET T |-> g[U]]
    <3> HIDE DEF Val
    <3> QED
      OBVIOUS
  <2> HIDE DEF g
  <2>5. g = [U \in SUBSET T |-> IF U = {} THEN FoldBase(op) ELSE FoldStep(op, f, Chosen(U), g[U \ {Chosen(U)}])]
    <3> DEFINE E(U) == IF U = {} THEN FoldBase(op) ELSE FoldStep(op, f, Chosen(U), g[U \ {Chosen(U)}])
    <3>1. \A U \in SUBSET T : g[U] = E(U)
      BY <2>3
    <3> HIDE DEF E
    <3>2. g = [U \in SUBSET T |-> E(U)]
      BY <2>4, <3>1
    <3> QED
      BY <3>2 DEF E
  <2>6. IsFold(op, f, T, g)
    BY <2>5 DEF IsFold
  <2> QED
    BY <2>6
<1> HIDE DEF Good
<1>2. \A T \in SUBSET S : T \in Good
  BY <1>1, FiniteInduction
<1> QED
  BY <1>2 DEF Good

(* The fold over a set of a function that is defined on it and maybe beyond. *)
LEMMA FoldUnfolds ==
    ASSUME NEW op, NEW f, NEW S, IsFiniteSet(S)
    PROVE  FoldOf(op, f, S) = IF S = {} THEN FoldBase(op) ELSE FoldStep(op, f, Chosen(S), FoldOf(op, f, S \ {Chosen(S)}))
<1> DEFINE g == CHOOSE h : IsFold(op, f, S, h)
           V == S \ {Chosen(S)}
           h == CHOOSE k : IsFold(op, f, V, k)
<1>1. IsFold(op, f, S, g)
  BY FoldExists
<1>2. IsFold(op, f, V, h) /\ IsFiniteSet(V) /\ V \subseteq S
  <2>1. IsFiniteSet(V)
    BY FS_Subset
  <2> QED
    BY <2>1, FoldExists
<1>3. FoldOf(op, f, S) = g[S] /\ FoldOf(op, f, V) = h[V]
  BY Zenon DEF FoldOf
<1> HIDE DEF g, h, V
<1>4. h[V] = g[V]
  <2>1. Unfolds(op, f, V, h) /\ Unfolds(op, f, S, g)
    BY <1>1, <1>2, FoldsUnfold
  <2> QED
    BY <1>2, <2>1, FoldsAgree
<1>5. Unfolds(op, f, S, g)
  BY <1>1, FoldsUnfold
<1>6. g[S] = IF S = {} THEN FoldBase(op) ELSE FoldStep(op, f, Chosen(S), g[V])
  BY <1>5 DEF V, Unfolds
<1> QED
  BY <1>3, <1>4, <1>6 DEF V

LEMMA FoldAgrees ==
    ASSUME NEW op, NEW f, NEW e, NEW S, IsFiniteSet(S), \A x \in S : f[x] = e[x]
    PROVE  FoldOf(op, f, S) = FoldOf(op, e, S)
<1> DEFINE g == CHOOSE h : IsFold(op, f, S, h)
           k == CHOOSE h : IsFold(op, e, S, h)
<1>1. IsFold(op, f, S, g) /\ IsFold(op, e, S, k)
  BY FoldExists
<1>2. FoldOf(op, f, S) = g[S] /\ FoldOf(op, e, S) = k[S]
  BY Zenon DEF FoldOf
<1> HIDE DEF g, k
<1>3. g[S] = k[S]
  <2>1. Unfolds(op, f, S, g) /\ Unfolds(op, e, S, k)
    BY <1>1, FoldsUnfold
  <2> QED
    BY <2>1, FoldsAgree
<1> QED
  BY <1>2, <1>3

-----------------------------------------------------------------------------
(* Sums *)
LEMMA SumUnfolds ==
    ASSUME NEW f, NEW S, IsFiniteSet(S)
    PROVE  SumOn(f, S) = IF S = {} THEN 0 ELSE f[Chosen(S)] + SumOn(f, S \ {Chosen(S)})
  BY FoldUnfolds DEF SumOn, FoldBase, FoldStep

LEMMA SumTyped ==
    ASSUME NEW f, NEW S, IsFiniteSet(S), \A x \in S : f[x] \in Int
    PROVE  \A T \in SUBSET S : SumOn(f, T) \in Int
<1> DEFINE Good == {T \in SUBSET S : SumOn(f, T) \in Int}
<1>1. ASSUME NEW T \in SUBSET S, \A U \in SUBSET T : U # T => U \in Good
      PROVE  T \in Good
  <2>1. SumOn(f, T) = IF T = {} THEN 0 ELSE f[Chosen(T)] + SumOn(f, T \ {Chosen(T)})
    <3>1. IsFiniteSet(T)
      BY FS_Subset
    <3> QED
      BY <3>1, SumUnfolds
  <2>2. CASE T = {}
    BY <2>1, <2>2
  <2>3. CASE T # {}
    <3>1. Chosen(T) \in T /\ T \ {Chosen(T)} \in Good
      BY <1>1, <2>3, ChosenIn
    <3> QED
      BY <2>1, <2>3, <3>1
  <2> QED
    BY <2>2, <2>3
<1> HIDE DEF Good
<1>2. \A T \in SUBSET S : T \in Good
  BY <1>1, FiniteInduction
<1> QED
  BY <1>2 DEF Good

(* Any member may be split off. *)
LEMMA SumSplits ==
    ASSUME NEW f, NEW S, IsFiniteSet(S), \A x \in S : f[x] \in Int
    PROVE  \A T \in SUBSET S : \A y \in T : SumOn(f, T) = f[y] + SumOn(f, T \ {y})
<1> DEFINE Good == {T \in SUBSET S : \A y \in T : SumOn(f, T) = f[y] + SumOn(f, T \ {y})}
<1>1. ASSUME NEW T \in SUBSET S, \A U \in SUBSET T : U # T => U \in Good
      PROVE  T \in Good
  <2> SUFFICES ASSUME NEW y \in T PROVE SumOn(f, T) = f[y] + SumOn(f, T \ {y})
    OBVIOUS
  <2> DEFINE x == Chosen(T)
  <2>1. SumOn(f, T) = f[x] + SumOn(f, T \ {x}) /\ x \in T
    <3>1. IsFiniteSet(T) /\ T # {}
      BY FS_Subset
    <3> QED
      BY <3>1, SumUnfolds, ChosenIn
  <2> HIDE DEF x
  <2>2. CASE x = y
    BY <2>1, <2>2
  <2>3. CASE x # y
    <3>1. T \ {x} \in Good /\ T \ {y} \in Good /\ y \in T \ {x} /\ x \in T \ {y}
      BY <1>1, <2>1, <2>3
    <3>2. /\ SumOn(f, T \ {x}) = f[y] + SumOn(f, (T \ {x}) \ {y})
          /\ SumOn(f, T \ {y}) = f[x] + SumOn(f, (T \ {y}) \ {x})
      BY <3>1
    <3>3. (T \ {x}) \ {y} = (T \ {y}) \ {x}
      OBVIOUS
    <3>4. SumOn(f, (T \ {x}) \ {y}) \in Int /\ f[x] \in Int /\ f[y] \in Int
      BY <2>1, SumTyped
    <3>5. SumOn(f, T \ {y}) = f[x] + SumOn(f, (T \ {x}) \ {y})
      BY <3>2, <3>3
    <3>6. SumOn(f, T) = f[x] + (f[y] + SumOn(f, (T \ {x}) \ {y}))
      BY <2>1, <3>2
    <3> QED
      BY <3>4, <3>5, <3>6
  <2> QED
    BY <2>2, <2>3
<1> HIDE DEF Good
<1>2. \A T \in SUBSET S : T \in Good
  BY <1>1, FiniteInduction
<1> QED
  BY <1>2 DEF Good

(* The sum over a finite set: none, one taken off, and an integer. *)
LEMMA SumIs ==
    ASSUME NEW f, NEW S, IsFiniteSet(S), \A x \in S : f[x] \in Int
    PROVE  /\ SumOn(f, S) \in Int
           /\ S = {} => SumOn(f, S) = 0
           /\ \A y \in S : SumOn(f, S) = f[y] + SumOn(f, S \ {y})
<1>1. \A T \in SUBSET S : SumOn(f, T) \in Int
  BY SumTyped
<1>2. \A T \in SUBSET S : \A y \in T : SumOn(f, T) = f[y] + SumOn(f, T \ {y})
  BY SumSplits
<1>3. S = {} => SumOn(f, S) = 0
  BY SumUnfolds
<1>4. \A y \in S : SumOn(f, S) = f[y] + SumOn(f, S \ {y})
  BY <1>2
<1> QED
  BY <1>1, <1>3, <1>4

(* Sums of two functions, the one nowhere above the other. *)
LEMMA SumBelow ==
    ASSUME NEW f, NEW g, NEW S, IsFiniteSet(S),
           \A x \in S : f[x] \in Int /\ g[x] \in Int /\ f[x] <= g[x]
    PROVE  SumOn(f, S) <= SumOn(g, S)
<1> DEFINE Good == {T \in SUBSET S : SumOn(f, T) <= SumOn(g, T)}
<1>1. ASSUME NEW T \in SUBSET S, \A U \in SUBSET T : U # T => U \in Good
      PROVE  T \in Good
  <2>1. IsFiniteSet(T)
    BY FS_Subset
  <2>2. CASE T = {}
    <3>1. SumOn(f, T) = 0 /\ SumOn(g, T) = 0
      BY <2>1, <2>2, SumUnfolds
    <3> QED
      BY <3>1
  <2>3. CASE T # {}
    <3>1. PICK y \in T : TRUE
      BY <2>3
    <3>2. SumOn(f, T) = f[y] + SumOn(f, T \ {y}) /\ SumOn(g, T) = g[y] + SumOn(g, T \ {y})
      BY SumSplits
    <3>3. T \ {y} \in Good /\ SumOn(f, T \ {y}) \in Int /\ SumOn(g, T \ {y}) \in Int
      BY <1>1, <3>1, SumTyped
    <3>4. SumOn(f, T \ {y}) <= SumOn(g, T \ {y}) /\ f[y] \in Int /\ g[y] \in Int /\ f[y] <= g[y]
      BY <3>3
    <3>5. f[y] + SumOn(f, T \ {y}) <= g[y] + SumOn(g, T \ {y})
      BY <3>3, <3>4
    <3> QED
      BY <3>2, <3>5
  <2> QED
    BY <2>2, <2>3
<1> HIDE DEF Good
<1>2. S \in Good
  BY <1>1, FiniteInduction
<1> QED
  BY <1>2 DEF Good

LEMMA SumOfNothing ==
    ASSUME NEW f, NEW S, IsFiniteSet(S), \A x \in S : f[x] = 0
    PROVE  SumOn(f, S) = 0
<1> DEFINE Good == {T \in SUBSET S : SumOn(f, T) = 0}
<1>1. ASSUME NEW T \in SUBSET S, \A U \in SUBSET T : U # T => U \in Good
      PROVE  T \in Good
  <2>1. IsFiniteSet(T)
    BY FS_Subset
  <2>2. CASE T = {}
    BY <2>1, <2>2, SumUnfolds
  <2>3. CASE T # {}
    <3>1. SumOn(f, T) = f[Chosen(T)] + SumOn(f, T \ {Chosen(T)}) /\ Chosen(T) \in T
      BY <2>1, <2>3, SumUnfolds, ChosenIn
    <3>2. T \ {Chosen(T)} \in Good
      BY <1>1, <3>1
    <3> QED
      BY <3>1, <3>2
  <2> QED
    BY <2>2, <2>3
<1> HIDE DEF Good
<1>2. S \in Good
  BY <1>1, FiniteInduction
<1> QED
  BY <1>2 DEF Good

LEMMA SumIsNat ==
    ASSUME NEW f, NEW S, IsFiniteSet(S), \A x \in S : f[x] \in Nat
    PROVE  SumOn(f, S) \in Nat
<1> DEFINE zero == [x \in S |-> 0]
<1>1. \A x \in S : zero[x] = 0 /\ f[x] \in Int /\ zero[x] \in Int /\ zero[x] <= f[x]
  OBVIOUS
<1> HIDE DEF zero
<1>2. SumOn(zero, S) = 0 /\ SumOn(zero, S) <= SumOn(f, S) /\ SumOn(f, S) \in Int
  BY <1>1, SumOfNothing, SumBelow, SumIs
<1> QED
  BY <1>2

LEMMA SumOfDifferences ==
    ASSUME NEW f, NEW g, NEW d, NEW S, IsFiniteSet(S),
           \A x \in S : f[x] \in Int /\ g[x] \in Int /\ d[x] = f[x] - g[x]
    PROVE  SumOn(d, S) = SumOn(f, S) - SumOn(g, S)
<1> DEFINE Good == {T \in SUBSET S : SumOn(d, T) = SumOn(f, T) - SumOn(g, T)}
<1>0. \A x \in S : d[x] \in Int
  OBVIOUS
<1>1. ASSUME NEW T \in SUBSET S, \A U \in SUBSET T : U # T => U \in Good
      PROVE  T \in Good
  <2>1. IsFiniteSet(T)
    BY FS_Subset
  <2>2. CASE T = {}
    <3>1. SumOn(f, T) = 0 /\ SumOn(g, T) = 0 /\ SumOn(d, T) = 0
      BY <2>1, <2>2, SumUnfolds
    <3> QED
      BY <3>1
  <2>3. CASE T # {}
    <3>1. PICK y \in T : TRUE
      BY <2>3
    <3>2. /\ SumOn(f, T) = f[y] + SumOn(f, T \ {y}) /\ SumOn(g, T) = g[y] + SumOn(g, T \ {y})
          /\ SumOn(d, T) = d[y] + SumOn(d, T \ {y})
      BY <1>0, SumSplits
    <3>3. T \ {y} \in Good /\ SumOn(f, T \ {y}) \in Int /\ SumOn(g, T \ {y}) \in Int
      BY <1>1, <3>1, SumTyped
    <3>4. SumOn(d, T \ {y}) = SumOn(f, T \ {y}) - SumOn(g, T \ {y})
      BY <3>3
    <3>5. f[y] \in Int /\ g[y] \in Int /\ d[y] = f[y] - g[y]
      BY <3>1
    <3>6. d[y] + SumOn(d, T \ {y}) = (f[y] + SumOn(f, T \ {y})) - (g[y] + SumOn(g, T \ {y}))
      BY <3>3, <3>4, <3>5
    <3> QED
      BY <3>2, <3>6
  <2> QED
    BY <2>2, <2>3
<1> HIDE DEF Good
<1>2. S \in Good
  BY <1>1, FiniteInduction
<1> QED
  BY <1>2 DEF Good

(* Chosen value changed changes the sum by as much. *)
LEMMA SumChanges ==
    ASSUME NEW f, NEW g, NEW S, IsFiniteSet(S), NEW y \in S,
           \A x \in S : f[x] \in Int /\ g[x] \in Int, \A x \in S \ {y} : g[x] = f[x]
    PROVE  SumOn(g, S) = SumOn(f, S) + (g[y] - f[y])
<1>1. SumOn(f, S) = f[y] + SumOn(f, S \ {y}) /\ SumOn(g, S) = g[y] + SumOn(g, S \ {y})
  BY SumIs
<1>2. IsFiniteSet(S \ {y})
  BY FS_Subset
<1>3. SumOn(f, S \ {y}) = SumOn(g, S \ {y})
  BY <1>2, FoldAgrees DEF SumOn
<1>4. SumOn(f, S \ {y}) \in Int /\ f[y] \in Int /\ g[y] \in Int
  BY SumTyped
<1> QED
  BY <1>1, <1>3, <1>4

(* A product of positive factors is no less than any of them. *)
LEMMA ProductAbove ==
    ASSUME NEW p, NEW S, IsFiniteSet(S), \A x \in S : p[x].rtf \in Nat \ {0}
    PROVE  FoldOf("product", p, S) \in Nat \ {0} /\ \A x \in S : p[x].rtf <= FoldOf("product", p, S)
<1> DEFINE F(T) == FoldOf("product", p, T)
           Good == {T \in SUBSET S : F(T) \in Nat \ {0} /\ \A x \in T : p[x].rtf <= F(T)}
<1>1. ASSUME NEW T \in SUBSET S, \A U \in SUBSET T : U # T => U \in Good
      PROVE  T \in Good
  <2>1. F(T) = IF T = {} THEN 1 ELSE p[Chosen(T)].rtf * F(T \ {Chosen(T)})
    <3>1. IsFiniteSet(T)
      BY FS_Subset
    <3> QED
      BY <3>1, FoldUnfolds DEF FoldBase, FoldStep
  <2>2. CASE T = {}
    BY <2>1, <2>2
  <2>3. CASE T # {}
    <3> DEFINE c == Chosen(T)
    <3>1. c \in T /\ T \ {c} \in Good
      BY <1>1, <2>3, ChosenIn
    <3> DEFINE a == p[c].rtf
               b == F(T \ {c})
    <3>2. F(T) = a * b /\ a \in Nat \ {0} /\ b \in Nat \ {0} /\ \A x \in T \ {c} : p[x].rtf <= b
      BY <2>1, <2>3, <3>1
    <3>3. \A x \in T : p[x].rtf \in Nat /\ (x = c => p[x].rtf = a)
      OBVIOUS
    <3> HIDE DEF a, b, c, F
    <3>4. a * b \in Nat \ {0} /\ a <= a * b /\ b <= a * b
      BY <3>2
    <3>5. \A x \in T : p[x].rtf <= a * b
      BY <3>2, <3>3, <3>4
    <3> QED
      BY <3>2, <3>4, <3>5
  <2> QED
    BY <2>2, <2>3
<1> HIDE DEF Good
<1>2. S \in Good
  BY <1>1, FiniteInduction
<1> QED
  BY <1>2 DEF Good

(* A finite set has a member with the greatest value. *)
LEMMA Greatest ==
    ASSUME NEW f, NEW S, IsFiniteSet(S), S # {}, \A x \in S : f[x] \in Int
    PROVE  \E x \in S : \A y \in S : f[y] <= f[x]
<1> DEFINE Good == {T \in SUBSET S : T # {} => \E x \in T : \A y \in T : f[y] <= f[x]}
<1>1. ASSUME NEW T \in SUBSET S, \A U \in SUBSET T : U # T => U \in Good
      PROVE  T \in Good
  <2> SUFFICES ASSUME NEW z \in T PROVE \E x \in T : \A y \in T : f[y] <= f[x]
    OBVIOUS
  <2>1. CASE T \ {z} = {}
    <3>1. \A y \in T : f[y] <= f[z]
      BY <2>1
    <3> QED
      BY <3>1
  <2>2. CASE T \ {z} # {}
    <3>1. T \ {z} \in Good
      BY <1>1
    <3>2. PICK m \in T \ {z} : \A y \in T \ {z} : f[y] <= f[m]
      BY <2>2, <3>1
    <3>3. f[m] \in Int /\ f[z] \in Int /\ \A y \in T : f[y] \in Int
      OBVIOUS
    <3>4. CASE f[z] <= f[m]
      <4>1. \A y \in T : f[y] <= f[m]
        BY <3>2, <3>4
      <4> QED
        BY <4>1
    <3>5. CASE ~ (f[z] <= f[m])
      <4>1. \A y \in T : f[y] <= f[z]
        BY <3>2, <3>3, <3>5
      <4> QED
        BY <4>1
    <3> QED
      BY <3>4, <3>5
  <2> QED
    BY <2>1, <2>2
<1> HIDE DEF Good
<1>2. S \in Good
  BY <1>1, FiniteInduction
<1> QED
  BY <1>2 DEF Good

(* Numbers that are not negative need not be finitely many to have a least one. *)
LEMMA LeastNumber ==
    ASSUME NEW S \in SUBSET Nat, S # {}
    PROVE  Min(S) \in S /\ \A k \in S : Min(S) <= k
<1>1. PICK x \in S : \A y \in S : <<y, x>> \notin OpToRel(<, Nat)
  BY NatLessThanWellFounded, WFMin, Zenon
<1>2. ASSUME NEW y \in S PROVE x <= y
  <2>1. x \in Nat /\ y \in Nat /\ <<y, x>> \notin OpToRel(<, Nat)
    BY <1>1
  <2> QED
    BY <2>1 DEF OpToRel
<1> QED
  BY <1>2 DEF Min

LEMMA Least ==
    ASSUME NEW f, NEW S, S # {}, \A x \in S : f[x] \in Nat
    PROVE  \E x \in S : \A y \in S : f[x] <= f[y]
<1> DEFINE T == {f[x] : x \in S}
<1>1. T \in SUBSET Nat /\ T # {}
  OBVIOUS
<1>2. Min(T) \in T /\ \A k \in T : Min(T) <= k
  <2> HIDE DEF T
  <2> QED
    BY <1>1, LeastNumber
<1>3. PICK x \in S : f[x] = Min(T)
  BY <1>2
<1> QED
  BY <1>2, <1>3

LEMMA TwoCompared ==
    ASSUME NEW a \in Int, NEW b \in Int
    PROVE  /\ Max({a, b}) = IF a >= b THEN a ELSE b
           /\ Min({a, b}) = IF a <= b THEN a ELSE b
<1>1. \E x \in {a, b} : \A y \in {a, b} : x >= y
  OBVIOUS
<1>2. \E x \in {a, b} : \A y \in {a, b} : x <= y
  OBVIOUS
<1>3. Max({a, b}) \in {a, b} /\ Max({a, b}) >= a /\ Max({a, b}) >= b
  BY <1>1 DEF Max
<1>4. Min({a, b}) \in {a, b} /\ Min({a, b}) <= a /\ Min({a, b}) <= b
  BY <1>2 DEF Min
<1> QED
  BY <1>3, <1>4

LEMMA Products ==
    ASSUME NEW a \in Nat, NEW b \in Nat
    PROVE  a * b \in Nat /\ (a # 0 /\ b # 0 => a * b # 0 /\ a <= a * b /\ b <= a * b)
  OBVIOUS

(* A set listed without a gap or a double by the numbers from a to b. *)
LEMMA Listed ==
    ASSUME NEW a \in Int, NEW b \in Int, NEW T, NEW f \in [a .. b -> T],
           \A m, n \in a .. b : f[m] = f[n] => m = n,
           \A x \in T : \E n \in a .. b : f[n] = x
    PROVE  IsFiniteSet(T) /\ Cardinality(T) = IF a > b THEN 0 ELSE b - a + 1
<1> DEFINE S == a .. b
<1>1. f \in Bijection(S, T)
  BY DEF Bijection, Injection, Surjection, IsInjective
<1>2. ExistsBijection(S, T)
  BY <1>1 DEF ExistsBijection
<1>3. IsFiniteSet(S) /\ Cardinality(S) = IF a > b THEN 0 ELSE b - a + 1
  BY FS_Interval
<1> HIDE DEF S
<1> QED
  BY <1>2, <1>3, FS_Bijection

=============================================================================

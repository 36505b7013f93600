----------------------------- MODULE SumProofs -----------------------------
(***************************************************************************)
(* Sums over finite sets, as the community modules define them: the        *)
(* recursion that defines SumFunctionOnSet has a solution, and what the    *)
(* proofs about the ledger need to know of it.                             *)
(*                                                                         *)
(* The library's induction theorems take an operator.  Induction is        *)
(* therefore stated here about a set C of sets, and comes from the theorem *)
(* that a well-founded relation has minimal elements.                      *)
(***************************************************************************)
EXTENDS Functions, FiniteSetTheorems, TLAPS

\* Induction over the subsets of a finite set S: a family that contains each subset when
\* it contains the smaller ones contains S.
LEMMA SubsetInduction ==
  ASSUME NEW S, IsFiniteSet(S), NEW C,
         \A T \in SUBSET S : (\A U \in (SUBSET T) \ {T} : U \in C) => T \in C
  PROVE  \A T \in SUBSET S : T \in C
<1> DEFINE R == StrictSubsetOrdering(S)
           B == (SUBSET S) \ C
<1>1. IsWellFoundedOn(R, SUBSET S)
  BY FS_StrictSubsetOrderingWellFounded, FS_FiniteSubsetsOfFinite
<1>2. ASSUME B # {} PROVE FALSE
  <2>1. \E T \in B : \A U \in B : ~(<<U, T>> \in R)
    <3>1. B \subseteq SUBSET S OBVIOUS
    <3> HIDE DEF R, B
    <3> QED BY <3>1, <1>1, <1>2, WFMin
  <2>2. PICK T \in B : \A U \in B : ~(<<U, T>> \in R)
    BY <2>1
  <2>3. \A U \in (SUBSET T) \ {T} : <<U, T>> \in R
    BY DEF StrictSubsetOrdering
  <2>4. \A U \in (SUBSET T) \ {T} : U \in C
    <3>1. SUFFICES ASSUME NEW U \in (SUBSET T) \ {T}, U \notin C PROVE FALSE
      OBVIOUS
    <3>2. U \in B
      BY <3>1
    <3> QED BY <2>2, <2>3, <3>2
  <2> QED BY <2>4
<1> QED BY <1>2

\* The element that the sum takes first.
Chosen(S) == CHOOSE x \in S : TRUE

\* g solves the recursion on the subsets of S.
Solves(g, f, S) ==
  g = [T \in SUBSET S |-> IF T = {} THEN 0 ELSE f[Chosen(T)] + g[T \ {Chosen(T)}]]

\* The sum is the value at S of a chosen solution.
LEMMA SumIsChosen ==
  ASSUME NEW f, NEW S
  PROVE  SumFunctionOnSet(f, S) = (CHOOSE g : Solves(g, f, S))[S]
BY DEF SumFunctionOnSet, FoldFunctionOnSet, MapThenFoldSet, Solves, Chosen

\* A non-empty set has it.
LEMMA ChosenIsIn == ASSUME NEW S, S # {} PROVE Chosen(S) \in S
BY DEF Chosen

\* A solution satisfies the recursion on each subset.
LEMMA SolutionAt ==
  ASSUME NEW f, NEW S, NEW g, Solves(g, f, S)
  PROVE  \A T \in SUBSET S : g[T] = IF T = {} THEN 0 ELSE f[Chosen(T)] + g[T \ {Chosen(T)}]
<1> DEFINE h == [U \in SUBSET S |-> IF U = {} THEN 0 ELSE f[Chosen(U)] + g[U \ {Chosen(U)}]]
<1>1. g = h BY DEF Solves
<1>2. \A T \in SUBSET S : h[T] = IF T = {} THEN 0 ELSE f[Chosen(T)] + g[T \ {Chosen(T)}]
  OBVIOUS
<1> HIDE DEF h
<1> QED BY <1>1, <1>2

\* Two solutions agree where both are defined.
LEMMA SolutionsAgree ==
  ASSUME NEW f, NEW S, IsFiniteSet(S), NEW g, Solves(g, f, S),
         NEW V, NEW h, Solves(h, f, V), S \subseteq V
  PROVE  \A T \in SUBSET S : g[T] = h[T]
<1>g. \A T \in SUBSET S : g[T] = IF T = {} THEN 0 ELSE f[Chosen(T)] + g[T \ {Chosen(T)}]
  BY ONLY SolutionAt, Solves(g, f, S)
<1>h. \A T \in SUBSET V : h[T] = IF T = {} THEN 0 ELSE f[Chosen(T)] + h[T \ {Chosen(T)}]
  BY ONLY SolutionAt, Solves(h, f, V)
<1> DEFINE C == {T \in SUBSET S : g[T] = h[T]}
<1>1. ASSUME NEW T \in SUBSET S, \A U \in (SUBSET T) \ {T} : U \in C
      PROVE  T \in C
  <2>1. g[T] = IF T = {} THEN 0 ELSE f[Chosen(T)] + g[T \ {Chosen(T)}]
    BY <1>g
  <2>2. h[T] = IF T = {} THEN 0 ELSE f[Chosen(T)] + h[T \ {Chosen(T)}]
    BY <1>h
  <2>3. CASE T = {}
    BY <2>1, <2>2, <2>3
  <2>4. CASE T # {}
    <3>1. T \ {Chosen(T)} \in (SUBSET T) \ {T}
      BY <2>4, ChosenIsIn
    <3>2. g[T \ {Chosen(T)}] = h[T \ {Chosen(T)}]
      BY <3>1, <1>1
    <3> QED BY <2>1, <2>2, <2>4, <3>2
  <2> QED BY <2>3, <2>4
<1>2. \A T \in SUBSET S : T \in C
  <2> HIDE DEF C
  <2> QED BY <1>1, SubsetInduction
<1> QED BY <1>2

\* A finite set has a solution.
LEMMA SolutionExists ==
  ASSUME NEW f, NEW S, IsFiniteSet(S)
  PROVE  \E g : Solves(g, f, S)
<1> DEFINE C == {T \in SUBSET S : \E g : Solves(g, f, T)}
<1>1. ASSUME NEW T \in SUBSET S, \A U \in (SUBSET T) \ {T} : U \in C
      PROVE  T \in C
  <2> DEFINE G(U) == CHOOSE g : Solves(g, f, U)
             Less(U) == U \ {Chosen(U)}
             g == [U \in SUBSET T |-> IF U = {} THEN 0 ELSE f[Chosen(U)] + G(Less(U))[Less(U)]]
  <2>1. \A U \in (SUBSET T) \ {T} : Solves(G(U), f, U)
    BY <1>1
  <2>2. ASSUME NEW U \in SUBSET T, U # {}
        PROVE  g[Less(U)] = G(Less(U))[Less(U)]
    <3>1. Less(U) \in (SUBSET T) \ {T}
      BY <2>2, ChosenIsIn
    <3>2. Solves(G(Less(U)), f, Less(U))
      BY <3>1, <2>1
    <3> DEFINE W == Less(U)
    <3>3. G(W)[W] = IF W = {} THEN 0 ELSE f[Chosen(W)] + G(W)[Less(W)]
      <4>1. W \in SUBSET W OBVIOUS
      <4> HIDE DEF G, W
      <4>2. G(W)[W] = IF W = {} THEN 0 ELSE f[Chosen(W)] + G(W)[W \ {Chosen(W)}]
        <5>1. Solves(G(W), f, W) BY <3>2 DEF W
        <5> QED BY <5>1, <4>1, SolutionAt
      <4> QED BY <4>2
    <3>4. g[W] = IF W = {} THEN 0 ELSE f[Chosen(W)] + G(Less(W))[Less(W)]
      BY <3>1
    <3>5. CASE W = {}
      BY <3>3, <3>4, <3>5
    <3>6. CASE W # {}
      <4>1. Less(W) \in (SUBSET T) \ {T} /\ Less(W) \subseteq W
        BY <3>1
      <4>2. Solves(G(Less(W)), f, Less(W))
        BY <4>1, <2>1
      <4>3. IsFiniteSet(Less(W))
        BY <4>1, FS_Subset
      <4>4. G(Less(W))[Less(W)] = G(W)[Less(W)]
        <5> HIDE DEF G, Less
        <5> QED BY <3>2, <4>1, <4>2, <4>3, SolutionsAgree
      <4> QED BY <3>3, <3>4, <3>6, <4>4
    <3> QED BY <3>5, <3>6
  <2>3. g = [U \in SUBSET T |-> IF U = {} THEN 0 ELSE f[Chosen(U)] + g[Less(U)]]
    <3> DEFINE h == [U \in SUBSET T |-> IF U = {} THEN 0 ELSE f[Chosen(U)] + g[Less(U)]]
    <3>1. \A U \in SUBSET T : g[U] = IF U = {} THEN 0 ELSE f[Chosen(U)] + G(Less(U))[Less(U)]
      OBVIOUS
    <3>2. \A U \in SUBSET T : g[U] = h[U]
      <4> HIDE DEF G, g, Less
      <4> QED BY <2>2, <3>1
    <3>3. DOMAIN g = SUBSET T /\ DOMAIN h = SUBSET T /\ g = [U \in DOMAIN g |-> g[U]] /\ h = [U \in DOMAIN h |-> h[U]]
      OBVIOUS
    <3> HIDE DEF g, h
    <3>4. g = h BY <3>2, <3>3
    <3> QED BY <3>4 DEF h
  <2>4. Solves(g, f, T)
    BY <2>3 DEF Solves
  <2> QED BY <2>4
<1>2. \A T \in SUBSET S : T \in C
  <2> HIDE DEF C
  <2> QED BY <1>1, SubsetInduction
<1>3. S \in C
  BY <1>2
<1> QED BY <1>3

\* The sum over the empty set.
LEMMA SumEmpty ==
  ASSUME NEW f
  PROVE  SumFunctionOnSet(f, {}) = 0
<1> DEFINE g == CHOOSE g : Solves(g, f, {})
<1>1. Solves(g, f, {})
  BY SolutionExists, FS_EmptySet
<1>2. SumFunctionOnSet(f, {}) = g[{}]
  BY SumIsChosen
<1> HIDE DEF g
<1>3. g[{}] = 0
  BY <1>1, SolutionAt
<1> QED BY <1>2, <1>3

\* A sum is its first summand plus the sum of the others.
LEMMA SumStep ==
  ASSUME NEW f, NEW S, IsFiniteSet(S), S # {}
  PROVE  SumFunctionOnSet(f, S) = f[Chosen(S)] + SumFunctionOnSet(f, S \ {Chosen(S)})
<1> DEFINE R == S \ {Chosen(S)}
           g == CHOOSE g : Solves(g, f, S)
           h == CHOOSE h : Solves(h, f, R)
<1>1. IsFiniteSet(R) /\ R \subseteq S
  BY FS_Subset
<1>2. Solves(g, f, S) /\ Solves(h, f, R)
  <2> HIDE DEF R
  <2> QED BY <1>1, SolutionExists
<1>3. SumFunctionOnSet(f, S) = g[S] /\ SumFunctionOnSet(f, R) = h[R]
  <2> HIDE DEF R
  <2> QED BY SumIsChosen
<1> HIDE DEF g, h
<1>4. g[S] = f[Chosen(S)] + g[R]
  BY <1>2, SolutionAt
<1>5. h[R] = g[R]
  <2> HIDE DEF R
  <2> QED BY <1>1, <1>2, SolutionsAgree
<1> QED BY <1>3, <1>4, <1>5

\* A sum of naturals is a natural.
LEMMA SumOfNats ==
  ASSUME NEW f, NEW S, IsFiniteSet(S), \A x \in S : f[x] \in Nat
  PROVE  SumFunctionOnSet(f, S) \in Nat
<1> DEFINE C == {T \in SUBSET S : SumFunctionOnSet(f, T) \in Nat}
<1>1. ASSUME NEW T \in SUBSET S, \A U \in (SUBSET T) \ {T} : U \in C
      PROVE  T \in C
  <2>1. CASE T = {}
    BY <2>1, SumEmpty
  <2>2. CASE T # {}
    <3>1. T \ {Chosen(T)} \in C /\ Chosen(T) \in S
      BY <1>1, <2>2, ChosenIsIn
    <3>2. SumFunctionOnSet(f, T) = f[Chosen(T)] + SumFunctionOnSet(f, T \ {Chosen(T)})
      BY <2>2, SumStep, FS_Subset
    <3>3. SumFunctionOnSet(f, T) \in Nat
      BY <3>1, <3>2
    <3> QED BY <3>3
  <2> QED BY <2>1, <2>2
<1>2. \A T \in SUBSET S : T \in C
  <2> HIDE DEF C
  <2> QED BY <1>1, SubsetInduction
<1> QED BY <1>2

\* A common factor of the summands is a factor of the sum.
LEMMA SumOfMultiples ==
  ASSUME NEW f, NEW g, NEW k \in Nat, NEW S, IsFiniteSet(S),
         \A x \in S : g[x] \in Nat /\ f[x] = g[x] * k
  PROVE  SumFunctionOnSet(f, S) = SumFunctionOnSet(g, S) * k
<1> DEFINE C == {T \in SUBSET S : SumFunctionOnSet(f, T) = SumFunctionOnSet(g, T) * k}
<1>1. ASSUME NEW T \in SUBSET S, \A U \in (SUBSET T) \ {T} : U \in C
      PROVE  T \in C
  <2>1. CASE T = {}
    BY <2>1, SumEmpty
  <2>2. CASE T # {}
    <3> DEFINE l == Chosen(T)
               R == T \ {l}
    <3>1. R \in C /\ l \in S /\ IsFiniteSet(T) /\ IsFiniteSet(R)
      BY <1>1, <2>2, ChosenIsIn, FS_Subset
    <3>2. /\ SumFunctionOnSet(f, T) = f[l] + SumFunctionOnSet(f, R)
          /\ SumFunctionOnSet(g, T) = g[l] + SumFunctionOnSet(g, R)
      BY <2>2, <3>1, SumStep
    <3>3. SumFunctionOnSet(g, R) \in Nat
      <4>1. \A x \in R : g[x] \in Nat OBVIOUS
      <4> HIDE DEF R
      <4> QED BY <3>1, <4>1, SumOfNats
    <3>4. SumFunctionOnSet(f, R) = SumFunctionOnSet(g, R) * k
      BY <3>1
    <3>5. f[l] = g[l] * k /\ g[l] \in Nat
      BY <3>1
    <3>6. \A a, b \in Nat : a * k + b * k = (a + b) * k
      OBVIOUS
    <3> HIDE DEF l, R
    <3>7. SumFunctionOnSet(f, T) = SumFunctionOnSet(g, T) * k
      BY <3>2, <3>3, <3>4, <3>5, <3>6
    <3> QED BY <3>7
  <2> QED BY <2>1, <2>2
<1>2. \A T \in SUBSET S : T \in C
  <2> HIDE DEF C
  <2> QED BY <1>1, SubsetInduction
<1> QED BY <1>2

=============================================================================

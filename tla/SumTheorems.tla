---------------------------- MODULE SumTheorems ----------------------------
(***************************************************************************)
(* What the balance equations need to know of SumFunctionOnSet (community  *)
(* module Functions), which adds up the values of a function on a finite   *)
(* set: the order of the summands does not matter, one value may change,   *)
(* zeros do not count.                                                     *)
(*                                                                         *)
(* All of it is induction on the set.  The subsets of a finite set that    *)
(* violate the claim would, if there were any, have a minimal member; its  *)
(* proper subsets satisfy the claim, and one step of the fold gives the    *)
(* contradiction.                                                          *)
(***************************************************************************)
EXTENDS Integers, FiniteSets, FiniteSetTheorems, Functions, TLAPS

-----------------------------------------------------------------------------
(* A sum is a fold: a table over all subsets, read at the whole set. *)

\* The element a fold takes next.
FoldNext(T) == CHOOSE x \in T : TRUE

\* The recursion of a sum, at one set.
FoldStep(g, f, T) == IF T = {} THEN 0 ELSE f[FoldNext(T)] + g[T \ {FoldNext(T)}]

\* g tells the sum of f over every subset of S.
IsSumTable(g, f, S) == g = [T \in SUBSET S |-> FoldStep(g, f, T)]

\* A sum is read from its table.
LEMMA SumFromTable ==
  ASSUME NEW f, NEW S
  PROVE  SumFunctionOnSet(f, S) = (CHOOSE g : IsSumTable(g, f, S))[S]
BY DEF SumFunctionOnSet, FoldFunctionOnSet, MapThenFoldSet, IsSumTable, FoldStep, FoldNext

\* The element is in the set.
LEMMA FoldNextIn ==
  ASSUME NEW T, T # {}
  PROVE  FoldNext(T) \in T
BY DEF FoldNext

\* Induction over finite sets: of the subsets with a property, one is minimal.
LEMMA MinimalSubset ==
  ASSUME NEW S, IsFiniteSet(S), NEW Bad, Bad \subseteq SUBSET S, Bad # {}
  PROVE  \E T \in Bad : \A U \in SUBSET T : U # T => U \notin Bad
<1>1. Bad \subseteq FiniteSubsetsOf(S)
  BY FS_FiniteSubsetsOfFinite
<1>2. PICK T \in Bad : \A U \in Bad : <<U, T>> \notin StrictSubsetOrdering(S)
  BY <1>1, FS_StrictSubsetOrderingWellFounded, WFMin
<1>3. ASSUME NEW U \in SUBSET T, U # T, U \in Bad PROVE FALSE
  <2>1. <<U, T>> \in StrictSubsetOrdering(S)
    BY <1>3 DEF StrictSubsetOrdering
  <2> QED BY <1>2, <1>3, <2>1
<1> QED BY <1>3

\* Two tables agree where both are defined.
LEMMA SumTablesAgree ==
  ASSUME NEW S, IsFiniteSet(S), NEW f, NEW A, NEW B, A \subseteq S, B \subseteq S,
         NEW g, NEW h, IsSumTable(g, f, A), IsSumTable(h, f, B)
  PROVE  \A T \in SUBSET (A \cap B) : g[T] = h[T]
<1> DEFINE Bad == {T \in SUBSET (A \cap B) : g[T] # h[T]}
<1>1. SUFFICES ASSUME Bad # {} PROVE FALSE
  OBVIOUS
<1>2. PICK T \in Bad : \A U \in SUBSET T : U # T => U \notin Bad
  <2>1. Bad \subseteq SUBSET S
    OBVIOUS
  <2> HIDE DEF Bad
  <2> QED BY <1>1, <2>1, MinimalSubset
<1>3. T \in SUBSET A /\ T \in SUBSET B /\ g[T] # h[T]
  BY <1>2
<1>4. g[T] = FoldStep(g, f, T) /\ h[T] = FoldStep(h, f, T)
  BY <1>3 DEF IsSumTable
<1>5. CASE T = {}
  BY <1>3, <1>4, <1>5 DEF FoldStep
<1>6. CASE T # {}
  <2> DEFINE U == T \ {FoldNext(T)}
  <2>1. U \in SUBSET T /\ U # T /\ U \in SUBSET (A \cap B)
    BY <1>3, <1>6, FoldNextIn
  <2>2. g[U] = h[U]
    BY <1>2, <2>1
  <2> QED BY <1>3, <1>4, <1>6, <2>2 DEF FoldStep
<1> QED BY <1>5, <1>6

\* Every finite set has its table.
LEMMA SumTableExists ==
  ASSUME NEW S, IsFiniteSet(S), NEW f
  PROVE  \E g : IsSumTable(g, f, S)
<1> DEFINE Bad == {T \in SUBSET S : ~ \E g : IsSumTable(g, f, T)}
           Of(T) == CHOOSE g : IsSumTable(g, f, T)
<1>1. SUFFICES ASSUME Bad # {} PROVE FALSE
  OBVIOUS
<1>2. PICK T \in Bad : \A U \in SUBSET T : U # T => U \notin Bad
  <2>1. Bad \subseteq SUBSET S
    OBVIOUS
  <2> HIDE DEF Bad
  <2> QED BY <1>1, <2>1, MinimalSubset
<1>3. \A U \in SUBSET T : U # T => IsSumTable(Of(U), f, U)
  <2>1. ASSUME NEW U \in SUBSET T, U # T PROVE IsSumTable(Of(U), f, U)
    <3>1. \E g : IsSumTable(g, f, U)
      BY <1>2, <2>1
    <3> QED BY <3>1
  <2> QED BY <2>1
<1> HIDE DEF Of
<1> DEFINE At(U) == IF U = {} THEN 0 ELSE f[FoldNext(U)] + Of(U \ {FoldNext(U)})[U \ {FoldNext(U)}]
           h == [U \in SUBSET T |-> At(U)]
<1>4. ASSUME NEW U \in SUBSET T PROVE h[U] = FoldStep(h, f, U)
  <2>1. CASE U = {}
    BY <2>1 DEF FoldStep
  <2>2. CASE U # {}
    <3> DEFINE V == U \ {FoldNext(U)}
    <3>1. V \in SUBSET T /\ V # T /\ FoldNext(U) \in U
      BY <2>2, FoldNextIn
    <3>2. h[U] = f[FoldNext(U)] + Of(V)[V]
      BY <2>2
    <3>3. Of(V)[V] = At(V)
      <4>1. IsSumTable(Of(V), f, V)
        BY <1>3, <3>1
      <4>2. Of(V)[V] = FoldStep(Of(V), f, V)
        BY <4>1 DEF IsSumTable
      <4>3. CASE V = {}
        BY <4>2, <4>3 DEF FoldStep
      <4>4. CASE V # {}
        <5> DEFINE W == V \ {FoldNext(V)}
        <5>1. W \in SUBSET T /\ W # T /\ W \in SUBSET (V \cap W)
          BY <3>1
        <5>2. IsSumTable(Of(W), f, W)
          BY <1>3, <5>1
        <5>3. V \subseteq S /\ W \subseteq S
          BY <3>1, <5>1, <1>2
        <5>4. Of(V)[W] = Of(W)[W]
          BY <4>1, <5>1, <5>2, <5>3, SumTablesAgree
        <5> QED BY <4>2, <4>4, <5>4 DEF FoldStep
      <4> QED BY <4>3, <4>4
    <3>4. h[V] = At(V)
      BY <3>1
    <3> QED BY <2>2, <3>2, <3>3, <3>4 DEF FoldStep
  <2> QED BY <2>1, <2>2
<1>5. h = [U \in SUBSET T |-> FoldStep(h, f, U)]
  <2> HIDE DEF At
  <2>1. h = [U \in SUBSET T |-> h[U]]
    OBVIOUS
  <2> HIDE DEF h
  <2> QED BY <1>4, <2>1
<1>6. IsSumTable(h, f, T)
  BY <1>5 DEF IsSumTable
<1> QED BY <1>2, <1>6

-----------------------------------------------------------------------------
(* What is used of a sum. *)

\* A table tells the sum over each subset.
LEMMA SumAt ==
  ASSUME NEW S, IsFiniteSet(S), NEW f, NEW g, IsSumTable(g, f, S), NEW T \in SUBSET S
  PROVE  g[T] = SumFunctionOnSet(f, T)
<1>1. IsFiniteSet(T)
  BY FS_Subset
<1> DEFINE h == CHOOSE h : IsSumTable(h, f, T)
<1>2. IsSumTable(h, f, T)
  BY <1>1, SumTableExists
<1>3. SumFunctionOnSet(f, T) = h[T]
  BY SumFromTable
<1> HIDE DEF h
<1>4. T \subseteq S /\ S \subseteq S /\ T \in SUBSET (S \cap T)
  OBVIOUS
<1> QED BY <1>2, <1>3, <1>4, SumTablesAgree

\* Nothing sums up to nothing.
LEMMA SumEmpty ==
  ASSUME NEW f
  PROVE  SumFunctionOnSet(f, {}) = 0
<1>1. PICK g : IsSumTable(g, f, {})
  BY FS_EmptySet, SumTableExists
<1>2. g[{}] = SumFunctionOnSet(f, {})
  BY <1>1, FS_EmptySet, SumAt
<1>3. g[{}] = 0
  BY <1>1 DEF IsSumTable, FoldStep
<1> QED BY <1>2, <1>3

\* The recursion, at the element the fold takes.
LEMMA SumFirst ==
  ASSUME NEW S, IsFiniteSet(S), S # {}, NEW f
  PROVE  SumFunctionOnSet(f, S) = f[FoldNext(S)] + SumFunctionOnSet(f, S \ {FoldNext(S)})
<1>1. PICK g : IsSumTable(g, f, S)
  BY SumTableExists
<1>2. S \in SUBSET S /\ S \ {FoldNext(S)} \in SUBSET S
  OBVIOUS
<1>3. g[S] = SumFunctionOnSet(f, S)
  BY <1>1, <1>2, SumAt
<1>4. g[S \ {FoldNext(S)}] = SumFunctionOnSet(f, S \ {FoldNext(S)})
  BY <1>1, <1>2, SumAt
<1>5. g[S] = f[FoldNext(S)] + g[S \ {FoldNext(S)}]
  BY <1>1, <1>2 DEF IsSumTable, FoldStep
<1> QED BY <1>3, <1>4, <1>5

\* A sum of integers is one.
LEMMA SumInt ==
  ASSUME NEW S, IsFiniteSet(S), NEW f, \A x \in S : f[x] \in Int
  PROVE  SumFunctionOnSet(f, S) \in Int
<1> DEFINE Bad == {T \in SUBSET S : SumFunctionOnSet(f, T) \notin Int}
<1>1. SUFFICES ASSUME Bad # {} PROVE FALSE
  OBVIOUS
<1>2. PICK T \in Bad : \A U \in SUBSET T : U # T => U \notin Bad
  <2>1. Bad \subseteq SUBSET S
    OBVIOUS
  <2> HIDE DEF Bad
  <2> QED BY <1>1, <2>1, MinimalSubset
<1>3. T \in SUBSET S /\ IsFiniteSet(T) /\ T # {}
  <2>1. SumFunctionOnSet(f, {}) \in Int
    BY SumEmpty
  <2> QED BY <1>2, <2>1, FS_Subset
<1> DEFINE U == T \ {FoldNext(T)}
<1>4. FoldNext(T) \in T /\ U \in SUBSET T /\ U # T /\ U \in SUBSET S
  BY <1>3, FoldNextIn
<1>5. SumFunctionOnSet(f, U) \in Int /\ f[FoldNext(T)] \in Int
  BY <1>2, <1>3, <1>4
<1>6. SumFunctionOnSet(f, T) = f[FoldNext(T)] + SumFunctionOnSet(f, U)
  BY <1>3, SumFirst
<1>7. SumFunctionOnSet(f, T) \in Int
  BY <1>5, <1>6
<1> QED BY <1>2, <1>7

\* The recursion, at any element: the order does not matter.
LEMMA SumPick ==
  ASSUME NEW S, IsFiniteSet(S), NEW f, \A x \in S : f[x] \in Int, NEW e \in S
  PROVE  SumFunctionOnSet(f, S) = f[e] + SumFunctionOnSet(f, S \ {e})
<1> DEFINE Good(T) == \A x \in T : SumFunctionOnSet(f, T) = f[x] + SumFunctionOnSet(f, T \ {x})
           Bad == {T \in SUBSET S : ~Good(T)}
<1>1. SUFFICES ASSUME Bad # {} PROVE FALSE
  <2>1. S \in SUBSET S
    OBVIOUS
  <2> QED BY <2>1
<1>2. PICK T \in Bad : \A U \in SUBSET T : U # T => U \notin Bad
  <2>1. Bad \subseteq SUBSET S
    OBVIOUS
  <2> HIDE DEF Bad
  <2> QED BY <1>1, <2>1, MinimalSubset
<1>3. T \in SUBSET S /\ IsFiniteSet(T)
  BY <1>2, FS_Subset
<1>4. ASSUME NEW x \in T PROVE SumFunctionOnSet(f, T) = f[x] + SumFunctionOnSet(f, T \ {x})
  <2> DEFINE c == FoldNext(T)
             U == T \ {c}
             V == T \ {x}
             W == T \ {c, x}
  <2>1. c \in T /\ SumFunctionOnSet(f, T) = f[c] + SumFunctionOnSet(f, U)
    BY <1>3, <1>4, FoldNextIn, SumFirst
  <2>2. CASE x = c
    BY <2>1, <2>2
  <2>3. CASE x # c
    <3>1. U \in SUBSET T /\ U # T /\ V \in SUBSET T /\ V # T /\ x \in U /\ c \in V
      BY <1>4, <2>1, <2>3
    <3>2. Good(U) /\ Good(V)
      BY <1>2, <1>3, <3>1
    <3>3. U \ {x} = W /\ V \ {c} = W
      OBVIOUS
    <3>4. SumFunctionOnSet(f, U) = f[x] + SumFunctionOnSet(f, W)
      BY <3>1, <3>2, <3>3
    <3>5. SumFunctionOnSet(f, V) = f[c] + SumFunctionOnSet(f, W)
      BY <3>1, <3>2, <3>3
    <3>6. W \in SUBSET S /\ IsFiniteSet(W)
      BY <1>3, FS_Subset
    <3>7. f[x] \in Int /\ f[c] \in Int /\ SumFunctionOnSet(f, W) \in Int
      BY <1>3, <1>4, <2>1, <3>6, SumInt
    <3> HIDE DEF c, U, V, W
    <3>8. SumFunctionOnSet(f, T) = f[x] + SumFunctionOnSet(f, V)
      BY <2>1, <3>4, <3>5, <3>7
    <3> QED BY <3>8 DEF V
  <2> QED BY <2>2, <2>3
<1>5. Good(T)
  BY <1>4
<1> QED BY <1>2, <1>5

\* Only the values in the set count.
LEMMA SumSame ==
  ASSUME NEW S, IsFiniteSet(S), NEW f, NEW g, \A x \in S : f[x] = g[x]
  PROVE  SumFunctionOnSet(f, S) = SumFunctionOnSet(g, S)
<1> DEFINE Bad == {T \in SUBSET S : SumFunctionOnSet(f, T) # SumFunctionOnSet(g, T)}
<1>1. SUFFICES ASSUME Bad # {} PROVE FALSE
  OBVIOUS
<1>2. PICK T \in Bad : \A U \in SUBSET T : U # T => U \notin Bad
  <2>1. Bad \subseteq SUBSET S
    OBVIOUS
  <2> HIDE DEF Bad
  <2> QED BY <1>1, <2>1, MinimalSubset
<1>3. T \in SUBSET S /\ IsFiniteSet(T) /\ T # {}
  BY <1>2, FS_Subset, SumEmpty
<1> DEFINE U == T \ {FoldNext(T)}
<1>4. FoldNext(T) \in T /\ U \in SUBSET T /\ U # T /\ U \in SUBSET S
  BY <1>3, FoldNextIn
<1>5. SumFunctionOnSet(f, U) = SumFunctionOnSet(g, U) /\ f[FoldNext(T)] = g[FoldNext(T)]
  BY <1>2, <1>3, <1>4
<1>6. SumFunctionOnSet(f, T) = f[FoldNext(T)] + SumFunctionOnSet(f, U)
  BY <1>3, SumFirst
<1>7. SumFunctionOnSet(g, T) = g[FoldNext(T)] + SumFunctionOnSet(g, U)
  BY <1>3, SumFirst
<1> QED BY <1>2, <1>5, <1>6, <1>7

\* Zeros do not count.
LEMMA SumZero ==
  ASSUME NEW S, IsFiniteSet(S), NEW f, \A x \in S : f[x] = 0
  PROVE  SumFunctionOnSet(f, S) = 0
<1> DEFINE Bad == {T \in SUBSET S : SumFunctionOnSet(f, T) # 0}
<1>1. SUFFICES ASSUME Bad # {} PROVE FALSE
  OBVIOUS
<1>2. PICK T \in Bad : \A U \in SUBSET T : U # T => U \notin Bad
  <2>1. Bad \subseteq SUBSET S
    OBVIOUS
  <2> HIDE DEF Bad
  <2> QED BY <1>1, <2>1, MinimalSubset
<1>3. T \in SUBSET S /\ IsFiniteSet(T) /\ T # {}
  BY <1>2, FS_Subset, SumEmpty
<1> DEFINE U == T \ {FoldNext(T)}
<1>4. FoldNext(T) \in T /\ U \in SUBSET T /\ U # T /\ U \in SUBSET S
  BY <1>3, FoldNextIn
<1>5. SumFunctionOnSet(f, U) = 0 /\ f[FoldNext(T)] = 0
  BY <1>2, <1>3, <1>4
<1>6. SumFunctionOnSet(f, T) = f[FoldNext(T)] + SumFunctionOnSet(f, U)
  BY <1>3, SumFirst
<1> QED BY <1>2, <1>5, <1>6

\* One value changes.
LEMMA SumChange ==
  ASSUME NEW S, IsFiniteSet(S), NEW f, NEW g, \A x \in S : f[x] \in Int /\ g[x] \in Int,
         NEW e \in S, \A x \in S : x # e => f[x] = g[x]
  PROVE  SumFunctionOnSet(g, S) = SumFunctionOnSet(f, S) + g[e] - f[e]
<1> DEFINE T == S \ {e}
<1>1. IsFiniteSet(T) /\ \A x \in T : f[x] = g[x] /\ f[x] \in Int
  BY FS_Subset
<1>2. SumFunctionOnSet(f, T) = SumFunctionOnSet(g, T)
  BY <1>1, SumSame
<1>3. SumFunctionOnSet(f, T) \in Int
  BY <1>1, SumInt
<1>4. SumFunctionOnSet(f, S) = f[e] + SumFunctionOnSet(f, T)
  BY SumPick
<1>5. SumFunctionOnSet(g, S) = g[e] + SumFunctionOnSet(g, T)
  BY SumPick
<1> HIDE DEF T
<1> QED BY <1>2, <1>3, <1>4, <1>5

\* A part may be summed up with zeros for the rest.
LEMMA SumPart ==
  ASSUME NEW S, IsFiniteSet(S), NEW f, \A x \in S : f[x] \in Int, NEW P \in SUBSET S
  PROVE  SumFunctionOnSet(f, P)
           = SumFunctionOnSet([x \in S |-> IF x \in P THEN f[x] ELSE 0], S)
<1> DEFINE g == [x \in S |-> IF x \in P THEN f[x] ELSE 0]
           Bad == {T \in SUBSET S : SumFunctionOnSet(f, T \cap P) # SumFunctionOnSet(g, T)}
<1>1. SUFFICES ASSUME Bad # {} PROVE FALSE
  <2>1. S \in SUBSET S /\ S \cap P = P
    OBVIOUS
  <2> QED BY <2>1
<1>2. PICK T \in Bad : \A U \in SUBSET T : U # T => U \notin Bad
  <2>1. Bad \subseteq SUBSET S
    OBVIOUS
  <2> HIDE DEF Bad
  <2> QED BY <1>1, <2>1, MinimalSubset
<1>3. T \in SUBSET S /\ IsFiniteSet(T) /\ IsFiniteSet(T \cap P)
  BY <1>2, FS_Subset
<1>4. T # {}
  <2>1. {} \cap P = {}
    OBVIOUS
  <2> QED BY <1>2, <2>1, SumEmpty
<1> DEFINE c == FoldNext(T)
           U == T \ {c}
<1>5. c \in T /\ U \in SUBSET T /\ U # T /\ U \in SUBSET S
  BY <1>3, <1>4, FoldNextIn
<1>6. SumFunctionOnSet(f, U \cap P) = SumFunctionOnSet(g, U)
  BY <1>2, <1>5
<1>7. SumFunctionOnSet(g, T) = g[c] + SumFunctionOnSet(g, U)
  BY <1>3, <1>4, SumFirst
<1>8. IsFiniteSet(U) /\ IsFiniteSet(U \cap P)
  BY <1>3, <1>5, FS_Subset
<1>9. SumFunctionOnSet(f, U \cap P) \in Int
  BY <1>5, <1>8, SumInt
<1>10. CASE c \in P
  <2>1. c \in T \cap P /\ (T \cap P) \ {c} = U \cap P
    BY <1>5, <1>10
  <2>2. SumFunctionOnSet(f, T \cap P) = f[c] + SumFunctionOnSet(f, U \cap P)
    BY <1>3, <2>1, SumPick
  <2>3. g[c] = f[c]
    BY <1>3, <1>5, <1>10
  <2> QED BY <1>2, <1>6, <1>7, <2>2, <2>3
<1>11. CASE c \notin P
  <2>1. T \cap P = U \cap P
    BY <1>11
  <2>2. g[c] = 0
    BY <1>3, <1>5, <1>11
  <2>3. SumFunctionOnSet(f, T \cap P) = SumFunctionOnSet(f, U \cap P)
    BY <2>1
  <2> HIDE DEF g, c, U
  <2>4. SumFunctionOnSet(g, T) = SumFunctionOnSet(g, U)
    BY <1>6, <1>7, <1>9, <2>2
  <2>5. SumFunctionOnSet(f, T \cap P) = SumFunctionOnSet(g, T)
    BY <1>6, <2>3, <2>4
  <2> QED BY <1>2, <2>5 DEF g
<1> QED BY <1>10, <1>11
=============================================================================

------------------------------ MODULE SumFacts ------------------------------
(***************************************************************************)
(* SumFunctionOnSet of the community modules: what a sum over a finite set *)
(* is, whatever the order in which its definition takes the elements.      *)
(*                                                                         *)
(* The sum is defined by a choice of a recursive function, so that there   *)
(* is one has to be proved.  Where one would reason by induction over the  *)
(* set, a minimal subset without the property is refuted instead.          *)
(***************************************************************************)
EXTENDS Integers, FiniteSets, Functions, TLAPS, WellFoundedInduction, FiniteSetTheorems

\* A set of naturals that is not empty has a least element.
LEMMA LeastNatural ==
    ASSUME NEW T, T \subseteq Nat, T # {}
    PROVE  \E x \in T : \A y \in T : x <= y
PROOF
  <1>1. \E x \in T : \A y \in T : ~ (<<y, x>> \in OpToRel(<, Nat))
    BY NatLessThanWellFounded, WFMin
  <1>2. ASSUME NEW x \in T, NEW y \in T, y < x
        PROVE  <<y, x>> \in OpToRel(<, Nat)
    <2>1. <<y, x>> \in Nat \X Nat /\ <<y, x>>[1] < <<y, x>>[2]
      BY <1>2
    <2> QED  BY <2>1, Zenon DEF OpToRel
  <1>3. \E x \in T : \A y \in T : ~ (y < x)
    BY <1>1, <1>2, Zenon
  <1> QED  BY <1>3

\* A family of subsets of a finite set that is not empty has a minimal member:
\* what stands for induction over finite sets here.
LEMMA MinimalSubset ==
    ASSUME NEW S, IsFiniteSet(S), NEW B, B \subseteq SUBSET S, B # {}
    PROVE  \E U \in B : \A V \in B : V \subseteq U => V = U
PROOF
  <1>1. IsWellFoundedOn(StrictSubsetOrdering(S), SUBSET S)
    BY FS_StrictSubsetOrderingWellFounded, FS_FiniteSubsetsOfFinite
  <1>2. \E U \in B : \A V \in B : <<V, U>> \notin StrictSubsetOrdering(S)
    BY <1>1, WFMin
  <1> QED  BY <1>2 DEF StrictSubsetOrdering

\* A finite set of naturals that is not empty has a greatest element.
LEMMA GreatestNatural ==
    ASSUME NEW T, T \subseteq Nat, IsFiniteSet(T), T # {}
    PROVE  \E x \in T : \A y \in T : y <= x
PROOF
  <1> DEFINE Above == {x \in Nat : \A y \in T : y <= x}
  <1>1. Above # {}
    <2> DEFINE Bad == {U \in SUBSET T : ~ \E b \in Nat : \A y \in U : y <= b}
    <2>1. Bad = {}
      <3> SUFFICES ASSUME Bad # {} PROVE FALSE
        OBVIOUS
      <3>1. PICK U \in Bad : \A V \in Bad : V \subseteq U => V = U
        <4> HIDE DEF Bad
        <4>1. Bad \subseteq SUBSET T
          BY DEF Bad
        <4>2. IsFiniteSet(T) /\ Bad # {}
          OBVIOUS
        <4> QED  BY ONLY <4>1, <4>2, MinimalSubset
      <3>2. PICK x \in U : TRUE
        OBVIOUS
      <3>3. U \ {x} \notin Bad
        BY <3>1, <3>2
      <3>4. PICK b \in Nat : \A y \in U \ {x} : y <= b
        BY <3>3
      <3>5. x \in Nat /\ x + b \in Nat /\ \A y \in U : y \in Nat
        BY <3>2, <3>4
      <3>6. \A y \in U : y <= x + b
        BY <3>4, <3>5
      <3> QED  BY <3>5, <3>6
    <2> QED  BY <2>1
  <1>2. PICK m \in Above : \A x \in Above : m <= x
    BY <1>1, LeastNatural
  <1>3. m \in T
    <2> SUFFICES ASSUME m \notin T PROVE FALSE
      OBVIOUS
    <2>1. \A y \in T : y \in Nat /\ y < m
      BY <1>2
    <2>2. PICK z \in T : TRUE
      OBVIOUS
    <2>3. m \in Nat /\ z \in Nat /\ z < m
      BY <1>2, <2>1
    <2>4. m - 1 \in Nat /\ \A y \in T : y <= m - 1
      BY <2>1, <2>3
    <2>5. m - 1 \in Above
      BY <2>4
    <2> QED  BY <1>2, <2>3, <2>5
  <1> QED  BY <1>2, <1>3

-----------------------------------------------------------------------------
\* The element of a set the definition takes first.
Pick(s) == CHOOSE x \in s : TRUE

\* it adds up f on the subsets in D.
AddsUp(it, f, D) ==
    it = [s \in D |-> IF s = {} THEN 0 ELSE f[Pick(s)] + it[s \ {Pick(s)}]]

\* The function by which the sum of f over S is defined.
Iter(f, S) == CHOOSE it : AddsUp(it, f, SUBSET S)

\* The definition of SumFunctionOnSet, with its parts named.
LEMMA SumIsIter ==
    ASSUME NEW f, NEW S
    PROVE  SumFunctionOnSet(f, S) = Iter(f, S)[S]
PROOF BY DEF SumFunctionOnSet, FoldFunctionOnSet, MapThenFoldSet, Iter, AddsUp, Pick

\* What is picked is one of the set.
LEMMA PickIn == \A s : s # {} => Pick(s) \in s
PROOF BY DEF Pick

\* There is a function that adds up: on the sets of at most n elements for every
\* n, since a least n without one would be the successor of an n with one.
LEMMA IterExists ==
    ASSUME NEW f, NEW S, IsFiniteSet(S)
    PROVE  \E it : AddsUp(it, f, SUBSET S)
PROOF
  <1> DEFINE Small(n) == {s \in SUBSET S : Cardinality(s) <= n}
             Bad == {n \in Nat : ~ \E it : AddsUp(it, f, Small(n))}
  <1>1. ASSUME NEW s \in SUBSET S
        PROVE  IsFiniteSet(s) /\ Cardinality(s) \in Nat /\ Cardinality(s) <= Cardinality(S)
    BY FS_Subset, FS_CardinalityType
  <1>2. ASSUME NEW n \in Nat, NEW it, AddsUp(it, f, Small(n))
        PROVE  \E more : AddsUp(more, f, Small(n + 1))
    <2> DEFINE Step(s) == IF s = {} THEN 0 ELSE f[Pick(s)] + it[s \ {Pick(s)}]
               more == [s \in Small(n + 1) |-> Step(s)]
    <2>1. \A s \in Small(n) : it[s] = Step(s)
      BY <1>2 DEF AddsUp
    <2>2. \A s \in Small(n) : s \in Small(n + 1)
      BY <1>1
    <2>3. \A s \in Small(n) : more[s] = it[s]
      BY <2>1, <2>2
    <2>4. ASSUME NEW s \in Small(n + 1), s # {}
          PROVE  s \ {Pick(s)} \in Small(n)
      <3>1. Pick(s) \in s
        BY <2>4, PickIn
      <3>2. Cardinality(s \ {Pick(s)}) = Cardinality(s) - 1
        BY <1>1, <3>1, FS_RemoveElement
      <3> QED  BY <1>1, <3>2
    <2>5. ASSUME NEW s \in Small(n + 1)
          PROVE  more[s] = IF s = {} THEN 0 ELSE f[Pick(s)] + more[s \ {Pick(s)}]
      BY <2>3, <2>4
    <2> HIDE DEF Small
    <2>6. more = [s \in Small(n + 1) |->
                    IF s = {} THEN 0 ELSE f[Pick(s)] + more[s \ {Pick(s)}]]
      BY <2>5
    <2> QED  BY <2>6 DEF AddsUp
  <1>3. \E it : AddsUp(it, f, Small(0))
    <2>1. \A s \in Small(0) : s = {}
      BY <1>1, FS_EmptySet
    <2>2. AddsUp([s \in Small(0) |-> 0], f, Small(0))
      BY <2>1 DEF AddsUp
    <2> QED  BY <2>2
  <1> HIDE DEF Small
  <1>4. Bad = {}
    <2> SUFFICES ASSUME Bad # {} PROVE FALSE
      OBVIOUS
    <2>1. PICK m \in Bad : \A k \in Bad : m <= k
      <3> HIDE DEF Bad
      <3>1. Bad \subseteq Nat
        BY DEF Bad
      <3> QED  BY <3>1, LeastNatural
    <2>2. m # 0
      BY <1>3
    <2>3. m - 1 \in Nat /\ m - 1 \notin Bad /\ (m - 1) + 1 = m
      BY <2>1, <2>2
    <2>4. PICK it : AddsUp(it, f, Small(m - 1))
      BY <2>3
    <2>5. \E more : AddsUp(more, f, Small((m - 1) + 1))
      BY <1>2, <2>3, <2>4
    <2> QED  BY <2>1, <2>3, <2>5
  <1>5. Cardinality(S) \in Nat
    BY FS_CardinalityType
  <1>6. Small(Cardinality(S)) = SUBSET S
    BY <1>1 DEF Small
  <1>7. \E it : AddsUp(it, f, Small(Cardinality(S)))
    BY <1>4, <1>5
  <1> QED  BY <1>6, <1>7

\* So the chosen one adds up.
LEMMA IterAddsUp ==
    ASSUME NEW f, NEW S, IsFiniteSet(S)
    PROVE  /\ Iter(f, S)[{}] = 0
           /\ \A s \in SUBSET S : s # {} =>
                 /\ Pick(s) \in s
                 /\ Iter(f, S)[s] = f[Pick(s)] + Iter(f, S)[s \ {Pick(s)}]
PROOF
  <1>1. AddsUp(Iter(f, S), f, SUBSET S)
    BY IterExists DEF Iter
  <1> DEFINE it == Iter(f, S)
  <1> HIDE DEF it
  <1>2. \A s \in SUBSET S : it[s] = IF s = {} THEN 0 ELSE f[Pick(s)] + it[s \ {Pick(s)}]
    BY <1>1 DEF AddsUp, it
  <1> QED  BY <1>2, PickIn DEF it

\* A sum depends on the values at its own elements only, and not on the set in
\* which it is taken.
LEMMA IterSame ==
    ASSUME NEW f, NEW g, NEW S, IsFiniteSet(S), NEW T \in SUBSET S,
           \A x \in T : f[x] = g[x]
    PROVE  Iter(f, S)[T] = Iter(g, T)[T]
PROOF
  <1>1. IsFiniteSet(T)
    BY FS_Subset
  <1> DEFINE Bad == {s \in SUBSET T : Iter(f, S)[s] # Iter(g, T)[s]}
  <1>2. Bad = {}
    <2> SUFFICES ASSUME Bad # {} PROVE FALSE
      OBVIOUS
    <2>1. PICK U \in Bad : \A V \in Bad : V \subseteq U => V = U
      <3> HIDE DEF Bad
      <3>1. Bad \subseteq SUBSET T
        BY DEF Bad
      <3> QED  BY <1>1, <3>1, MinimalSubset
    <2>2. U # {}
      BY <1>1, IterAddsUp
    <2>3. /\ Pick(U) \in U
          /\ Iter(f, S)[U] = f[Pick(U)] + Iter(f, S)[U \ {Pick(U)}]
          /\ Iter(g, T)[U] = g[Pick(U)] + Iter(g, T)[U \ {Pick(U)}]
      <3>1. U \in SUBSET T /\ U \in SUBSET S
        OBVIOUS
      <3>2. Pick(U) \in U /\ Iter(f, S)[U] = f[Pick(U)] + Iter(f, S)[U \ {Pick(U)}]
        BY <2>2, <3>1, IterAddsUp
      <3>3. Iter(g, T)[U] = g[Pick(U)] + Iter(g, T)[U \ {Pick(U)}]
        BY <1>1, <2>2, <3>1, IterAddsUp
      <3> QED  BY <3>2, <3>3
    <2>4. U \ {Pick(U)} \notin Bad
      BY <2>1, <2>3
    <2> QED  BY <2>3, <2>4
  <1> QED  BY <1>2

\* A sum of integers is one.
LEMMA IterType ==
    ASSUME NEW f, NEW S, IsFiniteSet(S), \A x \in S : f[x] \in Int
    PROVE  \A s \in SUBSET S : Iter(f, S)[s] \in Int
PROOF
  <1> DEFINE Bad == {s \in SUBSET S : Iter(f, S)[s] \notin Int}
  <1>1. Bad = {}
    <2> SUFFICES ASSUME Bad # {} PROVE FALSE
      OBVIOUS
    <2>1. PICK U \in Bad : \A V \in Bad : V \subseteq U => V = U
      <3> HIDE DEF Bad
      <3>1. Bad \subseteq SUBSET S
        BY DEF Bad
      <3> QED  BY <3>1, MinimalSubset
    <2>2. U # {}
      <3>1. Iter(f, S)[{}] = 0
        BY IterAddsUp
      <3> QED  BY <3>1
    <2>3. /\ Pick(U) \in U
          /\ Iter(f, S)[U] = f[Pick(U)] + Iter(f, S)[U \ {Pick(U)}]
      BY <2>2, IterAddsUp
    <2>4. U \ {Pick(U)} \notin Bad
      BY <2>1, <2>3
    <2> QED  BY <2>3, <2>4
  <1> QED  BY <1>1

\* Any element may be taken out first, not only the picked one.
LEMMA IterAny ==
    ASSUME NEW f, NEW S, IsFiniteSet(S), \A x \in S : f[x] \in Int
    PROVE  \A s \in SUBSET S : \A x \in s : Iter(f, S)[s] = f[x] + Iter(f, S)[s \ {x}]
PROOF
  <1> DEFINE it == Iter(f, S)
             Bad == {s \in SUBSET S : \E x \in s : it[s] # f[x] + it[s \ {x}]}
  <1>1. /\ \A s \in SUBSET S : it[s] \in Int
        /\ \A s \in SUBSET S : s # {} => Pick(s) \in s /\ it[s] = f[Pick(s)] + it[s \ {Pick(s)}]
    <2>1. \A s \in SUBSET S : it[s] \in Int
      BY IterType
    <2>2. \A s \in SUBSET S : s # {} => Pick(s) \in s /\ it[s] = f[Pick(s)] + it[s \ {Pick(s)}]
      BY IterAddsUp
    <2> QED  BY <2>1, <2>2
  <1> HIDE DEF it
  <1>2. Bad = {}
    <2> SUFFICES ASSUME Bad # {} PROVE FALSE
      OBVIOUS
    <2>1. PICK U \in Bad : \A V \in Bad : V \subseteq U => V = U
      <3> HIDE DEF Bad
      <3>1. Bad \subseteq SUBSET S
        BY DEF Bad
      <3> QED  BY <3>1, MinimalSubset
    <2>2. PICK x \in U : it[U] # f[x] + it[U \ {x}]
      OBVIOUS
    <2> DEFINE y == Pick(U)
    <2>3. y \in U /\ it[U] = f[y] + it[U \ {y}]
      BY <1>1
    <2> HIDE DEF y
    <2>4. x # y
      BY <2>2, <2>3
    <2>5. U \ {x} \notin Bad /\ U \ {y} \notin Bad
      BY <2>1, <2>2, <2>3
    <2>6. /\ it[U \ {x}] = f[y] + it[(U \ {x}) \ {y}]
          /\ it[U \ {y}] = f[x] + it[(U \ {y}) \ {x}]
      BY <2>3, <2>4, <2>5
    <2>7. (U \ {x}) \ {y} = (U \ {y}) \ {x}
      OBVIOUS
    <2>8. f[x] \in Int /\ f[y] \in Int /\ it[(U \ {x}) \ {y}] \in Int
      BY <1>1, <2>3
    <2>9. it[U] = f[y] + (f[x] + it[(U \ {x}) \ {y}])
      BY <2>3, <2>6, <2>7
    <2>10. it[U] # f[x] + (f[y] + it[(U \ {x}) \ {y}])
      BY <2>2, <2>6
    <2> HIDE DEF Bad
    <2> QED  BY <2>8, <2>9, <2>10
  <1> QED  BY <1>2 DEF it

-----------------------------------------------------------------------------
\* Nothing to add.
LEMMA SumEmpty == \A f : SumFunctionOnSet(f, {}) = 0
PROOF BY SumIsIter, IterAddsUp, FS_EmptySet

\* A sum of integers is one.
LEMMA SumType ==
    ASSUME NEW S, IsFiniteSet(S), NEW f, \A x \in S : f[x] \in Int
    PROVE  SumFunctionOnSet(f, S) \in Int
PROOF BY SumIsIter, IterType

\* A sum depends on the values at the elements only.
LEMMA SumSame ==
    ASSUME NEW S, IsFiniteSet(S), NEW f, NEW g, \A x \in S : f[x] = g[x]
    PROVE  SumFunctionOnSet(f, S) = SumFunctionOnSet(g, S)
PROOF BY SumIsIter, IterSame

\* Any element can be taken out of a sum.
LEMMA SumRemove ==
    ASSUME NEW S, IsFiniteSet(S), NEW f, \A x \in S : f[x] \in Int, NEW x \in S
    PROVE  SumFunctionOnSet(f, S) = f[x] + SumFunctionOnSet(f, S \ {x})
PROOF
  <1>1. Iter(f, S)[S] = f[x] + Iter(f, S)[S \ {x}]
    BY IterAny
  <1>2. Iter(f, S)[S \ {x}] = Iter(f, S \ {x})[S \ {x}]
    BY IterSame
  <1> QED  BY <1>1, <1>2, SumIsIter

\* A sum of nothings is nothing.
LEMMA SumZero ==
    ASSUME NEW S, IsFiniteSet(S), NEW f, \A x \in S : f[x] = 0
    PROVE  SumFunctionOnSet(f, S) = 0
PROOF
  <1> DEFINE Bad == {T \in SUBSET S : SumFunctionOnSet(f, T) # 0}
  <1>1. Bad = {}
    <2> SUFFICES ASSUME Bad # {} PROVE FALSE
      OBVIOUS
    <2>1. PICK U \in Bad : \A V \in Bad : V \subseteq U => V = U
      <3> HIDE DEF Bad
      <3>1. Bad \subseteq SUBSET S
        BY DEF Bad
      <3> QED  BY <3>1, MinimalSubset
    <2>2. U # {}
      BY SumEmpty
    <2>3. PICK x \in U : TRUE
      BY <2>2
    <2>4. IsFiniteSet(U)
      BY FS_Subset
    <2>5. SumFunctionOnSet(f, U) = f[x] + SumFunctionOnSet(f, U \ {x})
      BY <2>4, SumRemove
    <2>6. U \ {x} \notin Bad
      BY <2>1
    <2> QED  BY <2>5, <2>6
  <1> QED  BY <1>1

\* A sum changes by what one of its terms changes by.
LEMMA SumChange ==
    ASSUME NEW S, IsFiniteSet(S), NEW x \in S, NEW f, NEW g,
           \A y \in S : f[y] \in Int /\ g[y] \in Int,
           \A y \in S \ {x} : g[y] = f[y]
    PROVE  SumFunctionOnSet(g, S) = SumFunctionOnSet(f, S) + (g[x] - f[x])
PROOF
  <1>1. IsFiniteSet(S \ {x})
    BY FS_Subset
  <1>2. SumFunctionOnSet(g, S \ {x}) = SumFunctionOnSet(f, S \ {x})
    BY <1>1, SumSame
  <1>3. SumFunctionOnSet(f, S) = f[x] + SumFunctionOnSet(f, S \ {x})
    BY SumRemove
  <1>4. SumFunctionOnSet(g, S) = g[x] + SumFunctionOnSet(g, S \ {x})
    BY SumRemove
  <1>5. SumFunctionOnSet(f, S \ {x}) \in Int
    BY <1>1, SumType
  <1> QED  BY <1>2, <1>3, <1>4, <1>5

\* Terms between two bounds have a sum between so many times the bounds.
LEMMA SumBounds ==
    ASSUME NEW S, IsFiniteSet(S), NEW lo \in Int, NEW hi \in Int, NEW f,
           \A x \in S : f[x] \in Int /\ lo <= f[x] /\ f[x] <= hi
    PROVE  /\ Cardinality(S) * lo <= SumFunctionOnSet(f, S)
           /\ SumFunctionOnSet(f, S) <= Cardinality(S) * hi
PROOF
  <1> DEFINE Holds(T) == /\ Cardinality(T) * lo <= SumFunctionOnSet(f, T)
                         /\ SumFunctionOnSet(f, T) <= Cardinality(T) * hi
             Bad == {T \in SUBSET S : ~ Holds(T)}
  <1>1. Bad = {}
    <2> SUFFICES ASSUME Bad # {} PROVE FALSE
      OBVIOUS
    <2>1. PICK U \in Bad : \A V \in Bad : V \subseteq U => V = U
      <3> HIDE DEF Bad
      <3>1. Bad \subseteq SUBSET S
        BY DEF Bad
      <3> QED  BY <3>1, MinimalSubset
    <2>2. U # {}
      <3>1. Cardinality({}) = 0 /\ SumFunctionOnSet(f, {}) = 0
        BY FS_EmptySet, SumEmpty
      <3>2. Holds({})
        BY <3>1
      <3> QED  BY <3>2
    <2>3. PICK x \in U : TRUE
      BY <2>2
    <2>4. IsFiniteSet(U) /\ IsFiniteSet(U \ {x})
      BY FS_Subset
    <2>5. SumFunctionOnSet(f, U) = f[x] + SumFunctionOnSet(f, U \ {x})
      BY <2>4, SumRemove
    <2>6. Holds(U \ {x})
      BY <2>1
    <2>7. Cardinality(U \ {x}) = Cardinality(U) - 1
      BY <2>4, FS_RemoveElement
    <2> DEFINE n    == Cardinality(U)
               rest == SumFunctionOnSet(f, U \ {x})
    <2>8. n \in Nat /\ rest \in Int /\ f[x] \in Int /\ lo <= f[x] /\ f[x] <= hi
      BY <2>4, FS_CardinalityType, SumType
    <2>9. (n - 1) * lo <= rest /\ rest <= (n - 1) * hi
      BY <2>6, <2>7
    <2>10. (n - 1) * lo = n * lo - lo /\ (n - 1) * hi = n * hi - hi /\ n * lo \in Int /\ n * hi \in Int
      <3> HIDE DEF n
      <3> QED  BY <2>8
    <2>11. n * lo <= f[x] + rest /\ f[x] + rest <= n * hi
      <3> HIDE DEF n, rest
      <3> QED  BY <2>8, <2>9, <2>10
    <2> QED  BY <2>5, <2>11
  <1> QED  BY <1>1

\* The sum over two sets without a common element.
LEMMA SumUnion ==
    ASSUME NEW S, IsFiniteSet(S), NEW T, IsFiniteSet(T), S \cap T = {}, NEW f,
           \A x \in S \cup T : f[x] \in Int
    PROVE  SumFunctionOnSet(f, S \cup T) = SumFunctionOnSet(f, S) + SumFunctionOnSet(f, T)
PROOF
  <1> DEFINE Holds(U) == SumFunctionOnSet(f, S \cup U) = SumFunctionOnSet(f, S) + SumFunctionOnSet(f, U)
             Bad == {U \in SUBSET T : ~ Holds(U)}
  <1>1. Bad = {}
    <2> SUFFICES ASSUME Bad # {} PROVE FALSE
      OBVIOUS
    <2>1. PICK U \in Bad : \A V \in Bad : V \subseteq U => V = U
      <3> HIDE DEF Bad
      <3>1. Bad \subseteq SUBSET T
        BY DEF Bad
      <3> QED  BY <3>1, MinimalSubset
    <2>2. U \subseteq T /\ ~ Holds(U)
      BY <2>1
    <2>3. SumFunctionOnSet(f, S) \in Int
      BY SumType
    <2>4. CASE U = {}
      <3>1. S \cup U = S /\ SumFunctionOnSet(f, U) = 0
        BY <2>4, SumEmpty
      <3> QED  BY <2>2, <2>3, <3>1
    <2>5. CASE U # {}
      <3>1. PICK x \in U : TRUE
        BY <2>5
      <3> DEFINE V == U \ {x}
      <3>2. V \subseteq U /\ V # U /\ V \subseteq T /\ x \in S \cup U /\ x \notin S
        BY <2>2, <3>1
      <3>3. Holds(V)
        BY <2>1, <3>2
      <3>4. IsFiniteSet(U) /\ IsFiniteSet(V) /\ IsFiniteSet(S \cup U)
        BY <2>2, <3>2, FS_Subset, FS_Union
      <3>5. (S \cup U) \ {x} = S \cup V
        BY <3>2
      <3>6. SumFunctionOnSet(f, S \cup U) = f[x] + SumFunctionOnSet(f, S \cup V)
        BY <2>2, <3>2, <3>4, <3>5, SumRemove
      <3>7. SumFunctionOnSet(f, U) = f[x] + SumFunctionOnSet(f, V)
        BY <2>2, <3>1, <3>4, SumRemove
      <3>8. f[x] \in Int /\ SumFunctionOnSet(f, V) \in Int
        BY <2>2, <3>1, <3>2, <3>4, SumType
      <3> HIDE DEF V
      <3> QED  BY <2>2, <2>3, <3>3, <3>6, <3>7, <3>8
    <2> QED  BY <2>4, <2>5
  <1> QED  BY <1>1
=============================================================================

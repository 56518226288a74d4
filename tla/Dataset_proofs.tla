--------------------------- MODULE Dataset_proofs ---------------------------
(***************************************************************************)
(* Proofs about the datasets of an aggregator and the answers made of them *)
(* (modules Dataset and Requests).  A dataset is shown to tell, of every   *)
(* period, name and bucket, the sum of the reports it is to tell of        *)
(* (Faithful), through every operation, and what is asked for to be        *)
(* answered with just that.  Folds and recursive functions are reasoned    *)
(* about with sets and functions in place of operators: what holds of the  *)
(* least counterexample's predecessors holds of it.                        *)
(***************************************************************************)
EXTENDS Requests, FiniteSetTheorems, NaturalsInduction, TLAPS

-----------------------------------------------------------------------------
(* Recursion and induction, with sets and functions in place of operators. *)

LEMMA Least == ASSUME NEW T \in SUBSET Nat, T # {} PROVE \E m \in T : \A k \in T : m <= k
<1> DEFINE R == {ss \in Nat \X Nat : ss[1] < ss[2]}
<1>1. IsWellFoundedOn(R, Nat)
  BY NatLessThanWellFounded DEF OpToRel
<1>2. \A x, y \in Nat : x < y => <<x, y>> \in R
  OBVIOUS
<1> HIDE DEF R
<1>3. PICK m \in T : \A y \in T : ~(<<y, m>> \in R)
  BY <1>1, WFMin
<1>4. \A y \in T : ~(y < m)
  BY <1>2, <1>3
<1> QED BY <1>4

\* What holds of each element if it does of all that come before it.
LEMMA RankInduction ==
    ASSUME NEW P, NEW rank \in [P -> Nat], NEW B,
           \A p \in P : (\A q \in P : rank[q] < rank[p] => q \in B) => p \in B
    PROVE  \A p \in P : p \in B
<1> SUFFICES ASSUME NEW x \in P, x \notin B PROVE FALSE
  OBVIOUS
<1> DEFINE T == {rank[p] : p \in {q \in P : q \notin B}}
<1>1. T \in SUBSET Nat /\ rank[x] \in T
  OBVIOUS
<1>2. PICK m \in T : \A k \in T : m <= k
  <2> HIDE DEF T
  <2> QED BY <1>1, Least
<1>3. PICK p \in P : p \notin B /\ m = rank[p]
  OBVIOUS
<1>4. \A q \in P : rank[q] < rank[p] => q \in B
  <2> SUFFICES ASSUME NEW q \in P, rank[q] < rank[p], q \notin B PROVE FALSE
    OBVIOUS
  <2>1. rank[q] \in T
    OBVIOUS
  <2>2. rank[q] \in Nat /\ rank[p] \in Nat
    OBVIOUS
  <2> HIDE DEF T
  <2> QED BY <1>2, <1>3, <2>1, <2>2
<1> QED BY <1>3, <1>4

\* G refers only to what comes before.
Founded(P, N, rank, D, G) ==
    /\ N \in Nat /\ rank \in [P -> 0 .. N] /\ D # {} /\ G \in [P \X [P -> D] -> D]
    /\ \A p \in P, f, g \in [P -> D] :
           (\A q \in P : rank[q] < rank[p] => f[q] = g[q]) => G[<<p, f>>] = G[<<p, g>>]

LEMMA Recursion ==
    ASSUME NEW P, NEW N, NEW rank, NEW D, NEW G, Founded(P, N, rank, D, G)
    PROVE  \E f \in [P -> D] : \A p \in P : f[p] = G[<<p, f>>]
<1> USE DEF Founded
<1> DEFINE Upto(n) == \E f \in [P -> D] : \A p \in P : rank[p] < n => f[p] = G[<<p, f>>]
           T == {n \in Nat : ~Upto(n)}
<1>1. ASSUME T # {} PROVE FALSE
  <2>1. PICK m \in T : \A k \in T : m <= k
    <3>1. T \in SUBSET Nat
      OBVIOUS
    <3> HIDE DEF T
    <3> QED BY <1>1, <3>1, Least
  <2>2. m # 0
    <3>1. PICK d \in D : TRUE
      OBVIOUS
    <3>2. [p \in P |-> d] \in [P -> D]
      OBVIOUS
    <3>3. \A p \in P : ~(rank[p] < 0)
      OBVIOUS
    <3>4. Upto(0)
      BY <3>2, <3>3
    <3> QED BY <3>4
  <2>3. m - 1 \in Nat /\ m - 1 \notin T
    <3>1. m \in Nat
      OBVIOUS
    <3> HIDE DEF T
    <3> QED BY <2>1, <2>2, <3>1
  <2>4. PICK f \in [P -> D] : \A p \in P : rank[p] < m - 1 => f[p] = G[<<p, f>>]
    BY <2>3
  <2> DEFINE g == [p \in P |-> G[<<p, f>>]]
  <2>5. g \in [P -> D]
    OBVIOUS
  <2>6. \A p \in P : rank[p] < m => g[p] = G[<<p, g>>]
    <3> SUFFICES ASSUME NEW p \in P, rank[p] < m PROVE g[p] = G[<<p, g>>]
      OBVIOUS
    <3>1. \A q \in P : rank[q] < rank[p] => f[q] = g[q]
      BY <2>3, <2>4
    <3>2. g[p] = G[<<p, f>>]
      OBVIOUS
    <3> HIDE DEF g
    <3> QED BY <2>5, <3>1, <3>2
  <2>7. Upto(m)
    <3> HIDE DEF g
    <3> QED BY <2>5, <2>6
  <2> QED BY <2>7
<1>2. Upto(N + 1)
  <2>1. N + 1 \in Nat /\ N + 1 \notin T
    <3> HIDE DEF T
    <3> QED BY <1>1
  <2> QED BY <2>1
<1>3. \A p \in P : rank[p] < N + 1
  OBVIOUS
<1> QED BY <1>2, <1>3

-----------------------------------------------------------------------------
(* Folds over finite sets.                                                  *)

\* The element that a fold takes from a set last.
Some(s) == CHOOSE x \in s : TRUE

LEMMA SomeIn == ASSUME NEW s, s # {} PROVE Some(s) \in s
BY DEF Some

LEMMA Subsets ==
    ASSUME NEW S, IsFiniteSet(S)
    PROVE  /\ Cardinality(S) \in Nat
           /\ \A s \in SUBSET S : Cardinality(s) \in 0 .. Cardinality(S)
           /\ \A s \in SUBSET S : s # {} => Cardinality(s \ {Some(s)}) < Cardinality(s)
<1>1. Cardinality(S) \in Nat
  BY FS_CardinalityType
<1>2. ASSUME NEW s \in SUBSET S
      PROVE  /\ IsFiniteSet(s) /\ Cardinality(s) \in Nat
             /\ Cardinality(s) <= Cardinality(S)
  BY FS_Subset, FS_CardinalityType
<1>3. ASSUME NEW s \in SUBSET S, s # {}
      PROVE  Cardinality(s \ {Some(s)}) < Cardinality(s)
  <2>1. Some(s) \in s
    BY <1>3, SomeIn
  <2>2. IsFiniteSet(s) /\ Cardinality(s) \in Nat
    BY <1>2
  <2>3. Cardinality(s \ {Some(s)}) = Cardinality(s) - 1
    BY <2>1, <2>2, FS_RemoveElement
  <2> QED BY <2>2, <2>3
<1> QED BY <1>1, <1>2, <1>3

\* What holds of a finite set if it does of all that have fewer elements.
LEMMA SubsetInduction ==
    ASSUME NEW S, IsFiniteSet(S), NEW B, {} \in B,
           \A s \in SUBSET S : s # {} /\ s \ {Some(s)} \in B => s \in B
    PROVE  \A s \in SUBSET S : s \in B
<1> DEFINE P == SUBSET S
           rank == [s \in P |-> Cardinality(s)]
<1>1. rank \in [P -> Nat]
  BY Subsets
<1>2. ASSUME NEW s \in P, \A q \in P : rank[q] < rank[s] => q \in B PROVE s \in B
  <2>1. CASE s = {}
    BY <2>1
  <2>2. CASE s # {}
    <3>1. s \ {Some(s)} \in P /\ rank[s \ {Some(s)}] < rank[s]
      BY <2>2, Subsets
    <3> QED BY <1>2, <2>2, <3>1
  <2> QED BY <2>1, <2>2
<1> HIDE DEF P, rank
<1>3. \A s \in P : s \in B
  BY <1>1, <1>2, RankInduction
<1> QED BY <1>3 DEF P

\* There is a function that does what the fold does, in any set that the steps
\* do not leave.
Foldable(S, D, base, F) == IsFiniteSet(S) /\ base \in D /\ F \in [S \X D -> D]
IsFold(g, S, D, base, F) ==
    /\ g \in [SUBSET S -> D]
    /\ \A s \in SUBSET S :
           g[s] = IF s = {} THEN base ELSE F[<<Some(s), g[s \ {Some(s)}]>>]

LEMMA FoldExists ==
    ASSUME NEW S, NEW D, NEW base, NEW F, Foldable(S, D, base, F)
    PROVE  \E g : IsFold(g, S, D, base, F)
<1> USE DEF Foldable
<1> DEFINE P == SUBSET S
           N == Cardinality(S)
           rank == [s \in P |-> Cardinality(s)]
           G == [p \in P \X [P -> D] |->
                    IF p[1] = {} THEN base
                    ELSE F[<<Some(p[1]), p[2][p[1] \ {Some(p[1])}]>>]]
<1>1. N \in Nat /\ rank \in [P -> 0 .. N]
  BY Subsets
<1>2. ASSUME NEW s \in P, s # {}
      PROVE  s \ {Some(s)} \in P /\ Some(s) \in S /\ rank[s \ {Some(s)}] < rank[s]
  BY <1>2, Subsets, SomeIn
<1>3. \A s \in P, f \in [P -> D] :
          G[<<s, f>>] = IF s = {} THEN base ELSE F[<<Some(s), f[s \ {Some(s)}]>>]
  OBVIOUS
<1>4. G \in [P \X [P -> D] -> D]
  <2>1. ASSUME NEW p \in P \X [P -> D]
        PROVE  (IF p[1] = {} THEN base
                ELSE F[<<Some(p[1]), p[2][p[1] \ {Some(p[1])}]>>]) \in D
    <3>1. p[1] \in P /\ p[2] \in [P -> D]
      OBVIOUS
    <3>2. CASE p[1] # {}
      <4>1. Some(p[1]) \in S /\ p[2][p[1] \ {Some(p[1])}] \in D
        BY <1>2, <3>1, <3>2
      <4> QED BY <3>2, <4>1
    <3> QED BY <3>2
  <2> QED BY <2>1
<1> HIDE DEF G
<1>5. ASSUME NEW s \in P, NEW f \in [P -> D], NEW g \in [P -> D],
             \A q \in P : rank[q] < rank[s] => f[q] = g[q]
      PROVE  G[<<s, f>>] = G[<<s, g>>]
  <2>1. CASE s = {}
    BY <1>3, <2>1
  <2>2. CASE s # {}
    <3>1. f[s \ {Some(s)}] = g[s \ {Some(s)}]
      BY <1>2, <1>5, <2>2
    <3>2. \A h \in [P -> D] : G[<<s, h>>] = F[<<Some(s), h[s \ {Some(s)}]>>]
      BY <1>3, <2>2
    <3> QED BY <3>1, <3>2
  <2> QED BY <2>1, <2>2
<1> HIDE DEF P, rank, N
<1>6. \E f \in [P -> D] : \A p \in P : f[p] = G[<<p, f>>]
  <2>1. D # {}
    OBVIOUS
  <2>2. \A s \in P, f, g \in [P -> D] :
            (\A q \in P : rank[q] < rank[s] => f[q] = g[q]) => G[<<s, f>>] = G[<<s, g>>]
    BY <1>5
  <2>3. Founded(P, N, rank, D, G)
    BY <1>1, <1>4, <2>1, <2>2 DEF Founded
  <2> QED BY <2>3, Recursion
<1>7. PICK f \in [P -> D] : \A p \in P : f[p] = G[<<p, f>>]
  BY <1>6
<1>8. \A s \in P : f[s] = IF s = {} THEN base ELSE F[<<Some(s), f[s \ {Some(s)}]>>]
  BY <1>3, <1>7
<1> QED BY <1>7, <1>8 DEF P, IsFold

\* It is the only one.
Alike(f, g, S) ==
    /\ f[{}] = g[{}]
    /\ \A s \in SUBSET S : s # {} /\ f[s \ {Some(s)}] = g[s \ {Some(s)}] => f[s] = g[s]
Agree(f, g, S) == \A s \in SUBSET S : f[s] = g[s]

LEMMA FoldUnique ==
    ASSUME NEW S, IsFiniteSet(S), NEW f, NEW g, Alike(f, g, S)
    PROVE  Agree(f, g, S)
<1> USE DEF Alike, Agree
<1> DEFINE B == {s \in SUBSET S : f[s] = g[s]}
<1>1. {} \in B
  OBVIOUS
<1>2. \A s \in SUBSET S : s # {} /\ s \ {Some(s)} \in B => s \in B
  OBVIOUS
<1>3. \A s \in SUBSET S : s \in B
  <2> HIDE DEF B
  <2> QED BY <1>1, <1>2, SubsetInduction
<1> QED BY <1>3

-----------------------------------------------------------------------------
(* Sums over finite sets.                                                   *)

Ints(f, S) == IsFiniteSet(S) /\ \A x \in S : f[x] \in Int

IsSum(g, f, S) ==
    /\ g \in [SUBSET S -> Int] /\ g[S] = SumFunctionOnSet(f, S)
    /\ \A s \in SUBSET S : s = {} => g[s] = 0
    /\ \A s \in SUBSET S : s # {} => g[s] = f[Some(s)] + g[s \ {Some(s)}]

LEMMA SumExists == ASSUME NEW f, NEW S, Ints(f, S) PROVE \E g : IsSum(g, f, S)
<1> DEFINE F == [p \in S \X Int |-> f[p[1]] + p[2]]
           Body(g) == [s \in SUBSET S |-> IF s = {} THEN 0 ELSE f[Some(s)] + g[s \ {Some(s)}]]
           it == CHOOSE g : g = Body(g)
<1>1. IsFiniteSet(S) /\ \A x \in S : f[x] \in Int
  BY DEF Ints
<1>2. F \in [S \X Int -> Int] /\ \A x \in S, n \in Int : F[<<x, n>>] = f[x] + n
  BY <1>1
<1>3. PICK g : IsFold(g, S, Int, 0, F)
  <2> HIDE DEF F
  <2>1. Foldable(S, Int, 0, F)
    BY <1>1, <1>2 DEF Foldable
  <2> QED BY <2>1, FoldExists
<1>4. \A s \in SUBSET S : s # {} => Some(s) \in S /\ s \ {Some(s)} \in SUBSET S
  BY SomeIn
<1>5. \A s \in SUBSET S : s # {} => g[s] = f[Some(s)] + g[s \ {Some(s)}]
  <2> HIDE DEF F
  <2> QED BY <1>2, <1>3, <1>4 DEF IsFold
<1>6. g \in [SUBSET S -> Int] /\ \A s \in SUBSET S : s = {} => g[s] = 0
  BY <1>3 DEF IsFold
<1>7. g = Body(g)
  BY <1>5, <1>6
<1>8. it = Body(it)
  <2> HIDE DEF Body
  <2> QED BY <1>7
<1>9. \A s \in SUBSET S : it[s] = g[s]
  <2>1. it[{}] = g[{}]
    <3>1. Body(it)[{}] = 0
      OBVIOUS
    <3> QED BY <1>6, <1>8, <3>1
  <2>2. ASSUME NEW s \in SUBSET S, s # {}, it[s \ {Some(s)}] = g[s \ {Some(s)}]
        PROVE  it[s] = g[s]
    <3>1. Body(it)[s] = f[Some(s)] + it[s \ {Some(s)}]
      BY <2>2
    <3> HIDE DEF it, Body
    <3> QED BY <1>5, <1>8, <2>2, <3>1
  <2> HIDE DEF it, Body
  <2>3. Alike(it, g, S)
    BY <2>1, <2>2 DEF Alike
  <2>4. Agree(it, g, S)
    BY <1>1, <2>3, FoldUnique
  <2> QED BY <2>4 DEF Agree
<1>10. SumFunctionOnSet(f, S) = it[S]
  BY DEF SumFunctionOnSet, FoldFunctionOnSet, MapThenFoldSet, Some
<1> HIDE DEF it, Body
<1>11. IsSum(g, f, S)
  BY <1>5, <1>6, <1>9, <1>10 DEF IsSum
<1> QED BY <1>11

LEMMA SumEmpty == ASSUME NEW f PROVE SumFunctionOnSet(f, {}) = 0
<1>1. Ints(f, {})
  BY FS_EmptySet DEF Ints
<1>2. PICK g : IsSum(g, f, {})
  BY <1>1, SumExists
<1>3. g[{}] = SumFunctionOnSet(f, {}) /\ g[{}] = 0
  BY <1>2 DEF IsSum
<1> QED BY <1>3

LEMMA SumType == ASSUME NEW f, NEW S, Ints(f, S) PROVE SumFunctionOnSet(f, S) \in Int
<1>1. PICK g : IsSum(g, f, S)
  BY SumExists
<1> QED BY <1>1 DEF IsSum

LEMMA IntsSubset == ASSUME NEW f, NEW S, Ints(f, S), NEW s \in SUBSET S PROVE Ints(f, s)
BY FS_Subset DEF Ints

LEMMA SumChosen ==
    ASSUME NEW f, NEW S, Ints(f, S), S # {}
    PROVE  SumFunctionOnSet(f, S) = f[Some(S)] + SumFunctionOnSet(f, S \ {Some(S)})
<1> DEFINE R == S \ {Some(S)}
<1>1. PICK g : IsSum(g, f, S)
  BY SumExists
<1>2. R \in SUBSET S /\ Ints(f, R)
  BY IntsSubset
<1>3. PICK h : IsSum(h, f, R)
  <2> HIDE DEF R
  <2> QED BY <1>2, SumExists
<1>4. g[R] = h[R]
  <2>1. g[{}] = h[{}]
    BY <1>1, <1>3 DEF IsSum
  <2>2. ASSUME NEW s \in SUBSET R, s # {}, g[s \ {Some(s)}] = h[s \ {Some(s)}]
        PROVE  g[s] = h[s]
    <3>1. g[s] = f[Some(s)] + g[s \ {Some(s)}]
      BY <1>1, <1>2, <2>2 DEF IsSum
    <3>2. h[s] = f[Some(s)] + h[s \ {Some(s)}]
      BY <1>3, <2>2 DEF IsSum
    <3> QED BY <2>2, <3>1, <3>2
  <2> HIDE DEF R
  <2>3. IsFiniteSet(R) /\ Alike(g, h, R)
    BY <1>2, <2>1, <2>2 DEF Ints, Alike
  <2>4. Agree(g, h, R)
    BY <2>3, FoldUnique
  <2> QED BY <2>4 DEF Agree
<1>5. g[S] = f[Some(S)] + g[R]
  BY <1>1 DEF IsSum
<1> QED BY <1>1, <1>3, <1>4, <1>5 DEF IsSum

\* Any element can be taken out.
LEMMA SumPart ==
    ASSUME NEW f, NEW S, Ints(f, S), NEW x \in S
    PROVE  SumFunctionOnSet(f, S) = f[x] + SumFunctionOnSet(f, S \ {x})
<1> DEFINE Sum(s) == SumFunctionOnSet(f, s)
           P == SUBSET S
           rank == [s \in P |-> Cardinality(s)]
           B == {s \in P : \A y \in s : Sum(s) = f[y] + Sum(s \ {y})}
<1>1. IsFiniteSet(S) /\ \A s \in P : Ints(f, s) /\ Sum(s) \in Int /\ \A y \in s : f[y] \in Int
  BY IntsSubset, SumType DEF Ints
<1>2. rank \in [P -> Nat]
  BY <1>1, Subsets
<1>3. \A s \in P : s # {} => Sum(s) = f[Some(s)] + Sum(s \ {Some(s)}) /\ Some(s) \in s
  BY <1>1, SumChosen, SomeIn
<1>4. \A s \in P : \A y \in s : s \ {y} \in P /\ rank[s \ {y}] < rank[s]
  <2> SUFFICES ASSUME NEW s \in P, NEW y \in s PROVE s \ {y} \in P /\ rank[s \ {y}] < rank[s]
    OBVIOUS
  <2>1. IsFiniteSet(s) /\ Cardinality(s) \in Nat
    BY <1>1, FS_Subset, FS_CardinalityType
  <2>2. Cardinality(s \ {y}) = Cardinality(s) - 1
    BY <2>1, FS_RemoveElement
  <2> QED BY <2>1, <2>2
<1> HIDE DEF Sum, rank
<1>5. ASSUME NEW s \in P, \A q \in P : rank[q] < rank[s] => q \in B PROVE s \in B
  <2> SUFFICES ASSUME NEW y \in s PROVE Sum(s) = f[y] + Sum(s \ {y})
    OBVIOUS
  <2> DEFINE c == Some(s)
  <2>1. c \in s /\ Sum(s) = f[c] + Sum(s \ {c})
    BY <1>3
  <2>2. CASE y # c
    <3>1. y \in s \ {c} /\ c \in s \ {y}
      BY <2>1, <2>2
    <3>2. Sum(s \ {c}) = f[y] + Sum((s \ {c}) \ {y})
      BY <1>4, <1>5, <2>1, <3>1
    <3>3. Sum(s \ {y}) = f[c] + Sum((s \ {y}) \ {c})
      BY <1>4, <1>5, <2>1, <3>1
    <3>4. (s \ {c}) \ {y} = (s \ {y}) \ {c} /\ (s \ {c}) \ {y} \in P
      OBVIOUS
    <3>5. f[y] \in Int /\ f[c] \in Int /\ Sum((s \ {c}) \ {y}) \in Int
      BY <1>1, <2>1, <3>4
    <3> DEFINE a == Sum((s \ {c}) \ {y})
    <3>6. Sum(s) = f[c] + (f[y] + a) /\ Sum(s \ {y}) = f[c] + a
      BY <2>1, <3>2, <3>3, <3>4
    <3>7. f[y] \in Int /\ f[c] \in Int /\ a \in Int
      BY <3>5
    <3> HIDE DEF c, a
    <3>8. f[c] + (f[y] + a) = f[y] + (f[c] + a)
      BY <3>7
    <3> QED BY <3>6, <3>8
  <2> QED BY <2>1, <2>2
<1> HIDE DEF P, B
<1>6. \A s \in P : s \in B
  BY <1>2, <1>5, RankInduction
<1> QED BY <1>6 DEF P, B, Sum

LEMMA SumSame ==
    ASSUME NEW f, NEW g, NEW S, Ints(f, S), \A x \in S : f[x] = g[x]
    PROVE  SumFunctionOnSet(f, S) = SumFunctionOnSet(g, S)
<1> DEFINE B == {s \in SUBSET S : SumFunctionOnSet(f, s) = SumFunctionOnSet(g, s)}
<1>1. Ints(g, S) /\ IsFiniteSet(S)
  BY DEF Ints
<1>2. {} \in B
  BY SumEmpty
<1>3. ASSUME NEW s \in SUBSET S, s # {}, s \ {Some(s)} \in B PROVE s \in B
  <2>1. Ints(f, s) /\ Ints(g, s) /\ f[Some(s)] = g[Some(s)]
    BY <1>1, <1>3, IntsSubset, SomeIn
  <2>2. /\ SumFunctionOnSet(f, s) = f[Some(s)] + SumFunctionOnSet(f, s \ {Some(s)})
        /\ SumFunctionOnSet(g, s) = g[Some(s)] + SumFunctionOnSet(g, s \ {Some(s)})
    BY <1>3, <2>1, SumChosen
  <2>3. SumFunctionOnSet(f, s \ {Some(s)}) = SumFunctionOnSet(g, s \ {Some(s)})
    BY <1>3
  <2>4. SumFunctionOnSet(f, s) = SumFunctionOnSet(g, s)
    BY <2>1, <2>2, <2>3
  <2> QED BY <2>4
<1>4. \A s \in SUBSET S : s \in B
  <2> HIDE DEF B
  <2> QED BY <1>1, <1>2, <1>3, SubsetInduction
<1> QED BY <1>4

\* The sum of a function that is written down, taken over all of its domain.
LEMMA SumWhole ==
    ASSUME NEW f
    PROVE  SumFunction(f) = SumFunctionOnSet(f, DOMAIN f)
BY DEF SumFunction

\* One more element.
LEMMA SumMore ==
    ASSUME NEW f, NEW S, Ints(f, S), NEW x, x \notin S, f[x] \in Int
    PROVE  /\ Ints(f, S \cup {x})
           /\ SumFunctionOnSet(f, S \cup {x}) = f[x] + SumFunctionOnSet(f, S)
<1>1. Ints(f, S \cup {x})
  BY FS_AddElement DEF Ints
<1>2. (S \cup {x}) \ {x} = S
  OBVIOUS
<1>3. SumFunctionOnSet(f, S \cup {x}) = f[x] + SumFunctionOnSet(f, (S \cup {x}) \ {x})
  BY <1>1, SumPart
<1> QED BY <1>1, <1>2, <1>3

\* The parts of a set.
LEMMA SumParts ==
    ASSUME NEW f, NEW A, NEW B, Ints(f, A \cup B), A \cap B = {}
    PROVE  SumFunctionOnSet(f, A \cup B) = SumFunctionOnSet(f, A) + SumFunctionOnSet(f, B)
<1>1. Ints(f, A) /\ Ints(f, B) /\ IsFiniteSet(B)
  <2>1. A \in SUBSET (A \cup B) /\ B \in SUBSET (A \cup B)
    OBVIOUS
  <2> QED BY <2>1, IntsSubset DEF Ints
<1>2. SumFunctionOnSet(f, A) \in Int
  BY <1>1, SumType
<1> DEFINE Q == {s \in SUBSET B :
                    SumFunctionOnSet(f, A \cup s) = SumFunctionOnSet(f, A) + SumFunctionOnSet(f, s)}
<1>3. {} \in Q
  <2>1. A \cup {} = A
    OBVIOUS
  <2> QED BY <1>2, <2>1, SumEmpty
<1>4. ASSUME NEW s \in SUBSET B, s # {}, s \ {Some(s)} \in Q PROVE s \in Q
  <2> DEFINE x == Some(s)
             r == s \ {x}
  <2>1. x \in s /\ x \in B /\ x \notin A \cup r /\ x \notin r
    BY <1>4, SomeIn
  <2>2. s = r \cup {x} /\ A \cup s = (A \cup r) \cup {x}
    BY <2>1
  <2>3. Ints(f, A \cup r) /\ Ints(f, r)
    <3>1. A \cup r \in SUBSET (A \cup B) /\ r \in SUBSET (A \cup B)
      OBVIOUS
    <3> QED BY <3>1, IntsSubset
  <2>4. f[x] \in Int
    BY <2>1 DEF Ints
  <2>5. SumFunctionOnSet(f, A \cup r) = SumFunctionOnSet(f, A) + SumFunctionOnSet(f, r)
    BY <1>4
  <2> HIDE DEF x, r
  <2>6. SumFunctionOnSet(f, r \cup {x}) = f[x] + SumFunctionOnSet(f, r)
    BY <2>1, <2>3, <2>4, SumMore
  <2>7. SumFunctionOnSet(f, (A \cup r) \cup {x}) = f[x] + SumFunctionOnSet(f, A \cup r)
    BY <2>1, <2>3, <2>4, SumMore
  <2>8. SumFunctionOnSet(f, r) \in Int
    BY <2>3, SumType
  <2>9. SumFunctionOnSet(f, A \cup s) = SumFunctionOnSet(f, A) + SumFunctionOnSet(f, s)
    <3> DEFINE a == SumFunctionOnSet(f, A)
               b == SumFunctionOnSet(f, r)
               c == f[x]
    <3>1. SumFunctionOnSet(f, A \cup s) = c + SumFunctionOnSet(f, A \cup r)
      BY <2>2, <2>7
    <3>2. SumFunctionOnSet(f, s) = c + b
      BY <2>2, <2>6
    <3>3. SumFunctionOnSet(f, A \cup r) = a + b
      BY <2>5
    <3>4. a \in Int /\ b \in Int /\ c \in Int
      BY <1>2, <2>4, <2>8
    <3> HIDE DEF a, b, c
    <3>5. SumFunctionOnSet(f, A \cup s) = a + SumFunctionOnSet(f, s)
      BY <3>1, <3>2, <3>3, <3>4
    <3> QED BY <3>5 DEF a
  <2> QED BY <2>9
<1> HIDE DEF Q
<1>5. \A s \in SUBSET B : s \in Q
  BY <1>1, <1>3, <1>4, SubsetInduction
<1> QED BY <1>5 DEF Q

\* Sums of sums.
Parted(f, W, S) ==
    /\ IsFiniteSet(S) /\ \A i \in S : Ints(f, W[i])
    /\ \A i, j \in S : i # j => W[i] \cap W[j] = {}
Together(W, s) == UNION {W[i] : i \in s}
SumsOf(f, W, S) == [i \in S |-> SumFunctionOnSet(f, W[i])]
LEMMA SumTogether ==
    ASSUME NEW f, NEW W, NEW S, Parted(f, W, S)
    PROVE  /\ Ints(f, Together(W, S)) /\ Ints(SumsOf(f, W, S), S)
           /\ SumFunctionOnSet(SumsOf(f, W, S), S) = SumFunctionOnSet(f, Together(W, S))
<1> DEFINE g == SumsOf(f, W, S)
           Q == {s \in SUBSET S : /\ Ints(f, Together(W, s))
                                  /\ SumFunctionOnSet(g, s) = SumFunctionOnSet(f, Together(W, s))}
<1>1. IsFiniteSet(S) /\ Ints(g, S)
  <2>1. \A i \in S : g[i] \in Int
    BY SumType DEF Parted, SumsOf
  <2> QED BY <2>1 DEF Parted, Ints
<1>2. {} \in Q
  <2>1. Together(W, {}) = {}
    BY DEF Together
  <2>2. Ints(f, {})
    BY FS_EmptySet DEF Ints
  <2> HIDE DEF g
  <2> QED BY <2>1, <2>2, SumEmpty
<1>3. ASSUME NEW s \in SUBSET S, s # {}, s \ {Some(s)} \in Q PROVE s \in Q
  <2> DEFINE x == Some(s)
             r == s \ {x}
             A == Together(W, r)
             B == W[x]
  <2>1. x \in s /\ x \in S /\ x \notin r /\ r \in SUBSET S /\ s = r \cup {x}
    BY <1>3, SomeIn
  <2>2. Together(W, s) = A \cup B
    BY <2>1 DEF Together
  <2>3. A \cap B = {}
    BY <2>1 DEF Together, Parted
  <2>4. Ints(f, A) /\ SumFunctionOnSet(g, r) = SumFunctionOnSet(f, A)
    BY <1>3
  <2>5. Ints(f, B)
    BY <2>1 DEF Parted
  <2>6. Ints(f, A \cup B)
    <3> HIDE DEF A, B
    <3> QED BY <2>4, <2>5, FS_Union DEF Ints
  <2>7. g[x] = SumFunctionOnSet(f, B)
    BY <2>1 DEF SumsOf
  <2> HIDE DEF A, B, g, r
  <2>8. SumFunctionOnSet(f, A \cup B) = SumFunctionOnSet(f, A) + SumFunctionOnSet(f, B)
    BY <2>3, <2>6, SumParts
  <2>9. Ints(g, r) /\ g[x] \in Int
    <3>1. Ints(g, r)
      BY <1>1, <2>1, IntsSubset
    <3> QED BY <1>1, <2>1, <3>1 DEF Ints
  <2>10. SumFunctionOnSet(g, r \cup {x}) = g[x] + SumFunctionOnSet(g, r)
    BY <2>1, <2>9, SumMore
  <2>11. SumFunctionOnSet(f, A) \in Int /\ SumFunctionOnSet(f, B) \in Int
    BY <2>4, <2>5, SumType
  <2>12. SumFunctionOnSet(g, s) = SumFunctionOnSet(f, Together(W, s))
    <3>1. SumFunctionOnSet(g, r \cup {x}) = SumFunctionOnSet(f, A \cup B)
      BY <2>4, <2>7, <2>8, <2>10, <2>11
    <3> QED BY <2>1, <2>2, <3>1
  <2> QED BY <2>2, <2>6, <2>12
<1> HIDE DEF Q
<1>4. \A s \in SUBSET S : s \in Q
  BY <1>1, <1>2, <1>3, SubsetInduction
<1>5. S \in Q
  BY <1>4
<1> HIDE DEF g
<1> QED BY <1>1, <1>5 DEF Q, g

\* One summand grows.
LEMMA SumChange ==
    ASSUME NEW f, NEW g, NEW S, Ints(f, S), NEW x \in S, g[x] \in Int,
           \A y \in S : y # x => g[y] = f[y]
    PROVE  /\ Ints(g, S)
           /\ SumFunctionOnSet(g, S) = SumFunctionOnSet(f, S) + (g[x] - f[x])
<1>1. Ints(g, S)
  BY DEF Ints
<1>2. Ints(f, S \ {x}) /\ \A y \in S \ {x} : f[y] = g[y]
  BY IntsSubset
<1>3. SumFunctionOnSet(f, S \ {x}) = SumFunctionOnSet(g, S \ {x})
  BY <1>2, SumSame
<1>4. /\ SumFunctionOnSet(f, S) = f[x] + SumFunctionOnSet(f, S \ {x})
      /\ SumFunctionOnSet(g, S) = g[x] + SumFunctionOnSet(g, S \ {x})
  BY <1>1, SumPart
<1>5. f[x] \in Int /\ SumFunctionOnSet(f, S \ {x}) \in Int
  BY <1>2, SumType DEF Ints
<1> QED BY <1>1, <1>3, <1>4, <1>5

\* None is negative.
LEMMA SumNat ==
    ASSUME NEW f, NEW S, Ints(f, S), \A x \in S : f[x] >= 0
    PROVE  SumFunctionOnSet(f, S) \in Nat
<1> DEFINE B == {s \in SUBSET S : SumFunctionOnSet(f, s) \in Nat}
<1>1. {} \in B
  BY SumEmpty
<1>2. ASSUME NEW s \in SUBSET S, s # {}, s \ {Some(s)} \in B PROVE s \in B
  <2>1. Ints(f, s) /\ f[Some(s)] \in Nat
    BY <1>2, IntsSubset, SomeIn DEF Ints
  <2>2. SumFunctionOnSet(f, s) = f[Some(s)] + SumFunctionOnSet(f, s \ {Some(s)})
    BY <1>2, <2>1, SumChosen
  <2>3. SumFunctionOnSet(f, s) \in Nat
    BY <1>2, <2>1, <2>2
  <2> QED BY <2>3
<1>3. IsFiniteSet(S)
  BY DEF Ints
<1>4. \A s \in SUBSET S : s \in B
  <2> HIDE DEF B
  <2> QED BY <1>1, <1>2, <1>3, SubsetInduction
<1> QED BY <1>4

\* All are zero.
LEMMA SumNone ==
    ASSUME NEW f, NEW S, Ints(f, S), \A x \in S : f[x] = 0
    PROVE  SumFunctionOnSet(f, S) = 0
<1> DEFINE B == {s \in SUBSET S : SumFunctionOnSet(f, s) = 0}
<1>1. {} \in B
  BY SumEmpty
<1>2. ASSUME NEW s \in SUBSET S, s # {}, s \ {Some(s)} \in B PROVE s \in B
  <2>1. Ints(f, s) /\ f[Some(s)] = 0
    BY <1>2, IntsSubset, SomeIn
  <2>2. SumFunctionOnSet(f, s) = f[Some(s)] + SumFunctionOnSet(f, s \ {Some(s)})
    BY <1>2, <2>1, SumChosen
  <2>3. SumFunctionOnSet(f, s) = 0
    BY <1>2, <2>1, <2>2
  <2> QED BY <2>3
<1>3. IsFiniteSet(S)
  BY DEF Ints
<1>4. \A s \in SUBSET S : s \in B
  <2> HIDE DEF B
  <2> QED BY <1>1, <1>2, <1>3, SubsetInduction
<1> QED BY <1>4

\* Only some are not zero.
LEMMA SumWithin ==
    ASSUME NEW f, NEW S, Ints(f, S), NEW T \in SUBSET S, \A x \in S : x \notin T => f[x] = 0
    PROVE  SumFunctionOnSet(f, S) = SumFunctionOnSet(f, T)
<1> DEFINE B == {s \in SUBSET S : SumFunctionOnSet(f, s) = SumFunctionOnSet(f, s \cap T)}
<1>1. {} \in B
  <2>1. {} \cap T = {}
    OBVIOUS
  <2> QED BY <2>1
<1>2. ASSUME NEW s \in SUBSET S, s # {}, s \ {Some(s)} \in B PROVE s \in B
  <2> DEFINE c == Some(s)
             q == s \ {Some(s)}
  <2>1. c \in s /\ c \notin q /\ s = q \cup {c} /\ q \in SUBSET S
    BY <1>2, SomeIn
  <2>2. Ints(f, s) /\ f[c] \in Int /\ Ints(f, q) /\ Ints(f, q \cap T)
    <3>1. q \cap T \in SUBSET S
      OBVIOUS
    <3> HIDE DEF q
    <3> QED BY <2>1, <3>1, IntsSubset DEF Ints
  <2>3. SumFunctionOnSet(f, s) = f[c] + SumFunctionOnSet(f, q)
    BY <1>2, <2>2, SumChosen
  <2>4. SumFunctionOnSet(f, q) = SumFunctionOnSet(f, q \cap T)
    BY <1>2
  <2>5. SumFunctionOnSet(f, q \cap T) \in Int
    BY <2>2, SumType
  <2> HIDE DEF c, q
  <2>6. SumFunctionOnSet(f, s) = SumFunctionOnSet(f, s \cap T)
    <3>1. CASE c \in T
      <4>1. s \cap T = (q \cap T) \cup {c} /\ c \notin q \cap T
        BY <2>1, <3>1
      <4>2. SumFunctionOnSet(f, (q \cap T) \cup {c}) = f[c] + SumFunctionOnSet(f, q \cap T)
        BY <2>2, <4>1, SumMore
      <4> QED BY <2>3, <2>4, <4>1, <4>2
    <3>2. CASE c \notin T
      <4>1. s \cap T = q \cap T /\ f[c] = 0
        BY <2>1, <3>2
      <4> DEFINE n == SumFunctionOnSet(f, q \cap T)
      <4>2. n \in Int /\ SumFunctionOnSet(f, s) = 0 + n
        BY <2>3, <2>4, <2>5, <4>1
      <4> HIDE DEF n
      <4>3. SumFunctionOnSet(f, s) = n
        BY <4>2
      <4>4. SumFunctionOnSet(f, s \cap T) = n
        BY <4>1 DEF n
      <4> QED BY <4>3, <4>4
    <3> QED BY <3>1, <3>2
  <2> QED BY <2>6
<1>3. IsFiniteSet(S)
  BY DEF Ints
<1>4. \A s \in SUBSET S : s \in B
  <2> HIDE DEF B
  <2> QED BY <1>1, <1>2, <1>3, SubsetInduction
<1>5. S \cap T = T /\ S \in B
  BY <1>4
<1> QED BY <1>5

\* The same elements under other names.
Renames(h, f, g, S) ==
    /\ \A x, y \in S : h[x] = h[y] => x = y
    /\ \A x \in S : g[h[x]] = f[x]
Renamed(h, S) == {h[x] : x \in S}

LEMMA SumRenamed ==
    ASSUME NEW f, NEW g, NEW h, NEW S, Ints(f, S), Renames(h, f, g, S)
    PROVE  /\ Ints(g, Renamed(h, S))
           /\ SumFunctionOnSet(g, Renamed(h, S)) = SumFunctionOnSet(f, S)
<1> USE DEF Renames, Renamed
<1> DEFINE Img(s) == {h[x] : x \in s}
           B == {s \in SUBSET S : /\ Ints(g, Img(s))
                                  /\ SumFunctionOnSet(g, Img(s)) = SumFunctionOnSet(f, s)}
<1>1. {} \in B
  <2>1. Img({}) = {}
    OBVIOUS
  <2>2. Ints(g, {})
    BY FS_EmptySet DEF Ints
  <2> QED BY <2>1, <2>2, SumEmpty
<1>2. ASSUME NEW s \in SUBSET S, s # {}, s \ {Some(s)} \in B PROVE s \in B
  <2> DEFINE c == Some(s)
  <2>1. c \in s /\ c \in S /\ h[c] \notin Img(s \ {c}) /\ Img(s) = Img(s \ {c}) \cup {h[c]}
    BY <1>2, SomeIn
  <2>2. Ints(f, s) /\ g[h[c]] = f[c] /\ f[c] \in Int
    BY <2>1, IntsSubset DEF Ints
  <2>3. Ints(g, Img(s \ {c})) /\ SumFunctionOnSet(g, Img(s \ {c})) = SumFunctionOnSet(f, s \ {c})
    BY <1>2
  <2>4. SumFunctionOnSet(f, s) = f[c] + SumFunctionOnSet(f, s \ {c})
    BY <1>2, <2>2, SumChosen
  <2> DEFINE R == Img(s \ {c})
             x == h[c]
  <2>5. /\ Ints(g, Img(s))
        /\ SumFunctionOnSet(g, Img(s)) = g[h[c]] + SumFunctionOnSet(g, Img(s \ {c}))
    <3>1. x \notin R /\ g[x] \in Int /\ Ints(g, R) /\ Img(s) = R \cup {x}
      BY <2>1, <2>2, <2>3
    <3> HIDE DEF R, x
    <3>2. /\ Ints(g, R \cup {x})
          /\ SumFunctionOnSet(g, R \cup {x}) = g[x] + SumFunctionOnSet(g, R)
      BY <3>1, SumMore
    <3>3. Ints(g, Img(s)) /\ SumFunctionOnSet(g, Img(s)) = g[x] + SumFunctionOnSet(g, R)
      BY ONLY <3>1, <3>2
    <3> QED BY ONLY <3>3 DEF R, x
  <2> HIDE DEF Img, c
  <2>6. SumFunctionOnSet(g, Img(s)) = SumFunctionOnSet(f, s)
    BY <2>2, <2>3, <2>4, <2>5
  <2> QED BY <2>5, <2>6
<1>3. IsFiniteSet(S)
  BY DEF Ints
<1>4. \A s \in SUBSET S : s \in B
  <2> HIDE DEF B
  <2> QED BY <1>1, <1>2, <1>3, SubsetInduction
<1> QED BY <1>4

-----------------------------------------------------------------------------
(* Distributions.                                                           *)

Entries == [lo : Int, n : Nat]
Rising(s) == \A i, j \in DOMAIN s : i < j => s[i].lo < s[j].lo
Distributions == {s \in Seq(Entries) : Rising(s)}

At(s, lo) == {j \in DOMAIN s : s[j].lo = lo}
Ns(s) == [i \in DOMAIN s |-> s[i].n]

LEMMA InSum ==
    ASSUME NEW s \in Seq(Entries), NEW lo
    PROVE  /\ Ints(Ns(s), At(s, lo)) /\ In(s, lo) = SumFunctionOnSet(Ns(s), At(s, lo))
           /\ In(s, lo) \in Nat
<1> DEFINE f == [i \in At(s, lo) |-> s[i].n]
<1>1. IsFiniteSet(At(s, lo))
  <2>1. IsFiniteSet(1 .. Len(s)) /\ At(s, lo) \subseteq 1 .. Len(s)
    BY FS_Interval DEF At
  <2> QED BY <2>1, FS_Subset
<1>2. \A i \in At(s, lo) : s[i].n \in Nat /\ Ns(s)[i] = s[i].n /\ f[i] = s[i].n
  <2> SUFFICES ASSUME NEW i \in At(s, lo)
               PROVE  s[i].n \in Nat /\ Ns(s)[i] = s[i].n /\ f[i] = s[i].n
    OBVIOUS
  <2>1. i \in DOMAIN s /\ s[i] \in Entries
    BY DEF At
  <2> QED BY <2>1 DEF Ns, Entries
<1>3. Ints(Ns(s), At(s, lo)) /\ Ints(f, At(s, lo))
  BY <1>1, <1>2 DEF Ints
<1>4. In(s, lo) = SumFunctionOnSet(f, At(s, lo))
  <2>1. In(s, lo) = SumFunction(f) /\ DOMAIN f = At(s, lo)
    BY DEF In, At
  <2> HIDE DEF f
  <2> QED BY <2>1, SumWhole
<1>5. SumFunctionOnSet(f, At(s, lo)) = SumFunctionOnSet(Ns(s), At(s, lo))
  BY <1>2, <1>3, SumSame
<1>6. SumFunctionOnSet(f, At(s, lo)) \in Nat
  <2>1. \A i \in At(s, lo) : f[i] >= 0
    BY <1>2
  <2> HIDE DEF f
  <2> QED BY <1>3, <2>1, SumNat
<1> QED BY <1>3, <1>4, <1>5, <1>6

LEMMA InEmpty == ASSUME NEW lo PROVE In(<<>>, lo) = 0
<1>1. <<>> \in Seq(Entries) /\ At(<<>>, lo) = {}
  BY DEF At
<1> QED BY <1>1, InSum, SumEmpty

LEMMA InPrepended ==
    ASSUME NEW e \in Entries, NEW m \in Seq(Entries), NEW lo
    PROVE  /\ <<e>> \o m \in Seq(Entries)
           /\ In(<<e>> \o m, lo) = (IF e.lo = lo THEN e.n ELSE 0) + In(m, lo)
<1> DEFINE q == <<e>> \o m
           h == [i \in Nat |-> i + 1]
           R == Renamed(h, At(m, lo))
<1>1. /\ q \in Seq(Entries) /\ Len(q) = Len(m) + 1 /\ q[1] = e
      /\ \A i \in DOMAIN m : i + 1 \in DOMAIN q /\ q[i + 1] = m[i]
      /\ \A j \in DOMAIN q : j = 1 \/ j - 1 \in DOMAIN m
  OBVIOUS
<1>2. At(m, lo) \subseteq Nat
  BY DEF At
<1>3. \A i, j \in At(m, lo) : h[i] = h[j] => i = j
  BY <1>2
<1>4. \A i \in At(m, lo) : Ns(q)[h[i]] = Ns(m)[i]
  <2> SUFFICES ASSUME NEW i \in At(m, lo) PROVE Ns(q)[h[i]] = Ns(m)[i]
    OBVIOUS
  <2>1. h[i] = i + 1 /\ i \in DOMAIN m
    BY <1>2 DEF At
  <2> HIDE DEF q, h
  <2> QED BY <1>1, <2>1 DEF Ns
<1>5. At(q, lo) = R \cup (IF e.lo = lo THEN {1} ELSE {}) /\ 1 \notin R
  <2>1. \A i \in At(m, lo) : h[i] = i + 1 /\ i \in DOMAIN m /\ i + 1 # 1 /\ m[i].lo = lo
    <3> SUFFICES ASSUME NEW i \in At(m, lo)
                 PROVE  h[i] = i + 1 /\ i \in DOMAIN m /\ i + 1 # 1 /\ m[i].lo = lo
      OBVIOUS
    <3>1. i \in 1 .. Len(m) /\ m[i].lo = lo
      BY DEF At
    <3>2. i \in Nat /\ i + 1 # 1 /\ i \in DOMAIN m
      BY <3>1
    <3>3. h[i] = i + 1
      BY <3>2
    <3> HIDE DEF h
    <3> QED BY <3>1, <3>2, <3>3
  <2>2. \A i \in DOMAIN m : m[i].lo = lo => i \in At(m, lo)
    BY DEF At
  <2> USE DEF Renamed
  <2> HIDE DEF q, h
  <2>3. R \subseteq At(q, lo) /\ 1 \notin R
    BY <1>1, <2>1 DEF At
  <2>4. ASSUME NEW j \in At(q, lo), j # 1 PROVE j \in R
    <3>1. j - 1 \in DOMAIN m /\ j \in DOMAIN q /\ q[j].lo = lo
      BY <1>1, <2>4 DEF At
    <3>2. j - 1 + 1 = j /\ q[j - 1 + 1] = m[j - 1]
      BY <1>1, <3>1
    <3>3. j - 1 \in At(m, lo)
      BY <2>2, <3>1, <3>2
    <3> QED BY <2>1, <3>2, <3>3
  <2>5. 1 \in At(q, lo) <=> e.lo = lo
    BY <1>1 DEF At
  <2> HIDE DEF R
  <2> QED BY <2>3, <2>4, <2>5
<1>6. /\ In(q, lo) = SumFunctionOnSet(Ns(q), At(q, lo)) /\ Ints(Ns(q), At(q, lo))
      /\ In(m, lo) = SumFunctionOnSet(Ns(m), At(m, lo)) /\ Ints(Ns(m), At(m, lo))
      /\ In(m, lo) \in Nat
  <2> HIDE DEF q
  <2> QED BY <1>1, InSum
<1>7. Ints(Ns(q), R) /\ SumFunctionOnSet(Ns(q), R) = In(m, lo)
  <2> HIDE DEF q, h
  <2>1. Renames(h, Ns(m), Ns(q), At(m, lo))
    BY <1>3, <1>4 DEF Renames
  <2> QED BY <1>6, <2>1, SumRenamed
<1>8. CASE e.lo = lo
  <2>1. 1 \notin R /\ At(q, lo) = R \cup {1} /\ Ns(q)[1] = e.n /\ e.n \in Int
    <3>1. Ns(q)[1] = q[1].n
      <4> HIDE DEF q
      <4> QED BY <1>1 DEF Ns
    <3> HIDE DEF q, R
    <3> QED BY <1>1, <1>5, <1>8, <3>1 DEF Entries
  <2> HIDE DEF q, R
  <2>2. SumFunctionOnSet(Ns(q), R \cup {1}) = Ns(q)[1] + SumFunctionOnSet(Ns(q), R)
    BY <1>7, <2>1, SumMore
  <2> QED BY <1>1, <1>6, <1>7, <1>8, <2>1, <2>2 DEF q
<1>9. CASE e.lo # lo
  <2> HIDE DEF q, R
  <2> QED BY <1>1, <1>5, <1>6, <1>7, <1>9 DEF q
<1> QED BY <1>8, <1>9

Above(b, s) == \A i \in DOMAIN s : b < s[i].lo

LEMMA RisingPrepended ==
    ASSUME NEW e \in Entries, NEW m \in Distributions, Above(e.lo, m),
           NEW b \in Int, b < e.lo, Above(b, m)
    PROVE  <<e>> \o m \in Distributions /\ Above(b, <<e>> \o m)
<1> DEFINE q == <<e>> \o m
<1>1. m \in Seq(Entries)
  BY DEF Distributions
<1>2. /\ q \in Seq(Entries) /\ Len(q) = Len(m) + 1 /\ q[1] = e /\ Len(m) \in Nat
      /\ \A j \in DOMAIN q : j \in Nat /\ (j = 1 \/ (j - 1 \in DOMAIN m /\ q[j] = m[j - 1]))
  BY <1>1
<1> HIDE DEF q
<1>3. ASSUME NEW i \in DOMAIN q, NEW j \in DOMAIN q, i < j PROVE q[i].lo < q[j].lo
  <2>1. i \in Nat /\ j \in Nat /\ j # 1 /\ j - 1 \in DOMAIN m /\ q[j] = m[j - 1]
    <3>1. j # 1
      BY <1>2, <1>3
    <3> QED BY <1>2, <3>1
  <2>2. CASE i = 1
    BY <1>2, <2>1, <2>2 DEF Above
  <2>3. CASE i # 1
    <3>1. i - 1 \in DOMAIN m /\ q[i] = m[i - 1] /\ i - 1 < j - 1
      BY <1>2, <1>3, <2>1, <2>3
    <3> QED BY <2>1, <3>1 DEF Distributions, Rising
  <2> QED BY <2>2, <2>3
<1>4. Above(b, q)
  BY <1>2 DEF Above
<1> QED BY <1>2, <1>3, <1>4 DEF Distributions, Rising, q

Rest(s, k) == SubSeq(s, k, Len(s))

LEMMA RestStep ==
    ASSUME NEW s \in Seq(Entries), NEW k \in 1 .. Len(s) + 1
    PROVE  /\ Rest(s, k) \in Seq(Entries)
           /\ k = Len(s) + 1 => Rest(s, k) = <<>>
           /\ k # Len(s) + 1 => Rest(s, k) = <<s[k]>> \o Rest(s, k + 1)
           /\ Rest(s, 1) = s
<1>1. Len(s) \in Nat /\ k \in Nat
  OBVIOUS
<1>2. Rest(s, k) \in Seq(Entries)
  BY <1>1 DEF Rest
<1>3. k = Len(s) + 1 => Rest(s, k) = <<>>
  BY <1>1 DEF Rest
<1>4. k # Len(s) + 1 => Rest(s, k) = <<s[k]>> \o Rest(s, k + 1)
  BY <1>1 DEF Rest
<1>5. Rest(s, 1) = s
  BY <1>1 DEF Rest
<1> QED BY <1>2, <1>3, <1>4, <1>5

LEMMA InRest ==
    ASSUME NEW s \in Seq(Entries), NEW k \in 1 .. Len(s) + 1, NEW lo
    PROVE  /\ In(Rest(s, k), lo) \in Nat
           /\ k = Len(s) + 1 => In(Rest(s, k), lo) = 0
           /\ k # Len(s) + 1 =>
                 In(Rest(s, k), lo) = (IF s[k].lo = lo THEN s[k].n ELSE 0) + In(Rest(s, k + 1), lo)
<1>1. Len(s) \in Nat /\ k \in Nat
  OBVIOUS
<1>2. In(Rest(s, k), lo) \in Nat
  BY RestStep, InSum
<1>3. k = Len(s) + 1 => In(Rest(s, k), lo) = 0
  BY RestStep, InEmpty
<1>4. ASSUME k # Len(s) + 1
      PROVE  In(Rest(s, k), lo) = (IF s[k].lo = lo THEN s[k].n ELSE 0) + In(Rest(s, k + 1), lo)
  <2>1. k + 1 \in 1 .. Len(s) + 1 /\ k \in 1 .. Len(s) /\ s[k] \in Entries
    BY <1>1, <1>4
  <2>2. Rest(s, k + 1) \in Seq(Entries) /\ Rest(s, k) = <<s[k]>> \o Rest(s, k + 1)
    BY <1>4, <2>1, RestStep
  <2> QED BY <2>1, <2>2, InPrepended
<1> QED BY <1>2, <1>3, <1>4

LEMMA EntryAt ==
    ASSUME NEW s \in Seq(Entries), NEW k \in 1 .. Len(s) + 1
    PROVE  /\ Len(s) \in Nat /\ k \in Nat /\ (k <= Len(s) <=> k # Len(s) + 1)
           /\ k <= Len(s) => /\ k + 1 \in 1 .. Len(s) + 1
                             /\ s[k] \in Entries /\ s[k].lo \in Int /\ s[k].n \in Nat
<1>1. Len(s) \in Nat /\ k \in Nat /\ (k <= Len(s) <=> k # Len(s) + 1)
  OBVIOUS
<1>2. ASSUME k <= Len(s) PROVE k + 1 \in 1 .. Len(s) + 1 /\ s[k] \in Entries
  BY <1>2
<1>3. \A e \in Entries : e.lo \in Int /\ e.n \in Nat
  BY DEF Entries
<1> QED BY <1>1, <1>2, <1>3

\* caAddDistributions, one call of its recursion at a time.
Merging(l, r) == (1 .. Len(l) + 1) \X (1 .. Len(r) + 1)
Both(x, y) == [x EXCEPT !.n = @ + y.n]
LEMMA BothEntry ==
    ASSUME NEW x \in Entries, NEW y \in Entries
    PROVE  Both(x, y) \in Entries /\ Both(x, y).lo = x.lo /\ Both(x, y).n = x.n + y.n
<1>1. PICK lo \in Int, n \in Nat : x = [lo |-> lo, n |-> n]
  BY DEF Entries
<1>2. y.n \in Nat
  BY DEF Entries
<1>3. Both(x, y) = [lo |-> lo, n |-> n + y.n]
  BY <1>1 DEF Both
<1> QED BY <1>1, <1>2, <1>3 DEF Entries

MergeStep(l, r, a, b, f) ==
    IF b > Len(r) THEN SubSeq(l, a, Len(l))
    ELSE IF a <= Len(l) /\ l[a].lo < r[b].lo THEN <<l[a]>> \o f[<<a + 1, b>>]
    ELSE IF a <= Len(l) /\ l[a].lo = r[b].lo THEN <<Both(l[a], r[b])>> \o f[<<a + 1, b + 1>>]
    ELSE <<r[b]>> \o f[<<a, b + 1>>]

\* It takes one entry, from either side or from both.
Taken(l, r, a, b, e, i, j) ==
    /\ e \in Entries /\ i \in {0, 1} /\ j \in {0, 1} /\ i + j > 0
    /\ a + i \in 1 .. Len(l) + 1 /\ b + j \in 1 .. Len(r) + 1
    /\ i = 1 => a # Len(l) + 1 /\ e.lo = l[a].lo
    /\ i = 0 => a = Len(l) + 1 \/ e.lo < l[a].lo
    /\ j = 1 => b # Len(r) + 1 /\ e.lo = r[b].lo
    /\ j = 0 => b = Len(r) + 1 \/ e.lo < r[b].lo
    /\ e.n = (IF i = 1 THEN l[a].n ELSE 0) + (IF j = 1 THEN r[b].n ELSE 0)
Takes(l, r, a, b, e, i, j) ==
    /\ Taken(l, r, a, b, e, i, j)
    /\ \A f : MergeStep(l, r, a, b, f) = <<e>> \o f[<<a + i, b + j>>]

LEMMA MergeCases ==
    ASSUME NEW l \in Seq(Entries), NEW r \in Seq(Entries),
           NEW a \in 1 .. Len(l) + 1, NEW b \in 1 .. Len(r) + 1
    PROVE  \/ /\ b = Len(r) + 1
              /\ \A f : MergeStep(l, r, a, b, f) = Rest(l, a)
           \/ \E e, i, j : Takes(l, r, a, b, e, i, j)
<1>1. CASE b = Len(r) + 1
  <2>1. b > Len(r)
    BY <1>1, EntryAt
  <2> QED BY <1>1, <2>1 DEF MergeStep, Rest
<1>2. CASE b # Len(r) + 1
  <2> DEFINE x == l[a]
             y == r[b]
  <2>1. /\ b # Len(r) + 1 /\ Len(r) \in Nat /\ b \in Nat /\ ~(b > Len(r)) /\ b + 1 \in 1 .. Len(r) + 1
        /\ b + 0 \in 1 .. Len(r) + 1 /\ b + 0 = b
        /\ y \in Entries /\ y.lo \in Int /\ y.n \in Nat
    BY <1>2, EntryAt
  <2>2. Len(l) \in Nat /\ a \in Nat /\ a + 0 \in 1 .. Len(l) + 1 /\ a + 0 = a
    BY EntryAt
  <2>3. ASSUME a <= Len(l)
        PROVE  /\ a + 1 \in 1 .. Len(l) + 1 /\ x \in Entries /\ x.lo \in Int /\ x.n \in Nat
               /\ Both(x, y) \in Entries /\ Both(x, y).lo = x.lo /\ Both(x, y).n = x.n + y.n
    <3>1. a + 1 \in 1 .. Len(l) + 1 /\ x \in Entries /\ x.lo \in Int /\ x.n \in Nat
      BY <2>3, EntryAt
    <3> HIDE DEF x, y
    <3> QED BY <2>1, <3>1, BothEntry
  <2>4. CASE a <= Len(l) /\ x.lo < y.lo
    <3>1. \A f : MergeStep(l, r, a, b, f) = <<x>> \o f[<<a + 1, b + 0>>]
      BY <2>1, <2>4 DEF MergeStep
    <3>2. Takes(l, r, a, b, x, 1, 0)
      <4> HIDE DEF x, y
      <4>1. x = l[a] /\ y = r[b]
        BY DEF x, y
      <4>2. /\ a + 1 \in 1 .. Len(l) + 1 /\ x \in Entries /\ x.lo \in Int /\ x.n \in Nat
            /\ Both(x, y) \in Entries /\ Both(x, y).lo = x.lo /\ Both(x, y).n = x.n + y.n
            /\ a # Len(l) + 1
        BY <2>2, <2>3, <2>4
      <4>3. Taken(l, r, a, b, x, 1, 0)
        BY <2>1, <2>2, <2>4, <4>1, <4>2 DEF Taken
      <4> QED BY <3>1, <4>3 DEF Takes
    <3> QED BY <3>2
  <2>5. CASE a <= Len(l) /\ x.lo = y.lo
    <3>1. \A f : MergeStep(l, r, a, b, f) = <<Both(x, y)>> \o f[<<a + 1, b + 1>>]
      <4>1. ~(x.lo < y.lo)
        BY <2>1, <2>5
      <4> QED BY <2>1, <2>5, <4>1 DEF MergeStep
    <3>2. Takes(l, r, a, b, Both(x, y), 1, 1)
      <4> HIDE DEF x, y
      <4>1. x = l[a] /\ y = r[b]
        BY DEF x, y
      <4>2. /\ a + 1 \in 1 .. Len(l) + 1 /\ x \in Entries /\ x.lo \in Int /\ x.n \in Nat
            /\ Both(x, y) \in Entries /\ Both(x, y).lo = x.lo /\ Both(x, y).n = x.n + y.n
            /\ a # Len(l) + 1
        BY <2>2, <2>3, <2>5
      <4>3. Taken(l, r, a, b, Both(x, y), 1, 1)
        BY <2>1, <2>2, <2>5, <4>1, <4>2 DEF Taken
      <4> QED BY <3>1, <4>3 DEF Takes
    <3> QED BY <3>2
  <2>6. CASE ~(a <= Len(l)) \/ y.lo < x.lo
    <3>1. \A f : MergeStep(l, r, a, b, f) = <<y>> \o f[<<a + 0, b + 1>>]
      <4>1. /\ ~(a <= Len(l) /\ x.lo < y.lo) /\ ~(a <= Len(l) /\ x.lo = y.lo)
        BY <2>1, <2>3, <2>6
      <4> QED BY <2>1, <2>2, <4>1 DEF MergeStep
    <3>2. a = Len(l) + 1 \/ y.lo < x.lo
      BY <2>6, EntryAt
    <3>3. Takes(l, r, a, b, y, 0, 1)
      <4> HIDE DEF x, y
      <4>1. x = l[a] /\ y = r[b]
        BY DEF x, y
      <4>3. Taken(l, r, a, b, y, 0, 1)
        BY <2>1, <2>2, <3>2, <4>1 DEF Taken
      <4> QED BY <3>1, <4>3 DEF Takes
    <3> QED BY <3>3
  <2>7. a <= Len(l) => x.lo < y.lo \/ x.lo = y.lo \/ y.lo < x.lo
    BY <2>1, <2>3
  <2> QED BY <2>4, <2>5, <2>6, <2>7
<1> QED BY <1>1, <1>2

IsMerge(f, l, r) ==
    \A a \in 1 .. Len(l) + 1, b \in 1 .. Len(r) + 1 : f[<<a, b>>] = MergeStep(l, r, a, b, f)

LEMMA MergePairs ==
    ASSUME NEW l \in Seq(Entries), NEW r \in Seq(Entries)
    PROVE  /\ \A a \in 1 .. Len(l) + 1, b \in 1 .. Len(r) + 1 : <<a, b>> \in Merging(l, r)
           /\ \A p \in Merging(l, r) : /\ p = <<p[1], p[2]>>
                                       /\ p[1] \in 1 .. Len(l) + 1 /\ p[2] \in 1 .. Len(r) + 1
           /\ Len(l) \in Nat /\ Len(r) \in Nat
BY DEF Merging

\* How much is left to be merged.
Left(l, r) ==
    [p \in Merging(l, r) |-> (Len(l) + 1 - p[1]) + (Len(r) + 1 - p[2])]

LEMMA LeftType ==
    ASSUME NEW l \in Seq(Entries), NEW r \in Seq(Entries)
    PROVE  /\ Len(l) + Len(r) \in Nat
           /\ Left(l, r) \in [Merging(l, r) -> 0 .. Len(l) + Len(r)]
<1>1. ASSUME NEW p \in Merging(l, r)
      PROVE  (Len(l) + 1 - p[1]) + (Len(r) + 1 - p[2]) \in 0 .. Len(l) + Len(r)
  BY MergePairs
<1> QED BY <1>1, MergePairs DEF Left

LEMMA LeftLess ==
    ASSUME NEW l \in Seq(Entries), NEW r \in Seq(Entries),
           NEW a \in 1 .. Len(l) + 1, NEW b \in 1 .. Len(r) + 1, NEW e, NEW i, NEW j,
           Taken(l, r, a, b, e, i, j)
    PROVE  /\ <<a + i, b + j>> \in Merging(l, r) /\ e \in Entries
           /\ Left(l, r)[<<a + i, b + j>>] < Left(l, r)[<<a, b>>]
<1>1. /\ i \in {0, 1} /\ j \in {0, 1} /\ i + j > 0 /\ e \in Entries
      /\ a + i \in 1 .. Len(l) + 1 /\ b + j \in 1 .. Len(r) + 1
  BY DEF Taken
<1>2. <<a + i, b + j>> \in Merging(l, r) /\ <<a, b>> \in Merging(l, r)
  BY <1>1, MergePairs
<1>3. \A p \in Merging(l, r) : Left(l, r)[p] = (Len(l) + 1 - p[1]) + (Len(r) + 1 - p[2])
  BY DEF Left
<1>4. /\ Left(l, r)[<<a + i, b + j>>] = (Len(l) + 1 - (a + i)) + (Len(r) + 1 - (b + j))
      /\ Left(l, r)[<<a, b>>] = (Len(l) + 1 - a) + (Len(r) + 1 - b)
  BY <1>2, <1>3
<1>5. Len(l) \in Nat /\ Len(r) \in Nat /\ a \in Nat /\ b \in Nat /\ i \in Nat /\ j \in Nat
  BY <1>1, EntryAt
<1> QED BY <1>1, <1>2, <1>4, <1>5

LEMMA MergeExists ==
    ASSUME NEW l \in Seq(Entries), NEW r \in Seq(Entries)
    PROVE  \E f : IsMerge(f, l, r) /\ caAddDistributions(l, r) = f[<<1, 1>>]
<1> DEFINE P == Merging(l, r)
           N == Len(l) + Len(r)
           rank == Left(l, r)
           D == Seq(Entries)
           Step(p, f) == MergeStep(l, r, p[1], p[2], f)
           G == [x \in P \X [P -> D] |-> Step(x[1], x[2])]
           Body(f) == [p \in P |-> Step(p, f)]
           merge == CHOOSE f : f = Body(f)
<1>1. N \in Nat /\ rank \in [P -> 0 .. N]
  BY LeftType
<1>2. D # {}
  OBVIOUS
<1>3. ASSUME NEW p \in P, NEW f \in [P -> D] PROVE Step(p, f) \in D
  <2>1. p[1] \in 1 .. Len(l) + 1 /\ p[2] \in 1 .. Len(r) + 1
    BY MergePairs
  <2>2. CASE \A g : MergeStep(l, r, p[1], p[2], g) = Rest(l, p[1])
    BY <2>1, <2>2, RestStep
  <2>3. ASSUME NEW e, NEW i, NEW j, Takes(l, r, p[1], p[2], e, i, j)
        PROVE  Step(p, f) \in D
    <3>1. <<p[1] + i, p[2] + j>> \in P /\ e \in Entries
      BY <2>1, <2>3, LeftLess DEF Takes
    <3>2. Step(p, f) = <<e>> \o f[<<p[1] + i, p[2] + j>>]
      BY <2>3 DEF Takes
    <3>3. f[<<p[1] + i, p[2] + j>>] \in D
      BY <3>1
    <3> QED BY <3>1, <3>2, <3>3, InPrepended
  <2> HIDE DEF Step
  <2> QED BY <2>1, <2>2, <2>3, MergeCases
<1>4. ASSUME NEW p \in P, NEW f \in [P -> D], NEW g \in [P -> D],
             \A q \in P : rank[q] < rank[p] => f[q] = g[q]
      PROVE  Step(p, f) = Step(p, g)
  <2>1. p = <<p[1], p[2]>> /\ p[1] \in 1 .. Len(l) + 1 /\ p[2] \in 1 .. Len(r) + 1
    BY MergePairs
  <2>2. CASE \A h : MergeStep(l, r, p[1], p[2], h) = Rest(l, p[1])
    BY <2>2
  <2>3. ASSUME NEW e, NEW i, NEW j, Takes(l, r, p[1], p[2], e, i, j)
        PROVE  Step(p, f) = Step(p, g)
    <3> DEFINE n == <<p[1] + i, p[2] + j>>
    <3>1. n \in P /\ rank[n] < rank[<<p[1], p[2]>>]
      BY <2>1, <2>3, LeftLess DEF Takes
    <3>2. Step(p, f) = <<e>> \o f[n] /\ Step(p, g) = <<e>> \o g[n]
      BY <2>3 DEF Takes
    <3>3. f[n] = g[n]
      <4> HIDE DEF n, P, D, rank
      <4> QED BY <1>4, <2>1, <3>1
    <3> QED BY <3>2, <3>3
  <2> HIDE DEF Step
  <2> QED BY <2>1, <2>2, <2>3, MergeCases
<1> HIDE DEF Step
<1>5. Founded(P, N, rank, D, G)
  <2>1. \A p \in P, f \in [P -> D] : G[<<p, f>>] = Step(p, f)
    OBVIOUS
  <2>2. G \in [P \X [P -> D] -> D]
    BY <1>3
  <2> HIDE DEF G, P, D, rank, N
  <2>3. \A p \in P, f, g \in [P -> D] :
            (\A q \in P : rank[q] < rank[p] => f[q] = g[q]) => G[<<p, f>>] = G[<<p, g>>]
    BY <1>4, <2>1
  <2> QED BY <1>1, <1>2, <2>2, <2>3 DEF Founded
<1>6. PICK f \in [P -> D] : \A p \in P : f[p] = G[<<p, f>>]
  <2> HIDE DEF P, N, rank, D, G
  <2> QED BY <1>5, Recursion
<1>7. f = Body(f)
  BY <1>6
<1>8. merge = Body(merge)
  <2> HIDE DEF Body
  <2> QED BY <1>7
<1>9. caAddDistributions(l, r) = merge[<<1, 1>>]
  BY DEF caAddDistributions, MergeStep, Merging, Step, Both
<1>10. IsMerge(merge, l, r)
  <2>1. \A p \in P : Body(merge)[p] = Step(p, merge)
    OBVIOUS
  <2> HIDE DEF merge, Body
  <2>2. \A p \in P : merge[p] = Step(p, merge)
    BY <1>8, <2>1
  <2> HIDE DEF P
  <2>3. \A a \in 1 .. Len(l) + 1, b \in 1 .. Len(r) + 1 :
            merge[<<a, b>>] = MergeStep(l, r, a, b, merge)
    BY <2>2, MergePairs DEF Step, P
  <2> QED BY <2>3 DEF IsMerge
<1> HIDE DEF merge
<1> QED BY <1>9, <1>10

\* What is left on one side starts beyond c.
Beyond(c, s, k) == \A i \in k .. Len(s) : c < s[i].lo

LEMMA RestRising ==
    ASSUME NEW s \in Distributions, NEW k \in 1 .. Len(s) + 1
    PROVE  /\ Rest(s, k) \in Distributions
           /\ \A c : Beyond(c, s, k) => Above(c, Rest(s, k))
<1>1. s \in Seq(Entries) /\ Rising(s) /\ Len(s) \in Nat /\ k \in Nat
  BY DEF Distributions
<1>2. Rest(s, k) \in Seq(Entries)
  BY <1>1, RestStep
<1>3. /\ Len(Rest(s, k)) = Len(s) + 1 - k
      /\ \A i \in DOMAIN Rest(s, k) : /\ Rest(s, k)[i] = s[i + k - 1] /\ i \in Nat
                                      /\ i + k - 1 \in DOMAIN s /\ i + k - 1 \in k .. Len(s)
  BY <1>1 DEF Rest
<1>4. ASSUME NEW i \in DOMAIN Rest(s, k), NEW j \in DOMAIN Rest(s, k), i < j
      PROVE  Rest(s, k)[i].lo < Rest(s, k)[j].lo
  <2>1. i \in Nat /\ j \in Nat /\ i + k - 1 \in DOMAIN s /\ j + k - 1 \in DOMAIN s
    BY <1>3
  <2>2. i + k - 1 < j + k - 1
    BY <1>1, <1>4, <2>1
  <2>3. s[i + k - 1].lo < s[j + k - 1].lo
    BY <1>1, <2>1, <2>2 DEF Rising
  <2> QED BY <1>3, <2>3
<1>5. \A c : Beyond(c, s, k) => Above(c, Rest(s, k))
  BY <1>3 DEF Beyond, Above
<1> QED BY <1>2, <1>4, <1>5 DEF Distributions, Rising

LEMMA BeyondNext ==
    ASSUME NEW s \in Distributions, NEW k \in 1 .. Len(s) + 1, NEW c \in Int,
           k = Len(s) + 1 \/ c <= s[k].lo
    PROVE  /\ k # Len(s) + 1 => Beyond(c, s, k + 1)
           /\ k = Len(s) + 1 \/ c < s[k].lo => Beyond(c, s, k)
<1>1. s \in Seq(Entries) /\ Rising(s) /\ Len(s) \in Nat /\ k \in Nat
  BY DEF Distributions
<1>2. CASE k = Len(s) + 1
  BY <1>1, <1>2 DEF Beyond
<1>3. CASE k # Len(s) + 1
  <2>1. k \in DOMAIN s /\ s[k].lo \in Int /\ c <= s[k].lo
    BY <1>1, <1>3, EntryAt
  <2>2. ASSUME NEW i \in k .. Len(s), i # k PROVE c < s[i].lo
    <3>1. i \in DOMAIN s /\ k < i /\ s[i].lo \in Int
      <4>1. i \in 1 .. Len(s) + 1 /\ i <= Len(s) /\ k < i
        BY <1>1, <2>2
      <4> QED BY <1>1, <4>1, EntryAt
    <3>2. s[k].lo < s[i].lo
      BY <1>1, <2>1, <3>1 DEF Rising
    <3> QED BY <2>1, <3>1, <3>2
  <2>3. \A i \in (k + 1) .. Len(s) : i \in k .. Len(s) /\ i # k
    BY <1>1
  <2> QED BY <1>3, <2>1, <2>2, <2>3 DEF Beyond
<1> QED BY <1>2, <1>3

Merged(l, r, a, b, m) ==
    /\ m \in Distributions
    /\ \A lo : In(m, lo) = In(Rest(l, a), lo) + In(Rest(r, b), lo)
    /\ \A c \in Int : Beyond(c, l, a) /\ Beyond(c, r, b) => Above(c, m)

LEMMA MergedEnd ==
    ASSUME NEW l \in Distributions, NEW r \in Distributions, NEW a \in 1 .. Len(l) + 1
    PROVE  Merged(l, r, a, Len(r) + 1, Rest(l, a))
<1>1. l \in Seq(Entries) /\ r \in Seq(Entries)
  BY DEF Distributions
<1>2. Len(r) + 1 \in 1 .. Len(r) + 1
  BY <1>1
<1>3. \A lo : In(Rest(l, a), lo) \in Nat /\ In(Rest(r, Len(r) + 1), lo) = 0
  BY <1>1, <1>2, InRest
<1>4. \A lo : In(Rest(l, a), lo) = In(Rest(l, a), lo) + In(Rest(r, Len(r) + 1), lo)
  BY <1>3
<1> QED BY <1>4, RestRising DEF Merged

LEMMA EntriesOf ==
    ASSUME NEW s \in Seq(Entries)
    PROVE  \A k \in DOMAIN s : s[k] \in Entries /\ s[k].lo \in Int /\ s[k].n \in Nat
<1>1. \A k \in DOMAIN s : s[k] \in Entries
  OBVIOUS
<1>2. \A e \in Entries : e.lo \in Int /\ e.n \in Nat
  BY DEF Entries
<1> QED BY <1>1, <1>2

LEMMA MergedTaken ==
    ASSUME NEW l \in Distributions, NEW r \in Distributions,
           NEW a \in 1 .. Len(l) + 1, NEW b \in 1 .. Len(r) + 1, NEW e, NEW i, NEW j,
           Taken(l, r, a, b, e, i, j), NEW m, Merged(l, r, a + i, b + j, m)
    PROVE  Merged(l, r, a, b, <<e>> \o m)
<1>1. /\ l \in Seq(Entries) /\ r \in Seq(Entries) /\ m \in Distributions /\ m \in Seq(Entries)
      /\ e \in Entries /\ e.lo \in Int /\ e.n \in Nat /\ i \in {0, 1} /\ j \in {0, 1} /\ i + j > 0
  BY DEF Distributions, Merged, Taken, Entries
<1>2. /\ i = 1 => a # Len(l) + 1 /\ e.lo = l[a].lo
      /\ i = 0 => a = Len(l) + 1 \/ e.lo < l[a].lo
      /\ j = 1 => b # Len(r) + 1 /\ e.lo = r[b].lo
      /\ j = 0 => b = Len(r) + 1 \/ e.lo < r[b].lo
      /\ e.n = (IF i = 1 THEN l[a].n ELSE 0) + (IF j = 1 THEN r[b].n ELSE 0)
      /\ i = 0 => a + i = a
      /\ j = 0 => b + j = b
  BY EntryAt, <1>1 DEF Taken
<1>3. Beyond(e.lo, l, a + i) /\ Beyond(e.lo, r, b + j)
  <2>1. ASSUME i = 1 PROVE Beyond(e.lo, l, a + i)
    <3>1. a # Len(l) + 1 /\ e.lo <= l[a].lo
      BY <1>1, <1>2, <2>1
    <3>2. Beyond(e.lo, l, a + 1)
      BY <1>1, <3>1, BeyondNext
    <3> QED BY <2>1, <3>2
  <2>2. ASSUME i = 0 PROVE Beyond(e.lo, l, a + i)
    <3>1. a = Len(l) + 1 \/ (e.lo < l[a].lo /\ e.lo <= l[a].lo)
      BY <1>1, <1>2, <2>2, EntryAt
    <3>2. Beyond(e.lo, l, a)
      BY <1>1, <1>2, <2>2, <3>1, BeyondNext
    <3> QED BY <1>2, <2>2, <3>2
  <2>3. ASSUME j = 1 PROVE Beyond(e.lo, r, b + j)
    <3>1. b # Len(r) + 1 /\ e.lo <= r[b].lo
      BY <1>1, <1>2, <2>3
    <3>2. Beyond(e.lo, r, b + 1)
      BY <1>1, <3>1, BeyondNext
    <3> QED BY <2>3, <3>2
  <2>4. ASSUME j = 0 PROVE Beyond(e.lo, r, b + j)
    <3>1. b = Len(r) + 1 \/ (e.lo < r[b].lo /\ e.lo <= r[b].lo)
      BY <1>1, <1>2, <2>4, EntryAt
    <3>2. Beyond(e.lo, r, b)
      BY <1>1, <1>2, <2>4, <3>1, BeyondNext
    <3> QED BY <1>2, <2>4, <3>2
  <2> QED BY <1>1, <2>1, <2>2, <2>3, <2>4
<1>4. Above(e.lo, m)
  BY <1>1, <1>3 DEF Merged
<1>5. ASSUME NEW c \in Int, Beyond(c, l, a), Beyond(c, r, b)
      PROVE  c < e.lo /\ Above(c, m)
  <2>1. c < e.lo
    <3>1. CASE i = 1
      <4>1. a \in a .. Len(l)
        BY <1>1, <1>2, <3>1, EntryAt
      <4> QED BY <1>2, <1>5, <3>1, <4>1 DEF Beyond
    <3>2. CASE j = 1
      <4>1. b \in b .. Len(r)
        BY <1>1, <1>2, <3>2, EntryAt
      <4> QED BY <1>2, <1>5, <3>2, <4>1 DEF Beyond
    <3> QED BY <1>1, <3>1, <3>2
  <2>2. \A k \in DOMAIN m : m[k].lo \in Int
    BY <1>1, EntriesOf
  <2> QED BY <1>1, <1>4, <2>1, <2>2 DEF Above
<1>6. <<e>> \o m \in Distributions /\ \A c \in Int : c < e.lo /\ Above(c, m) => Above(c, <<e>> \o m)
  <2>1. e.lo - 1 \in Int /\ e.lo - 1 < e.lo
    BY <1>1
  <2>2. \A k \in DOMAIN m : m[k].lo \in Int
    BY <1>1, EntriesOf
  <2>3. Above(e.lo - 1, m)
    BY <1>1, <1>4, <2>2 DEF Above
  <2> QED BY <1>1, <1>4, <2>1, <2>3, RisingPrepended
<1>7. ASSUME NEW lo
      PROVE  In(<<e>> \o m, lo) = In(Rest(l, a), lo) + In(Rest(r, b), lo)
  <2> DEFINE L == In(Rest(l, a), lo)
             R == In(Rest(r, b), lo)
             Ll == In(Rest(l, a + i), lo)
             Rr == In(Rest(r, b + j), lo)
             T == In(<<e>> \o m, lo)
  <2>1. T = (IF e.lo = lo THEN e.n ELSE 0) + In(m, lo) /\ In(m, lo) = Ll + Rr
    BY <1>1, InPrepended DEF Merged
  <2>2. /\ L \in Nat /\ R \in Nat
        /\ i = 0 => L = Ll
        /\ j = 0 => R = Rr
        /\ i = 1 => L = (IF l[a].lo = lo THEN l[a].n ELSE 0) + Ll
        /\ j = 1 => R = (IF r[b].lo = lo THEN r[b].n ELSE 0) + Rr
    BY <1>1, <1>2, InRest
  <2>3. /\ Ll \in Nat /\ Rr \in Nat
        /\ i = 1 => l[a].n \in Nat
        /\ j = 1 => r[b].n \in Nat
    <3>1. a + i \in 1 .. Len(l) + 1 /\ b + j \in 1 .. Len(r) + 1
      BY DEF Taken
    <3> QED BY <1>1, <1>2, <3>1, InRest, EntryAt
  <2> HIDE DEF L, R, Ll, Rr, T
  <2>4. T = L + R
    <3>1. e.n \in Nat /\ In(m, lo) = Ll + Rr
      BY <1>1, <2>1
    <3>2. ASSUME e.lo = lo PROVE T = L + R
      <4>1. T = e.n + (Ll + Rr)
        BY <2>1, <3>2
      <4>2. CASE i = 1 /\ j = 1
        <5> DEFINE x == l[a].n
                   y == r[b].n
        <5>1. x \in Nat /\ y \in Nat /\ e.n = x + y /\ L = x + Ll /\ R = y + Rr
          BY <1>2, <2>2, <2>3, <3>2, <4>2
        <5> HIDE DEF x, y
        <5> QED BY <2>3, <4>1, <5>1
      <4>3. CASE i = 1 /\ j = 0
        <5> DEFINE x == l[a].n
        <5>1. x \in Nat /\ e.n = x + 0 /\ L = x + Ll /\ R = Rr
          BY <1>2, <2>2, <2>3, <3>2, <4>3
        <5> HIDE DEF x
        <5> QED BY <2>3, <4>1, <5>1
      <4>4. CASE i = 0 /\ j = 1
        <5> DEFINE y == r[b].n
        <5>1. y \in Nat /\ e.n = 0 + y /\ L = Ll /\ R = y + Rr
          BY <1>2, <2>2, <2>3, <3>2, <4>4
        <5> HIDE DEF y
        <5> QED BY <2>3, <4>1, <5>1
      <4> QED BY <1>1, <4>2, <4>3, <4>4
    <3>3. ASSUME e.lo # lo PROVE T = L + R
      <4>1. T = Ll + Rr
        BY <2>1, <2>3, <3>3
      <4>2. L = Ll /\ R = Rr
        <5>1. (i = 1 => l[a].lo # lo) /\ (j = 1 => r[b].lo # lo)
          BY <1>2, <3>3
        <5>2. (i = 1 => L = 0 + Ll) /\ (j = 1 => R = 0 + Rr)
          BY <2>2, <5>1
        <5>3. i = 0 \/ i = 1
          BY <1>1
        <5>4. j = 0 \/ j = 1
          BY <1>1
        <5>5. L = Ll
          BY <2>2, <2>3, <5>2, <5>3
        <5>6. R = Rr
          BY <2>2, <2>3, <5>2, <5>4
        <5> QED BY <5>5, <5>6
      <4> QED BY <4>1, <4>2
    <3> QED BY <3>2, <3>3
  <2> QED BY <2>4 DEF T, L, R
<1> QED BY <1>5, <1>6, <1>7 DEF Merged

\* The sum of two distributions is a distribution, and has in each bucket what
\* both have.
LEMMA MergeRight ==
    ASSUME NEW l \in Distributions, NEW r \in Distributions
    PROVE  /\ caAddDistributions(l, r) \in Distributions
           /\ \A lo : In(caAddDistributions(l, r), lo) = In(l, lo) + In(r, lo)
<1>1. l \in Seq(Entries) /\ r \in Seq(Entries)
  BY DEF Distributions
<1>2. PICK f : IsMerge(f, l, r) /\ caAddDistributions(l, r) = f[<<1, 1>>]
  BY <1>1, MergeExists
<1> DEFINE P == Merging(l, r)
           rank == Left(l, r)
           B == {p \in P : Merged(l, r, p[1], p[2], f[p])}
<1>3. rank \in [P -> Nat]
  BY <1>1, LeftType
<1>4. ASSUME NEW p \in P, \A q \in P : rank[q] < rank[p] => q \in B PROVE p \in B
  <2> DEFINE a == p[1]
             b == p[2]
  <2>1. p = <<a, b>> /\ a \in 1 .. Len(l) + 1 /\ b \in 1 .. Len(r) + 1
    BY <1>1, MergePairs
  <2>2. f[p] = MergeStep(l, r, a, b, f)
    BY <1>2, <2>1 DEF IsMerge
  <2>3. Merged(l, r, a, b, f[p])
    <3>1. ASSUME b = Len(r) + 1, \A g : MergeStep(l, r, a, b, g) = Rest(l, a)
          PROVE  Merged(l, r, a, b, f[p])
      BY <2>1, <2>2, <3>1, MergedEnd
    <3>2. ASSUME NEW e, NEW i, NEW j, Takes(l, r, a, b, e, i, j)
          PROVE  Merged(l, r, a, b, f[p])
      <4> DEFINE n == <<a + i, b + j>>
      <4>1. Taken(l, r, a, b, e, i, j) /\ f[p] = <<e>> \o f[n]
        BY <2>2, <3>2 DEF Takes
      <4>2. n \in P /\ rank[n] < rank[p]
        BY <1>1, <2>1, <4>1, LeftLess
      <4>3. n \in B
        <5> HIDE DEF n, B, P, rank
        <5> QED BY <1>4, <4>2
      <4>4. n[1] = a + i /\ n[2] = b + j
        OBVIOUS
      <4>5. Merged(l, r, a + i, b + j, f[n])
        <5> HIDE DEF n, a, b
        <5> QED BY <4>3, <4>4
      <4> HIDE DEF n
      <4> QED BY <2>1, <4>1, <4>5, MergedTaken
    <3> HIDE DEF a, b
    <3> QED BY <1>1, <2>1, <3>1, <3>2, MergeCases
  <2> QED BY <2>3
<1>5. <<1, 1>> \in B
  <2>1. <<1, 1>> \in P
    BY <1>1, EntryAt DEF Merging
  <2> HIDE DEF B, P, rank
  <2> QED BY <1>3, <1>4, <2>1, RankInduction
<1>6. Merged(l, r, 1, 1, f[<<1, 1>>])
  BY <1>5
<1>7. Rest(l, 1) = l /\ Rest(r, 1) = r
  BY <1>1 DEF Rest
<1> QED BY <1>2, <1>6, <1>7 DEF Merged

LEMMA EmptyDistribution == <<>> \in Distributions
<1>1. <<>> \in Seq(Entries) /\ DOMAIN <<>> = {}
  OBVIOUS
<1> QED BY <1>1 DEF Distributions, Rising

-----------------------------------------------------------------------------
(* Objects: functions on some of the names. *)

Partial(S, T) == UNION {[D -> T] : D \in SUBSET S}

LEMMA PartialIs ==
    ASSUME NEW S, NEW T, NEW f \in Partial(S, T)
    PROVE  DOMAIN f \subseteq S /\ f \in [DOMAIN f -> T] /\ \A x \in DOMAIN f : f[x] \in T
BY DEF Partial

LEMMA PartialFrom ==
    ASSUME NEW S, NEW T, NEW D \in SUBSET S, NEW f \in [D -> T]
    PROVE  f \in Partial(S, T) /\ DOMAIN f = D
BY DEF Partial

LEMMA EmptyObject ==
    /\ DOMAIN Empty = {} /\ \A S, T : Empty \in Partial(S, T)
    /\ \A f, S, T : f \in Partial(S, T) /\ DOMAIN f = {} => f = Empty
<1>1. DOMAIN Empty = {}
  BY DEF Empty
<1>2. ASSUME NEW S, NEW T PROVE Empty \in Partial(S, T)
  <2>1. Empty \in [{} -> T]
    BY DEF Empty
  <2> QED BY <2>1, PartialFrom
<1>3. ASSUME NEW f, NEW S, NEW T, f \in Partial(S, T), DOMAIN f = {} PROVE f = Empty
  <2>1. f \in [DOMAIN f -> T]
    BY <1>3, PartialIs
  <2> QED BY <1>3, <2>1 DEF Empty
<1> QED BY <1>1, <1>2, <1>3

LEMMA WithDomain ==
    ASSUME NEW f, NEW x, NEW v
    PROVE  DOMAIN With(f, x, v) = DOMAIN f \cup {x}
BY DEF With

LEMMA WithAt ==
    ASSUME NEW f, NEW x, NEW v, NEW y \in DOMAIN f \cup {x}
    PROVE  With(f, x, v)[y] = IF y = x THEN v ELSE f[y]
BY DEF With

LEMMA WithGet ==
    ASSUME NEW f, NEW x, NEW v, NEW y, NEW d
    PROVE  Get(With(f, x, v), y, d) = IF y = x THEN v ELSE Get(f, y, d)
<1> DEFINE g == With(f, x, v)
<1>1. /\ DOMAIN g = DOMAIN f \cup {x}
      /\ y \in DOMAIN f \cup {x} => g[y] = IF y = x THEN v ELSE f[y]
  BY DEF With
<1> HIDE DEF g
<1>2. Get(g, y, d) = IF y = x THEN v ELSE Get(f, y, d)
  BY <1>1 DEF Get
<1> QED BY <1>2 DEF g

LEMMA WithObject ==
    ASSUME NEW S, NEW T, NEW f \in Partial(S, T), NEW x \in S, NEW v \in T
    PROVE  With(f, x, v) \in Partial(S, T)
<1> DEFINE g == With(f, x, v)
           D == DOMAIN f \cup {x}
<1>1. DOMAIN f \subseteq S /\ \A y \in DOMAIN f : f[y] \in T
  BY PartialIs
<1>2. g \in [D -> T] /\ D \in SUBSET S
  BY <1>1 DEF With
<1> HIDE DEF g
<1>3. g \in Partial(S, T)
  BY <1>2, PartialFrom
<1> QED BY <1>3 DEF g

LEMMA GetObject ==
    ASSUME NEW S, NEW T, NEW f \in Partial(S, T), NEW d \in T
    PROVE  \A x : Get(f, x, d) \in T
BY PartialIs DEF Get

LEMMA SinceDomain ==
    ASSUME NEW f, NEW e
    PROVE  DOMAIN Since(f, e) = {t \in DOMAIN f : t >= e}
BY DEF Since, Restrict

LEMMA SinceAt ==
    ASSUME NEW f, NEW e, NEW t \in DOMAIN f, t >= e
    PROVE  Since(f, e)[t] = f[t]
BY DEF Since, Restrict

LEMMA SinceGet ==
    ASSUME NEW f, NEW e, NEW t, NEW d
    PROVE  Get(Since(f, e), t, d) = IF t >= e THEN Get(f, t, d) ELSE d
BY SinceDomain, SinceAt DEF Get

LEMMA SinceObject ==
    ASSUME NEW S, NEW T, NEW f \in Partial(S, T), NEW e
    PROVE  Since(f, e) \in Partial(S, T)
<1> DEFINE g == Since(f, e)
           D == {t \in DOMAIN f : t >= e}
<1>1. D \subseteq S /\ \A t \in D : f[t] \in T
  BY PartialIs
<1>2. g \in [D -> T]
  BY <1>1 DEF Since, Restrict
<1> HIDE DEF g
<1>3. g \in Partial(S, T)
  BY <1>1, <1>2, PartialFrom
<1> QED BY <1>3 DEF g

-----------------------------------------------------------------------------
(* Periods. *)

LEMMA PeriodsType ==
    /\ Granularity \in Nat /\ Granularity > 0 /\ Times \subseteq Nat /\ IsFiniteSet(Periods)
    /\ \A t \in Times : ptime(t) \in Periods
    /\ \A t \in Nat : ptime(t) \in Nat /\ ptime(t) <= t /\ t < ptime(t) + Granularity
    /\ Periods \subseteq Nat
<1>1. Granularity \in Nat /\ Granularity > 0 /\ Times \subseteq Nat
  BY DatasetAssumption DEF Times
<1>2. \A t \in Nat : ptime(t) \in Nat /\ ptime(t) <= t /\ t < ptime(t) + Granularity
  <2> SUFFICES ASSUME NEW t \in Nat PROVE ptime(t) \in Nat /\ ptime(t) <= t /\ t < ptime(t) + Granularity
    OBVIOUS
  <2>1. t % Granularity \in 0 .. Granularity - 1
    BY <1>1
  <2>2. t % Granularity <= t
    <3>1. t = Granularity * (t \div Granularity) + (t % Granularity)
      BY <1>1
    <3>2. t \div Granularity \in Nat
      BY <1>1
    <3>3. Granularity * (t \div Granularity) \in Nat
      BY <1>1, <3>2
    <3> QED BY <2>1, <3>1, <3>3, <1>1
  <2> QED BY <1>1, <2>1, <2>2 DEF ptime
<1>3. IsFiniteSet(0 .. LastTime) /\ Periods \subseteq 0 .. LastTime
  <2>1. 0 \in Int /\ LastTime \in Int
    BY DatasetAssumption
  <2>2. IsFiniteSet(0 .. LastTime)
    BY <2>1, FS_Interval
  <2>3. \A t \in Times : t \in Nat /\ t <= LastTime
    BY <1>1 DEF Times
  <2>4. \A t \in Times : ptime(t) \in 0 .. LastTime
    BY <1>2, <2>1, <2>3
  <2> QED BY <2>2, <2>4 DEF Periods
<1>4. IsFiniteSet(Periods)
  BY <1>3, FS_Subset
<1> QED BY <1>1, <1>2, <1>4 DEF Periods

LEMMA OnePeriod ==
    ASSUME NEW t \in Int
    PROVE  PeriodsOf(t, Granularity) = {t} /\ Window(t, Granularity) = {t}
<1>1. Granularity \in Nat /\ Granularity > 0
  BY DatasetAssumption
<1>2. Window(t, Granularity) = PeriodsOf(t, Granularity)
  BY DEF Window
<1>3. \A u \in t .. t + Granularity - 1 : u - t \in 0 .. Granularity - 1
  BY <1>1
<1>4. \A m \in 0 .. Granularity - 1 : m % Granularity = m
  BY <1>1
<1>5. t \in t .. t + Granularity - 1 /\ t - t = 0 /\ \A u \in Int : u - t = 0 => u = t
  BY <1>1
<1>6. t .. t + Granularity - 1 \subseteq Int
  BY <1>1
<1> QED BY <1>2, <1>3, <1>4, <1>5, <1>6 DEF PeriodsOf, Multiple

-----------------------------------------------------------------------------
(* Data, by the kind of the dataset: K stands for it, as it stays the same. *)

Kinds == {"Scalar", "Decomp", "HeatmapScalar", "HeatmapDecomp"}
Datum(K) == IF K = "Scalar" THEN Nat
            ELSE IF K = "Decomp" THEN Partial(Keys, Nat)
            ELSE IF K = "HeatmapScalar" THEN Distributions
            ELSE Partial(Keys, Distributions)
Zero(K) == IF K = "Scalar" THEN 0 ELSE IF K = "HeatmapScalar" THEN <<>> ELSE Empty

\* What one datum says of a name and a bucket, and the names it has.
SaysOf(K, v, k, lo) ==
    IF K = "Scalar" THEN v
    ELSE IF K = "Decomp" THEN Get(v, k, 0)
    ELSE IF K = "HeatmapScalar" THEN In(v, lo)
    ELSE In(Get(v, k, <<>>), lo)
NamesOf(K, v) == IF K \in {"Decomp", "HeatmapDecomp"} THEN DOMAIN v ELSE {}

LEMMA KindType == kind \in Kinds /\ cds_zero = Zero(kind)
BY DEF kind, caDatasetForInstrumentation, Kinds, cds_zero, Zero

LEMMA DatumSays ==
    ASSUME NEW K \in Kinds, NEW v \in Datum(K)
    PROVE  /\ \A k, lo : SaysOf(K, v, k, lo) \in Nat
           /\ NamesOf(K, v) \subseteq Keys
<1>1. CASE K = "Scalar"
  BY <1>1 DEF Datum, SaysOf, NamesOf
<1>2. CASE K = "Decomp"
  <2>1. v \in Partial(Keys, Nat)
    BY <1>2 DEF Datum
  <2> QED BY <1>2, <2>1, GetObject, PartialIs DEF SaysOf, NamesOf
<1>3. CASE K = "HeatmapScalar"
  <2>1. v \in Seq(Entries)
    BY <1>3 DEF Datum, Distributions
  <2> QED BY <1>3, <2>1, InSum DEF SaysOf, NamesOf
<1>4. CASE K = "HeatmapDecomp"
  <2>1. v \in Partial(Keys, Distributions)
    BY <1>4 DEF Datum
  <2>2. \A k : Get(v, k, <<>>) \in Distributions
    BY <2>1, GetObject, EmptyDistribution
  <2>3. \A k : Get(v, k, <<>>) \in Seq(Entries)
    BY <2>2 DEF Distributions
  <2>4. \A k, lo : In(Get(v, k, <<>>), lo) \in Nat
    BY <2>3, InSum
  <2> QED BY <1>4, <2>1, <2>4, PartialIs DEF SaysOf, NamesOf
<1> QED BY <1>1, <1>2, <1>3, <1>4 DEF Kinds

LEMMA ZeroSays ==
    ASSUME NEW K \in Kinds
    PROVE  /\ Zero(K) \in Datum(K) /\ NamesOf(K, Zero(K)) = {}
           /\ \A k, lo : SaysOf(K, Zero(K), k, lo) = 0
<1>1. /\ \A k, d : Get(Empty, k, d) = d
      /\ \A lo : In(<<>>, lo) = 0
  BY EmptyObject, InEmpty DEF Get
<1> QED BY <1>1, EmptyObject, EmptyDistribution DEF Datum, Zero, SaysOf, NamesOf, Kinds

\* Values are added pointwise.
Sums(K, v, w, sum) ==
    /\ sum \in Datum(K) /\ NamesOf(K, sum) = NamesOf(K, v) \cup NamesOf(K, w)
    /\ \A k, lo : SaysOf(K, sum, k, lo) = SaysOf(K, v, k, lo) + SaysOf(K, w, k, lo)

LEMMA ValuesAdd ==
    ASSUME kind # "HeatmapDecomp", NEW v \in Datum(kind), NEW w \in Datum(kind)
    PROVE  /\ Sums(kind, v, w, cds_add(v, w))
           /\ InPlace /\ cds_add(v, w) = Zero(kind) => v = Zero(kind)
<1>1. CASE kind = "Scalar"
  <2>1. v \in Nat /\ w \in Nat
    BY <1>1 DEF Datum
  <2>2. cds_add(v, w) = v + w /\ ~InPlace
    BY <1>1 DEF cds_add, caAddScalars, InPlace
  <2> QED BY <1>1, <2>1, <2>2 DEF Sums, Datum, SaysOf, NamesOf
<1>2. CASE kind = "Decomp"
  <2> DEFINE D == DOMAIN v \cup DOMAIN w
             Add(k) == IF k \notin DOMAIN w THEN v[k]
                       ELSE IF k \notin DOMAIN v THEN w[k] ELSE v[k] + w[k]
             g == [k \in D |-> Add(k)]
  <2>1. v \in Partial(Keys, Nat) /\ w \in Partial(Keys, Nat)
    BY <1>2 DEF Datum
  <2>2. /\ DOMAIN v \subseteq Keys /\ \A k \in DOMAIN v : v[k] \in Nat
        /\ DOMAIN w \subseteq Keys /\ \A k \in DOMAIN w : w[k] \in Nat
    BY <2>1, PartialIs
  <2>3. cds_add(v, w) = g
    BY <1>2 DEF cds_add, caAddDecompositions, caAddScalars
  <2>4. \A k \in D : Add(k) \in Nat
    BY <2>2
  <2>5. D \in SUBSET Keys /\ g \in [D -> Nat]
    BY <2>2, <2>4
  <2>6. g \in Partial(Keys, Nat) /\ DOMAIN g = D
    <3> HIDE DEF g, D
    <3> QED BY <2>5, PartialFrom
  <2>7. \A k : Get(g, k, 0) = Get(v, k, 0) + Get(w, k, 0)
    <3>1. ASSUME NEW k \in D PROVE g[k] = Get(v, k, 0) + Get(w, k, 0)
      <4>1. g[k] = Add(k)
        OBVIOUS
      <4>2. CASE k \notin DOMAIN w
        BY <2>2, <4>1, <4>2 DEF Get
      <4>3. CASE k \notin DOMAIN v
        BY <2>2, <4>1, <4>3 DEF Get
      <4>4. CASE k \in DOMAIN v /\ k \in DOMAIN w
        BY <4>1, <4>4 DEF Get
      <4> QED BY <4>2, <4>3, <4>4
    <3>2. \A k : k \notin D => Get(v, k, 0) + Get(w, k, 0) = 0
      BY DEF Get
    <3> HIDE DEF g
    <3> QED BY <2>6, <3>1, <3>2 DEF Get
  <2>8. g = Empty => v = Empty
    <3>1. g = Empty => DOMAIN v = {}
      <4> HIDE DEF g
      <4> QED BY <2>6, EmptyObject
    <3> QED BY <2>1, <3>1, EmptyObject
  <2> HIDE DEF g
  <2> QED BY <1>2, <2>3, <2>6, <2>7, <2>8 DEF Sums, Datum, SaysOf, NamesOf, Zero
<1>3. CASE kind = "HeatmapScalar"
  <2>1. v \in Distributions /\ w \in Distributions
    BY <1>3 DEF Datum
  <2>2. cds_add(v, w) = caAddDistributions(v, w) /\ ~InPlace
    BY <1>3 DEF cds_add, InPlace
  <2> QED BY <1>3, <2>1, <2>2, MergeRight DEF Sums, Datum, SaysOf, NamesOf
<1> QED BY <1>1, <1>2, <1>3, KindType DEF Kinds

-----------------------------------------------------------------------------
(* Datasets. *)

Cells(K) == {IsZero} \cup [zero : {FALSE}, v : Datum(K)]
Datasets(K) ==
    [sources : Partial(Hosts, Int), reporting : Partial(Periods, SUBSET Hosts),
     data : Partial(Periods, Cells(K)), zero : Datum(K),
     distbykey : Partial(Keys, Partial(Periods, Distributions)),
     totalsbytime : Partial(Periods, Distributions),
     keysbytime : Partial(Periods, SUBSET Keys)]

Dist(d, k, t) == Get(Get(d.distbykey, k, Empty), t, <<>>)
Parts(d, t, lo) == [k \in Keys |-> In(Dist(d, k, t), lo)]

\* What is stored belongs to the kind, and the three structures of a heatmap
\* with a decomposition agree.
Agreeing(d) ==
    /\ DOMAIN d.totalsbytime = DOMAIN d.keysbytime
    /\ \A k \in DOMAIN d.distbykey : DOMAIN d.distbykey[k] # {}
    /\ \A t : Get(d.keysbytime, t, {}) =
                 {k \in DOMAIN d.distbykey : t \in DOMAIN d.distbykey[k]}
    /\ \A t, lo : In(Get(d.totalsbytime, t, <<>>), lo) = SumFunctionOnSet(Parts(d, t, lo), Keys)
Good(K) ==
    {d \in Datasets(K) :
        /\ Agreeing(d)
        /\ K = "HeatmapDecomp" => DOMAIN d.data = {}
        /\ K # "HeatmapDecomp" => DOMAIN d.distbykey = {} /\ DOMAIN d.keysbytime = {}}

Clean(K, d) == d.zero = Zero(K)

\* What a dataset says of a period.
Amount(K, d, t, k, lo) ==
    IF K = "HeatmapDecomp" THEN In(Dist(d, k, t), lo)
    ELSE IF t \in DOMAIN d.data THEN SaysOf(K, DataAt(d, t), k, lo) ELSE 0
NamesAt(K, d, t) ==
    IF K = "HeatmapDecomp" THEN Get(d.keysbytime, t, {})
    ELSE IF t \in DOMAIN d.data THEN NamesOf(K, DataAt(d, t)) ELSE {}

Worth(K, v, k, lo) == IF v = Undefined THEN 0 ELSE SaysOf(K, v, k, lo)
Terms(K, v) == IF v = Undefined THEN {} ELSE NamesOf(K, v)

\* Dataset e is d, and v besides at t.
Added(K, d, e, t, v) ==
    /\ e \in Good(K) /\ e.sources = d.sources /\ e.reporting = d.reporting
    /\ Clean(K, e) =>
        /\ Clean(K, d)
        /\ \A u, k, lo : Amount(K, e, u, k, lo) =
               Amount(K, d, u, k, lo) + IF u = t THEN Worth(K, v, k, lo) ELSE 0
        /\ \A u : NamesAt(K, e, u) = NamesAt(K, d, u) \cup IF u = t THEN Terms(K, v) ELSE {}

LEMMA CellIs ==
    ASSUME NEW K
    PROVE  /\ IsZero \in Cells(K) /\ IsZero.zero = TRUE
           /\ \A c \in Cells(K) : c.zero \in BOOLEAN /\ (~c.zero => c.v \in Datum(K))
           /\ \A v \in Datum(K) : /\ Value(v) \in Cells(K)
                                  /\ Value(v).zero = FALSE /\ Value(v).v = v
<1>1. IsZero \in Cells(K) /\ IsZero.zero = TRUE
  BY DEF Cells, IsZero
<1>2. ASSUME NEW c \in Cells(K) PROVE c.zero \in BOOLEAN /\ (~c.zero => c.v \in Datum(K))
  <2>1. CASE c = IsZero
    BY <1>1, <2>1
  <2>2. CASE c \in [zero : {FALSE}, v : Datum(K)]
    BY <2>2
  <2> QED BY <2>1, <2>2 DEF Cells
<1>3. ASSUME NEW v \in Datum(K)
      PROVE  Value(v) \in Cells(K) /\ Value(v).zero = FALSE /\ Value(v).v = v
  BY DEF Cells, Value
<1> QED BY <1>1, <1>2, <1>3

LEMMA DatasetIs ==
    ASSUME NEW K, NEW d \in Datasets(K)
    PROVE  /\ d.sources \in Partial(Hosts, Int) /\ d.reporting \in Partial(Periods, SUBSET Hosts)
           /\ d.data \in Partial(Periods, Cells(K)) /\ d.zero \in Datum(K)
           /\ d.distbykey \in Partial(Keys, Partial(Periods, Distributions))
           /\ d.totalsbytime \in Partial(Periods, Distributions)
           /\ d.keysbytime \in Partial(Periods, SUBSET Keys)
           /\ \A t \in DOMAIN d.data : DataAt(d, t) \in Datum(K)
<1>1. d.data \in Partial(Periods, Cells(K)) /\ d.zero \in Datum(K)
  BY DEF Datasets
<1>2. \A t \in DOMAIN d.data : d.data[t] \in Cells(K)
  BY <1>1, PartialIs
<1>3. \A t \in DOMAIN d.data : DataAt(d, t) \in Datum(K)
  BY <1>1, <1>2, CellIs DEF DataAt
<1> QED BY <1>3 DEF Datasets

\* Nothing of heatmaps with a decomposition is changed.
LEMMA SameHeatmaps ==
    ASSUME NEW K, NEW d \in Good(K), NEW e \in Datasets(K),
           e.distbykey = d.distbykey, e.totalsbytime = d.totalsbytime,
           e.keysbytime = d.keysbytime, K = "HeatmapDecomp" => e.data = d.data
    PROVE  e \in Good(K)
<1>1. Agreeing(d)
  BY DEF Good
<1>2. \A t, lo : Parts(e, t, lo) = Parts(d, t, lo)
  BY DEF Parts, Dist
<1>3. Agreeing(e)
  BY <1>1, <1>2 DEF Agreeing
<1> QED BY <1>3 DEF Good

LEMMA SimpleAdded ==
    ASSUME kind # "HeatmapDecomp", NEW d \in Good(kind), NEW t \in Periods,
           NEW v \in Datum(kind) \cup {Undefined}
    PROVE  Added(kind, d, AddSimple(d, t, v), t, v)
<1> DEFINE K == kind
           e == AddSimple(d, t, v)
<1>1. d \in Datasets(K) /\ K \in Kinds
  BY KindType DEF Good
<1>2. /\ d.data \in Partial(Periods, Cells(K)) /\ d.zero \in Datum(K)
      /\ \A u \in DOMAIN d.data : /\ d.data[u] \in Cells(K) /\ DataAt(d, u) \in Datum(K)
                                  /\ d.data[u].zero \in BOOLEAN
  <2>1. /\ d.data \in Partial(Periods, Cells(K)) /\ d.zero \in Datum(K)
        /\ \A u \in DOMAIN d.data : DataAt(d, u) \in Datum(K)
    BY <1>1, DatasetIs
  <2>2. \A u \in DOMAIN d.data : d.data[u] \in Cells(K)
    BY <2>1, PartialIs
  <2>3. \A u \in DOMAIN d.data : d.data[u].zero \in BOOLEAN
    BY <2>2, CellIs
  <2> QED BY <2>1, <2>2, <2>3
<1>3. /\ Zero(K) \in Datum(K) /\ NamesOf(K, Zero(K)) = {}
      /\ \A k, lo : SaysOf(K, Zero(K), k, lo) = 0
  BY <1>1, ZeroSays
<1>4. CASE t \notin DOMAIN d.data
  <2> DEFINE c == IF v = Undefined THEN IsZero ELSE Value(v)
  <2>1. c \in Cells(K)
    BY CellIs
  <2>2. e = [d EXCEPT !.data = With(@, t, c)]
    BY <1>4 DEF AddSimple
  <2>3. With(d.data, t, c) \in Partial(Periods, Cells(K))
    BY <1>2, <2>1, WithObject
  <2>4. /\ e \in Datasets(K) /\ e.data = With(d.data, t, c) /\ e.zero = d.zero
        /\ e.distbykey = d.distbykey /\ e.totalsbytime = d.totalsbytime
        /\ e.keysbytime = d.keysbytime /\ e.sources = d.sources /\ e.reporting = d.reporting
    <3> HIDE DEF c, e
    <3> QED BY <1>1, <2>2, <2>3 DEF Datasets
  <2> HIDE DEF e
  <2>5. e \in Good(K)
    BY <2>4, SameHeatmaps
  <2>6. /\ DOMAIN e.data = DOMAIN d.data \cup {t}
        /\ \A u \in DOMAIN d.data \cup {t} : e.data[u] = IF u = t THEN c ELSE d.data[u]
    <3> HIDE DEF c
    <3> QED BY <2>4 DEF With
  <2>7. \A u \in DOMAIN d.data : u # t /\ DataAt(e, u) = DataAt(d, u)
    BY <1>4, <2>4, <2>6 DEF DataAt
  <2>8. DataAt(e, t) = IF v = Undefined THEN d.zero ELSE v
    BY <2>4, <2>6, CellIs DEF DataAt
  <2>9. /\ \A u, k, lo : Amount(K, e, u, k, lo) \in Nat /\ Amount(K, d, u, k, lo) \in Nat
        /\ \A k, lo : v # Undefined => SaysOf(K, v, k, lo) \in Nat
    BY <1>1, <1>2, <2>4, <2>5, DatasetIs, DatumSays DEF Amount
  <2>10. ASSUME Clean(K, e), NEW u
         PROVE  /\ \A k, lo : Amount(K, e, u, k, lo) =
                        Amount(K, d, u, k, lo) + IF u = t THEN Worth(K, v, k, lo) ELSE 0
                /\ NamesAt(K, e, u) = NamesAt(K, d, u) \cup IF u = t THEN Terms(K, v) ELSE {}
    <3>0. d.zero = Zero(K)
      BY <2>4, <2>10 DEF Clean
    <3> HIDE DEF c
    <3>1. CASE u = t
      BY <1>3, <1>4, <2>6, <2>8, <2>9, <3>0, <3>1 DEF Amount, NamesAt, Worth, Terms
    <3>2. CASE u # t
      BY <1>3, <1>4, <2>6, <2>7, <2>9, <3>2 DEF Amount, NamesAt
    <3> QED BY <3>1, <3>2
  <2>11. Added(kind, d, e, t, v)
    <3>1. Clean(K, e) => Clean(K, d)
      BY <2>4 DEF Clean
    <3> QED BY <2>4, <2>5, <2>10, <3>1 DEF Added
  <2> QED BY <2>11 DEF e
<1>5. CASE t \in DOMAIN d.data
  <2> DEFINE x == IF v = Undefined THEN d.zero ELSE v
             sum == cds_add(DataAt(d, t), x)
  <2>1. x \in Datum(K)
    BY <1>2
  <2>2. Sums(K, DataAt(d, t), x, sum) /\ (InPlace /\ sum = Zero(K) => DataAt(d, t) = Zero(K))
    <3> HIDE DEF x
    <3> QED BY <1>2, <1>5, <2>1, ValuesAdd
  <2>3. sum \in Datum(K)
    BY <2>2 DEF Sums
  <2> HIDE DEF sum
  <2>4. e = IF d.data[t].zero /\ InPlace THEN [d EXCEPT !.zero = sum]
            ELSE [d EXCEPT !.data[t] = Value(sum)]
    BY <1>5 DEF AddSimple, sum
  <2> DEFINE data2 == [d.data EXCEPT ![t] = Value(sum)]
  <2>5. data2 \in Partial(Periods, Cells(K))
    <3>1. DOMAIN d.data \in SUBSET Periods /\ d.data \in [DOMAIN d.data -> Cells(K)]
      BY <1>2, PartialIs
    <3>2. data2 \in [DOMAIN d.data -> Cells(K)]
      BY <2>3, <3>1, CellIs
    <3> HIDE DEF data2
    <3> QED BY <3>1, <3>2, PartialFrom
  <2>6. /\ e \in Datasets(K)
        /\ e.distbykey = d.distbykey /\ e.totalsbytime = d.totalsbytime
        /\ e.keysbytime = d.keysbytime /\ e.sources = d.sources /\ e.reporting = d.reporting
        /\ d.data[t].zero /\ InPlace => e.data = d.data /\ e.zero = sum
        /\ ~(d.data[t].zero /\ InPlace) => e.data = data2 /\ e.zero = d.zero
    <3>1. CASE d.data[t].zero /\ InPlace
      <4>1. e = [d EXCEPT !.zero = sum]
        BY <2>4, <3>1
      <4> HIDE DEF e, data2
      <4> QED BY <1>1, <2>3, <3>1, <4>1 DEF Datasets
    <3>2. CASE ~(d.data[t].zero /\ InPlace)
      <4>1. e = [d EXCEPT !.data = data2]
        BY <2>4, <3>2
      <4> HIDE DEF e, data2
      <4> QED BY <1>1, <2>5, <3>2, <4>1 DEF Datasets
    <3> QED BY <3>1, <3>2
  <2> HIDE DEF e
  <2>7. e \in Good(K)
    BY <2>6, SameHeatmaps
  <2>8. Clean(K, e) => Clean(K, d)
    BY <2>2, <2>6 DEF Clean, DataAt
  <2>9. /\ DOMAIN e.data = DOMAIN d.data /\ DataAt(e, t) = sum
        /\ Clean(K, e) => \A u \in DOMAIN d.data : u # t => DataAt(e, u) = DataAt(d, u)
    <3>1. CASE d.data[t].zero /\ InPlace
      BY <2>6, <2>8, <3>1 DEF DataAt, Clean
    <3>2. CASE ~(d.data[t].zero /\ InPlace)
      <4>1. /\ DOMAIN data2 = DOMAIN d.data /\ data2[t] = Value(sum)
            /\ \A u \in DOMAIN d.data : u # t => data2[u] = d.data[u]
        BY <1>5
      <4>2. Value(sum).zero = FALSE /\ Value(sum).v = sum
        BY <2>3, CellIs
      <4> HIDE DEF data2
      <4>3. e.data = data2 /\ e.zero = d.zero
        BY <2>6, <3>2
      <4> QED BY <4>1, <4>2, <4>3 DEF DataAt
    <3> QED BY <3>1, <3>2
  <2>10. /\ \A u, k, lo : Amount(K, e, u, k, lo) \in Nat /\ Amount(K, d, u, k, lo) \in Nat
    BY <1>1, <1>2, <2>6, <2>7, DatasetIs, DatumSays DEF Amount
  <2>11. ASSUME Clean(K, e), NEW u
         PROVE  /\ \A k, lo : Amount(K, e, u, k, lo) =
                        Amount(K, d, u, k, lo) + IF u = t THEN Worth(K, v, k, lo) ELSE 0
                /\ NamesAt(K, e, u) = NamesAt(K, d, u) \cup IF u = t THEN Terms(K, v) ELSE {}
    <3>0. d.zero = Zero(K)
      BY <2>8, <2>11 DEF Clean
    <3>1. CASE u = t
      <4>1. /\ \A k, lo : SaysOf(K, x, k, lo) = Worth(K, v, k, lo)
            /\ NamesOf(K, x) = Terms(K, v)
        BY <1>3, <3>0 DEF Worth, Terms
      <4> HIDE DEF x
      <4> QED BY <1>5, <2>2, <2>9, <3>1, <4>1 DEF Amount, NamesAt, Sums
    <3>2. CASE u # t
      BY <2>9, <2>10, <2>11, <3>2 DEF Amount, NamesAt
    <3> QED BY <3>1, <3>2
  <2>12. Added(kind, d, e, t, v)
    BY <2>6, <2>7, <2>8, <2>11 DEF Added
  <2> QED BY <2>12 DEF e
<1> QED BY <1>4, <1>5

LEMMA DistIs ==
    ASSUME NEW K, NEW d \in Datasets(K)
    PROVE  /\ \A k : Get(d.distbykey, k, Empty) \in Partial(Periods, Distributions)
           /\ \A k, t : Dist(d, k, t) \in Distributions
           /\ \A k, t, lo : In(Dist(d, k, t), lo) \in Nat
           /\ \A t, lo : Ints(Parts(d, t, lo), Keys)
<1>1. d.distbykey \in Partial(Keys, Partial(Periods, Distributions))
  BY DatasetIs
<1>2. \A k : Get(d.distbykey, k, Empty) \in Partial(Periods, Distributions)
  BY <1>1, GetObject, EmptyObject
<1>3. \A k, t : Dist(d, k, t) \in Distributions
  BY <1>2, GetObject, EmptyDistribution DEF Dist
<1>4. \A k, t : Dist(d, k, t) \in Seq(Entries)
  BY <1>3 DEF Distributions
<1>5. \A k, t, lo : In(Dist(d, k, t), lo) \in Nat
  BY <1>4, InSum
<1>6. \A t, lo : Ints(Parts(d, t, lo), Keys)
  BY <1>5, DatasetAssumption DEF Ints, Parts
<1> QED BY <1>2, <1>3, <1>5, <1>6

\* Dataset e is d, and distribution w besides, of name k at t.
KeyAdded(d, e, t, k, w) ==
    /\ e \in Good("HeatmapDecomp") /\ t \in DOMAIN e.keysbytime
    /\ e.sources = d.sources /\ e.reporting = d.reporting /\ e.zero = d.zero
    /\ \A j, u, lo : In(Dist(e, j, u), lo) =
           In(Dist(d, j, u), lo) + IF j = k /\ u = t THEN In(w, lo) ELSE 0
    /\ \A u : Get(e.keysbytime, u, {}) = Get(d.keysbytime, u, {}) \cup IF u = t THEN {k} ELSE {}

LEMMA AddKeyAdds ==
    ASSUME NEW d \in Good("HeatmapDecomp"), NEW t \in DOMAIN d.keysbytime, NEW k \in Keys,
           NEW w \in Distributions
    PROVE  KeyAdded(d, AddKey(d, t, k, w), t, k, w)
<1> DEFINE K == "HeatmapDecomp"
           e == AddKey(d, t, k, w)
           times == Get(d.distbykey, k, Empty)
           new == caAddDistributions(Get(times, t, <<>>), w)
           joint == caAddDistributions(d.totalsbytime[t], w)
           keys2 == [d.keysbytime EXCEPT ![t] = @ \cup {k}]
           totals2 == [d.totalsbytime EXCEPT ![t] = joint]
           times2 == With(times, t, new)
           dist2 == With(d.distbykey, k, times2)
<1>1. /\ d \in Datasets(K) /\ Agreeing(d)
      /\ d.keysbytime \in Partial(Periods, SUBSET Keys)
      /\ d.totalsbytime \in Partial(Periods, Distributions)
      /\ d.distbykey \in Partial(Keys, Partial(Periods, Distributions))
      /\ times \in Partial(Periods, Distributions)
      /\ Dist(d, k, t) \in Distributions /\ Get(times, t, <<>>) = Dist(d, k, t)
  BY DatasetIs, DistIs DEF Good, Dist
<1>2. /\ t \in Periods /\ t \in DOMAIN d.totalsbytime /\ d.totalsbytime[t] \in Distributions
      /\ DOMAIN d.totalsbytime = DOMAIN d.keysbytime
      /\ DOMAIN d.keysbytime \in SUBSET Periods
      /\ d.keysbytime \in [DOMAIN d.keysbytime -> SUBSET Keys]
      /\ d.totalsbytime \in [DOMAIN d.keysbytime -> Distributions]
  BY <1>1, PartialIs DEF Agreeing
<1>3. /\ new \in Distributions /\ joint \in Distributions
      /\ \A lo : In(new, lo) = In(Dist(d, k, t), lo) + In(w, lo)
      /\ \A lo : In(joint, lo) = In(d.totalsbytime[t], lo) + In(w, lo)
  BY <1>1, <1>2, MergeRight
<1> HIDE DEF new, joint
<1>4. /\ keys2 \in Partial(Periods, SUBSET Keys) /\ DOMAIN keys2 = DOMAIN d.keysbytime
      /\ \A u : Get(keys2, u, {}) = Get(d.keysbytime, u, {}) \cup IF u = t THEN {k} ELSE {}
  <2>1. keys2 \in [DOMAIN d.keysbytime -> SUBSET Keys]
    BY <1>2
  <2>2. DOMAIN keys2 = DOMAIN d.keysbytime
    OBVIOUS
  <2>3. \A u \in DOMAIN d.keysbytime : keys2[u] = d.keysbytime[u] \cup IF u = t THEN {k} ELSE {}
    OBVIOUS
  <2> HIDE DEF keys2
  <2> QED BY <1>2, <2>1, <2>2, <2>3, PartialFrom DEF Get
<1>5. /\ totals2 \in Partial(Periods, Distributions) /\ DOMAIN totals2 = DOMAIN d.keysbytime
      /\ \A u : Get(totals2, u, <<>>) = IF u = t THEN joint ELSE Get(d.totalsbytime, u, <<>>)
  <2>1. totals2 \in [DOMAIN d.keysbytime -> Distributions]
    BY <1>2, <1>3
  <2>2. DOMAIN totals2 = DOMAIN d.keysbytime
    BY <1>2
  <2>3. \A u \in DOMAIN d.totalsbytime : totals2[u] = IF u = t THEN joint ELSE d.totalsbytime[u]
    BY <1>2
  <2> HIDE DEF totals2
  <2> QED BY <1>2, <2>1, <2>2, <2>3, PartialFrom DEF Get
<1>6. /\ times2 \in Partial(Periods, Distributions) /\ DOMAIN times2 = DOMAIN times \cup {t}
      /\ \A u : Get(times2, u, <<>>) = IF u = t THEN new ELSE Get(times, u, <<>>)
  <2> HIDE DEF times
  <2>1. times2 \in Partial(Periods, Distributions)
    BY <1>1, <1>2, <1>3, WithObject
  <2>2. DOMAIN times2 = DOMAIN times \cup {t}
    BY WithDomain
  <2>3. \A u : Get(times2, u, <<>>) = IF u = t THEN new ELSE Get(times, u, <<>>)
    BY WithGet
  <2> QED BY <2>1, <2>2, <2>3
<1>7. /\ dist2 \in Partial(Keys, Partial(Periods, Distributions))
      /\ DOMAIN dist2 = DOMAIN d.distbykey \cup {k}
      /\ \A j \in DOMAIN dist2 : dist2[j] = IF j = k THEN times2 ELSE d.distbykey[j]
      /\ \A j : Get(dist2, j, Empty) = IF j = k THEN times2 ELSE Get(d.distbykey, j, Empty)
  <2> HIDE DEF times2
  <2>1. dist2 \in Partial(Keys, Partial(Periods, Distributions))
    BY <1>1, <1>6, WithObject
  <2>2. DOMAIN dist2 = DOMAIN d.distbykey \cup {k}
    BY WithDomain
  <2>3. \A j \in DOMAIN dist2 : dist2[j] = IF j = k THEN times2 ELSE d.distbykey[j]
    BY <2>2, WithAt
  <2>4. \A j : Get(dist2, j, Empty) = IF j = k THEN times2 ELSE Get(d.distbykey, j, Empty)
    BY WithGet
  <2> QED BY <2>1, <2>2, <2>3, <2>4
<1>8. e = [d EXCEPT !.keysbytime = keys2, !.distbykey = dist2, !.totalsbytime = totals2]
  BY <1>1 DEF AddKey, new, joint, Datasets
<1>9. /\ e \in Datasets(K) /\ e.keysbytime = keys2 /\ e.distbykey = dist2
      /\ e.totalsbytime = totals2 /\ e.sources = d.sources /\ e.reporting = d.reporting
      /\ e.zero = d.zero /\ e.data = d.data
  <2> HIDE DEF keys2, dist2, totals2, e
  <2> QED BY <1>1, <1>4, <1>5, <1>7, <1>8 DEF Datasets
<1> HIDE DEF keys2, dist2, totals2, times2, e
<1>10. \A j, u : Dist(e, j, u) = IF j = k /\ u = t THEN new ELSE Dist(d, j, u)
  BY <1>6, <1>7, <1>9 DEF Dist
<1>11. \A j, u, lo : In(Dist(e, j, u), lo) =
           In(Dist(d, j, u), lo) + IF j = k /\ u = t THEN In(w, lo) ELSE 0
  BY <1>1, <1>3, <1>10, DistIs
<1>12. \A u : Get(e.keysbytime, u, {}) = {j \in DOMAIN e.distbykey : u \in DOMAIN e.distbykey[j]}
  <2> SUFFICES ASSUME NEW u
               PROVE  Get(e.keysbytime, u, {}) = {j \in DOMAIN e.distbykey : u \in DOMAIN e.distbykey[j]}
    OBVIOUS
  <2>1. Get(d.keysbytime, u, {}) = {j \in DOMAIN d.distbykey : u \in DOMAIN d.distbykey[j]}
    BY <1>1 DEF Agreeing
  <2>2. u \in DOMAIN times <=> k \in DOMAIN d.distbykey /\ u \in DOMAIN d.distbykey[k]
    BY EmptyObject DEF Get
  <2>3. \A j : j \in DOMAIN dist2 /\ u \in DOMAIN dist2[j]
                 <=> (j \in DOMAIN d.distbykey /\ u \in DOMAIN d.distbykey[j]) \/ (j = k /\ u = t)
    <3> HIDE DEF times
    <3> QED BY <1>6, <1>7, <2>2
  <2> HIDE DEF times
  <2> QED BY <1>4, <1>9, <2>1, <2>3
<1>13. \A u, lo : In(Get(e.totalsbytime, u, <<>>), lo) = SumFunctionOnSet(Parts(e, u, lo), Keys)
  <2> SUFFICES ASSUME NEW u, NEW lo
               PROVE  In(Get(e.totalsbytime, u, <<>>), lo) = SumFunctionOnSet(Parts(e, u, lo), Keys)
    OBVIOUS
  <2> DEFINE f == Parts(d, u, lo)
             g == Parts(e, u, lo)
  <2>1. In(Get(d.totalsbytime, u, <<>>), lo) = SumFunctionOnSet(f, Keys)
    BY <1>1 DEF Agreeing
  <2>2. \A j \in Keys : f[j] = In(Dist(d, j, u), lo) /\ g[j] = In(Dist(e, j, u), lo)
    BY DEF Parts
  <2>3. Ints(f, Keys) /\ Ints(g, Keys)
    BY <1>1, <1>9, DistIs
  <2> HIDE DEF f, g
  <2>4. CASE u = t
    <3>1. \A j \in Keys : j # k => g[j] = f[j]
      BY <1>10, <2>2
    <3>2. g[k] \in Int /\ f[k] \in Int /\ g[k] = f[k] + In(w, lo) /\ In(w, lo) \in Nat
      <4>1. w \in Seq(Entries)
        BY DEF Distributions
      <4> QED BY <1>11, <2>2, <2>3, <2>4, <4>1, InSum DEF Ints
    <3>3. SumFunctionOnSet(g, Keys) = SumFunctionOnSet(f, Keys) + (g[k] - f[k])
      BY <2>3, <3>1, <3>2, SumChange
    <3>4. Get(e.totalsbytime, u, <<>>) = joint /\ Get(d.totalsbytime, u, <<>>) = d.totalsbytime[t]
      BY <1>2, <1>5, <1>9, <2>4 DEF Get
    <3>5. SumFunctionOnSet(f, Keys) \in Int
      BY <2>3, SumType
    <3>6. g[k] - f[k] = In(w, lo)
      BY <3>2
    <3>7. In(Get(e.totalsbytime, u, <<>>), lo) = SumFunctionOnSet(g, Keys)
      BY <1>3, <2>1, <3>3, <3>4, <3>6
    <3> QED BY <3>7 DEF g
  <2>5. CASE u # t
    <3>1. \A j \in Keys : f[j] = g[j]
      BY <1>10, <2>2, <2>5
    <3>2. SumFunctionOnSet(f, Keys) = SumFunctionOnSet(g, Keys)
      BY <2>3, <3>1, SumSame
    <3>3. In(Get(e.totalsbytime, u, <<>>), lo) = SumFunctionOnSet(g, Keys)
      BY <1>5, <1>9, <2>1, <2>5, <3>2
    <3> QED BY <3>3 DEF g
  <2> QED BY <2>4, <2>5
<1>14. \A j \in DOMAIN e.distbykey : DOMAIN e.distbykey[j] # {}
  BY <1>1, <1>6, <1>7, <1>9 DEF Agreeing
<1>15. e \in Good(K)
  BY <1>4, <1>5, <1>9, <1>12, <1>13, <1>14 DEF Good, Agreeing
<1>16. KeyAdded(d, e, t, k, w)
  BY <1>4, <1>9, <1>11, <1>15 DEF KeyAdded
<1> QED BY <1>16 DEF e

\* Dataset e is d, and the distributions of v of the names in s besides.
KeysAdded(d, e, t, v, s) ==
    /\ e \in Good("HeatmapDecomp") /\ t \in DOMAIN e.keysbytime
    /\ e.sources = d.sources /\ e.reporting = d.reporting /\ e.zero = d.zero
    /\ \A j, u, lo : In(Dist(e, j, u), lo) =
           In(Dist(d, j, u), lo) + IF j \in s /\ u = t THEN In(v[j], lo) ELSE 0
    /\ \A u : Get(e.keysbytime, u, {}) = Get(d.keysbytime, u, {}) \cup IF u = t THEN s ELSE {}

Begun(d, t) == IF t \in DOMAIN d.keysbytime THEN d
               ELSE [d EXCEPT !.keysbytime = With(@, t, {}), !.totalsbytime = With(@, t, <<>>)]

LEMMA BegunKeeps ==
    ASSUME NEW d \in Good("HeatmapDecomp"), NEW t \in Periods, NEW v
    PROVE  KeysAdded(d, Begun(d, t), t, v, {})
<1> DEFINE K == "HeatmapDecomp"
           e == Begun(d, t)
           keys2 == With(d.keysbytime, t, {})
           totals2 == With(d.totalsbytime, t, <<>>)
<1>1. /\ d \in Datasets(K) /\ Agreeing(d)
      /\ d.keysbytime \in Partial(Periods, SUBSET Keys)
      /\ d.totalsbytime \in Partial(Periods, Distributions)
  BY DatasetIs DEF Good
<1>2. \A j, u, lo : In(Dist(d, j, u), lo) \in Nat
  BY <1>1, DistIs
<1>3. CASE t \in DOMAIN d.keysbytime
  BY <1>2, <1>3 DEF KeysAdded, Begun
<1>4. CASE t \notin DOMAIN d.keysbytime
  <2>1. keys2 \in Partial(Periods, SUBSET Keys)
    BY <1>1, WithObject
  <2>2. totals2 \in Partial(Periods, Distributions)
    BY <1>1, WithObject, EmptyDistribution
  <2>3. DOMAIN keys2 = DOMAIN d.keysbytime \cup {t} /\ DOMAIN totals2 = DOMAIN keys2
    <3>1. DOMAIN d.totalsbytime = DOMAIN d.keysbytime
      BY <1>1 DEF Agreeing
    <3>2. DOMAIN keys2 = DOMAIN d.keysbytime \cup {t}
      BY WithDomain
    <3>3. DOMAIN totals2 = DOMAIN d.totalsbytime \cup {t}
      BY WithDomain
    <3> QED BY <3>1, <3>2, <3>3
  <2>4. \A u : Get(keys2, u, {}) = Get(d.keysbytime, u, {})
    <3>1. \A u : Get(keys2, u, {}) = IF u = t THEN {} ELSE Get(d.keysbytime, u, {})
      BY WithGet
    <3>2. Get(d.keysbytime, t, {}) = {}
      BY <1>4 DEF Get
    <3> HIDE DEF keys2
    <3> QED BY <3>1, <3>2
  <2>5. \A u : Get(totals2, u, <<>>) = Get(d.totalsbytime, u, <<>>)
    <3>1. \A u : Get(totals2, u, <<>>) = IF u = t THEN <<>> ELSE Get(d.totalsbytime, u, <<>>)
      BY WithGet
    <3>2. Get(d.totalsbytime, t, <<>>) = <<>>
      BY <1>1, <1>4 DEF Get, Agreeing
    <3> HIDE DEF totals2
    <3> QED BY <3>1, <3>2
  <2>6. e = [d EXCEPT !.keysbytime = keys2, !.totalsbytime = totals2]
    BY <1>4 DEF Begun
  <2> HIDE DEF keys2, totals2, e
  <2>7. /\ e \in Datasets(K) /\ e.keysbytime = keys2 /\ e.distbykey = d.distbykey
        /\ e.totalsbytime = totals2 /\ e.sources = d.sources /\ e.reporting = d.reporting
        /\ e.zero = d.zero /\ e.data = d.data
    BY <1>1, <2>1, <2>2, <2>6 DEF Datasets
  <2>8. \A u, lo : Parts(e, u, lo) = Parts(d, u, lo)
    BY <2>7 DEF Parts, Dist
  <2>9. Agreeing(e)
    BY <1>1, <2>3, <2>4, <2>5, <2>7, <2>8 DEF Agreeing
  <2>10. e \in Good(K)
    BY <2>7, <2>9 DEF Good
  <2>11. \A j, u : Dist(e, j, u) = Dist(d, j, u)
    BY <2>7 DEF Dist
  <2>12. KeysAdded(d, e, t, v, {})
    BY <1>2, <2>3, <2>4, <2>7, <2>10, <2>11 DEF KeysAdded
  <2> QED BY <2>12 DEF e
<1> QED BY <1>3, <1>4

LEMMA KeysAddedStep ==
    ASSUME NEW d \in Good("HeatmapDecomp"), NEW t \in Periods, NEW v \in Partial(Keys, Distributions),
           NEW s \in SUBSET DOMAIN v, NEW c \in DOMAIN v, c \notin s,
           NEW e, KeysAdded(d, e, t, v, s)
    PROVE  KeysAdded(d, AddKey(e, t, c, v[c]), t, v, s \cup {c})
<1> DEFINE f == AddKey(e, t, c, v[c])
<1>1. c \in Keys /\ v[c] \in Distributions
  BY PartialIs
<1>2. e \in Good("HeatmapDecomp") /\ t \in DOMAIN e.keysbytime
  BY DEF KeysAdded
<1>3. KeyAdded(e, f, t, c, v[c])
  BY <1>1, <1>2, AddKeyAdds
<1> HIDE DEF f
<1>4. /\ \A j, u, lo : In(Dist(d, j, u), lo) \in Nat
      /\ \A j \in DOMAIN v : \A lo : In(v[j], lo) \in Nat
  <2>1. \A j \in DOMAIN v : v[j] \in Seq(Entries)
    BY PartialIs DEF Distributions
  <2> QED BY <2>1, InSum, DistIs DEF Good
<1>5. ASSUME NEW j, NEW u, NEW lo
      PROVE  In(Dist(f, j, u), lo) =
                 In(Dist(d, j, u), lo) + IF j \in s \cup {c} /\ u = t THEN In(v[j], lo) ELSE 0
  <2>1. In(Dist(f, j, u), lo) = In(Dist(e, j, u), lo) + IF j = c /\ u = t THEN In(v[c], lo) ELSE 0
    BY <1>3 DEF KeyAdded
  <2>2. In(Dist(e, j, u), lo) = In(Dist(d, j, u), lo) + IF j \in s /\ u = t THEN In(v[j], lo) ELSE 0
    BY DEF KeysAdded
  <2>3. CASE j = c /\ u = t
    BY <1>4, <2>1, <2>2, <2>3
  <2>4. CASE j \in s /\ u = t
    BY <1>4, <2>1, <2>2, <2>4
  <2>5. CASE ~(j \in s \cup {c} /\ u = t)
    BY <1>4, <2>1, <2>2, <2>5
  <2> QED BY <2>3, <2>4, <2>5
<1>6. \A u : Get(f.keysbytime, u, {}) =
                 Get(d.keysbytime, u, {}) \cup IF u = t THEN s \cup {c} ELSE {}
  BY <1>3 DEF KeyAdded, KeysAdded
<1>7. KeysAdded(d, f, t, v, s \cup {c})
  BY <1>3, <1>5, <1>6 DEF KeyAdded, KeysAdded
<1> QED BY <1>7 DEF f

LEMMA HeatmapAdded ==
    ASSUME NEW d \in Good("HeatmapDecomp"), NEW t \in Periods,
           NEW v \in Partial(Keys, Distributions) \cup {Undefined}
    PROVE  Added("HeatmapDecomp", d, AddHeatmapDecomp(d, t, v), t, v)
<1> DEFINE K == "HeatmapDecomp"
<1>1. /\ \A j, u, lo : In(Dist(d, j, u), lo) \in Nat
  BY DistIs DEF Good
<1>2. CASE v = Undefined
  BY <1>1, <1>2 DEF AddHeatmapDecomp, Added, Amount, NamesAt, Worth, Terms
<1>3. CASE v # Undefined
  <2> DEFINE S == DOMAIN v
             D == {e \in Good(K) : t \in DOMAIN e.keysbytime}
             base == Begun(d, t)
             F == [p \in S \X D |-> AddKey(p[2], t, p[1], v[p[1]])]
             Body(h) == [s \in SUBSET S |-> IF s = {} THEN base
                            ELSE AddKey(h[s \ {Some(s)}], t, Some(s), v[Some(s)])]
             it == CHOOSE h : h = Body(h)
             B(g) == {s \in SUBSET S : KeysAdded(d, g[s], t, v, s)}
  <2>1. v \in Partial(Keys, Distributions)
    BY <1>3
  <2>2. /\ IsFiniteSet(S) /\ \A k \in S : k \in Keys /\ v[k] \in Distributions
    BY <2>1, PartialIs, FS_Subset, DatasetAssumption
  <2>3. base \in D /\ KeysAdded(d, base, t, v, {})
    BY BegunKeeps DEF KeysAdded
  <2>4. \A k \in S, e \in D : F[<<k, e>>] = AddKey(e, t, k, v[k])
    OBVIOUS
  <2>5. \A k \in S, e \in D : AddKey(e, t, k, v[k]) \in D
    <3> HIDE DEF F, S
    <3> QED BY <2>2, AddKeyAdds DEF KeyAdded
  <2>6. F \in [S \X D -> D]
    <3> HIDE DEF S, D
    <3> QED BY <2>5
  <2>7. PICK g : IsFold(g, S, D, base, F)
    <3> HIDE DEF S, D, base, F
    <3>1. Foldable(S, D, base, F)
      BY <2>2, <2>3, <2>6 DEF Foldable
    <3> QED BY <3>1, FoldExists
  <2>8. ASSUME NEW s \in SUBSET S, s # {}
        PROVE  /\ Some(s) \in S /\ Some(s) \in s /\ s \ {Some(s)} \in SUBSET S
               /\ g[s \ {Some(s)}] \in D
               /\ g[s] = AddKey(g[s \ {Some(s)}], t, Some(s), v[Some(s)])
    <3> HIDE DEF D, base, F, S
    <3>1. Some(s) \in S /\ Some(s) \in s /\ s \ {Some(s)} \in SUBSET S
      BY <2>8, SomeIn
    <3> QED BY <2>4, <2>7, <2>8, <3>1 DEF IsFold
  <2>9. g[{}] = base /\ g \in [SUBSET S -> D]
    <3> HIDE DEF D, base, F
    <3> QED BY <2>7 DEF IsFold
  <2>10. g = Body(g)
    <3> HIDE DEF D, base, F, S
    <3> QED BY <2>8, <2>9
  <2>11. it = Body(it)
    <3> HIDE DEF Body
    <3> QED BY <2>10
  <2>12. it[S] = g[S]
    <3>1. it[{}] = g[{}]
      <4>1. Body(it)[{}] = base
        OBVIOUS
      <4> HIDE DEF it, Body, base
      <4> QED BY <2>9, <2>11, <4>1
    <3>2. ASSUME NEW s \in SUBSET S, s # {}, it[s \ {Some(s)}] = g[s \ {Some(s)}]
          PROVE  it[s] = g[s]
      <4>1. Body(it)[s] = AddKey(it[s \ {Some(s)}], t, Some(s), v[Some(s)])
        BY <3>2
      <4> HIDE DEF it, Body, base
      <4> QED BY <2>8, <2>11, <3>2, <4>1
    <3> HIDE DEF it, Body, S
    <3>3. Alike(it, g, S)
      BY <3>1, <3>2 DEF Alike
    <3>4. Agree(it, g, S)
      BY <2>2, <3>3, FoldUnique
    <3> QED BY <3>4 DEF Agree
  <2>13. AddHeatmapDecomp(d, t, v) = it[S]
    BY <1>3 DEF AddHeatmapDecomp, FoldSet, MapThenFoldSet, Some, Begun
  <2>14. KeysAdded(d, g[S], t, v, S)
    <3>1. {} \in B(g)
      <4> HIDE DEF base, S
      <4> QED BY <2>3, <2>9
    <3>2. ASSUME NEW s \in SUBSET S, s # {}, s \ {Some(s)} \in B(g) PROVE s \in B(g)
      <4> DEFINE q == s \ {Some(s)}
                 c == Some(s)
      <4>1. q \in SUBSET DOMAIN v /\ c \in DOMAIN v /\ c \notin q /\ s = q \cup {c}
        BY <2>8, <3>2
      <4>2. KeysAdded(d, g[q], t, v, q) /\ g[s] = AddKey(g[q], t, c, v[c])
        BY <2>8, <3>2
      <4> HIDE DEF q, c
      <4>3. KeysAdded(d, g[s], t, v, s)
        BY <2>1, <4>1, <4>2, KeysAddedStep
      <4> QED BY <4>3
    <3> HIDE DEF S, D, base, F
    <3>3. \A s \in SUBSET S : s \in B(g)
      <4> DEFINE BB == B(g)
      <4>1. {} \in BB /\ \A s \in SUBSET S : s # {} /\ s \ {Some(s)} \in BB => s \in BB
        BY <3>1, <3>2
      <4> HIDE DEF BB
      <4>2. \A s \in SUBSET S : s \in BB
        BY <2>2, <4>1, SubsetInduction
      <4> QED BY <4>2 DEF BB
    <3> QED BY <3>3
  <2> DEFINE e == g[S]
  <2> HIDE DEF it, D, base, F, Body, e
  <2>15. KeysAdded(d, e, t, v, S)
    BY <2>14 DEF e
  <2>16. /\ \A u, k, lo : Amount(K, e, u, k, lo) =
                Amount(K, d, u, k, lo) + IF u = t THEN Worth(K, v, k, lo) ELSE 0
    <3>1. \A k, lo : SaysOf(K, v, k, lo) = IF k \in S THEN In(v[k], lo) ELSE 0
      BY InEmpty DEF SaysOf, Get
    <3> QED BY <1>1, <1>3, <2>15, <3>1 DEF KeysAdded, Amount, Worth
  <2>17. \A u : NamesAt(K, e, u) = NamesAt(K, d, u) \cup IF u = t THEN Terms(K, v) ELSE {}
    BY <1>3, <2>15 DEF KeysAdded, NamesAt, Terms, NamesOf
  <2>18. Added(K, d, e, t, v)
    BY <2>15, <2>16, <2>17 DEF KeysAdded, Added, Clean
  <2> QED BY <2>12, <2>13, <2>18 DEF e
<1> QED BY <1>2, <1>3

LEMMA aggregateValueAdds ==
    ASSUME NEW d \in Good(kind), NEW t \in Periods, NEW v \in Datum(kind) \cup {Undefined}
    PROVE  Added(kind, d, aggregateValue(d, t, v), t, v)
<1>1. CASE kind = "HeatmapDecomp"
  <2>1. d \in Good("HeatmapDecomp") /\ v \in Partial(Keys, Distributions) \cup {Undefined}
    BY <1>1 DEF Datum
  <2>2. Added("HeatmapDecomp", d, AddHeatmapDecomp(d, t, v), t, v)
    BY <2>1, HeatmapAdded
  <2> QED BY <1>1, <2>2 DEF aggregateValue
<1>2. CASE kind # "HeatmapDecomp"
  BY <1>2, SimpleAdded DEF aggregateValue
<1> QED BY <1>1, <1>2

-----------------------------------------------------------------------------
(* The other operations of a dataset. *)

\* All that is said of periods is the same.
SameSaid(K, d, e) ==
    /\ \A t, k, lo : Amount(K, e, t, k, lo) = Amount(K, d, t, k, lo)
    /\ \A t : NamesAt(K, e, t) = NamesAt(K, d, t)
    /\ e.zero = d.zero

LEMMA HeardKeeps ==
    ASSUME NEW K, NEW d \in Good(K), NEW h \in Hosts, NEW last \in Int
    PROVE  /\ Heard(d, h, last) \in Good(K) /\ Heard(d, h, last).reporting = d.reporting
           /\ SameSaid(K, d, Heard(d, h, last))
<1> DEFINE m == Max({last, Get(d.sources, h, last)})
           e == Heard(d, h, last)
           sources2 == With(d.sources, h, m)
<1>1. d \in Datasets(K) /\ d.sources \in Partial(Hosts, Int)
  BY DatasetIs DEF Good
<1>2. Get(d.sources, h, last) \in Int
  BY <1>1, GetObject
<1>3. m \in Int
  <2> DEFINE x == Get(d.sources, h, last)
  <2>1. \E y \in {last, x} : \A z \in {last, x} : y >= z
    <3> HIDE DEF x
    <3>1. last >= x \/ x >= last
      BY <1>2 DEF x
    <3>2. last >= last /\ x >= x
      BY <1>2 DEF x
    <3> QED BY <3>1, <3>2
  <2>2. m \in {last, x}
    BY <2>1 DEF Max
  <2> QED BY <1>2, <2>2
<1> HIDE DEF m
<1>4. sources2 \in Partial(Hosts, Int)
  BY <1>1, <1>3, WithObject
<1>5. e = [d EXCEPT !.sources = sources2]
  BY <1>1 DEF Heard, m, Datasets
<1> HIDE DEF sources2, e
<1>6. /\ e \in Datasets(K) /\ e.reporting = d.reporting /\ e.data = d.data /\ e.zero = d.zero
      /\ e.distbykey = d.distbykey /\ e.totalsbytime = d.totalsbytime
      /\ e.keysbytime = d.keysbytime
  BY <1>1, <1>4, <1>5 DEF Datasets
<1>7. e \in Good(K)
  BY <1>6, SameHeatmaps
<1>8. SameSaid(K, d, e)
  BY <1>6 DEF SameSaid, Amount, NamesAt, DataAt, Dist
<1> QED BY <1>6, <1>7, <1>8 DEF e

LEMMA ReportKeeps ==
    ASSUME NEW K, NEW d \in Good(K), NEW t \in Periods, NEW hosts \in SUBSET Hosts
    PROVE  /\ Report(d, t, hosts) \in Good(K) /\ SameSaid(K, d, Report(d, t, hosts))
           /\ Report(d, t, hosts).reporting = With(d.reporting, t, Get(d.reporting, t, {}) \cup hosts)
<1> DEFINE e == Report(d, t, hosts)
           reporting2 == With(d.reporting, t, Get(d.reporting, t, {}) \cup hosts)
<1>1. d \in Datasets(K) /\ d.reporting \in Partial(Periods, SUBSET Hosts)
  BY DatasetIs DEF Good
<1>2. Get(d.reporting, t, {}) \cup hosts \in SUBSET Hosts
  BY <1>1, GetObject
<1>3. reporting2 \in Partial(Periods, SUBSET Hosts)
  BY <1>1, <1>2, WithObject
<1>4. e = [d EXCEPT !.reporting = reporting2]
  BY <1>1 DEF Report, Datasets
<1> HIDE DEF reporting2, e
<1>5. /\ e \in Datasets(K) /\ e.reporting = reporting2 /\ e.data = d.data /\ e.zero = d.zero
      /\ e.distbykey = d.distbykey /\ e.totalsbytime = d.totalsbytime
      /\ e.keysbytime = d.keysbytime
  BY <1>1, <1>3, <1>4 DEF Datasets
<1>6. e \in Good(K)
  BY <1>5, SameHeatmaps
<1>7. SameSaid(K, d, e)
  BY <1>5 DEF SameSaid, Amount, NamesAt, DataAt, Dist
<1> QED BY <1>5, <1>6, <1>7 DEF e, reporting2

LEMMA DatasetBegins ==
    /\ caDataset \in Good(kind) /\ Clean(kind, caDataset) /\ caDataset.reporting = Empty
    /\ \A t, k, lo : Amount(kind, caDataset, t, k, lo) = 0
    /\ \A t : NamesAt(kind, caDataset, t) = {}
<1> DEFINE d == caDataset
           K == kind
<1>1. /\ d.sources = Empty /\ d.reporting = Empty /\ d.data = Empty /\ d.distbykey = Empty
      /\ d.totalsbytime = Empty /\ d.keysbytime = Empty /\ d.zero = Zero(K)
      /\ DOMAIN Empty = {} /\ \A x, c : Get(Empty, x, c) = c
  BY KindType, EmptyObject DEF caDataset, Get
<1>2. d \in Datasets(K)
  BY KindType, ZeroSays, EmptyObject DEF caDataset, Datasets
<1> HIDE DEF d
<1>3. \A k, t : Dist(d, k, t) = <<>>
  BY <1>1 DEF Dist
<1>4. Agreeing(d)
  <2> SUFFICES ASSUME NEW t, NEW lo
               PROVE  In(Get(d.totalsbytime, t, <<>>), lo) = SumFunctionOnSet(Parts(d, t, lo), Keys)
    BY <1>1 DEF Agreeing
  <2> DEFINE f == Parts(d, t, lo)
  <2>1. \A k \in Keys : f[k] = 0
    BY <1>3, InEmpty DEF Parts
  <2>2. Ints(f, Keys)
    BY <1>2, DistIs
  <2> HIDE DEF f
  <2>3. SumFunctionOnSet(f, Keys) = 0
    BY <2>1, <2>2, SumNone
  <2> QED BY <1>1, <2>3, InEmpty DEF f
<1>5. d \in Good(K)
  BY <1>1, <1>2, <1>4 DEF Good
<1>6. \A t, k, lo : Amount(K, d, t, k, lo) = 0
  BY <1>1, <1>3, InEmpty DEF Amount
<1>7. \A t : NamesAt(K, d, t) = {}
  BY <1>1 DEF NamesAt
<1> QED BY <1>1, <1>5, <1>6, <1>7 DEF Clean, d

\* Dataset e is d without what is older than x.
Expired(K, d, e, x) ==
    /\ e \in Good(K) /\ e.reporting = Since(d.reporting, x) /\ e.zero = d.zero
    /\ \A t \in Nat : \A k, lo : Amount(K, e, t, k, lo) = IF t >= x THEN Amount(K, d, t, k, lo) ELSE 0
    /\ \A t \in Nat : NamesAt(K, e, t) = IF t >= x THEN NamesAt(K, d, t) ELSE {}

LEMMA expireBeforeExpires ==
    ASSUME NEW d \in Good(kind), NEW x \in Nat
    PROVE  Expired(kind, d, expireBefore(d, x), x)
<1> DEFINE K == kind
           e == expireBefore(d, x)
           reporting2 == Since(d.reporting, x)
<1>1. /\ d \in Datasets(K) /\ Agreeing(d)
      /\ d.reporting \in Partial(Periods, SUBSET Hosts)
      /\ d.data \in Partial(Periods, Cells(K))
      /\ d.keysbytime \in Partial(Periods, SUBSET Keys)
      /\ d.totalsbytime \in Partial(Periods, Distributions)
      /\ d.distbykey \in Partial(Keys, Partial(Periods, Distributions))
  BY DatasetIs DEF Good
<1>2. reporting2 \in Partial(Periods, SUBSET Hosts)
  BY <1>1, SinceObject
<1>3. Periods \subseteq Nat
  BY PeriodsType
<1> HIDE DEF reporting2
<1>4. CASE K # "HeatmapDecomp"
  <2> DEFINE data2 == Since(d.data, x)
  <2>1. data2 \in Partial(Periods, Cells(K))
    BY <1>1, SinceObject
  <2>2. e = [d EXCEPT !.reporting = reporting2, !.data = data2]
    BY <1>1, <1>4 DEF expireBefore, expireDataBefore, reporting2, Datasets
  <2>3. DOMAIN data2 = {t \in DOMAIN d.data : t >= x}
    BY SinceDomain
  <2>4. \A t \in DOMAIN d.data : t >= x => data2[t] = d.data[t]
    BY SinceAt
  <2> HIDE DEF e, data2
  <2>5. /\ e \in Datasets(K) /\ e.reporting = reporting2 /\ e.zero = d.zero /\ e.data = data2
        /\ e.distbykey = d.distbykey /\ e.totalsbytime = d.totalsbytime
        /\ e.keysbytime = d.keysbytime
    BY <1>1, <1>2, <2>1, <2>2 DEF Datasets
  <2>6. e \in Good(K)
    BY <1>4, <2>5, SameHeatmaps
  <2>7. \A t \in DOMAIN e.data : t \in DOMAIN d.data /\ DataAt(e, t) = DataAt(d, t)
    BY <2>3, <2>4, <2>5 DEF DataAt
  <2>8. Expired(K, d, e, x)
    BY <1>4, <2>3, <2>5, <2>6, <2>7 DEF Expired, Amount, NamesAt, reporting2
  <2> QED BY <2>8 DEF e
<1>5. CASE K = "HeatmapDecomp"
  <2> DEFINE keys2 == Since(d.keysbytime, x)
             totals2 == Since(d.totalsbytime, x)
             left == [k \in DOMAIN d.distbykey |->
                 Restrict(d.distbykey[k], {t \in DOMAIN d.distbykey[k] :
                     ~(t < x /\ t \in DOMAIN d.keysbytime /\ k \in d.keysbytime[t])})]
             Kept == {k \in DOMAIN left : DOMAIN left[k] # {}}
             dist2 == [k \in Kept |-> left[k]]
  <2>1. keys2 \in Partial(Periods, SUBSET Keys)
    BY <1>1, SinceObject
  <2>2. totals2 \in Partial(Periods, Distributions)
    BY <1>1, SinceObject
  <2>3. DOMAIN keys2 = DOMAIN totals2
    <3>1. DOMAIN d.totalsbytime = DOMAIN d.keysbytime
      BY <1>1 DEF Agreeing
    <3>2. DOMAIN keys2 = {t \in DOMAIN d.keysbytime : t >= x}
      BY SinceDomain
    <3>3. DOMAIN totals2 = {t \in DOMAIN d.totalsbytime : t >= x}
      BY SinceDomain
    <3> QED BY <3>1, <3>2, <3>3
  <2>4. \A t : Get(keys2, t, {}) = IF t >= x THEN Get(d.keysbytime, t, {}) ELSE {}
    BY SinceGet
  <2>5. \A t : Get(totals2, t, <<>>) = IF t >= x THEN Get(d.totalsbytime, t, <<>>) ELSE <<>>
    BY SinceGet
  <2>6. ASSUME NEW k \in DOMAIN d.distbykey
        PROVE  /\ k \in Keys /\ d.distbykey[k] \in Partial(Periods, Distributions)
               /\ left[k] = Since(d.distbykey[k], x)
    <3>1. k \in Keys /\ d.distbykey[k] \in Partial(Periods, Distributions)
      BY <1>1, PartialIs
    <3>2. \A t \in DOMAIN d.distbykey[k] : t \in Nat /\ t \in DOMAIN d.keysbytime /\ k \in d.keysbytime[t]
      <4> SUFFICES ASSUME NEW t \in DOMAIN d.distbykey[k]
                   PROVE  t \in Nat /\ t \in DOMAIN d.keysbytime /\ k \in d.keysbytime[t]
        OBVIOUS
      <4>1. t \in Nat
        BY <1>3, <3>1, PartialIs
      <4>2. k \in Get(d.keysbytime, t, {})
        BY <1>1 DEF Agreeing
      <4> QED BY <4>1, <4>2 DEF Get
    <3>3. {t \in DOMAIN d.distbykey[k] :
               ~(t < x /\ t \in DOMAIN d.keysbytime /\ k \in d.keysbytime[t])}
              = {t \in DOMAIN d.distbykey[k] : t >= x}
      BY <3>2
    <3> QED BY <3>1, <3>3 DEF Since
  <2>7. e = [d EXCEPT !.reporting = reporting2, !.distbykey = dist2, !.totalsbytime = totals2,
                      !.keysbytime = keys2]
    <3>1. dist2 = RestrictValues(left, LAMBDA f : DOMAIN f # {})
      BY DEF RestrictValues, Restrict
    <3> HIDE DEF dist2
    <3> QED BY <1>1, <1>5, <3>1 DEF expireBefore, expireDataBefore, reporting2, Datasets
  <2>8. DOMAIN left = DOMAIN d.distbykey
    OBVIOUS
  <2> HIDE DEF left
  <2>9. DOMAIN dist2 = Kept /\ \A k \in Kept : dist2[k] = left[k]
    OBVIOUS
  <2>10. \A k \in DOMAIN d.distbykey :
             /\ DOMAIN left[k] = {t \in DOMAIN d.distbykey[k] : t >= x}
             /\ left[k] \in Partial(Periods, Distributions)
    BY <2>6, SinceDomain, SinceObject
  <2>11. \A k \in DOMAIN d.distbykey : \A t :
             Get(left[k], t, <<>>) = IF t >= x THEN Get(d.distbykey[k], t, <<>>) ELSE <<>>
    BY <2>6, SinceGet
  <2>12. dist2 \in Partial(Keys, Partial(Periods, Distributions))
    <3>1. Kept \in SUBSET Keys /\ dist2 \in [Kept -> Partial(Periods, Distributions)]
      BY <2>6, <2>8, <2>10
    <3> HIDE DEF dist2, Kept
    <3> QED BY <3>1, PartialFrom
  <2> HIDE DEF e, keys2, totals2, dist2
  <2>13. /\ e \in Datasets(K) /\ e.reporting = reporting2 /\ e.zero = d.zero /\ e.data = d.data
         /\ e.distbykey = dist2 /\ e.totalsbytime = totals2 /\ e.keysbytime = keys2
    BY <1>1, <1>2, <2>1, <2>2, <2>7, <2>12 DEF Datasets
  <2>14. ASSUME NEW k, NEW t PROVE Dist(e, k, t) = IF t >= x THEN Dist(d, k, t) ELSE <<>>
    <3>1. CASE k \notin DOMAIN d.distbykey
      <4>1. k \notin DOMAIN dist2 /\ \A u : Get(Empty, u, <<>>) = <<>>
        BY <2>8, <2>9, <3>1, EmptyObject DEF Get
      <4> QED BY <2>13, <3>1, <4>1 DEF Dist, Get
    <3>2. CASE k \in Kept
      <4>1. k \in DOMAIN d.distbykey /\ dist2[k] = left[k]
        BY <2>8, <2>9, <3>2
      <4>2. Dist(e, k, t) = Get(left[k], t, <<>>) /\ Dist(d, k, t) = Get(d.distbykey[k], t, <<>>)
        BY <2>9, <2>13, <3>2, <4>1 DEF Dist, Get
      <4> QED BY <2>11, <4>1, <4>2
    <3>3. CASE k \in DOMAIN d.distbykey /\ k \notin Kept
      <4>1. DOMAIN left[k] = {} /\ k \notin DOMAIN dist2
        BY <2>8, <2>9, <3>3
      <4>2. Dist(e, k, t) = <<>> /\ Get(left[k], t, <<>>) = <<>>
        BY <2>13, <4>1, EmptyObject DEF Dist, Get
      <4>3. Dist(d, k, t) = Get(d.distbykey[k], t, <<>>)
        BY <3>3 DEF Dist, Get
      <4> QED BY <2>11, <3>3, <4>2, <4>3
    <3> QED BY <3>1, <3>2, <3>3
  <2>15. \A t : Get(e.keysbytime, t, {}) = {k \in DOMAIN e.distbykey : t \in DOMAIN e.distbykey[k]}
    <3> SUFFICES ASSUME NEW t
                 PROVE  Get(e.keysbytime, t, {}) = {k \in DOMAIN e.distbykey : t \in DOMAIN e.distbykey[k]}
      OBVIOUS
    <3>1. Get(d.keysbytime, t, {}) = {k \in DOMAIN d.distbykey : t \in DOMAIN d.distbykey[k]}
      BY <1>1 DEF Agreeing
    <3>2. \A k : k \in DOMAIN dist2 /\ t \in DOMAIN dist2[k]
                   <=> k \in DOMAIN d.distbykey /\ t \in DOMAIN d.distbykey[k] /\ t >= x
      BY <2>8, <2>9, <2>10
    <3> QED BY <2>4, <2>13, <3>1, <3>2
  <2>16. \A t, lo : In(Get(e.totalsbytime, t, <<>>), lo) = SumFunctionOnSet(Parts(e, t, lo), Keys)
    <3> SUFFICES ASSUME NEW t, NEW lo
                 PROVE  In(Get(e.totalsbytime, t, <<>>), lo) = SumFunctionOnSet(Parts(e, t, lo), Keys)
      OBVIOUS
    <3> DEFINE f == Parts(d, t, lo)
               g == Parts(e, t, lo)
    <3>1. In(Get(d.totalsbytime, t, <<>>), lo) = SumFunctionOnSet(f, Keys)
      BY <1>1 DEF Agreeing
    <3>2. \A k \in Keys : g[k] = IF t >= x THEN f[k] ELSE 0
      BY <2>14, InEmpty DEF Parts
    <3>3. Ints(f, Keys) /\ Ints(g, Keys)
      BY <1>1, <2>13, DistIs
    <3> HIDE DEF f, g
    <3>4. CASE t >= x
      <4>1. SumFunctionOnSet(f, Keys) = SumFunctionOnSet(g, Keys)
        BY <3>2, <3>3, <3>4, SumSame
      <4> QED BY <2>5, <2>13, <3>1, <3>4, <4>1 DEF g
    <3>5. CASE ~(t >= x)
      <4>1. SumFunctionOnSet(g, Keys) = 0
        BY <3>2, <3>3, <3>5, SumNone
      <4> QED BY <2>5, <2>13, <3>5, <4>1, InEmpty DEF g
    <3> QED BY <3>4, <3>5
  <2>17. e \in Good(K)
    <3>1. \A k \in DOMAIN e.distbykey : DOMAIN e.distbykey[k] # {}
      BY <2>9, <2>13
    <3>2. Agreeing(e)
      BY <2>3, <2>13, <2>15, <2>16, <3>1 DEF Agreeing
    <3>3. DOMAIN d.data = {}
      BY <1>5 DEF Good
    <3> QED BY <1>5, <2>13, <3>2, <3>3 DEF Good
  <2>18. \A t \in Nat : \A k, lo : Amount(K, e, t, k, lo) = IF t >= x THEN Amount(K, d, t, k, lo) ELSE 0
    BY <1>5, <2>14, InEmpty DEF Amount
  <2>19. \A t \in Nat : NamesAt(K, e, t) = IF t >= x THEN NamesAt(K, d, t) ELSE {}
    BY <1>5, <2>4, <2>13 DEF NamesAt
  <2>20. Expired(K, d, e, x)
    BY <2>13, <2>17, <2>18, <2>19 DEF Expired, reporting2
  <2> QED BY <2>20 DEF e
<1> QED BY <1>4, <1>5

-----------------------------------------------------------------------------
(* What is read from a dataset. *)

\* sum is base and all the values of V at s.
SaysAt(K, V, S, k, lo) == [t \in S |-> SaysOf(K, V[t], k, lo)]
AllSums(K, V, S, s, base, sum) ==
    /\ sum \in Datum(K)
    /\ NamesOf(K, sum) = NamesOf(K, base) \cup UNION {NamesOf(K, V[t]) : t \in s}
    /\ \A k, lo : SaysOf(K, sum, k, lo) =
           SaysOf(K, base, k, lo) + SumFunctionOnSet(SaysAt(K, V, S, k, lo), s)

Adds(K, V, S, P, base) ==
    /\ K \in Kinds /\ IsFiniteSet(S) /\ (\A t \in S : V[t] \in Datum(K)) /\ base \in Datum(K)
    /\ P \in [Datum(K) \X Datum(K) -> Datum(K)]
    /\ \A a, b \in Datum(K) : Sums(K, a, b, P[<<a, b>>])

FoldsSums(K, V, S, P, base, g) ==
    /\ g \in [SUBSET S -> Datum(K)] /\ g[{}] = base
    /\ \A s \in SUBSET S : s # {} => g[s] = P[<<g[s \ {Some(s)}], V[Some(s)]>>]
    /\ AllSums(K, V, S, S, base, g[S])

LEMMA SaysInts ==
    ASSUME NEW K, NEW V, NEW S, NEW P, NEW base, Adds(K, V, S, P, base), NEW k, NEW lo
    PROVE  Ints(SaysAt(K, V, S, k, lo), S) /\ SaysOf(K, base, k, lo) \in Nat
<1>1. \A t \in S : V[t] \in Datum(K)
  BY DEF Adds
<1>2. \A t \in S : SaysOf(K, V[t], k, lo) \in Nat
  BY <1>1, DatumSays DEF Adds
<1> QED BY <1>2, DatumSays DEF Adds, Ints, SaysAt

LEMMA FoldSums ==
    ASSUME NEW K, NEW V, NEW S, NEW P, NEW base, Adds(K, V, S, P, base)
    PROVE  \E g : FoldsSums(K, V, S, P, base, g)
<1> DEFINE D == Datum(K)
           F == [p \in S \X D |-> P[<<p[2], V[p[1]]>>]]
           B(g) == {s \in SUBSET S : AllSums(K, V, S, s, base, g[s])}
<1>1. /\ K \in Kinds /\ IsFiniteSet(S) /\ (\A t \in S : V[t] \in D) /\ base \in D
      /\ P \in [D \X D -> D] /\ \A a, b \in D : Sums(K, a, b, P[<<a, b>>])
  BY DEF Adds
<1>2. \A t \in S, a \in D : F[<<t, a>>] = P[<<a, V[t]>>]
  OBVIOUS
<1>3. F \in [S \X D -> D]
  <2> HIDE DEF D
  <2> QED BY <1>1
<1> HIDE DEF D, F
<1>4. PICK g : IsFold(g, S, D, base, F)
  <2>1. Foldable(S, D, base, F)
    BY <1>1, <1>3 DEF Foldable
  <2> QED BY <2>1, FoldExists
<1>5. g \in [SUBSET S -> D] /\ g[{}] = base
  BY <1>4 DEF IsFold
<1>6. ASSUME NEW s \in SUBSET S, s # {}
      PROVE  /\ Some(s) \in s /\ Some(s) \in S /\ s \ {Some(s)} \in SUBSET S
             /\ g[s \ {Some(s)}] \in D /\ V[Some(s)] \in D
             /\ g[s] = P[<<g[s \ {Some(s)}], V[Some(s)]>>]
  <2>1. Some(s) \in s /\ Some(s) \in S /\ s \ {Some(s)} \in SUBSET S
    BY <1>6, SomeIn
  <2> QED BY <1>1, <1>2, <1>4, <1>5, <1>6, <2>1 DEF IsFold
<1>7. {} \in B(g)
  <2>1. AllSums(K, V, S, {}, base, g[{}])
    <3>1. \A k, lo : SumFunctionOnSet(SaysAt(K, V, S, k, lo), {}) = 0
      BY SumEmpty
    <3>2. \A k, lo : SaysOf(K, base, k, lo) \in Nat
      BY SaysInts
    <3>3. UNION {NamesOf(K, V[t]) : t \in {}} = {}
      OBVIOUS
    <3> QED BY <1>1, <1>5, <3>1, <3>2, <3>3 DEF AllSums, D
  <2> QED BY <2>1
<1>8. ASSUME NEW s \in SUBSET S, s # {}, s \ {Some(s)} \in B(g) PROVE s \in B(g)
  <2> DEFINE c == Some(s)
             q == s \ {Some(s)}
  <2>1. /\ c \in s /\ c \in S /\ q \in SUBSET S /\ g[q] \in D /\ V[c] \in D
        /\ g[s] = P[<<g[q], V[c]>>] /\ s = q \cup {c}
    BY <1>6, <1>8
  <2>2. Sums(K, g[q], V[c], g[s])
    <3> HIDE DEF c, q
    <3> QED BY <1>1, <2>1
  <2>3. AllSums(K, V, S, q, base, g[q])
    BY <1>8
  <2>4. ASSUME NEW k, NEW lo
        PROVE  SaysOf(K, g[s], k, lo) =
                   SaysOf(K, base, k, lo) + SumFunctionOnSet(SaysAt(K, V, S, k, lo), s)
    <3> DEFINE f == SaysAt(K, V, S, k, lo)
    <3>1. Ints(f, S) /\ SaysOf(K, base, k, lo) \in Nat
      BY SaysInts
    <3>2. f[c] = SaysOf(K, V[c], k, lo)
      BY <2>1 DEF SaysAt
    <3> HIDE DEF f
    <3>3. Ints(f, s) /\ Ints(f, q)
      BY <2>1, <3>1, IntsSubset
    <3>4. SumFunctionOnSet(f, s) = f[c] + SumFunctionOnSet(f, q)
      BY <1>8, <3>3, SumChosen
    <3>5. f[c] \in Int /\ SumFunctionOnSet(f, q) \in Int
      BY <2>1, <3>1, <3>3, SumType DEF Ints
    <3>6. SaysOf(K, g[q], k, lo) = SaysOf(K, base, k, lo) + SumFunctionOnSet(f, q)
      BY <2>3 DEF AllSums, f
    <3>7. SaysOf(K, g[s], k, lo) = SaysOf(K, g[q], k, lo) + SaysOf(K, V[c], k, lo)
      BY <2>2 DEF Sums
    <3>8. SaysOf(K, g[s], k, lo) = SaysOf(K, base, k, lo) + SumFunctionOnSet(f, s)
      <4> HIDE DEF c, q
      <4> QED BY <3>1, <3>2, <3>4, <3>5, <3>6, <3>7
    <3> QED BY <3>8 DEF f
  <2>5. NamesOf(K, g[s]) = NamesOf(K, base) \cup UNION {NamesOf(K, V[t]) : t \in s}
    <3> HIDE DEF c, q
    <3>1. NamesOf(K, g[s]) = NamesOf(K, g[q]) \cup NamesOf(K, V[c])
      BY <2>2 DEF Sums
    <3>2. NamesOf(K, g[q]) = NamesOf(K, base) \cup UNION {NamesOf(K, V[t]) : t \in q}
      BY <2>3 DEF AllSums
    <3> QED BY <2>1, <3>1, <3>2
  <2>6. AllSums(K, V, S, s, base, g[s])
    BY <2>2, <2>4, <2>5 DEF AllSums, Sums
  <2> QED BY <2>6
<1>9. AllSums(K, V, S, S, base, g[S])
  <2> DEFINE BB == B(g)
  <2>1. {} \in BB /\ \A s \in SUBSET S : s # {} /\ s \ {Some(s)} \in BB => s \in BB
    BY <1>7, <1>8
  <2>2. \A s \in SUBSET S : s \in BB
    <3> HIDE DEF BB
    <3> QED BY <1>1, <2>1, SubsetInduction
  <2> QED BY <2>2
<1>10. FoldsSums(K, V, S, P, base, g)
  BY <1>5, <1>6, <1>9 DEF FoldsSums, D
<1> QED BY <1>10

\* The two folds of dataForTime.
DataFold(d, S) == FoldSet(LAMBDA t, v : cds_add(v, DataAt(d, t)), d.zero, S)
LEMMA SumOfData ==
    ASSUME kind # "HeatmapDecomp", NEW d \in Good(kind), NEW S \in SUBSET DOMAIN d.data
    PROVE  AllSums(kind, [t \in S |-> DataAt(d, t)], S, S, d.zero, DataFold(d, S))
<1> DEFINE K == kind
           D == Datum(K)
           V == [t \in S |-> DataAt(d, t)]
           base == d.zero
           P == [p \in D \X D |-> cds_add(p[1], p[2])]
           Body(h) == [s \in SUBSET S |-> IF s = {} THEN base
                          ELSE cds_add(h[s \ {Some(s)}], DataAt(d, Some(s)))]
           it == CHOOSE h : h = Body(h)
<1>1. \A a, b \in D : P[<<a, b>>] = cds_add(a, b)
  OBVIOUS
<1>2. \A a, b \in D : Sums(K, a, b, cds_add(a, b)) /\ cds_add(a, b) \in D
  BY ValuesAdd DEF Sums
<1>3. P \in [D \X D -> D]
  <2> HIDE DEF D
  <2> QED BY <1>2
<1>4. Adds(K, V, S, P, base) /\ IsFiniteSet(S)
  <2>1. /\ d \in Datasets(K) /\ d.zero \in D /\ d.data \in Partial(Periods, Cells(K))
        /\ \A t \in DOMAIN d.data : DataAt(d, t) \in D
    BY DatasetIs DEF Good
  <2>2. DOMAIN d.data \subseteq Periods
    BY <2>1, PartialIs
  <2>3. IsFiniteSet(S)
    BY <2>2, PeriodsType, FS_Subset
  <2>4. \A t \in S : V[t] \in D
    BY <2>1
  <2> HIDE DEF P, V
  <2> QED BY <1>1, <1>2, <1>3, <2>1, <2>3, <2>4, KindType DEF Adds
<1>5. PICK g : FoldsSums(K, V, S, P, base, g)
  <2> HIDE DEF P, V
  <2> QED BY <1>4, FoldSums
<1>6. ASSUME NEW s \in SUBSET S, s # {}
      PROVE  s \ {Some(s)} \in SUBSET S /\ g[s] = cds_add(g[s \ {Some(s)}], DataAt(d, Some(s)))
  <2>1. Some(s) \in S /\ s \ {Some(s)} \in SUBSET S
    BY <1>6, SomeIn
  <2>2. g[s \ {Some(s)}] \in D /\ V[Some(s)] \in D /\ V[Some(s)] = DataAt(d, Some(s))
    <3>1. g[s \ {Some(s)}] \in D
      BY <1>5, <2>1 DEF FoldsSums
    <3>2. V[Some(s)] \in D
      BY <1>4, <2>1 DEF Adds
    <3> QED BY <2>1, <3>1, <3>2
  <2> HIDE DEF P, D, V
  <2> QED BY <1>1, <1>5, <1>6, <2>1, <2>2 DEF FoldsSums
<1>7. g = Body(g)
  <2>1. g \in [SUBSET S -> D] /\ g[{}] = base
    BY <1>5 DEF FoldsSums
  <2> HIDE DEF D
  <2> QED BY <1>6, <2>1
<1>8. it = Body(it)
  <2> HIDE DEF Body
  <2> QED BY <1>7
<1>9. it[S] = g[S]
  <2>1. it[{}] = g[{}]
    <3>1. Body(it)[{}] = base
      OBVIOUS
    <3> HIDE DEF it, Body, P
    <3> QED BY <1>5, <1>8, <3>1 DEF FoldsSums
  <2>2. ASSUME NEW s \in SUBSET S, s # {}, it[s \ {Some(s)}] = g[s \ {Some(s)}]
        PROVE  it[s] = g[s]
    <3>1. Body(it)[s] = cds_add(it[s \ {Some(s)}], DataAt(d, Some(s)))
      BY <2>2
    <3> HIDE DEF it, Body
    <3> QED BY <1>6, <1>8, <2>2, <3>1
  <2> HIDE DEF it, Body
  <2>3. Alike(it, g, S)
    BY <2>1, <2>2 DEF Alike
  <2>4. Agree(it, g, S)
    BY <1>4, <2>3, FoldUnique
  <2> QED BY <2>4 DEF Agree
<1>10. DataFold(d, S) = it[S]
  BY DEF DataFold, FoldSet, MapThenFoldSet, Some
<1> HIDE DEF it, Body, P
<1> QED BY <1>5, <1>9, <1>10 DEF FoldsSums

DistFold(V, S) == FoldSet(LAMBDA t, v : caAddDistributions(v, V[t]), <<>>, S)
LEMMA SumOfDistributions ==
    ASSUME NEW S, IsFiniteSet(S), NEW V, \A t \in S : V[t] \in Distributions
    PROVE  AllSums("HeatmapScalar", V, S, S, <<>>, DistFold(V, S))
<1> DEFINE K == "HeatmapScalar"
           D == Datum(K)
           P == [p \in D \X D |-> caAddDistributions(p[1], p[2])]
           Body(h) == [s \in SUBSET S |-> IF s = {} THEN <<>>
                          ELSE caAddDistributions(h[s \ {Some(s)}], V[Some(s)])]
           it == CHOOSE h : h = Body(h)
<1>1. \A a, b \in D : P[<<a, b>>] = caAddDistributions(a, b)
  OBVIOUS
<1>0. D = Distributions
  BY DEF Datum
<1>2. \A a, b \in D : Sums(K, a, b, caAddDistributions(a, b)) /\ caAddDistributions(a, b) \in D
  BY <1>0, MergeRight DEF Sums, SaysOf, NamesOf
<1>3. P \in [D \X D -> D]
  <2> HIDE DEF D
  <2> QED BY <1>2
<1>4. Adds(K, V, S, P, <<>>)
  <2> HIDE DEF P
  <2> QED BY <1>0, <1>1, <1>2, <1>3, EmptyDistribution DEF Adds, Kinds
<1>5. PICK g : FoldsSums(K, V, S, P, <<>>, g)
  <2> HIDE DEF P
  <2> QED BY <1>4, FoldSums
<1>6. ASSUME NEW s \in SUBSET S, s # {}
      PROVE  s \ {Some(s)} \in SUBSET S /\ g[s] = caAddDistributions(g[s \ {Some(s)}], V[Some(s)])
  <2>1. Some(s) \in S /\ s \ {Some(s)} \in SUBSET S
    BY <1>6, SomeIn
  <2>2. g[s \ {Some(s)}] \in D /\ V[Some(s)] \in D
    BY <1>0, <1>5, <2>1 DEF FoldsSums
  <2> HIDE DEF P, D
  <2> QED BY <1>1, <1>5, <1>6, <2>1, <2>2 DEF FoldsSums
<1>7. g = Body(g)
  <2>1. g \in [SUBSET S -> D] /\ g[{}] = <<>>
    BY <1>5 DEF FoldsSums
  <2> HIDE DEF D
  <2> QED BY <1>6, <2>1
<1>8. it = Body(it)
  <2> HIDE DEF Body
  <2> QED BY <1>7
<1>9. it[S] = g[S]
  <2>1. it[{}] = g[{}]
    <3>1. Body(it)[{}] = <<>>
      OBVIOUS
    <3> HIDE DEF it, Body, P
    <3> QED BY <1>5, <1>8, <3>1 DEF FoldsSums
  <2>2. ASSUME NEW s \in SUBSET S, s # {}, it[s \ {Some(s)}] = g[s \ {Some(s)}]
        PROVE  it[s] = g[s]
    <3>1. Body(it)[s] = caAddDistributions(it[s \ {Some(s)}], V[Some(s)])
      BY <2>2
    <3> HIDE DEF it, Body
    <3> QED BY <1>6, <1>8, <2>2, <3>1
  <2> HIDE DEF it, Body
  <2>3. Alike(it, g, S)
    BY <2>1, <2>2 DEF Alike
  <2>4. Agree(it, g, S)
    BY <2>3, FoldUnique
  <2> QED BY <2>4 DEF Agree
<1>10. DistFold(V, S) = it[S]
  BY DEF DistFold, FoldSet, MapThenFoldSet, Some
<1> HIDE DEF it, Body, P
<1> QED BY <1>5, <1>9, <1>10 DEF FoldsSums

\* The value for the periods ts is what is said of each of them.
AmountsAt(K, d, ts, k, lo) == [t \in ts |-> Amount(K, d, t, k, lo)]
Tells(K, d, ts, v) ==
    /\ v \in Datum(K)
    /\ Clean(K, d) =>
        /\ \A k, lo : SaysOf(K, v, k, lo) = SumFunctionOnSet(AmountsAt(K, d, ts, k, lo), ts)
        /\ NamesOf(K, v) = UNION {NamesAt(K, d, t) : t \in ts}

LEMMA AmountType ==
    ASSUME NEW K \in Kinds, NEW d \in Good(K)
    PROVE  /\ \A t, k, lo : Amount(K, d, t, k, lo) \in Nat
           /\ \A ts, k, lo : IsFiniteSet(ts) => Ints(AmountsAt(K, d, ts, k, lo), ts)
<1>1. d \in Datasets(K)
  BY DEF Good
<1>2. \A t, k, lo : Amount(K, d, t, k, lo) \in Nat
  BY <1>1, DistIs, DatasetIs, DatumSays DEF Amount
<1> QED BY <1>2 DEF Ints, AmountsAt

LEMMA dataForTimeTells ==
    ASSUME NEW d \in Good(kind), NEW start, NEW duration, IsFiniteSet(Window(start, duration))
    PROVE  Tells(kind, d, Window(start, duration), dataForTime(d, start, duration))
<1> DEFINE K == kind
           W == Window(start, duration)
           v == dataForTime(d, start, duration)
<1>1. K \in Kinds /\ d \in Datasets(K) /\ Agreeing(d) /\ IsFiniteSet(W)
  BY KindType DEF Good
<1> HIDE DEF W
<1>2. \A k, lo : Ints(AmountsAt(K, d, W, k, lo), W)
  BY <1>1, AmountType
<1>3. CASE K # "HeatmapDecomp"
  <2> DEFINE S == W \cap DOMAIN d.data
             V == [t \in S |-> DataAt(d, t)]
  <2>1. v = DataFold(d, S)
    BY <1>3 DEF dataForTime, DataFold, FoldSet, MapThenFoldSet, W
  <2>2. AllSums(K, V, S, S, d.zero, v)
    <3>1. S \in SUBSET DOMAIN d.data
      OBVIOUS
    <3> HIDE DEF S, v
    <3> QED BY <1>3, <2>1, <3>1, SumOfData
  <2>3. \A t \in S : V[t] = DataAt(d, t)
    OBVIOUS
  <2>4. S \subseteq W /\ \A t \in W : t \in DOMAIN d.data <=> t \in S
    OBVIOUS
  <2> HIDE DEF v, V, S
  <2>5. ASSUME Clean(K, d), NEW k, NEW lo
        PROVE  SaysOf(K, v, k, lo) = SumFunctionOnSet(AmountsAt(K, d, W, k, lo), W)
    <3> DEFINE f == AmountsAt(K, d, W, k, lo)
               h == SaysAt(K, V, S, k, lo)
    <3>1. \A t \in W : f[t] = IF t \in S THEN SaysOf(K, DataAt(d, t), k, lo) ELSE 0
      BY <1>3, <2>4 DEF AmountsAt, Amount
    <3>2. \A t \in S : h[t] = SaysOf(K, DataAt(d, t), k, lo)
      BY <2>3 DEF SaysAt
    <3>3. Ints(f, W)
      BY <1>2
    <3>4. SaysOf(K, v, k, lo) = SaysOf(K, d.zero, k, lo) + SumFunctionOnSet(h, S)
      BY <2>2 DEF AllSums
    <3>5. SaysOf(K, d.zero, k, lo) = 0
      BY <1>1, <2>5, ZeroSays DEF Clean
    <3> HIDE DEF f, h
    <3>6. SumFunctionOnSet(f, W) = SumFunctionOnSet(f, S)
      BY <2>4, <3>1, <3>3, SumWithin
    <3>7. Ints(f, S) /\ \A t \in S : f[t] = h[t]
      BY <2>4, <3>1, <3>2, <3>3, IntsSubset
    <3>8. SumFunctionOnSet(f, S) = SumFunctionOnSet(h, S) /\ SumFunctionOnSet(f, S) \in Int
      BY <3>7, SumSame, SumType
    <3>9. SaysOf(K, v, k, lo) = SumFunctionOnSet(f, W)
      BY <3>4, <3>5, <3>6, <3>8
    <3> QED BY <3>9 DEF f
  <2>6. ASSUME Clean(K, d) PROVE NamesOf(K, v) = UNION {NamesAt(K, d, t) : t \in W}
    <3>1. NamesOf(K, d.zero) = {}
      BY <1>1, <2>6, ZeroSays DEF Clean
    <3>2. NamesOf(K, v) = UNION {NamesOf(K, V[t]) : t \in S}
      BY <2>2, <3>1 DEF AllSums
    <3>3. \A t \in W : NamesAt(K, d, t) = IF t \in S THEN NamesOf(K, DataAt(d, t)) ELSE {}
      BY <1>3, <2>4 DEF NamesAt
    <3>4. \A t \in S : NamesOf(K, V[t]) = NamesAt(K, d, t)
      BY <2>3, <2>4, <3>3
    <3>5. UNION {NamesOf(K, V[t]) : t \in S} \subseteq UNION {NamesAt(K, d, t) : t \in W}
      BY <2>4, <3>4
    <3>6. UNION {NamesAt(K, d, t) : t \in W} \subseteq UNION {NamesOf(K, V[t]) : t \in S}
      BY <2>4, <3>3, <3>4
    <3> QED BY <3>2, <3>5, <3>6
  <2>7. Tells(K, d, W, v)
    BY <2>2, <2>5, <2>6 DEF Tells, AllSums
  <2> QED BY <2>7 DEF v, W
<1>4. CASE K = "HeatmapDecomp"
  <2> DEFINE ts == W \cap DOMAIN d.keysbytime
             U == UNION {d.keysbytime[t] : t \in ts}
             T(k) == {t \in ts : k \in d.keysbytime[t]}
  <2>1. v = [k \in U |-> DistFold(d.distbykey[k], T(k))]
    BY <1>4 DEF dataForTime, DistFold, FoldSet, MapThenFoldSet, W
  <2>2. ASSUME NEW k
        PROVE  /\ T(k) \subseteq W /\ IsFiniteSet(T(k))
               /\ \A t \in W : t \in T(k) <=> k \in Get(d.keysbytime, t, {})
               /\ \A t \in T(k) : k \in DOMAIN d.distbykey /\ t \in DOMAIN d.distbykey[k]
               /\ k \in U <=> T(k) # {}
    <3>1. T(k) \subseteq W
      OBVIOUS
    <3>2. IsFiniteSet(T(k))
      <4> HIDE DEF T
      <4> QED BY <1>1, <3>1, FS_Subset
    <3>3. \A t \in W : t \in T(k) <=> k \in Get(d.keysbytime, t, {})
      BY DEF Get
    <3>4. \A t : k \in Get(d.keysbytime, t, {}) <=> k \in DOMAIN d.distbykey /\ t \in DOMAIN d.distbykey[k]
      BY <1>1 DEF Agreeing
    <3>5. \A t \in T(k) : k \in DOMAIN d.distbykey /\ t \in DOMAIN d.distbykey[k]
      <4> HIDE DEF T
      <4> QED BY <3>1, <3>3, <3>4
    <3>6. k \in U <=> T(k) # {}
      OBVIOUS
    <3> QED BY <3>1, <3>2, <3>3, <3>5, <3>6
  <2>3. \A t \in W : NamesAt(K, d, t) = Get(d.keysbytime, t, {})
    BY <1>4 DEF NamesAt
  <2>4. DOMAIN v = U /\ \A k \in U : v[k] = DistFold(d.distbykey[k], T(k))
    <3> HIDE DEF v, U, T
    <3> QED BY <2>1
  <2> HIDE DEF v, T, U
  <2>5. \A k \in DOMAIN d.distbykey : \A t \in DOMAIN d.distbykey[k] :
            /\ k \in Keys /\ d.distbykey[k][t] \in Distributions
            /\ d.distbykey[k][t] = Dist(d, k, t)
    <3>1. d.distbykey \in Partial(Keys, Partial(Periods, Distributions))
      BY <1>1, DatasetIs
    <3>2. \A k \in DOMAIN d.distbykey : k \in Keys /\ d.distbykey[k] \in Partial(Periods, Distributions)
      BY <3>1, PartialIs
    <3>3. \A k \in DOMAIN d.distbykey : \A t \in DOMAIN d.distbykey[k] : d.distbykey[k][t] \in Distributions
      BY <3>2, PartialIs
    <3> QED BY <3>2, <3>3 DEF Dist, Get
  <2>6. ASSUME NEW k
        PROVE  AllSums("HeatmapScalar", d.distbykey[k], T(k), T(k), <<>>, DistFold(d.distbykey[k], T(k)))
    <3>1. IsFiniteSet(T(k)) /\ \A t \in T(k) : d.distbykey[k][t] \in Distributions
      BY <2>2, <2>5
    <3> QED BY <3>1, SumOfDistributions
  <2>7. \A k \in U : k \in Keys /\ v[k] \in Distributions
    <3> SUFFICES ASSUME NEW k \in U PROVE k \in Keys /\ v[k] \in Distributions
      OBVIOUS
    <3>1. PICK t \in T(k) : TRUE
      BY <2>2
    <3>2. k \in Keys
      BY <2>2, <2>5, <3>1
    <3>3. v[k] \in Datum("HeatmapScalar")
      BY <2>4, <2>6 DEF AllSums
    <3> QED BY <3>2, <3>3 DEF Datum
  <2>8. v \in Datum(K)
    <3>1. U \in SUBSET Keys /\ v \in [U -> Distributions]
      BY <2>1, <2>4, <2>7
    <3>2. v \in Partial(Keys, Distributions)
      BY <3>1, PartialFrom
    <3> QED BY <1>4, <3>2 DEF Datum
  <2>9. ASSUME NEW k, NEW lo
        PROVE  SaysOf(K, v, k, lo) = SumFunctionOnSet(AmountsAt(K, d, W, k, lo), W)
    <3> DEFINE f == AmountsAt(K, d, W, k, lo)
               h == SaysAt("HeatmapScalar", d.distbykey[k], T(k), k, lo)
    <3>1. Ints(f, W)
      BY <1>2
    <3>2. ASSUME NEW t \in W
          PROVE  f[t] = IF t \in T(k) THEN In(d.distbykey[k][t], lo) ELSE 0
      <4>1. f[t] = In(Dist(d, k, t), lo)
        BY <1>4 DEF AmountsAt, Amount
      <4>2. CASE t \in T(k)
        BY <2>2, <2>5, <4>1, <4>2
      <4>3. CASE t \notin T(k)
        <5>1. k \notin Get(d.keysbytime, t, {})
          BY <2>2, <4>3
        <5>2. ~(k \in DOMAIN d.distbykey /\ t \in DOMAIN d.distbykey[k])
          BY <1>1, <5>1 DEF Agreeing
        <5>3. Dist(d, k, t) = <<>>
          BY <5>2, EmptyObject DEF Dist, Get
        <5> QED BY <4>1, <4>3, <5>3, InEmpty
      <4> QED BY <4>2, <4>3
    <3>3. \A t \in T(k) : h[t] = In(d.distbykey[k][t], lo)
      BY DEF SaysAt, SaysOf
    <3>4. SaysOf(K, v, k, lo) = IF k \in U THEN In(v[k], lo) ELSE 0
      BY <1>4, <2>4, InEmpty DEF SaysOf, Get
    <3>5. k \in U => In(v[k], lo) = In(<<>>, lo) + SumFunctionOnSet(h, T(k))
      BY <2>4, <2>6 DEF AllSums, SaysOf
    <3>6. T(k) \in SUBSET W
      BY <2>2
    <3> HIDE DEF f, h
    <3>7. SumFunctionOnSet(f, W) = SumFunctionOnSet(f, T(k))
      BY <3>1, <3>2, <3>6, SumWithin
    <3>8. Ints(f, T(k)) /\ \A t \in T(k) : f[t] = h[t]
      BY <3>1, <3>2, <3>3, <3>6, IntsSubset
    <3>9. SumFunctionOnSet(f, T(k)) = SumFunctionOnSet(h, T(k)) /\ SumFunctionOnSet(f, T(k)) \in Int
      BY <3>8, SumSame, SumType
    <3>10. k \notin U => SumFunctionOnSet(f, T(k)) = 0
      <4>1. k \notin U => T(k) = {}
        BY <2>2
      <4> QED BY <4>1, SumEmpty
    <3>11. SaysOf(K, v, k, lo) = SumFunctionOnSet(f, W)
      BY <3>4, <3>5, <3>7, <3>9, <3>10, InEmpty
    <3> QED BY <3>11 DEF f
  <2>10. NamesOf(K, v) = UNION {NamesAt(K, d, t) : t \in W}
    <3>1. NamesOf(K, v) = U
      BY <1>4, <2>4 DEF NamesOf
    <3>2. ASSUME NEW k PROVE k \in U <=> k \in UNION {NamesAt(K, d, t) : t \in W}
      <4>1. k \in U <=> \E t \in W : t \in T(k)
        BY <2>2
      <4>2. \A t \in W : t \in T(k) <=> k \in NamesAt(K, d, t)
        BY <2>2, <2>3
      <4> QED BY <4>1, <4>2
    <3> QED BY <3>1, <3>2
  <2>11. Tells(K, d, W, v)
    BY <2>8, <2>9, <2>10 DEF Tells
  <2> QED BY <2>11 DEF v, W
<1> QED BY <1>3, <1>4

-----------------------------------------------------------------------------
(* Saving and restoring. *)

LEMMA UndefinedIsNone == ASSUME NEW K \in Kinds PROVE Undefined \notin Datum(K)
<1>1. /\ Undefined \notin Nat /\ Undefined \notin Seq(Entries)
      /\ \A D \in SUBSET Keys : Undefined \notin [D -> Nat] /\ Undefined \notin [D -> Seq(Entries)]
  BY UndefinedAssumption DEF Entries
<1>2. Distributions \subseteq Seq(Entries)
  BY DEF Distributions
<1>3. \A D \in SUBSET Keys : Undefined \notin [D -> Distributions]
  <2> SUFFICES ASSUME NEW D \in SUBSET Keys, Undefined \in [D -> Distributions] PROVE FALSE
    OBVIOUS
  <2>1. Undefined \in [D -> Seq(Entries)]
    BY <1>2
  <2> QED BY <1>1, <2>1
<1>4. Undefined \notin Partial(Keys, Nat) /\ Undefined \notin Partial(Keys, Distributions)
  BY <1>1, <1>3 DEF Partial
<1> QED BY <1>1, <1>2, <1>4 DEF Datum, Kinds

Records(K) == [reporting : SUBSET Hosts, datum : Datum(K)]
Stashes(K) == [sources : Partial(Hosts, Int), data : Partial(Periods, Records(K))]

\* The stash holds what the dataset says.
Stashed(K, d, s) ==
    /\ s \in Stashes(K) /\ DOMAIN s.data = DOMAIN d.reporting
    /\ \A t \in DOMAIN s.data : s.data[t].reporting = d.reporting[t]
    /\ Clean(K, d) => \A t \in DOMAIN s.data :
           /\ \A k, lo : SaysOf(K, s.data[t].datum, k, lo) = Amount(K, d, t, k, lo)
           /\ NamesOf(K, s.data[t].datum) = NamesAt(K, d, t)

LEMMA stashSays == ASSUME NEW d \in Good(kind) PROVE Stashed(kind, d, stash(d))
<1> DEFINE K == kind
           s == stash(d)
           datum(t) == dataForTime(d, t, Granularity)
<1>1. /\ K \in Kinds /\ d \in Datasets(K) /\ d.sources \in Partial(Hosts, Int)
      /\ d.reporting \in Partial(Periods, SUBSET Hosts)
  BY KindType, DatasetIs DEF Good
<1>2. DOMAIN d.reporting \in SUBSET Periods /\ \A t \in DOMAIN d.reporting : d.reporting[t] \in SUBSET Hosts
  BY <1>1, PartialIs
<1>3. /\ s.sources = d.sources
      /\ s.data = [t \in DOMAIN d.reporting |-> [reporting |-> d.reporting[t], datum |-> datum(t)]]
      /\ s = [sources |-> s.sources, data |-> s.data]
  BY DEF stash
<1> HIDE DEF s
<1>4. ASSUME NEW t \in DOMAIN d.reporting
      PROVE  /\ datum(t) \in Datum(K)
             /\ Clean(K, d) => /\ \A k, lo : SaysOf(K, datum(t), k, lo) = Amount(K, d, t, k, lo)
                               /\ NamesOf(K, datum(t)) = NamesAt(K, d, t)
  <2>1. Window(t, Granularity) = {t}
    <3>1. t \in Periods /\ \A u \in Periods : u \in Int
      BY <1>2, PeriodsType
    <3> QED BY <3>1, OnePeriod
  <2>2. IsFiniteSet({t})
    BY FS_Singleton
  <2>3. Tells(K, d, {t}, datum(t))
    <3>1. IsFiniteSet(Window(t, Granularity))
      BY <2>1, <2>2
    <3>2. Tells(K, d, Window(t, Granularity), datum(t))
      BY <3>1, dataForTimeTells
    <3> QED BY <2>1, <3>2
  <2> HIDE DEF datum
  <2>4. ASSUME NEW k, NEW lo
        PROVE  SumFunctionOnSet(AmountsAt(K, d, {t}, k, lo), {t}) = Amount(K, d, t, k, lo)
    <3> DEFINE f == AmountsAt(K, d, {t}, k, lo)
    <3>1. Ints(f, {t}) /\ f[t] = Amount(K, d, t, k, lo) /\ f[t] \in Int
      BY <1>1, <2>2, AmountType DEF AmountsAt
    <3> HIDE DEF f
    <3>2. SumFunctionOnSet(f, {t}) = f[t] + SumFunctionOnSet(f, {t} \ {t})
      BY <3>1, SumPart
    <3>3. {t} \ {t} = {}
      OBVIOUS
    <3>4. SumFunctionOnSet(f, {t}) = f[t]
      BY <3>1, <3>2, <3>3, SumEmpty
    <3> QED BY <3>1, <3>4 DEF f
  <2>5. UNION {NamesAt(K, d, u) : u \in {t}} = NamesAt(K, d, t)
    OBVIOUS
  <2> QED BY <2>3, <2>4, <2>5 DEF Tells
<1> HIDE DEF datum
<1>5. \A t \in DOMAIN d.reporting : [reporting |-> d.reporting[t], datum |-> datum(t)] \in Records(K)
  BY <1>2, <1>4 DEF Records
<1>6. s.data \in Partial(Periods, Records(K)) /\ DOMAIN s.data = DOMAIN d.reporting
  <2>1. s.data \in [DOMAIN d.reporting -> Records(K)]
    BY <1>3, <1>5
  <2> QED BY <1>2, <2>1, PartialFrom
<1>7. s \in Stashes(K)
  BY <1>1, <1>3, <1>6 DEF Stashes
<1>8. \A t \in DOMAIN d.reporting : s.data[t].reporting = d.reporting[t] /\ s.data[t].datum = datum(t)
  BY <1>3
<1>9. Stashed(K, d, s)
  BY <1>4, <1>6, <1>7, <1>8 DEF Stashed
<1> QED BY <1>9 DEF s

\* Restoring: first the sources.
Knowing(d, s) == FoldSet(LAMBDA h, e : Heard(e, h, s.sources[h]), d, DOMAIN s.sources)

LEMMA KnowingKeeps ==
    ASSUME NEW K, NEW d \in Good(K), NEW s \in Stashes(K)
    PROVE  /\ Knowing(d, s) \in Good(K) /\ Knowing(d, s).reporting = d.reporting
           /\ SameSaid(K, d, Knowing(d, s))
<1> DEFINE S == DOMAIN s.sources
           D == {e \in Good(K) : e.reporting = d.reporting /\ SameSaid(K, d, e)}
           F == [p \in S \X D |-> Heard(p[2], p[1], s.sources[p[1]])]
           Body(h) == [q \in SUBSET S |-> IF q = {} THEN d
                          ELSE Heard(h[q \ {Some(q)}], Some(q), s.sources[Some(q)])]
           it == CHOOSE h : h = Body(h)
<1>1. s.sources \in Partial(Hosts, Int)
  BY DEF Stashes
<1>2. IsFiniteSet(S) /\ \A h \in S : h \in Hosts /\ s.sources[h] \in Int
  BY <1>1, PartialIs, FS_Subset, DatasetAssumption
<1>3. d \in D
  BY DEF SameSaid
<1>4. \A h \in S, e \in D : F[<<h, e>>] = Heard(e, h, s.sources[h])
  OBVIOUS
<1>5. ASSUME NEW h \in S, NEW e \in D PROVE Heard(e, h, s.sources[h]) \in D
  <2> DEFINE f == Heard(e, h, s.sources[h])
  <2>1. e \in Good(K) /\ e.reporting = d.reporting /\ SameSaid(K, d, e)
    OBVIOUS
  <2>2. f \in Good(K) /\ f.reporting = e.reporting /\ SameSaid(K, e, f)
    <3> HIDE DEF S, D
    <3> QED BY <1>2, <2>1, HeardKeeps
  <2> HIDE DEF f
  <2>3. SameSaid(K, d, f)
    BY <2>1, <2>2 DEF SameSaid
  <2>4. f \in D
    BY <2>1, <2>2, <2>3
  <2> QED BY <2>4 DEF f
<1>6. F \in [S \X D -> D]
  <2> HIDE DEF S, D
  <2> QED BY <1>5
<1>7. PICK g : IsFold(g, S, D, d, F)
  <2> HIDE DEF S, D, F
  <2>1. Foldable(S, D, d, F)
    BY <1>2, <1>3, <1>6 DEF Foldable
  <2> QED BY <2>1, FoldExists
<1>8. ASSUME NEW q \in SUBSET S, q # {}
      PROVE  q \ {Some(q)} \in SUBSET S /\ g[q] = Heard(g[q \ {Some(q)}], Some(q), s.sources[Some(q)])
  <2> HIDE DEF D, F, S
  <2>1. Some(q) \in S /\ q \ {Some(q)} \in SUBSET S
    BY <1>8, SomeIn
  <2> QED BY <1>4, <1>7, <1>8, <2>1 DEF IsFold
<1>9. g[{}] = d /\ g \in [SUBSET S -> D]
  <2> HIDE DEF D, F
  <2> QED BY <1>7 DEF IsFold
<1>10. g = Body(g)
  <2> HIDE DEF D, F, S
  <2> QED BY <1>8, <1>9
<1>11. it = Body(it)
  <2> HIDE DEF Body
  <2> QED BY <1>10
<1>12. it[S] = g[S]
  <2>1. it[{}] = g[{}]
    <3>1. Body(it)[{}] = d
      OBVIOUS
    <3> HIDE DEF it, Body
    <3> QED BY <1>9, <1>11, <3>1
  <2>2. ASSUME NEW q \in SUBSET S, q # {}, it[q \ {Some(q)}] = g[q \ {Some(q)}]
        PROVE  it[q] = g[q]
    <3>1. Body(it)[q] = Heard(it[q \ {Some(q)}], Some(q), s.sources[Some(q)])
      BY <2>2
    <3> HIDE DEF it, Body
    <3> QED BY <1>8, <1>11, <2>2, <3>1
  <2> HIDE DEF it, Body, S
  <2>3. Alike(it, g, S)
    BY <2>1, <2>2 DEF Alike
  <2>4. Agree(it, g, S)
    BY <1>2, <2>3, FoldUnique
  <2> QED BY <2>4 DEF Agree
<1>13. Knowing(d, s) = it[S]
  BY DEF Knowing, FoldSet, MapThenFoldSet, Some
<1>14. g[S] \in D
  <2> HIDE DEF D, S
  <2> QED BY <1>9
<1> HIDE DEF it, Body, S
<1> QED BY <1>12, <1>13, <1>14

\* Then each period.  Dataset e is d, and what s has of the periods in q besides.
Restore(e, s, t) == aggregateValue(Report(e, t, s.data[t].reporting), t, s.data[t].datum)
Restored(K, d, s, q, e) ==
    /\ e \in Good(K)
    /\ DOMAIN e.reporting = DOMAIN d.reporting \cup q
    /\ \A t : Get(e.reporting, t, {}) =
           Get(d.reporting, t, {}) \cup IF t \in q THEN s.data[t].reporting ELSE {}
    /\ Clean(K, e) =>
        /\ Clean(K, d)
        /\ \A t, k, lo : Amount(K, e, t, k, lo) =
               Amount(K, d, t, k, lo) + IF t \in q THEN SaysOf(K, s.data[t].datum, k, lo) ELSE 0
        /\ \A t : NamesAt(K, e, t) =
               NamesAt(K, d, t) \cup IF t \in q THEN NamesOf(K, s.data[t].datum) ELSE {}

LEMMA StashIs ==
    ASSUME NEW K, NEW s \in Stashes(K)
    PROVE  /\ IsFiniteSet(DOMAIN s.data) /\ DOMAIN s.data \subseteq Periods
           /\ \A t \in DOMAIN s.data : s.data[t].reporting \in SUBSET Hosts /\ s.data[t].datum \in Datum(K)
<1>1. s.data \in Partial(Periods, Records(K))
  BY DEF Stashes
<1>2. DOMAIN s.data \subseteq Periods /\ \A t \in DOMAIN s.data : s.data[t] \in Records(K)
  BY <1>1, PartialIs
<1>3. IsFiniteSet(DOMAIN s.data)
  BY <1>2, PeriodsType, FS_Subset
<1> QED BY <1>2, <1>3 DEF Records

LEMMA RestoredNone ==
    ASSUME NEW K \in Kinds, NEW d \in Good(K), NEW s \in Stashes(K)
    PROVE  Restored(K, d, s, {}, d)
<1>1. \A t, k, lo : Amount(K, d, t, k, lo) \in Nat
  BY AmountType
<1> QED BY <1>1 DEF Restored

LEMMA RestoredStep ==
    ASSUME NEW d \in Good(kind), NEW s \in Stashes(kind), NEW q \in SUBSET DOMAIN s.data,
           NEW t \in DOMAIN s.data, t \notin q, NEW e, Restored(kind, d, s, q, e)
    PROVE  Restored(kind, d, s, q \cup {t}, Restore(e, s, t))
<1> DEFINE K == kind
           r == s.data[t].reporting
           v == s.data[t].datum
           m == Report(e, t, r)
           f == aggregateValue(m, t, v)
<1>1. K \in Kinds /\ t \in Periods /\ r \in SUBSET Hosts /\ v \in Datum(K) /\ v # Undefined
  BY StashIs, KindType, UndefinedIsNone
<1>2. e \in Good(K)
  BY DEF Restored
<1> HIDE DEF K, r, v
<1>3. /\ m \in Good(K) /\ SameSaid(K, e, m)
      /\ m.reporting = With(e.reporting, t, Get(e.reporting, t, {}) \cup r)
  BY <1>1, <1>2, ReportKeeps
<1> HIDE DEF m
<1>4. Added(K, m, f, t, v)
  BY <1>1, <1>3, aggregateValueAdds DEF K
<1> HIDE DEF f
<1>5. f \in Good(K) /\ f.reporting = With(e.reporting, t, Get(e.reporting, t, {}) \cup r)
  BY <1>3, <1>4 DEF Added
<1>6. DOMAIN f.reporting = DOMAIN d.reporting \cup (q \cup {t})
  <2>1. DOMAIN e.reporting = DOMAIN d.reporting \cup q
    BY DEF Restored
  <2> DEFINE now == Get(e.reporting, t, {}) \cup r
  <2>2. DOMAIN With(e.reporting, t, now) = DOMAIN e.reporting \cup {t}
    <3> HIDE DEF now
    <3> QED BY WithDomain
  <2>3. f.reporting = With(e.reporting, t, now)
    BY <1>5
  <2> HIDE DEF now
  <2> QED BY <2>1, <2>2, <2>3
<1>7. ASSUME NEW u
      PROVE  Get(f.reporting, u, {}) =
                 Get(d.reporting, u, {}) \cup IF u \in q \cup {t} THEN s.data[u].reporting ELSE {}
  <2>1. Get(f.reporting, u, {}) = IF u = t THEN Get(e.reporting, t, {}) \cup r ELSE Get(e.reporting, u, {})
    BY <1>5, WithGet
  <2>2. /\ Get(e.reporting, u, {}) = Get(d.reporting, u, {}) \cup IF u \in q THEN s.data[u].reporting ELSE {}
        /\ Get(e.reporting, t, {}) = Get(d.reporting, t, {})
    BY DEF Restored
  <2> QED BY <2>1, <2>2 DEF r
<1>8. ASSUME Clean(K, f)
      PROVE  /\ Clean(K, d)
             /\ \A u, k, lo : Amount(K, f, u, k, lo) = Amount(K, d, u, k, lo)
                    + IF u \in q \cup {t} THEN SaysOf(K, s.data[u].datum, k, lo) ELSE 0
             /\ \A u : NamesAt(K, f, u) =
                    NamesAt(K, d, u) \cup IF u \in q \cup {t} THEN NamesOf(K, s.data[u].datum) ELSE {}
  <2>1. Clean(K, m)
    BY <1>4, <1>8 DEF Added
  <2>2. Clean(K, e)
    BY <1>3, <2>1 DEF SameSaid, Clean
  <2>3. Clean(K, d)
    BY <2>2 DEF Restored, K
  <2>4. ASSUME NEW u, NEW k, NEW lo
        PROVE  Amount(K, f, u, k, lo) = Amount(K, d, u, k, lo)
                   + IF u \in q \cup {t} THEN SaysOf(K, s.data[u].datum, k, lo) ELSE 0
    <3>1. Amount(K, f, u, k, lo) = Amount(K, m, u, k, lo) + IF u = t THEN Worth(K, v, k, lo) ELSE 0
      BY <1>4, <1>8 DEF Added
    <3>2. Amount(K, m, u, k, lo) = Amount(K, e, u, k, lo)
      BY <1>3 DEF SameSaid
    <3>3. Amount(K, e, u, k, lo) = Amount(K, d, u, k, lo)
               + IF u \in q THEN SaysOf(K, s.data[u].datum, k, lo) ELSE 0
      BY <2>2 DEF Restored, K
    <3>4. Worth(K, v, k, lo) = SaysOf(K, v, k, lo)
      BY <1>1 DEF Worth
    <3>5. Amount(K, d, u, k, lo) \in Nat /\ SaysOf(K, v, k, lo) \in Nat
      BY <1>1, AmountType, DatumSays DEF K
    <3>6. CASE u = t
      <4>1. u \notin q /\ u \in q \cup {t}
        BY <3>6
      <4>2. Amount(K, f, u, k, lo) = Amount(K, d, u, k, lo) + SaysOf(K, v, k, lo)
        BY <3>1, <3>2, <3>3, <3>4, <3>5, <3>6, <4>1
      <4> QED BY <3>6, <4>1, <4>2 DEF v
    <3>7. CASE u # t
      <4>1. u \in q <=> u \in q \cup {t}
        BY <3>7
      <4> DEFINE w == IF u \in q THEN SaysOf(K, s.data[u].datum, k, lo) ELSE 0
      <4>2. w \in Nat
        BY <1>1, StashIs, DatumSays DEF K
      <4>3. Amount(K, f, u, k, lo) = Amount(K, d, u, k, lo) + w
        <5>1. Amount(K, e, u, k, lo) = Amount(K, d, u, k, lo) + w
          BY <3>3
        <5> HIDE DEF w
        <5> QED BY <3>1, <3>2, <3>5, <3>7, <4>2, <5>1
      <4> QED BY <4>1, <4>3
    <3> QED BY <3>6, <3>7
  <2>5. ASSUME NEW u
        PROVE  NamesAt(K, f, u) =
                   NamesAt(K, d, u) \cup IF u \in q \cup {t} THEN NamesOf(K, s.data[u].datum) ELSE {}
    <3>1. NamesAt(K, f, u) = NamesAt(K, m, u) \cup IF u = t THEN Terms(K, v) ELSE {}
      BY <1>4, <1>8 DEF Added
    <3>2. NamesAt(K, m, u) = NamesAt(K, e, u)
      BY <1>3 DEF SameSaid
    <3>3. NamesAt(K, e, u) = NamesAt(K, d, u) \cup IF u \in q THEN NamesOf(K, s.data[u].datum) ELSE {}
      BY <2>2 DEF Restored, K
    <3>4. Terms(K, v) = NamesOf(K, v)
      BY <1>1 DEF Terms
    <3> QED BY <3>1, <3>2, <3>3, <3>4 DEF v
  <2> QED BY <2>3, <2>4, <2>5
<1>9. Restored(K, d, s, q \cup {t}, f)
  BY <1>5, <1>6, <1>7, <1>8 DEF Restored
<1> QED BY <1>9 DEF K, f, m, r, v, Restore

Restoring(d, s) ==
    FoldSet(LAMBDA t, e : aggregateValue(Report(e, t, s.data[t].reporting), t, s.data[t].datum),
            d, DOMAIN s.data)
LEMMA RestoringRestores ==
    ASSUME NEW d \in Good(kind), NEW s \in Stashes(kind)
    PROVE  Restored(kind, d, s, DOMAIN s.data, Restoring(d, s))
<1> DEFINE K == kind
           S == DOMAIN s.data
           D == Good(K)
           F == [p \in S \X D |-> Restore(p[2], s, p[1])]
           Body(h) == [q \in SUBSET S |-> IF q = {} THEN d
                          ELSE Restore(h[q \ {Some(q)}], s, Some(q))]
           it == CHOOSE h : h = Body(h)
<1>2. IsFiniteSet(S) /\ K \in Kinds
  BY StashIs, KindType
<1>3. d \in D
  OBVIOUS
<1>4. \A t \in S, e \in D : F[<<t, e>>] = Restore(e, s, t)
  OBVIOUS
<1>5. ASSUME NEW t \in S, NEW e \in D PROVE Restore(e, s, t) \in D
  <2>1. Restored(K, e, s, {}, e)
    BY <1>2, RestoredNone
  <2>2. Restored(K, e, s, {} \cup {t}, Restore(e, s, t))
    BY <2>1, RestoredStep
  <2> QED BY <2>2 DEF Restored
<1>6. F \in [S \X D -> D]
  <2> HIDE DEF S, D
  <2> QED BY <1>5
<1>7. PICK g : IsFold(g, S, D, d, F)
  <2> HIDE DEF S, D, F
  <2>1. Foldable(S, D, d, F)
    BY <1>2, <1>3, <1>6 DEF Foldable
  <2> QED BY <2>1, FoldExists
<1>8. ASSUME NEW q \in SUBSET S, q # {}
      PROVE  /\ q \ {Some(q)} \in SUBSET S /\ Some(q) \in q
             /\ g[q] = Restore(g[q \ {Some(q)}], s, Some(q))
  <2> HIDE DEF D, F, S
  <2>1. Some(q) \in S /\ Some(q) \in q /\ q \ {Some(q)} \in SUBSET S
    BY <1>8, SomeIn
  <2> QED BY <1>4, <1>7, <1>8, <2>1 DEF IsFold
<1>9. g[{}] = d /\ g \in [SUBSET S -> D]
  <2> HIDE DEF D, F
  <2> QED BY <1>7 DEF IsFold
<1>10. g = Body(g)
  <2> HIDE DEF D, F, S
  <2> QED BY <1>8, <1>9
<1>11. it = Body(it)
  <2> HIDE DEF Body
  <2> QED BY <1>10
<1>12. it[S] = g[S]
  <2>1. it[{}] = g[{}]
    <3>1. Body(it)[{}] = d
      OBVIOUS
    <3> HIDE DEF it, Body
    <3> QED BY <1>9, <1>11, <3>1
  <2>2. ASSUME NEW q \in SUBSET S, q # {}, it[q \ {Some(q)}] = g[q \ {Some(q)}]
        PROVE  it[q] = g[q]
    <3>1. Body(it)[q] = Restore(it[q \ {Some(q)}], s, Some(q))
      BY <2>2
    <3> HIDE DEF it, Body
    <3> QED BY <1>8, <1>11, <2>2, <3>1
  <2> HIDE DEF it, Body, S
  <2>3. Alike(it, g, S)
    BY <2>1, <2>2 DEF Alike
  <2>4. Agree(it, g, S)
    BY <1>2, <2>3, FoldUnique
  <2> QED BY <2>4 DEF Agree
<1>13. Restoring(d, s) = it[S]
  BY DEF Restoring, Restore, FoldSet, MapThenFoldSet, Some
<1>14. Restored(K, d, s, S, g[S])
  <2> DEFINE B == {q \in SUBSET S : Restored(K, d, s, q, g[q])}
  <2>1. {} \in B
    BY <1>2, <1>9, RestoredNone
  <2>2. ASSUME NEW q \in SUBSET S, q # {}, q \ {Some(q)} \in B PROVE q \in B
    <3> DEFINE p == q \ {Some(q)}
    <3>1. p \in SUBSET S /\ Some(q) \in S /\ Some(q) \notin p /\ q = p \cup {Some(q)}
      BY <1>8, <2>2
    <3>2. Restored(K, d, s, p, g[p]) /\ g[q] = Restore(g[p], s, Some(q))
      BY <1>8, <2>2
    <3> HIDE DEF p
    <3>3. Restored(K, d, s, p \cup {Some(q)}, Restore(g[p], s, Some(q)))
      BY <3>1, <3>2, RestoredStep
    <3> QED BY <3>1, <3>2, <3>3
  <2> HIDE DEF B, S
  <2>3. \A q \in SUBSET S : q \in B
    BY <1>2, <2>1, <2>2, SubsetInduction
  <2> QED BY <2>3 DEF B
<1> HIDE DEF it, Body
<1> QED BY <1>12, <1>13, <1>14

\* What is restored is there besides what there was.
LEMMA unstashRestores ==
    ASSUME NEW d \in Good(kind), NEW s \in Stashes(kind)
    PROVE  Restored(kind, d, s, DOMAIN s.data, unstash(d, s))
<1> DEFINE K == kind
           m == Knowing(d, s)
           e == unstash(d, s)
<1>1. e = Restoring(m, s)
  BY DEF unstash, Restoring, Knowing
<1>2. m \in Good(K) /\ m.reporting = d.reporting /\ SameSaid(K, d, m)
  BY KnowingKeeps
<1> HIDE DEF m, e
<1>3. Restored(K, m, s, DOMAIN s.data, e)
  BY <1>1, <1>2, RestoringRestores
<1>4. Restored(K, d, s, DOMAIN s.data, e)
  <2>1. Clean(K, m) => Clean(K, d)
    BY <1>2 DEF SameSaid, Clean
  <2> HIDE DEF K
  <2>2. /\ \A t, k, lo : Amount(K, m, t, k, lo) = Amount(K, d, t, k, lo)
        /\ \A t : NamesAt(K, m, t) = NamesAt(K, d, t)
    BY <1>2 DEF SameSaid
  <2> QED BY <1>2, <1>3, <2>1, <2>2 DEF Restored
<1> QED BY <1>4 DEF e

-----------------------------------------------------------------------------
(* What sources send. *)

LEMMA DistsType == Dists \subseteq Distributions
<1>1. \A a \in Los : a \in Int
  BY DatasetAssumption
<1>2. ASSUME NEW a \in Los PROVE <<[lo |-> a, n |-> 1]>> \in Distributions
  <2> DEFINE e == [lo |-> a, n |-> 1]
             s == <<e>>
  <2>1. e \in Entries
    BY <1>1 DEF Entries
  <2> HIDE DEF e
  <2>2. s \in Seq(Entries) /\ DOMAIN s = {1}
    BY <2>1
  <2>3. Rising(s)
    BY <2>2 DEF Rising
  <2> QED BY <2>2, <2>3 DEF Distributions, e
<1>3. ASSUME NEW a \in Los, NEW b \in Los, a < b
      PROVE  <<[lo |-> a, n |-> 1], [lo |-> b, n |-> 1]>> \in Distributions
  <2> DEFINE e == [lo |-> a, n |-> 1]
             f == [lo |-> b, n |-> 1]
             s == <<e, f>>
  <2>1. e \in Entries /\ f \in Entries /\ e.lo < f.lo
    BY <1>1, <1>3 DEF Entries
  <2> HIDE DEF e, f
  <2>2. s \in Seq(Entries) /\ DOMAIN s = {1, 2} /\ s[1] = e /\ s[2] = f
    BY <2>1
  <2> HIDE DEF s
  <2>3. Rising(s)
    BY <2>1, <2>2 DEF Rising
  <2>4. s \in Distributions
    BY <2>2, <2>3 DEF Distributions
  <2> QED BY <2>4 DEF e, f, s
<1>4. \A p \in {q \in Los \X Los : q[1] < q[2]} : p[1] \in Los /\ p[2] \in Los /\ p[1] < p[2]
  OBVIOUS
<1> QED BY <1>2, <1>3, <1>4, EmptyDistribution DEF Dists

LEMMA DataType == Data \subseteq Datum(kind) \cup {Undefined}
<1>1. \A K \in SUBSET Keys : [K -> {1}] \subseteq Partial(Keys, Nat)
  BY DEF Partial
<1>3. CASE kind = "Scalar"
  BY <1>3 DEF Data, Datum
<1>4. CASE kind = "Decomp"
  BY <1>1, <1>4 DEF Data, Datum
<1>5. CASE kind = "HeatmapScalar"
  BY <1>5, DistsType DEF Data, Datum
<1>6. CASE kind = "HeatmapDecomp"
  <2> DEFINE S == {[k \in K |-> dist] : K \in SUBSET Keys, dist \in Dists \ {<<>>}}
  <2>1. Data = {Undefined} \cup S
    BY <1>6 DEF Data
  <2>2. S \subseteq Partial(Keys, Distributions)
    <3> SUFFICES ASSUME NEW x \in S PROVE x \in Partial(Keys, Distributions)
      OBVIOUS
    <3>1. PICK K \in SUBSET Keys, dist \in Dists \ {<<>>} : x = [k \in K |-> dist]
      OBVIOUS
    <3>2. [k \in K |-> dist] \in Partial(Keys, Distributions)
      <4> DEFINE f == [k \in K |-> dist]
      <4>1. f \in [K -> Distributions]
        BY DistsType
      <4> HIDE DEF f, S
      <4>2. f \in Partial(Keys, Distributions)
        BY <4>1, PartialFrom
      <4> QED BY <4>2 DEF f
    <3> QED BY <3>1, <3>2
  <2> HIDE DEF S
  <2> QED BY <1>6, <2>1, <2>2 DEF Datum
<1> QED BY <1>3, <1>4, <1>5, <1>6, KindType DEF Kinds
-----------------------------------------------------------------------------
(* The invariant: what the dataset and its copy are, and who has reported. *)

Reports(K) == [id : Nat, host : Hosts, datum : Datum(K) \cup {Undefined}]
HostsOf(R) == {r.host : r \in R}

\* The reports of h, n in all, of known sources.
Heeded(K, h, n) ==
    /\ DOMAIN h \subseteq Periods
    /\ \A t \in DOMAIN h : /\ h[t] \subseteq Reports(K) /\ IsFiniteSet(h[t])
                           /\ \A r \in h[t] : r.id < n
\* Those who are said to have reported in h are those who have.
Reported(h, reporting) ==
    /\ DOMAIN reporting = DOMAIN h
    /\ \A t \in DOMAIN h : reporting[t] = HostsOf(h[t])

\* The records of the stash are those of when it was saved.
Copied(K, s, h) ==
    s # Undefined =>
        /\ s \in Stashes(K) /\ DOMAIN s.data = DOMAIN h
        /\ \A t \in DOMAIN h : s.data[t].reporting = HostsOf(h[t])

TypeInv(K) ==
    /\ ds \in Good(K) /\ updates \in Nat /\ tainted \in BOOLEAN
    /\ Heeded(K, heard, updates) /\ Heeded(K, kept, updates)
    /\ Reported(heard, ds.reporting) /\ Copied(K, saved, kept)

LEMMA HeededAt ==
    ASSUME NEW K, NEW n, NEW h, Heeded(K, h, n), NEW t
    PROVE  /\ Get(h, t, {}) \subseteq Reports(K) /\ IsFiniteSet(Get(h, t, {}))
           /\ \A r \in Get(h, t, {}) : r.id < n
BY FS_EmptySet DEF Heeded, Get

LEMMA ReportedAt ==
    ASSUME NEW h, NEW reporting, Reported(h, reporting), NEW t
    PROVE  Get(reporting, t, {}) = HostsOf(Get(h, t, {}))
BY DEF Reported, Get, HostsOf

LEMMA HeededMore ==
    ASSUME NEW K, NEW n \in Nat, NEW h, Heeded(K, h, n), NEW t \in Periods,
           NEW r \in Reports(K), r.id = n
    PROVE  Heeded(K, With(h, t, Get(h, t, {}) \cup {r}), n + 1)
<1> DEFINE R == Get(h, t, {})
           now == R \cup {r}
           g == With(h, t, now)
<1>1. R \subseteq Reports(K) /\ IsFiniteSet(R) /\ \A q \in R : q.id < n
  BY HeededAt
<1>2. now \subseteq Reports(K) /\ IsFiniteSet(now)
  <2> HIDE DEF R
  <2> QED BY <1>1, FS_AddElement
<1>3. \A q \in now : q.id < n + 1
  <2> HIDE DEF R
  <2> QED BY <1>1 DEF Reports
<1> HIDE DEF now
<1>4. DOMAIN g = DOMAIN h \cup {t}
  BY WithDomain
<1>5. \A u \in DOMAIN h \cup {t} : g[u] = IF u = t THEN now ELSE h[u]
  BY WithAt
<1> HIDE DEF g
<1>6. DOMAIN g \subseteq Periods
  BY <1>4 DEF Heeded
<1>7. ASSUME NEW u \in DOMAIN g
      PROVE  /\ g[u] \subseteq Reports(K) /\ IsFiniteSet(g[u])
             /\ \A q \in g[u] : q.id < n + 1
  <2>1. CASE u = t
    BY <1>2, <1>3, <1>5, <2>1
  <2>2. CASE u # t
    <3>1. u \in DOMAIN h /\ g[u] = h[u]
      BY <1>4, <1>5, <2>2
    <3>2. h[u] \subseteq Reports(K) /\ IsFiniteSet(h[u]) /\ \A q \in h[u] : q.id < n
      BY <3>1 DEF Heeded
    <3>3. \A q \in h[u] : q.id < n + 1
      BY <3>2 DEF Reports
    <3> QED BY <3>1, <3>2, <3>3
  <2> QED BY <2>1, <2>2
<1>8. Heeded(K, g, n + 1)
  BY <1>6, <1>7 DEF Heeded
<1> QED BY <1>8 DEF g, now

LEMMA HeededStays ==
    ASSUME NEW K, NEW n \in Nat, NEW h, Heeded(K, h, n)
    PROVE  Heeded(K, h, n + 1)
BY DEF Heeded, Reports

LEMMA ReportedMore ==
    ASSUME NEW h, NEW reporting, Reported(h, reporting), NEW t, NEW r
    PROVE  Reported(With(h, t, Get(h, t, {}) \cup {r}),
                    With(reporting, t, Get(reporting, t, {}) \cup {r.host}))
<1> DEFINE now == Get(h, t, {}) \cup {r}
           hosts == Get(reporting, t, {}) \cup {r.host}
           g == With(h, t, now)
           m == With(reporting, t, hosts)
<1>1. hosts = HostsOf(now)
  <2>1. Get(reporting, t, {}) = HostsOf(Get(h, t, {}))
    BY ReportedAt
  <2> QED BY <2>1 DEF HostsOf
<1> HIDE DEF now, hosts
<1>2. DOMAIN g = DOMAIN h \cup {t}
  BY WithDomain
<1>3. \A u \in DOMAIN h \cup {t} : g[u] = IF u = t THEN now ELSE h[u]
  BY WithAt
<1>4. DOMAIN m = DOMAIN reporting \cup {t}
  BY WithDomain
<1>5. \A u \in DOMAIN reporting \cup {t} : m[u] = IF u = t THEN hosts ELSE reporting[u]
  BY WithAt
<1> HIDE DEF g, m
<1>6. Reported(g, m)
  BY <1>1, <1>2, <1>3, <1>4, <1>5 DEF Reported
<1> QED BY <1>6 DEF g, m, now, hosts

-----------------------------------------------------------------------------
(* What is reported counts once. *)

\* The reports of R that count.
CountedOf(R) ==
    {r \in R : /\ r.datum # Undefined
               /\ doadd \/ \A q \in R : q.host = r.host => q.id >= r.id}
\* What they say in all.
SaidBy(K, R, k, lo) == [r \in R |-> SaysOf(K, r.datum, k, lo)]
SumOf(K, R, k, lo) == SumFunctionOnSet(SaidBy(K, R, k, lo), CountedOf(R))
NamesIn(K, R) == UNION {NamesOf(K, r.datum) : r \in CountedOf(R)}

\* One more report, of a source that counts only once and has reported.
LEMMA CountedNot ==
    ASSUME NEW K, NEW R \in SUBSET Reports(K), NEW r \in Reports(K),
           \A q \in R : q.id < r.id, ~doadd, r.host \in HostsOf(R)
    PROVE  CountedOf(R \cup {r}) = CountedOf(R)
<1>1. \A q \in R : q.id \in Nat /\ q.id < r.id /\ r.id \in Nat
  BY DEF Reports
<1>2. PICK q \in R : q.host = r.host
  BY DEF HostsOf
<1>3. r \notin CountedOf(R \cup {r})
  BY <1>1, <1>2 DEF CountedOf
<1>4. ASSUME NEW x \in R PROVE x \in CountedOf(R) <=> x \in CountedOf(R \cup {r})
  BY <1>1 DEF CountedOf
<1>5. r \notin R
  BY <1>1
<1> QED BY <1>3, <1>4, <1>5 DEF CountedOf

LEMMA CountedMore ==
    ASSUME NEW K, NEW R \in SUBSET Reports(K), NEW r \in Reports(K),
           \A q \in R : q.id < r.id, doadd \/ r.host \notin HostsOf(R)
    PROVE  CountedOf(R \cup {r}) = CountedOf(R) \cup IF r.datum = Undefined THEN {} ELSE {r}
<1>1. r.id \in Nat /\ \A q \in R : q.id \in Nat /\ q.id < r.id
  BY DEF Reports
<1>2. doadd \/ \A q \in R : q.host # r.host
  BY DEF HostsOf
<1>3. r \in CountedOf(R \cup {r}) <=> r.datum # Undefined
  BY <1>1, <1>2 DEF CountedOf
<1>4. ASSUME NEW x \in R PROVE x \in CountedOf(R) <=> x \in CountedOf(R \cup {r})
  BY <1>1, <1>2 DEF CountedOf
<1>5. r \notin R
  BY <1>1
<1> QED BY <1>3, <1>4, <1>5 DEF CountedOf

\* Reports that have nothing to do with each other.
LEMMA CountedBoth ==
    ASSUME NEW A, NEW B,
           \A a \in A, b \in B : ~(a.id = b.id \/ (~doadd /\ a.host = b.host))
    PROVE  /\ A \cap B = {}
           /\ CountedOf(A \cup B) = CountedOf(A) \cup CountedOf(B)
<1>1. A \cap B = {}
  OBVIOUS
<1>2. ASSUME NEW x \in A PROVE x \in CountedOf(A \cup B) <=> x \in CountedOf(A)
  BY DEF CountedOf
<1>3. ASSUME NEW x \in B PROVE x \in CountedOf(A \cup B) <=> x \in CountedOf(B)
  BY DEF CountedOf
<1>4. CountedOf(A) \subseteq A /\ CountedOf(B) \subseteq B /\ CountedOf(A \cup B) \subseteq A \cup B
  BY DEF CountedOf
<1> QED BY <1>1, <1>2, <1>3, <1>4

LEMMA CountedNone == CountedOf({}) = {}
BY DEF CountedOf

LEMMA SaidType ==
    ASSUME NEW K \in Kinds, NEW R \in SUBSET Reports(K), IsFiniteSet(R), NEW k, NEW lo
    PROVE  Ints(SaidBy(K, R, k, lo), CountedOf(R))
<1>1. CountedOf(R) \subseteq R
  BY DEF CountedOf
<1>2. IsFiniteSet(CountedOf(R))
  BY <1>1, FS_Subset
<1>3. ASSUME NEW r \in CountedOf(R) PROVE SaidBy(K, R, k, lo)[r] \in Int
  <2>1. r \in R /\ r.datum \in Datum(K)
    BY DEF CountedOf, Reports
  <2>2. SaysOf(K, r.datum, k, lo) \in Nat
    BY <2>1, DatumSays
  <2> QED BY <2>1, <2>2 DEF SaidBy
<1> QED BY <1>2, <1>3 DEF Ints

\* The sum over some reports, whichever others there are.
LEMMA SaidSame ==
    ASSUME NEW K \in Kinds, NEW R \in SUBSET Reports(K), IsFiniteSet(R), NEW S, R \subseteq S,
           NEW k, NEW lo
    PROVE  SumOf(K, R, k, lo) = SumFunctionOnSet(SaidBy(K, S, k, lo), CountedOf(R))
<1>1. Ints(SaidBy(K, R, k, lo), CountedOf(R))
  BY SaidType
<1>2. \A r \in CountedOf(R) : SaidBy(K, R, k, lo)[r] = SaidBy(K, S, k, lo)[r]
  BY DEF CountedOf, SaidBy
<1> QED BY <1>1, <1>2, SumSame DEF SumOf

LEMMA SumMoreReports ==
    ASSUME NEW K \in Kinds, NEW R \in SUBSET Reports(K), IsFiniteSet(R), NEW r \in Reports(K),
           \A q \in R : q.id < r.id, doadd \/ r.host \notin HostsOf(R)
    PROVE  /\ \A k, lo : SumOf(K, R \cup {r}, k, lo) = SumOf(K, R, k, lo) + Worth(K, r.datum, k, lo)
           /\ NamesIn(K, R \cup {r}) = NamesIn(K, R) \cup Terms(K, r.datum)
<1> DEFINE C == CountedOf(R)
           S == R \cup {r}
<1>1. CountedOf(S) = C \cup IF r.datum = Undefined THEN {} ELSE {r}
  BY CountedMore
<1>2. r \notin C
  BY DEF CountedOf, Reports
<1>3. ASSUME NEW k, NEW lo
      PROVE  SumOf(K, S, k, lo) = SumOf(K, R, k, lo) + Worth(K, r.datum, k, lo)
  <2> DEFINE f == SaidBy(K, S, k, lo)
  <2>1. SumOf(K, R, k, lo) = SumFunctionOnSet(f, C)
    BY SaidSame
  <2>2. Ints(f, C)
    <3>1. Ints(SaidBy(K, R, k, lo), C)
      BY SaidType
    <3>2. \A x \in C : SaidBy(K, R, k, lo)[x] = f[x]
      BY DEF CountedOf, SaidBy
    <3> QED BY <3>1, <3>2 DEF Ints
  <2>3. f[r] = SaysOf(K, r.datum, k, lo)
    BY DEF SaidBy
  <2>4. SumFunctionOnSet(f, C) \in Int
    BY <2>2, SumType
  <2> HIDE DEF f, C
  <2>5. CASE r.datum = Undefined
    <3>1. CountedOf(S) = C
      BY <1>1, <2>5
    <3> QED BY <2>1, <2>4, <2>5, <3>1 DEF SumOf, Worth, f
  <2>6. CASE r.datum # Undefined
    <3>1. CountedOf(S) = C \cup {r}
      BY <1>1, <2>6
    <3>2. f[r] \in Int
      BY <2>3, <2>6, DatumSays DEF Reports
    <3>3. SumFunctionOnSet(f, C \cup {r}) = f[r] + SumFunctionOnSet(f, C)
      BY <1>2, <2>2, <3>2, SumMore
    <3>4. SumFunctionOnSet(f, C \cup {r}) = SumOf(K, R, k, lo) + f[r]
      BY <2>1, <2>4, <3>2, <3>3
    <3>5. Worth(K, r.datum, k, lo) = f[r]
      BY <2>3, <2>6 DEF Worth
    <3> QED BY <3>1, <3>4, <3>5 DEF SumOf, f
  <2> QED BY <2>5, <2>6
<1>4. NamesIn(K, S) = NamesIn(K, R) \cup Terms(K, r.datum)
  <2> HIDE DEF S
  <2>1. CASE r.datum = Undefined
    BY <1>1, <2>1 DEF NamesIn, Terms
  <2>2. CASE r.datum # Undefined
    BY <1>1, <2>2 DEF NamesIn, Terms
  <2> QED BY <2>1, <2>2
<1> QED BY <1>3, <1>4

LEMMA SumBothReports ==
    ASSUME NEW K \in Kinds, NEW A \in SUBSET Reports(K), IsFiniteSet(A),
           NEW B \in SUBSET Reports(K), IsFiniteSet(B),
           \A a \in A, b \in B : ~(a.id = b.id \/ (~doadd /\ a.host = b.host))
    PROVE  /\ \A k, lo : SumOf(K, A \cup B, k, lo) = SumOf(K, A, k, lo) + SumOf(K, B, k, lo)
           /\ NamesIn(K, A \cup B) = NamesIn(K, A) \cup NamesIn(K, B)
<1> DEFINE S == A \cup B
<1>1. A \cap B = {} /\ CountedOf(S) = CountedOf(A) \cup CountedOf(B)
  BY CountedBoth
<1>2. CountedOf(A) \subseteq A /\ CountedOf(B) \subseteq B
  BY DEF CountedOf
<1>3. S \subseteq Reports(K) /\ IsFiniteSet(S) /\ A \subseteq S /\ B \subseteq S
  BY FS_Union
<1>4. ASSUME NEW k, NEW lo
      PROVE  SumOf(K, S, k, lo) = SumOf(K, A, k, lo) + SumOf(K, B, k, lo)
  <2> DEFINE f == SaidBy(K, S, k, lo)
  <2> HIDE DEF S
  <2>1. Ints(f, CountedOf(S))
    BY <1>3, SaidType
  <2>2. SumOf(K, A, k, lo) = SumFunctionOnSet(f, CountedOf(A))
    BY <1>3, SaidSame
  <2>3. SumOf(K, B, k, lo) = SumFunctionOnSet(f, CountedOf(B))
    BY <1>3, SaidSame
  <2>4. SumFunctionOnSet(f, CountedOf(A) \cup CountedOf(B)) =
            SumFunctionOnSet(f, CountedOf(A)) + SumFunctionOnSet(f, CountedOf(B))
    BY <1>1, <1>2, <2>1, SumParts
  <2> QED BY <1>1, <2>2, <2>3, <2>4 DEF SumOf, f
<1>5. NamesIn(K, S) = NamesIn(K, A) \cup NamesIn(K, B)
  BY <1>1 DEF NamesIn
<1> QED BY <1>4, <1>5

-----------------------------------------------------------------------------
(* Each operation, with the reports it is to tell of. *)

Told(K, d, t, R) ==
    /\ \A k, lo : Amount(K, d, t, k, lo) = SumOf(K, R, k, lo)
    /\ NamesAt(K, d, t) = NamesIn(K, R)
\* A dataset tells of the reports h, unless its zero is spoiled.
Faithful(K, d, h) == Clean(K, d) => \A t \in Periods : Told(K, d, t, Get(h, t, {}))
\* And a stash.
Preserves(K, s, h) ==
    \A t \in DOMAIN h :
        /\ \A k, lo : SaysOf(K, s.data[t].datum, k, lo) = SumOf(K, h[t], k, lo)
        /\ NamesOf(K, s.data[t].datum) = NamesIn(K, h[t])

LEMMA NothingSaid == \A K, k, lo : SumOf(K, {}, k, lo) = 0 /\ NamesIn(K, {}) = {}
BY CountedNone, SumEmpty DEF SumOf, NamesIn

\* A source that counts once, and has reported, is only heard.
Counts(d, host, t) == doadd \/ host \notin Get(d.reporting, t, {})
Updated(K, d, e, host, t, v) ==
    /\ e \in Good(K)
    /\ e.reporting = With(d.reporting, t, Get(d.reporting, t, {}) \cup {host})
    /\ Clean(K, e) =>
        /\ Clean(K, d)
        /\ \A u, k, lo : Amount(K, e, u, k, lo) = Amount(K, d, u, k, lo) +
               IF u = t /\ Counts(d, host, t) THEN Worth(K, v, k, lo) ELSE 0
        /\ \A u : NamesAt(K, e, u) = NamesAt(K, d, u) \cup
               IF u = t /\ Counts(d, host, t) THEN Terms(K, v) ELSE {}

LEMMA SameWith ==
    ASSUME NEW K, NEW d \in Good(K), NEW t, NEW x \in Get(d.reporting, t, {})
    PROVE  With(d.reporting, t, Get(d.reporting, t, {}) \cup {x}) = d.reporting
<1>1. t \in DOMAIN d.reporting /\ Get(d.reporting, t, {}) \cup {x} = d.reporting[t]
  BY DEF Get
<1>2. d.reporting \in [DOMAIN d.reporting -> SUBSET Hosts]
  <2>1. d.reporting \in Partial(Periods, SUBSET Hosts)
    BY DatasetIs DEF Good
  <2> QED BY <2>1, PartialIs
<1> QED BY <1>1, <1>2 DEF With

LEMMA updateAdds ==
    ASSUME NEW d \in Good(kind), NEW host \in Hosts, NEW raw \in Times,
           NEW v \in Datum(kind) \cup {Undefined}
    PROVE  Updated(kind, d, update(d, host, raw, v), host, ptime(raw), v)
<1> DEFINE K == kind
           t == ptime(raw)
           m == Heard(d, host, raw)
           p == Report(m, t, {host})
           e == aggregateValue(p, t, v)
<1>1. t \in Periods /\ raw \in Int /\ K \in Kinds
  BY PeriodsType, KindType
<1>2. m \in Good(K) /\ m.reporting = d.reporting /\ SameSaid(K, d, m)
  BY <1>1, HeardKeeps
<1>3. update(d, host, raw, v) = IF Counts(d, host, t) THEN e ELSE m
  BY DEF update, Counts
<1>4. \A u, k, lo : Amount(K, d, u, k, lo) \in Nat
  BY <1>1, AmountType
<1>5. CASE ~Counts(d, host, t)
  <2>1. With(d.reporting, t, Get(d.reporting, t, {}) \cup {host}) = d.reporting
    BY <1>5, SameWith DEF Counts
  <2>2. Updated(K, d, m, host, t, v)
    BY <1>2, <1>4, <1>5, <2>1 DEF Updated, SameSaid, Clean
  <2> QED BY <1>3, <1>5, <2>2
<1>6. CASE Counts(d, host, t)
  <2> HIDE DEF m, t, K
  <2>1. /\ p \in Good(K) /\ SameSaid(K, m, p)
        /\ p.reporting = With(m.reporting, t, Get(m.reporting, t, {}) \cup {host})
    BY <1>1, <1>2, ReportKeeps
  <2> HIDE DEF p
  <2>2. Added(K, p, e, t, v)
    BY <1>1, <2>1, aggregateValueAdds DEF K
  <2> HIDE DEF e
  <2>3. /\ e \in Good(K)
        /\ e.reporting = With(d.reporting, t, Get(d.reporting, t, {}) \cup {host})
    BY <1>2, <2>1, <2>2 DEF Added
  <2>4. ASSUME Clean(K, e)
        PROVE  /\ Clean(K, d)
               /\ \A u, k, lo : Amount(K, e, u, k, lo) = Amount(K, d, u, k, lo) +
                      IF u = t THEN Worth(K, v, k, lo) ELSE 0
               /\ \A u : NamesAt(K, e, u) = NamesAt(K, d, u) \cup IF u = t THEN Terms(K, v) ELSE {}
    <3>1. Clean(K, p)
      BY <2>2, <2>4 DEF Added
    <3>2. Clean(K, d)
      BY <1>2, <2>1, <3>1 DEF SameSaid, Clean
    <3>3. \A u, k, lo : Amount(K, p, u, k, lo) = Amount(K, d, u, k, lo)
      BY <1>2, <2>1 DEF SameSaid
    <3>4. \A u : NamesAt(K, p, u) = NamesAt(K, d, u)
      BY <1>2, <2>1 DEF SameSaid
    <3> QED BY <2>2, <2>4, <3>2, <3>3, <3>4 DEF Added
  <2>5. Updated(K, d, e, host, t, v)
    BY <1>6, <2>3, <2>4 DEF Updated
  <2> QED BY <1>3, <1>6, <2>5 DEF K, t, e, m, p
<1> QED BY <1>5, <1>6

LEMMA UpdateTells ==
    ASSUME NEW K \in Kinds, NEW d \in Good(K), NEW n \in Nat, NEW h, Heeded(K, h, n),
           Reported(h, d.reporting), Faithful(K, d, h), NEW t \in Periods,
           NEW r \in Reports(K), r.id = n, NEW e, Updated(K, d, e, r.host, t, r.datum)
    PROVE  Faithful(K, e, With(h, t, Get(h, t, {}) \cup {r}))
<1> DEFINE R == Get(h, t, {})
           now == R \cup {r}
           g == With(h, t, now)
<1>1. R \in SUBSET Reports(K) /\ IsFiniteSet(R) /\ \A q \in R : q.id < r.id
  BY HeededAt
<1>2. Counts(d, r.host, t) <=> doadd \/ r.host \notin HostsOf(R)
  BY ReportedAt DEF Counts
<1> SUFFICES ASSUME Clean(K, e), NEW u \in Periods PROVE Told(K, e, u, Get(g, u, {}))
  BY DEF Faithful
<1>3. Told(K, d, u, Get(h, u, {}))
  BY DEF Faithful, Updated
<1>4. Get(g, u, {}) = IF u = t THEN now ELSE Get(h, u, {})
  <2> HIDE DEF now
  <2> QED BY WithGet
<1>5. \A k, lo : Amount(K, d, u, k, lo) \in Nat
  BY AmountType
<1>9. ASSUME ~(u = t /\ Counts(d, r.host, t))
      PROVE  /\ \A k, lo : Amount(K, e, u, k, lo) = Amount(K, d, u, k, lo)
             /\ NamesAt(K, e, u) = NamesAt(K, d, u)
  <2>1. ASSUME NEW k, NEW lo PROVE Amount(K, e, u, k, lo) = Amount(K, d, u, k, lo)
    <3>1. Amount(K, e, u, k, lo) = Amount(K, d, u, k, lo) +
              IF u = t /\ Counts(d, r.host, t) THEN Worth(K, r.datum, k, lo) ELSE 0
      BY DEF Updated
    <3> QED BY <1>5, <1>9, <3>1
  <2>2. NamesAt(K, e, u) = NamesAt(K, d, u) \cup
            IF u = t /\ Counts(d, r.host, t) THEN Terms(K, r.datum) ELSE {}
    BY DEF Updated
  <2>3. NamesAt(K, e, u) = NamesAt(K, d, u)
    BY <1>9, <2>2
  <2> QED BY <2>1, <2>3
<1>6. CASE u # t
  <2>1. /\ \A k, lo : Amount(K, e, u, k, lo) = Amount(K, d, u, k, lo)
        /\ NamesAt(K, e, u) = NamesAt(K, d, u)
    BY <1>6, <1>9
  <2> HIDE DEF g
  <2> QED BY <1>3, <1>4, <1>6, <2>1 DEF Told
<1>7. CASE u = t /\ ~Counts(d, r.host, t)
  <2>1. /\ \A k, lo : Amount(K, e, u, k, lo) = Amount(K, d, u, k, lo)
        /\ NamesAt(K, e, u) = NamesAt(K, d, u)
    BY <1>7, <1>9
  <2> HIDE DEF R
  <2>2. CountedOf(now) = CountedOf(R)
    BY <1>1, <1>2, <1>7, CountedNot
  <2>3. NamesIn(K, now) = NamesIn(K, R)
    BY <2>2 DEF NamesIn
  <2>4. ASSUME NEW k, NEW lo PROVE SumOf(K, now, k, lo) = SumOf(K, R, k, lo)
    <3>1. SumOf(K, R, k, lo) = SumFunctionOnSet(SaidBy(K, now, k, lo), CountedOf(R))
      BY <1>1, SaidSame
    <3> QED BY <2>2, <3>1 DEF SumOf
  <2> HIDE DEF g, now
  <2>5. Told(K, d, u, R)
    BY <1>3, <1>7 DEF R
  <2> QED BY <1>4, <1>7, <2>1, <2>3, <2>4, <2>5 DEF Told
<1>8. CASE u = t /\ Counts(d, r.host, t)
  <2>1. /\ \A k, lo : Amount(K, e, u, k, lo) = Amount(K, d, u, k, lo) + Worth(K, r.datum, k, lo)
        /\ NamesAt(K, e, u) = NamesAt(K, d, u) \cup Terms(K, r.datum)
    BY <1>8 DEF Updated
  <2> HIDE DEF R
  <2>2. /\ \A k, lo : SumOf(K, now, k, lo) = SumOf(K, R, k, lo) + Worth(K, r.datum, k, lo)
        /\ NamesIn(K, now) = NamesIn(K, R) \cup Terms(K, r.datum)
    BY <1>1, <1>2, <1>8, SumMoreReports
  <2> HIDE DEF g, now
  <2>3. Told(K, d, u, R)
    BY <1>3, <1>8 DEF R
  <2> QED BY <1>4, <1>8, <2>1, <2>2, <2>3 DEF Told
<1> QED BY <1>6, <1>7, <1>8

\* Expiry.
LEMMA HeededLess ==
    ASSUME NEW K, NEW n, NEW h, Heeded(K, h, n), NEW x
    PROVE  Heeded(K, Since(h, x), n)
<1> DEFINE g == Since(h, x)
<1>1. DOMAIN g = {t \in DOMAIN h : t >= x} /\ \A t \in DOMAIN g : g[t] = h[t]
  BY SinceDomain, SinceAt
<1> HIDE DEF g
<1>2. Heeded(K, g, n)
  BY <1>1 DEF Heeded
<1> QED BY <1>2 DEF g

LEMMA ReportedLess ==
    ASSUME NEW h, NEW reporting, Reported(h, reporting), NEW x
    PROVE  Reported(Since(h, x), Since(reporting, x))
<1> DEFINE g == Since(h, x)
           m == Since(reporting, x)
<1>1. DOMAIN g = {t \in DOMAIN h : t >= x} /\ \A t \in DOMAIN g : g[t] = h[t]
  BY SinceDomain, SinceAt
<1>2. DOMAIN m = {t \in DOMAIN reporting : t >= x} /\ \A t \in DOMAIN m : m[t] = reporting[t]
  BY SinceDomain, SinceAt
<1> HIDE DEF g, m
<1>3. Reported(g, m)
  BY <1>1, <1>2 DEF Reported
<1> QED BY <1>3 DEF g, m

LEMMA ExpireTells ==
    ASSUME NEW K, NEW d, NEW h, Faithful(K, d, h), NEW x \in Nat, NEW e, Expired(K, d, e, x)
    PROVE  Faithful(K, e, Since(h, x))
<1> SUFFICES ASSUME Clean(K, e), NEW t \in Periods PROVE Told(K, e, t, Get(Since(h, x), t, {}))
  BY DEF Faithful
<1>1. t \in Nat
  BY PeriodsType
<1>2. Get(Since(h, x), t, {}) = IF t >= x THEN Get(h, t, {}) ELSE {}
  BY SinceGet
<1>3. Told(K, d, t, Get(h, t, {}))
  BY DEF Faithful, Expired, Clean
<1>4. /\ \A k, lo : Amount(K, e, t, k, lo) = IF t >= x THEN Amount(K, d, t, k, lo) ELSE 0
      /\ NamesAt(K, e, t) = IF t >= x THEN NamesAt(K, d, t) ELSE {}
  BY <1>1 DEF Expired
<1>5. CASE t >= x
  BY <1>2, <1>3, <1>4, <1>5 DEF Told
<1>6. CASE ~(t >= x)
  BY <1>2, <1>4, <1>6, NothingSaid DEF Told
<1> QED BY <1>5, <1>6

\* Saving.
LEMMA SaveTells ==
    ASSUME NEW K, NEW d, NEW h, NEW s, Stashed(K, d, s), Reported(h, d.reporting),
           DOMAIN h \subseteq Periods
    PROVE  /\ Copied(K, s, h)
           /\ Clean(K, d) /\ Faithful(K, d, h) => Preserves(K, s, h)
<1>1. Copied(K, s, h)
  BY DEF Copied, Stashed, Reported
<1>2. ASSUME Clean(K, d), Faithful(K, d, h), NEW t \in DOMAIN h
      PROVE  /\ \A k, lo : SaysOf(K, s.data[t].datum, k, lo) = SumOf(K, h[t], k, lo)
             /\ NamesOf(K, s.data[t].datum) = NamesIn(K, h[t])
  <2>1. Told(K, d, t, h[t])
    <3>1. Get(h, t, {}) = h[t] /\ t \in Periods
      BY DEF Get
    <3> QED BY <1>2, <3>1 DEF Faithful
  <2>2. t \in DOMAIN s.data
    BY DEF Stashed, Reported
  <2>3. /\ \A k, lo : SaysOf(K, s.data[t].datum, k, lo) = Amount(K, d, t, k, lo)
        /\ NamesOf(K, s.data[t].datum) = NamesAt(K, d, t)
    BY <1>2, <2>2 DEF Stashed
  <2> QED BY <2>1, <2>3 DEF Told
<1> QED BY <1>1, <1>2 DEF Preserves

\* Restoring.
Joined(h, g) == [t \in DOMAIN h \cup DOMAIN g |-> Get(h, t, {}) \cup Get(g, t, {})]
LEMMA JoinedAt ==
    ASSUME NEW h, NEW g, NEW t
    PROVE  Get(Joined(h, g), t, {}) = Get(h, t, {}) \cup Get(g, t, {})
BY DEF Joined, Get

LEMMA HeededBoth ==
    ASSUME NEW K, NEW n, NEW h, Heeded(K, h, n), NEW g, Heeded(K, g, n)
    PROVE  Heeded(K, Joined(h, g), n)
<1> DEFINE j == Joined(h, g)
<1>1. DOMAIN j = DOMAIN h \cup DOMAIN g
  BY DEF Joined
<1>2. DOMAIN j \subseteq Periods
  BY <1>1 DEF Heeded
<1>3. ASSUME NEW t \in DOMAIN j
      PROVE  j[t] \subseteq Reports(K) /\ IsFiniteSet(j[t]) /\ \A r \in j[t] : r.id < n
  <2> DEFINE A == Get(h, t, {})
             B == Get(g, t, {})
  <2>1. j[t] = A \cup B
    BY <1>1 DEF Joined
  <2>2. A \subseteq Reports(K) /\ IsFiniteSet(A) /\ \A r \in A : r.id < n
    BY HeededAt
  <2>3. B \subseteq Reports(K) /\ IsFiniteSet(B) /\ \A r \in B : r.id < n
    BY HeededAt
  <2> HIDE DEF A, B
  <2>4. IsFiniteSet(A \cup B)
    BY <2>2, <2>3, FS_Union
  <2> QED BY <2>1, <2>2, <2>3, <2>4
<1> HIDE DEF j
<1>4. Heeded(K, j, n)
  BY <1>2, <1>3 DEF Heeded
<1> QED BY <1>4 DEF j

LEMMA ReportedBoth ==
    ASSUME NEW K, NEW d, NEW h, Reported(h, d.reporting), NEW s, NEW g, Copied(K, s, g),
           s # Undefined, NEW e, Restored(K, d, s, DOMAIN s.data, e)
    PROVE  Reported(Joined(h, g), e.reporting)
<1> DEFINE j == Joined(h, g)
<1>1. DOMAIN s.data = DOMAIN g /\ \A t \in DOMAIN g : s.data[t].reporting = HostsOf(g[t])
  BY DEF Copied
<1>2. DOMAIN e.reporting = DOMAIN j
  BY <1>1 DEF Joined, Restored, Reported
<1>3. ASSUME NEW t \in DOMAIN j PROVE e.reporting[t] = HostsOf(j[t])
  <2>1. j[t] = Get(h, t, {}) \cup Get(g, t, {})
    BY DEF Joined
  <2>2. HostsOf(j[t]) = HostsOf(Get(h, t, {})) \cup HostsOf(Get(g, t, {}))
    BY <2>1 DEF HostsOf
  <2>3. Get(d.reporting, t, {}) = HostsOf(Get(h, t, {}))
    BY ReportedAt
  <2>4. HostsOf(Get(g, t, {})) = IF t \in DOMAIN s.data THEN s.data[t].reporting ELSE {}
    BY <1>1 DEF Get, HostsOf
  <2>5. Get(e.reporting, t, {}) = e.reporting[t]
    BY <1>2 DEF Get
  <2>6. Get(e.reporting, t, {}) =
            Get(d.reporting, t, {}) \cup IF t \in DOMAIN s.data THEN s.data[t].reporting ELSE {}
    BY DEF Restored
  <2> QED BY <2>2, <2>3, <2>4, <2>5, <2>6
<1> HIDE DEF j
<1>4. Reported(j, e.reporting)
  BY <1>2, <1>3 DEF Reported
<1> QED BY <1>4 DEF j

LEMMA LoadTells ==
    ASSUME NEW K \in Kinds, NEW d, NEW n, NEW h, Heeded(K, h, n), Faithful(K, d, h),
           NEW s, NEW g, Heeded(K, g, n), Copied(K, s, g), s # Undefined, Preserves(K, s, g),
           NEW e, Restored(K, d, s, DOMAIN s.data, e),
           \A t \in DOMAIN g : \A a \in g[t], b \in Get(h, t, {}) :
               ~(a.id = b.id \/ (~doadd /\ a.host = b.host))
    PROVE  Faithful(K, e, Joined(h, g))
<1> SUFFICES ASSUME Clean(K, e), NEW t \in Periods PROVE Told(K, e, t, Get(Joined(h, g), t, {}))
  BY DEF Faithful
<1> DEFINE A == Get(g, t, {})
           B == Get(h, t, {})
<1>1. Get(Joined(h, g), t, {}) = A \cup B
  <2>1. Get(Joined(h, g), t, {}) = B \cup A
    BY JoinedAt
  <2> QED BY <2>1
<1>2. Told(K, d, t, B)
  BY DEF Faithful, Restored
<1>3. A \in SUBSET Reports(K) /\ IsFiniteSet(A) /\ B \in SUBSET Reports(K) /\ IsFiniteSet(B)
  <2>1. A \in SUBSET Reports(K) /\ IsFiniteSet(A)
    BY HeededAt
  <2>2. B \in SUBSET Reports(K) /\ IsFiniteSet(B)
    BY HeededAt
  <2> QED BY <2>1, <2>2
<1>4. DOMAIN s.data = DOMAIN g
  BY DEF Copied
<1>5. /\ \A k, lo : Amount(K, e, t, k, lo) =
             Amount(K, d, t, k, lo) + IF t \in DOMAIN g THEN SaysOf(K, s.data[t].datum, k, lo) ELSE 0
      /\ NamesAt(K, e, t) =
             NamesAt(K, d, t) \cup IF t \in DOMAIN g THEN NamesOf(K, s.data[t].datum) ELSE {}
  BY <1>4 DEF Restored
<1>6. CASE t \notin DOMAIN g
  <2>1. A = {} /\ A \cup B = B
    BY <1>6 DEF Get
  <2> HIDE DEF B
  <2>2. ASSUME NEW k, NEW lo PROVE Amount(K, e, t, k, lo) = SumOf(K, B, k, lo)
    <3>1. SumOf(K, B, k, lo) \in Int
      BY <1>3, SaidType, SumType DEF SumOf
    <3>2. Amount(K, d, t, k, lo) = SumOf(K, B, k, lo)
      BY <1>2 DEF Told
    <3>3. Amount(K, e, t, k, lo) = Amount(K, d, t, k, lo) + 0
      BY <1>5, <1>6
    <3> QED BY <3>1, <3>2, <3>3
  <2>3. NamesAt(K, e, t) = NamesIn(K, B)
    BY <1>2, <1>5, <1>6 DEF Told
  <2> QED BY <1>1, <2>1, <2>2, <2>3 DEF Told
<1>7. CASE t \in DOMAIN g
  <2>1. A = g[t]
    BY <1>7 DEF Get
  <2>2. \A a \in A, b \in B : ~(a.id = b.id \/ (~doadd /\ a.host = b.host))
    BY <1>7, <2>1
  <2>3. /\ \A k, lo : SaysOf(K, s.data[t].datum, k, lo) = SumOf(K, A, k, lo)
        /\ NamesOf(K, s.data[t].datum) = NamesIn(K, A)
    BY <1>7, <2>1 DEF Preserves
  <2> HIDE DEF A, B
  <2>4. /\ \A k, lo : SumOf(K, A \cup B, k, lo) = SumOf(K, A, k, lo) + SumOf(K, B, k, lo)
        /\ NamesIn(K, A \cup B) = NamesIn(K, A) \cup NamesIn(K, B)
    BY <1>3, <2>2, SumBothReports
  <2>5. ASSUME NEW k, NEW lo PROVE Amount(K, e, t, k, lo) = SumOf(K, A \cup B, k, lo)
    <3> DEFINE a == SumOf(K, A, k, lo)
               b == SumOf(K, B, k, lo)
    <3>1. a \in Int
      BY <1>3, SaidType, SumType DEF SumOf
    <3>2. b \in Int
      BY <1>3, SaidType, SumType DEF SumOf
    <3>3. Amount(K, e, t, k, lo) = b + a
      BY <1>2, <1>5, <1>7, <2>3 DEF Told
    <3>4. SumOf(K, A \cup B, k, lo) = a + b
      BY <2>4
    <3> HIDE DEF a, b
    <3> QED BY <3>1, <3>2, <3>3, <3>4
  <2>6. NamesAt(K, e, t) = NamesIn(K, A \cup B)
    BY <1>2, <1>5, <1>7, <2>3, <2>4 DEF Told
  <2> QED BY <1>1, <2>5, <2>6 DEF Told
<1> QED BY <1>6, <1>7

-----------------------------------------------------------------------------
(* The invariant of the specification. *)

Inv(K) ==
    /\ TypeInv(K)
    /\ ~tainted => /\ Faithful(K, ds, heard)
                   /\ saved # Undefined => Preserves(K, saved, kept)

\* It says the same of a state whose parts are given.
InvOf(K, d, n, wrong, h, g, s) ==
    /\ d \in Good(K) /\ n \in Nat /\ wrong \in BOOLEAN
    /\ Heeded(K, h, n) /\ Heeded(K, g, n) /\ Reported(h, d.reporting) /\ Copied(K, s, g)
    /\ ~wrong => /\ Faithful(K, d, h)
                 /\ s # Undefined => Preserves(K, s, g)

LEMMA InvIs == Inv(kind) <=> InvOf(kind, ds, updates, tainted, heard, kept, saved)
BY DEF Inv, InvOf, TypeInv

LEMMA InvNext ==
    ASSUME instn' = instn, InvOf(kind, ds', updates', tainted', heard', kept', saved')
    PROVE  Inv(kind)'
<1>1. kind' = kind /\ doadd' = doadd
  BY DEF kind, doadd, caDatasetForInstrumentation
<1>2. TypeInv(kind)'
  BY <1>1 DEF TypeInv, InvOf, Heeded, Reported, Copied
<1>3. ASSUME ~tainted' PROVE Faithful(kind, ds, heard)'
  <2>1. Faithful(kind, ds', heard')
    BY <1>3 DEF InvOf
  <2> QED BY <1>1, <2>1 DEF Faithful, Told, SumOf, NamesIn, CountedOf, Clean
<1>4. ASSUME ~tainted', saved' # Undefined PROVE Preserves(kind, saved, kept)'
  <2>1. Preserves(kind, saved', kept')
    BY <1>4 DEF InvOf
  <2> QED BY <1>1, <2>1 DEF Preserves, SumOf, NamesIn, CountedOf
<1> QED BY <1>2, <1>3, <1>4 DEF Inv

LEMMA InvInit == Init => Inv(kind)
<1> SUFFICES ASSUME Init PROVE Inv(kind)
  OBVIOUS
<1> DEFINE K == kind
<1>1. /\ ds = caDataset /\ updates = 0 /\ tainted = FALSE /\ heard = Empty /\ kept = Empty
      /\ saved = Undefined
  BY DEF Init
<1>2. \A n : Heeded(K, Empty, n)
  BY EmptyObject DEF Heeded
<1>3. Reported(Empty, caDataset.reporting)
  BY DatasetBegins, EmptyObject DEF Reported
<1>4. Faithful(K, caDataset, Empty)
  <2>1. \A t : Get(Empty, t, {}) = {}
    BY EmptyObject DEF Get
  <2> QED BY <2>1, DatasetBegins, NothingSaid DEF Faithful, Told
<1>5. InvOf(K, ds, updates, tainted, heard, kept, saved)
  BY <1>1, <1>2, <1>3, <1>4, DatasetBegins DEF InvOf, Copied
<1> QED BY <1>5, InvIs

LEMMA InvUpdate == Inv(kind) /\ Update => Inv(kind)'
<1> SUFFICES ASSUME Inv(kind), Update PROVE Inv(kind)'
  OBVIOUS
<1> DEFINE K == kind
           n == updates
<1>1. InvOf(K, ds, n, tainted, heard, kept, saved)
  BY InvIs
<1>2. PICK host \in Hosts, raw \in Times, v \in Data :
          /\ ds' = update(ds, host, raw, v)
          /\ heard' = With(heard, ptime(raw), Get(heard, ptime(raw), {}) \cup
                               {[id |-> updates, host |-> host, datum |-> v]})
  BY DEF Update
<1>3. /\ updates' = n + 1 /\ instn' = instn /\ saved' = saved /\ kept' = kept
      /\ tainted' = tainted
  BY DEF Update
<1> DEFINE t == ptime(raw)
           r == [id |-> n, host |-> host, datum |-> v]
           g == With(heard, t, Get(heard, t, {}) \cup {r})
           e == update(ds, host, raw, v)
<1>4. K \in Kinds /\ t \in Periods /\ v \in Datum(K) \cup {Undefined}
  BY KindType, PeriodsType, DataType
<1>5. /\ ds \in Good(K) /\ n \in Nat /\ Heeded(K, heard, n) /\ Heeded(K, kept, n)
      /\ Reported(heard, ds.reporting) /\ Copied(K, saved, kept) /\ tainted \in BOOLEAN
  BY <1>1 DEF InvOf
<1>6. r \in Reports(K) /\ r.id = n /\ r.host = host /\ r.datum = v
  BY <1>4, <1>5 DEF Reports
<1>7. Updated(K, ds, e, host, t, v)
  BY <1>4, <1>5, updateAdds
<1>8. heard' = g /\ ds' = e
  BY <1>2
<1> HIDE DEF K, n, t, r, e
<1>9. Heeded(K, g, n + 1) /\ Heeded(K, kept, n + 1)
  <2>1. Heeded(K, g, n + 1)
    BY <1>4, <1>5, <1>6, HeededMore
  <2>2. Heeded(K, kept, n + 1)
    BY <1>5, HeededStays
  <2> QED BY <2>1, <2>2
<1>10. e \in Good(K) /\ Reported(g, e.reporting)
  <2>1. /\ e \in Good(K)
        /\ e.reporting = With(ds.reporting, t, Get(ds.reporting, t, {}) \cup {r.host})
    BY <1>6, <1>7 DEF Updated
  <2>2. Reported(g, With(ds.reporting, t, Get(ds.reporting, t, {}) \cup {r.host}))
    BY <1>5, ReportedMore
  <2> QED BY <2>1, <2>2
<1>11. ASSUME Faithful(K, ds, heard) PROVE Faithful(K, e, g)
  <2>1. Updated(K, ds, e, r.host, t, r.datum)
    BY <1>6, <1>7
  <2> QED BY <1>4, <1>5, <1>6, <1>11, <2>1, UpdateTells
<1> HIDE DEF g
<1>12. InvOf(K, ds', updates', tainted', heard', kept', saved')
  BY <1>1, <1>3, <1>5, <1>8, <1>9, <1>10, <1>11 DEF InvOf
<1> QED BY <1>3, <1>12, InvNext DEF K

LEMMA InvExpire == Inv(kind) /\ Expire => Inv(kind)'
<1> SUFFICES ASSUME Inv(kind), Expire PROVE Inv(kind)'
  OBVIOUS
<1> DEFINE K == kind
<1>1. InvOf(K, ds, updates, tainted, heard, kept, saved)
  BY InvIs
<1>2. PICK x \in Times : ds' = expireBefore(ds, x) /\ heard' = Since(heard, x)
  BY DEF Expire
<1>3. /\ updates' = updates /\ instn' = instn /\ saved' = saved /\ kept' = kept
      /\ tainted' = tainted
  BY DEF Expire
<1> DEFINE e == expireBefore(ds, x)
           g == Since(heard, x)
<1>4. /\ ds \in Good(K) /\ Heeded(K, heard, updates) /\ Reported(heard, ds.reporting)
      /\ x \in Nat
  BY <1>1, PeriodsType DEF InvOf
<1>5. Expired(K, ds, e, x)
  BY <1>4, expireBeforeExpires
<1>6. heard' = g /\ ds' = e
  BY <1>2
<1> HIDE DEF K, e
<1>7. Heeded(K, g, updates)
  BY <1>4, HeededLess
<1>8. e \in Good(K) /\ Reported(g, e.reporting)
  <2>1. Reported(g, Since(ds.reporting, x))
    BY <1>4, ReportedLess
  <2> QED BY <1>5, <2>1 DEF Expired
<1>9. ASSUME Faithful(K, ds, heard) PROVE Faithful(K, e, g)
  BY <1>4, <1>5, <1>9, ExpireTells
<1> HIDE DEF g
<1>10. InvOf(K, ds', updates', tainted', heard', kept', saved')
  BY <1>1, <1>3, <1>6, <1>7, <1>8, <1>9 DEF InvOf
<1> QED BY <1>3, <1>10, InvNext DEF K

LEMMA InvSave == Inv(kind) /\ Save => Inv(kind)'
<1> SUFFICES ASSUME Inv(kind), Save PROVE Inv(kind)'
  OBVIOUS
<1> DEFINE K == kind
           s == stash(ds)
<1>1. InvOf(K, ds, updates, tainted, heard, kept, saved)
  BY InvIs
<1>2. /\ updates' = updates /\ instn' = instn /\ saved' = s /\ kept' = heard
      /\ tainted' = (tainted \/ Spoiled) /\ ds' = ds /\ heard' = heard
  BY DEF Save
<1>3. Spoiled <=> ~Clean(K, ds)
  BY KindType DEF Spoiled, Clean
<1>4. ds \in Good(K) /\ Reported(heard, ds.reporting) /\ DOMAIN heard \subseteq Periods
  BY <1>1 DEF InvOf, Heeded
<1>5. Stashed(K, ds, s)
  BY <1>4, stashSays
<1> HIDE DEF K, s
<1>6. /\ Copied(K, s, heard)
      /\ Clean(K, ds) /\ Faithful(K, ds, heard) => Preserves(K, s, heard)
  BY <1>4, <1>5, SaveTells
<1>7. tainted' \in BOOLEAN
  BY <1>1, <1>2, <1>3 DEF InvOf
<1>8. InvOf(K, ds', updates', tainted', heard', kept', saved')
  BY <1>1, <1>2, <1>3, <1>6, <1>7 DEF InvOf
<1> QED BY <1>2, <1>8, InvNext DEF K

LEMMA InvCrash == Inv(kind) /\ Crash => Inv(kind)'
<1> SUFFICES ASSUME Inv(kind), Crash PROVE Inv(kind)'
  OBVIOUS
<1> DEFINE K == kind
<1>1. InvOf(K, ds, updates, tainted, heard, kept, saved)
  BY InvIs
<1>2. /\ updates' = updates /\ instn' = instn /\ saved' = saved /\ kept' = kept
      /\ tainted' = tainted /\ ds' = caDataset /\ heard' = Empty
  BY DEF Crash
<1>3. Heeded(K, Empty, updates)
  BY EmptyObject DEF Heeded
<1>4. caDataset \in Good(K) /\ Reported(Empty, caDataset.reporting)
  BY DatasetBegins, EmptyObject DEF Reported
<1>5. Faithful(K, caDataset, Empty)
  <2>1. \A t : Get(Empty, t, {}) = {}
    BY EmptyObject DEF Get
  <2> QED BY <2>1, DatasetBegins, NothingSaid DEF Faithful, Told
<1>6. InvOf(K, ds', updates', tainted', heard', kept', saved')
  BY <1>1, <1>2, <1>3, <1>4, <1>5 DEF InvOf
<1> QED BY <1>2, <1>6, InvNext

LEMMA InvLoad == Inv(kind) /\ Load => Inv(kind)'
<1> SUFFICES ASSUME Inv(kind), Load PROVE Inv(kind)'
  OBVIOUS
<1> DEFINE K == kind
           e == unstash(ds, saved)
           j == Joined(heard, kept)
<1>1. InvOf(K, ds, updates, tainted, heard, kept, saved)
  BY InvIs
<1>2. /\ updates' = updates /\ instn' = instn /\ saved' = saved /\ kept' = kept
      /\ tainted' = (tainted \/ \E t \in DOMAIN kept : Again(t))
      /\ ds' = e /\ heard' = j /\ saved # Undefined
  BY DEF Load, Joined
<1>3. /\ ds \in Good(K) /\ Heeded(K, heard, updates) /\ Heeded(K, kept, updates)
      /\ Reported(heard, ds.reporting) /\ Copied(K, saved, kept) /\ K \in Kinds
  BY <1>1, KindType DEF InvOf
<1>4. saved \in Stashes(K)
  BY <1>2, <1>3 DEF Copied
<1>5. Restored(K, ds, saved, DOMAIN saved.data, e)
  BY <1>3, <1>4, unstashRestores
<1> HIDE DEF K, e, j
<1>6. Heeded(K, j, updates)
  BY <1>3, HeededBoth DEF j
<1>7. e \in Good(K) /\ Reported(j, e.reporting)
  <2>1. Reported(j, e.reporting)
    BY <1>2, <1>3, <1>5, ReportedBoth DEF j
  <2> QED BY <1>5, <2>1 DEF Restored
<1>8. ASSUME ~tainted' PROVE Faithful(K, e, j) /\ Preserves(K, saved, kept)
  <2>1. /\ ~tainted
        /\ \A t \in DOMAIN kept : \A a \in kept[t], b \in Get(heard, t, {}) :
               ~(a.id = b.id \/ (~doadd /\ a.host = b.host))
    BY <1>2, <1>8 DEF Again
  <2>2. Faithful(K, ds, heard) /\ Preserves(K, saved, kept)
    BY <1>1, <1>2, <2>1 DEF InvOf
  <2>3. Faithful(K, e, j)
    BY <1>2, <1>3, <1>5, <2>1, <2>2, LoadTells DEF j
  <2> QED BY <2>2, <2>3
<1>9. tainted' \in BOOLEAN
  BY <1>1, <1>2 DEF InvOf
<1>10. InvOf(K, ds', updates', tainted', heard', kept', saved')
  BY <1>1, <1>2, <1>6, <1>7, <1>8, <1>9 DEF InvOf
<1> QED BY <1>2, <1>10, InvNext DEF K

\* Nothing changes.
LEMMA InvStays == Inv(kind) /\ UNCHANGED datavars => Inv(kind)'
<1> SUFFICES ASSUME Inv(kind), UNCHANGED datavars PROVE Inv(kind)'
  OBVIOUS
<1>1. InvOf(kind, ds, updates, tainted, heard, kept, saved)
  BY InvIs
<1>2. /\ updates' = updates /\ instn' = instn /\ saved' = saved /\ kept' = kept
      /\ tainted' = tainted /\ ds' = ds /\ heard' = heard
  BY DEF datavars
<1>3. InvOf(kind, ds', updates', tainted', heard', kept', saved')
  BY <1>1, <1>2
<1> QED BY <1>2, <1>3, InvNext

\* Type correctness, and that the dataset and its copy in the stash tell of the
\* reports that reached them, whatever is reported, expired, saved, lost and
\* restored in whatever order, unless a stash was loaded twice or the zero was
\* spoiled (caDataset: update, expireBefore, stash, unstash).
THEOREM InvHolds == Spec => [](Inv(kind))
<1>1. Init => Inv(kind)
  BY InvInit
<1>2. Inv(kind) /\ [Next]_datavars => Inv(kind)'
  BY InvUpdate, InvExpire, InvSave, InvCrash, InvLoad, InvStays DEF Next
<1> QED BY <1>1, <1>2, PTL DEF Spec

-----------------------------------------------------------------------------
(* What follows from it. *)

LEMMA ConsistentFrom == Inv(kind) => Consistent
<1> SUFFICES ASSUME Inv(kind) PROVE Consistent
  OBVIOUS
<1>1. ds \in Good(kind) /\ ds \in Datasets(kind) /\ Agreeing(ds)
  BY DEF Inv, TypeInv, Good
<1>2. DOMAIN ds.totalsbytime = DOMAIN ds.keysbytime
  BY <1>1 DEF Agreeing
<1>3. ASSUME NEW k \in DOMAIN ds.distbykey PROVE ds.distbykey[k] # Empty
  BY <1>1, EmptyObject DEF Agreeing
<1>4. ASSUME NEW t \in Periods
      PROVE  /\ Get(ds.keysbytime, t, {}) =
                    {k \in DOMAIN ds.distbykey : t \in DOMAIN ds.distbykey[k]}
             /\ Sorted(Get(ds.totalsbytime, t, <<>>))
  <2> DEFINE s == Get(ds.totalsbytime, t, <<>>)
  <2>1. s \in Distributions
    <3>1. ds.totalsbytime \in Partial(Periods, Distributions)
      BY <1>1, DatasetIs
    <3> QED BY <3>1, EmptyDistribution, GetObject
  <2>2. Sorted(s)
    <3>1. s \in Seq(Entries) /\ Rising(s)
      BY <2>1 DEF Distributions
    <3> HIDE DEF s
    <3>2. Len(s) \in Nat /\ DOMAIN s = 1 .. Len(s)
      BY <3>1
    <3>3. ASSUME NEW i \in 1 .. (Len(s) - 1) PROVE s[i].lo < s[i + 1].lo
      <4>1. i \in DOMAIN s /\ i + 1 \in DOMAIN s /\ i < i + 1
        BY <3>2
      <4> QED BY <3>1, <4>1 DEF Rising
    <3> QED BY <3>3 DEF Sorted
  <2> QED BY <1>1, <2>2 DEF Agreeing
<1>5. ASSUME NEW t \in Periods, NEW lo \in Los
      PROVE  In(Get(ds.totalsbytime, t, <<>>), lo) =
                 SumFunction([k \in Keys |-> In(Get(dataForKey(ds, k), t, <<>>), lo)])
  <2> DEFINE f == [k \in Keys |-> In(Get(dataForKey(ds, k), t, <<>>), lo)]
  <2>1. f = Parts(ds, t, lo)
    BY DEF Parts, Dist, dataForKey
  <2>2. DOMAIN f = Keys
    OBVIOUS
  <2> HIDE DEF f
  <2>3. SumFunction(f) = SumFunctionOnSet(Parts(ds, t, lo), Keys)
    BY <2>1, <2>2, SumWhole
  <2>4. In(Get(ds.totalsbytime, t, <<>>), lo) = SumFunctionOnSet(Parts(ds, t, lo), Keys)
    BY <1>1 DEF Agreeing
  <2> QED BY <2>3, <2>4 DEF f
<1> QED BY <1>2, <1>3, <1>4, <1>5 DEF Consistent

\* The three structures of a heatmap with a decomposition agree, whatever is
\* added, expired, saved and restored in whatever order: the names of a period
\* are those with a distribution then, its total is sorted and has in each
\* bucket what they have together, and a name without any is gone
\* (caDatasetHeatmapDecomp: aggregateValue, expireDataBefore).
THEOREM StructuresAgree == Spec => []Consistent
<1>1. Inv(kind) => Consistent
  BY ConsistentFrom
<1> QED BY <1>1, InvHolds, PTL

LEMMA MinIs ==
    ASSUME NEW S \in SUBSET Nat, NEW x \in S
    PROVE  Min(S) \in S /\ Min(S) <= x
BY Least DEF Min

LEMMA ReportingTrueFrom == Inv(kind) => ReportingTrue
<1> SUFFICES ASSUME Inv(kind) PROVE ReportingTrue
  OBVIOUS
<1>1. ds \in Datasets(kind) /\ Reported(heard, ds.reporting) /\ Heeded(kind, heard, updates)
  BY DEF Inv, TypeInv, Good
<1>2. ASSUME NEW t PROVE nReportingAt(ds, t) = Reporters(t) /\ Reporters(t) \in Nat
  <2>1. Get(ds.reporting, t, {}) = HostsOf(Get(heard, t, {}))
    BY <1>1, ReportedAt
  <2>2. HostsOf(Get(heard, t, {})) \subseteq Hosts
    BY <1>1, HeededAt DEF HostsOf, Reports
  <2>3. Cardinality(HostsOf(Get(heard, t, {}))) \in Nat
    BY <2>2, DatasetAssumption, FS_Subset, FS_CardinalityType
  <2> QED BY <2>1, <2>3 DEF nReportingAt, Reporters, HostsOf
<1>3. ASSUME NEW p
      PROVE  LET ts == PeriodsOf(p.start, p.duration)
             IN  /\ maxreporting(ds, p.start, p.duration) = Max({Reporters(t) : t \in ts})
                 /\ \A t \in ts : nreporting(ds, p.start, p.duration) <= Reporters(t)
  <2> DEFINE ts == PeriodsOf(p.start, p.duration)
             S == {nReportingAt(ds, t) : t \in ts}
  <2>1. S = {Reporters(t) : t \in ts}
    BY <1>2
  <2>2. maxreporting(ds, p.start, p.duration) = Max(S) /\ nreporting(ds, p.start, p.duration) = Min(S)
    BY DEF maxreporting, nreporting
  <2>3. S \subseteq Nat
    BY <1>2
  <2>4. ASSUME NEW t \in ts PROVE Min(S) <= Reporters(t)
    <3>1. Reporters(t) \in S
      BY <1>2
    <3> HIDE DEF S
    <3> QED BY <2>3, <3>1, MinIs
  <2> HIDE DEF S, ts
  <2>5. /\ maxreporting(ds, p.start, p.duration) = Max({Reporters(t) : t \in ts})
        /\ \A t \in ts : nreporting(ds, p.start, p.duration) <= Reporters(t)
    BY <2>1, <2>2, <2>4
  <2> QED BY <2>5 DEF ts
<1> QED BY <1>3 DEF ReportingTrue

\* As many sources are said to report in a period as did, whatever was lost
\* and restored since (caDataset: update, expireBefore, stash, unstash,
\* nreporting and maxreporting).
THEOREM ReportersAreCounted == Spec => []ReportingTrue
<1>1. Inv(kind) => ReportingTrue
  BY ReportingTrueFrom
<1> QED BY <1>1, InvHolds, PTL

-----------------------------------------------------------------------------
(* Intervals. *)

LEMMA MultipleIs ==
    ASSUME NEW n \in Int
    PROVE  Multiple(n) <=> \E q \in Int : n = Granularity * q
<1> DEFINE G == Granularity
<1>1. G \in Nat /\ G > 0
  BY PeriodsType
<1> HIDE DEF G
<1>2. n = G * (n \div G) + (n % G) /\ n \div G \in Int /\ n % G \in 0 .. G - 1
  BY <1>1
<1>3. ASSUME n % G = 0 PROVE \E q \in Int : n = G * q
  BY <1>1, <1>2, <1>3
<1>4. ASSUME NEW q \in Int, n = G * q PROVE n % G = 0
  <2> DEFINE a == n \div G
             b == n % G
             c == q - a
  <2>1. a \in Int /\ b \in 0 .. G - 1 /\ G * q = G * a + b
    BY <1>2, <1>4
  <2>2. c \in Int
    BY <2>1
  <2>3. G * q = G * a + G * c
    <3>1. q = a + c
      BY <2>1
    <3> HIDE DEF a, c
    <3> QED BY <1>1, <2>1, <2>2, <3>1
  <2> HIDE DEF a, b, c
  <2>4. G * c = b
    <3>1. G * a \in Int /\ G * c \in Int /\ G * q \in Int /\ b \in Int
      BY <1>1, <2>1, <2>2
    <3> DEFINE x == G * a
               y == G * c
               z == G * q
    <3>2. z = x + b /\ z = x + y /\ x \in Int /\ y \in Int /\ b \in Int
      BY <2>1, <2>3, <3>1
    <3> HIDE DEF x, y, z
    <3>3. y = b
      BY <3>2
    <3> QED BY <3>3 DEF y
  <2>5. ~(c >= 1)
    <3> SUFFICES ASSUME c >= 1 PROVE FALSE
      OBVIOUS
    <3>1. G * c >= G
      BY <1>1, <2>2
    <3> QED BY <1>1, <2>1, <2>4, <3>1
  <2>6. ~(c <= -1)
    <3> SUFFICES ASSUME c <= -1 PROVE FALSE
      OBVIOUS
    <3>1. G * c <= -G
      BY <1>1, <2>2
    <3> QED BY <1>1, <2>1, <2>4, <3>1
  <2>7. c = 0
    BY <2>2, <2>5, <2>6
  <2>8. b = 0
    BY <1>1, <2>4, <2>7
  <2> QED BY <2>8 DEF b
<1> QED BY <1>3, <1>4 DEF Multiple, G

LEMMA MultipleAdds ==
    ASSUME NEW a \in Int, NEW b \in Int, Multiple(a), Multiple(b)
    PROVE  Multiple(a + b) /\ Multiple(a - b)
<1> DEFINE G == Granularity
<1>1. PICK p \in Int : a = G * p
  BY MultipleIs
<1>2. PICK q \in Int : b = G * q
  BY MultipleIs
<1>3. G \in Nat
  BY PeriodsType
<1> HIDE DEF G
<1>4. a + b = G * (p + q) /\ p + q \in Int
  BY <1>1, <1>2, <1>3
<1>5. a - b = G * (p - q) /\ p - q \in Int
  BY <1>1, <1>2, <1>3
<1>6. a + b \in Int /\ a - b \in Int
  OBVIOUS
<1>7. Multiple(a + b)
  BY <1>4, <1>6, MultipleIs DEF G
<1>8. Multiple(a - b)
  BY <1>5, <1>6, MultipleIs DEF G
<1> QED BY <1>7, <1>8

LEMMA MultipleTimes ==
    ASSUME NEW a \in Int, Multiple(a), NEW n \in Int
    PROVE  n * a \in Int /\ Multiple(n * a)
<1> DEFINE G == Granularity
<1>1. PICK p \in Int : a = G * p
  BY MultipleIs
<1>2. G \in Nat
  BY PeriodsType
<1> HIDE DEF G
<1>3. n * a = G * (n * p) /\ n * p \in Int /\ n * a \in Int
  BY <1>1, <1>2
<1> QED BY <1>3, MultipleIs DEF G

LEMMA ptimeIs ==
    ASSUME NEW n \in Int
    PROVE  ptime(n) \in Int /\ Multiple(ptime(n)) /\ ptime(n) <= n /\ n < ptime(n) + Granularity
<1> DEFINE G == Granularity
<1>1. G \in Nat /\ G > 0
  BY PeriodsType
<1> HIDE DEF G
<1>2. n = G * (n \div G) + (n % G) /\ n \div G \in Int /\ n % G \in 0 .. G - 1
  BY <1>1
<1>3. n - (n % G) = G * (n \div G) /\ n - (n % G) \in Int
  <2> DEFINE b == n % G
             c == G * (n \div G)
  <2>1. n = c + b /\ b \in Int /\ c \in Int
    BY <1>1, <1>2
  <2> HIDE DEF b, c
  <2>2. n - b = c
    BY <2>1
  <2> QED BY <2>1, <2>2 DEF b, c
<1>4. ptime(n) = n - (n % G)
  BY DEF ptime, G
<1>5. Multiple(ptime(n))
  BY <1>2, <1>3, <1>4, MultipleIs DEF G
<1>6. ptime(n) <= n /\ n < ptime(n) + G
  BY <1>1, <1>2, <1>4
<1> QED BY <1>3, <1>4, <1>5, <1>6 DEF G

LEMMA ntimeIs ==
    ASSUME NEW n \in Nat \ {0}
    PROVE  ntime(n) \in Nat \ {0} /\ Multiple(ntime(n)) /\ ntime(n) >= n
<1> DEFINE G == Granularity
           p == ptime(n)
<1>1. G \in Nat /\ G > 0 /\ p \in Nat
  BY PeriodsType
<1>2. p \in Int /\ Multiple(p) /\ p <= n /\ n < p + G
  BY ptimeIs
<1>3. ntime(n) = IF Multiple(n) THEN n ELSE p + G
  BY DEF ntime
<1>4. Multiple(G)
  <2>1. G = Granularity * 1 /\ G \in Int
    BY <1>1
  <2> QED BY <2>1, MultipleIs
<1>5. Multiple(p + G)
  <2>1. G \in Int
    BY <1>1
  <2> HIDE DEF p, G
  <2> QED BY <1>2, <1>4, <2>1, MultipleAdds
<1> HIDE DEF p, G
<1> QED BY <1>1, <1>2, <1>3, <1>5

LEMMA PeriodsFinite ==
    ASSUME NEW s \in Int, NEW n \in Int
    PROVE  IsFiniteSet(PeriodsOf(s, n)) /\ PeriodsOf(s, n) \subseteq Int
<1>1. s + n - 1 \in Int
  OBVIOUS
<1>2. IsFiniteSet(s .. (s + n - 1))
  BY <1>1, FS_Interval
<1>3. PeriodsOf(s, n) \subseteq s .. (s + n - 1)
  BY DEF PeriodsOf
<1>4. s .. (s + n - 1) \subseteq Int
  OBVIOUS
<1> QED BY <1>2, <1>3, <1>4, FS_Subset

\* What the points of a request are.
Lasting(points, s, D, n) ==
    /\ s \in Int /\ D \in Nat \ {0} /\ Multiple(D) /\ n \in Nat \ {0}
    /\ points = Points([start |-> s, duration |-> D], n)
LEMMA LastingAt ==
    ASSUME NEW points, NEW s, NEW D, NEW n, Lasting(points, s, D, n)
    PROVE  /\ DOMAIN points = 1 .. n /\ Len(points) = n
           /\ \A i \in 1 .. n : /\ points[i].duration = D /\ points[i].start = s + (i - 1) * D
                                /\ (i - 1) * D \in Nat /\ Multiple((i - 1) * D)
<1>1. s \in Int /\ D \in Nat /\ Multiple(D) /\ n \in Nat
  BY DEF Lasting
<1>2. points = [i \in 1 .. n |-> [[start |-> s, duration |-> D] EXCEPT !.start = s + (i - 1) * D]]
  BY DEF Lasting, Points
<1>3. DOMAIN points = 1 .. n /\ Len(points) = n
  BY <1>1, <1>2
<1>4. ASSUME NEW i \in 1 .. n
      PROVE  /\ points[i].duration = D /\ points[i].start = s + (i - 1) * D
             /\ (i - 1) * D \in Nat /\ Multiple((i - 1) * D)
  <2>1. points[i].duration = D /\ points[i].start = s + (i - 1) * D
    BY <1>2
  <2>2. i - 1 \in Nat /\ i - 1 \in Int
    BY <1>1
  <2> DEFINE j == i - 1
  <2> HIDE DEF j
  <2>3. j \in Nat /\ j \in Int
    BY <2>2 DEF j
  <2>4. j * D \in Nat
    BY <1>1, <2>3
  <2>5. Multiple(j * D)
    BY <1>1, <2>3, MultipleTimes
  <2> QED BY <2>1, <2>4, <2>5 DEF j
<1> QED BY <1>3, <1>4

Windows(points) == [i \in DOMAIN points |-> Window(points[i].start, points[i].duration)]

\* Which point a period belongs to.
LEMMA Which ==
    ASSUME NEW D \in Nat \ {0}, NEW n \in Nat \ {0}, NEW x \in 0 .. n * D - 1
    PROVE  \E i \in 1 .. n : (i - 1) * D <= x /\ x < (i - 1) * D + D
<1> DEFINE q == x \div D
           m == x % D
<1>1. x \in Nat /\ n * D \in Nat /\ x < n * D
  OBVIOUS
<1>2. x = D * q + m /\ q \in Int /\ m \in 0 .. D - 1
  BY <1>1
<1> HIDE DEF q, m
<1>3. q >= 0
  <2> SUFFICES ASSUME q <= -1 PROVE FALSE
    BY <1>2
  <2>1. D * q <= -D
    BY <1>2
  <2> QED BY <1>1, <1>2, <2>1
<1>4. q < n
  <2> SUFFICES ASSUME q >= n PROVE FALSE
    BY <1>2
  <2>1. D * q >= n * D
    BY <1>2
  <2> QED BY <1>1, <1>2, <2>1
<1>5. q + 1 \in 1 .. n /\ (q + 1) - 1 = q
  BY <1>2, <1>3, <1>4
<1>6. q * D <= x /\ x < q * D + D
  <2>1. q * D = D * q /\ q * D \in Int
    BY <1>2
  <2> QED BY <1>1, <1>2, <2>1
<1> QED BY <1>5, <1>6

LEMMA Later ==
    ASSUME NEW D \in Nat \ {0}, NEW i \in Nat, NEW j \in Nat, i < j
    PROVE  (i - 1) * D + D <= (j - 1) * D /\ (i - 1) * D \in Int /\ (j - 1) * D \in Int
<1> DEFINE a == i - 1
           b == j - 1
<1>1. a \in Int /\ b \in Int /\ a + 1 <= b
  OBVIOUS
<1> HIDE DEF a, b
<1>2. (a + 1) * D <= b * D
  BY <1>1
<1>3. (a + 1) * D = a * D + D
  BY <1>1
<1>4. a * D \in Int /\ b * D \in Int
  BY <1>1
<1> QED BY <1>2, <1>3, <1>4 DEF a, b

LEMMA WindowsApart ==
    ASSUME NEW points, NEW s, NEW D, NEW n, Lasting(points, s, D, n)
    PROVE  /\ \A i \in DOMAIN points : IsFiniteSet(Windows(points)[i])
           /\ \A i, j \in DOMAIN points : i # j => Windows(points)[i] \cap Windows(points)[j] = {}
           /\ Together(Windows(points), DOMAIN points) = Whole(points)
<1> DEFINE W == Windows(points)
           off(i) == (i - 1) * D
<1>1. /\ DOMAIN points = 1 .. n /\ Len(points) = n
      /\ \A i \in 1 .. n : /\ points[i].duration = D /\ points[i].start = s + off(i)
                           /\ off(i) \in Nat /\ Multiple(off(i))
  BY LastingAt
<1>2. s \in Int /\ D \in Nat \ {0} /\ Multiple(D) /\ n \in Nat \ {0} /\ D \in Int
  BY DEF Lasting
<1>3. \A i, j \in 1 .. n : i < j => off(i) + D <= off(j)
  BY <1>2, Later
<1>4. off(1) = 0
  BY <1>2
<1> HIDE DEF off
<1>5. 1 \in 1 .. n /\ n \in 1 .. n
  BY <1>2
<1>6. CASE doadd
  <2>1. \A i \in 1 .. n : W[i] = PeriodsOf(s + off(i), D)
    BY <1>1, <1>6 DEF Windows, Window
  <2> HIDE DEF W
  <2>2. \A i \in 1 .. n : IsFiniteSet(W[i])
    BY <1>1, <1>2, <2>1, PeriodsFinite
  <2>3. \A i \in 1 .. n : \A t : t \in W[i] <=> /\ t \in Int /\ s + off(i) <= t /\ t < s + off(i) + D
                                            /\ Multiple(t - (s + off(i)))
    BY <1>1, <1>2, <2>1 DEF PeriodsOf
  <2>4. \A i, j \in 1 .. n : i < j => W[i] \cap W[j] = {}
    <3> SUFFICES ASSUME NEW i \in 1 .. n, NEW j \in 1 .. n, i < j, NEW t \in W[i], t \in W[j]
                 PROVE  FALSE
      OBVIOUS
    <3>1. /\ off(i) \in Nat /\ off(j) \in Nat /\ off(i) + D <= off(j)
          /\ D \in Int /\ s \in Int
      BY <1>1, <1>2, <1>3
    <3>2. t \in Int /\ t < s + off(i) + D /\ s + off(j) <= t
      BY <2>3
    <3> HIDE DEF off
    <3> QED BY <3>1, <3>2
  <2>5. \A i, j \in 1 .. n : i # j => W[i] \cap W[j] = {}
    <3>1. \A i, j \in 1 .. n : i # j => i < j \/ j < i
      BY <1>2
    <3> QED BY <2>4, <3>1
  <2>6. off(n) + D = n * D /\ n * D \in Nat
    <3>1. (n - 1) * D + D = n * D
      BY <1>2
    <3> QED BY <1>2, <3>1 DEF off
  <2>7. Whole(points) = PeriodsOf(s, n * D)
    <3>1. /\ points[1].start = s /\ points[n].start = s + off(n) /\ points[n].duration = D
          /\ off(n) \in Nat
      BY <1>1, <1>2, <1>4, <1>5
    <3>2. (s + off(n)) + D - s = n * D
      BY <1>2, <2>6, <3>1
    <3> QED BY <1>1, <1>6, <3>1, <3>2 DEF Whole
  <2>8. \A t : t \in Whole(points) <=> t \in Int /\ s <= t /\ t < s + n * D /\ Multiple(t - s)
    <3> DEFINE N == n * D
    <3>1. N \in Nat
      BY <2>6
    <3> HIDE DEF N
    <3>2. \A t : t \in PeriodsOf(s, N) <=> t \in Int /\ s <= t /\ t < s + N /\ Multiple(t - s)
      BY <1>2, <3>1 DEF PeriodsOf
    <3> QED BY <2>7, <3>2 DEF N
  <2>9. ASSUME NEW i \in 1 .. n, NEW t \in W[i] PROVE t \in Whole(points)
    <3>1. /\ t \in Int /\ s + off(i) <= t /\ t < s + off(i) + D /\ Multiple(t - (s + off(i)))
          /\ off(i) \in Int /\ off(i) >= 0 /\ Multiple(off(i))
      BY <1>1, <2>3
    <3>2. off(i) <= off(n)
      <4>1. CASE i = n
        BY <3>1, <4>1
      <4>2. CASE i < n
        BY <1>1, <1>2, <1>3, <1>5, <3>1, <4>2
      <4> QED BY <1>2, <4>1, <4>2
    <3>3. t < s + n * D
      <4> DEFINE N == n * D
      <4>1. off(n) + D = N /\ N \in Nat /\ off(n) \in Nat
        BY <1>1, <1>5, <2>6
      <4> HIDE DEF N
      <4>2. t < s + N
        BY <1>2, <3>1, <3>2, <4>1
      <4> QED BY <4>2 DEF N
    <3>4. Multiple(t - s)
      <4>1. t - (s + off(i)) \in Int /\ (t - (s + off(i))) + off(i) = t - s
        BY <1>2, <3>1
      <4>2. Multiple((t - (s + off(i))) + off(i))
        BY <3>1, <4>1, MultipleAdds
      <4> QED BY <4>1, <4>2
    <3>5. s <= t
      BY <1>2, <3>1
    <3> QED BY <2>8, <3>1, <3>3, <3>4, <3>5
  <2>10. ASSUME NEW t \in Whole(points) PROVE \E i \in 1 .. n : t \in W[i]
    <3> DEFINE x == t - s
    <3>1. t \in Int /\ s <= t /\ t < s + n * D /\ Multiple(x)
      BY <2>8
    <3>2. x \in 0 .. n * D - 1 /\ x \in Int /\ t = s + x
      BY <1>2, <2>6, <3>1
    <3> HIDE DEF x
    <3>3. PICK i \in 1 .. n : (i - 1) * D <= x /\ x < (i - 1) * D + D
      BY <1>2, <3>2, Which
    <3>4. off(i) <= x /\ x < off(i) + D /\ off(i) \in Int /\ Multiple(off(i))
      BY <1>1, <3>3 DEF off
    <3>5. t - (s + off(i)) = x - off(i)
      BY <1>2, <3>2, <3>4
    <3>6. Multiple(t - (s + off(i)))
      BY <3>1, <3>2, <3>4, <3>5, MultipleAdds
    <3>7. s + off(i) <= t /\ t < s + off(i) + D
      BY <1>2, <3>2, <3>4
    <3> QED BY <2>3, <3>1, <3>6, <3>7
  <2>11. Together(W, 1 .. n) = Whole(points)
    BY <2>9, <2>10 DEF Together
  <2> QED BY <1>1, <2>2, <2>5, <2>11 DEF W
<1>7. CASE ~doadd
  <2>1. \A i \in 1 .. n : W[i] = {s + off(i)}
    <3>1. \A i \in 1 .. n : W[i] = PeriodsOf(s + off(i), Granularity)
      BY <1>1, <1>7 DEF Windows, Window
    <3>2. \A i \in 1 .. n : s + off(i) \in Int
      BY <1>1, <1>2
    <3> HIDE DEF W
    <3> QED BY <3>1, <3>2, OnePeriod
  <2> HIDE DEF W
  <2>2. \A i \in 1 .. n : IsFiniteSet(W[i])
    BY <2>1, FS_Singleton
  <2>3. \A i, j \in 1 .. n : i < j => s + off(i) # s + off(j)
    BY <1>1, <1>2, <1>3
  <2>4. \A i, j \in 1 .. n : i # j => W[i] \cap W[j] = {}
    <3>1. \A i, j \in 1 .. n : i # j => i < j \/ j < i
      BY <1>2
    <3> QED BY <2>1, <2>3, <3>1
  <2>5. Whole(points) = {p.start : p \in ToSet(points)}
    BY <1>7 DEF Whole
  <2>6. \A x : x \in Whole(points) <=> \E i \in 1 .. n : x = points[i].start
    BY <1>1, <2>5 DEF ToSet
  <2>7. Together(W, 1 .. n) = Whole(points)
    BY <1>1, <2>1, <2>6 DEF Together
  <2> QED BY <1>1, <2>2, <2>4, <2>7 DEF W
<1> QED BY <1>6, <1>7

-----------------------------------------------------------------------------
(* What requests ask for. *)

LEMMA NoMaxType == NoMax \in Nat
BY DEF NoMax

LEMMA NumberParam ==
    ASSUME NEW formals, NEW actuals, NEW p, NEW min, NEW max, NEW default,
           formals[p] = Number(min, max, default),
           caHttpParam(formals, actuals, p) # Invalid
    PROVE  caHttpParam(formals, actuals, p) \in min .. max \cup {default}
<1> DEFINE raw == Get(actuals, p, Undefined)
           v == caHttpParam(formals, actuals, p)
<1>1. /\ formals[p].type = "number" /\ formals[p].min = min /\ formals[p].max = max
      /\ formals[p].required = FALSE /\ formals[p].default = default
  BY DEF Number
<1>2. CASE raw = Undefined
  <2>1. v = default
    BY <1>1, <1>2 DEF caHttpParam
  <2> QED BY <2>1
<1>3. CASE raw # Undefined
  <2>1. v = IF raw # NaN /\ raw \in min .. max THEN raw ELSE Invalid
    BY <1>1, <1>3 DEF caHttpParam
  <2> QED BY <2>1
<1> QED BY <1>2, <1>3

\* An interval is not empty.
LEMMA IntervalIs ==
    ASSUME NEW params, NEW now \in Nat, NEW default \in Nat \ {0},
           params.start_time \in Nat \cup {Undefined}, params.end_time \in Nat \cup {Undefined},
           params.duration \in Nat \cup {Undefined},
           NEW interval, interval = caAggrInterval(params, now, default), interval # Invalid
    PROVE  interval.start \in Int /\ interval.duration \in Nat \ {0}
<1> DEFINE start == params.start_time
           end == params.end_time
           given == params.duration
           duration == IF given = Undefined /\ Undefined \in {start, end} THEN default ELSE given
           Positive(s, n) == IF n < 1 THEN Invalid ELSE [start |-> s, duration |-> n]
<1>1. interval = IF end = Undefined
          THEN Positive(IF start = Undefined THEN now - duration - Granularity ELSE start, duration)
        ELSE IF start = Undefined
          THEN IF duration > end THEN Invalid ELSE Positive(end - duration, duration)
        ELSE IF duration = Undefined
          THEN IF end <= start THEN Invalid ELSE Positive(start, end - start)
        ELSE IF start + duration # end THEN Invalid ELSE Positive(start, duration)
  BY DEF caAggrInterval
<1>2. ASSUME NEW s \in Int, NEW n \in Int, interval = Positive(s, n)
      PROVE  interval.start \in Int /\ interval.duration \in Nat \ {0}
  BY <1>2
<1>3. Granularity \in Nat
  BY PeriodsType
<1>4. CASE end = Undefined
  <2>1. duration \in Nat
    BY <1>4
  <2>2. interval = Positive(IF start = Undefined THEN now - duration - Granularity ELSE start, duration)
    BY <1>1, <1>4
  <2>3. (IF start = Undefined THEN now - duration - Granularity ELSE start) \in Int
    <3> HIDE DEF duration
    <3> QED BY <1>3, <2>1
  <2> HIDE DEF duration, Positive
  <2> QED BY <1>2, <2>1, <2>2, <2>3
<1>5. CASE end # Undefined /\ start = Undefined
  <2>1. duration \in Nat
    BY <1>5
  <2>2. interval = Positive(end - duration, duration)
    BY <1>1, <1>5
  <2>3. end - duration \in Int
    <3> HIDE DEF duration
    <3> QED BY <1>5, <2>1
  <2> HIDE DEF duration, Positive
  <2> QED BY <1>2, <2>1, <2>2, <2>3
<1>6. CASE end # Undefined /\ start # Undefined
  <2>1. duration = given /\ start \in Nat /\ end \in Nat
    BY <1>6
  <2>2. interval = Positive(start, IF given = Undefined THEN end - start ELSE given)
    BY <1>1, <1>6, <2>1
  <2>3. (IF given = Undefined THEN end - start ELSE given) \in Int
    BY <2>1
  <2> HIDE DEF duration, Positive
  <2> QED BY <1>2, <2>1, <2>2, <2>3
<1> QED BY <1>4, <1>5, <1>6

LEMMA LoadedIs ==
    ASSUME NEW rq, NEW now \in Nat, NEW default \in Nat \ {0},
           loadParameters(rq, default, now) # Invalid
    PROVE  \E s, D, n : /\ Lasting(loadParameters(rq, default, now).points, s, D, n)
                        /\ Multiple(s)
<1> DEFINE given == IF rq.json # Undefined THEN rq.json ELSE rq.query
           param == [p \in DOMAIN aggValueParams |-> caHttpParam(aggValueParams, given, p)]
           interval == caAggrInterval(param, now, default)
           normal == normalizeInterval(interval.start, interval.duration)
           n == param.ndatapoints
           w == loadParameters(rq, default, now)
<1>1. /\ \A p \in DOMAIN param : param[p] # Invalid
      /\ interval # Invalid
      /\ w = [timeout |-> param.timeout, transformations |-> param.transformations,
              points |-> Points(normal, n)]
  BY DEF loadParameters
<1>2. DOMAIN aggValueParams = {"duration", "start_time", "end_time", "ndatapoints", "timeout",
                               "transformations"}
  BY DEF aggValueParams
<1>3. DOMAIN param = DOMAIN aggValueParams
  OBVIOUS
<1> DEFINE hour == 3600
<1>hour. hour \in Nat
  OBVIOUS
<1>4. param.duration \in 1 .. hour \cup {Undefined}
  <2>1. aggValueParams["duration"] = Number(1, hour, Undefined)
    BY DEF aggValueParams
  <2> HIDE DEF hour
  <2>2. param["duration"] = caHttpParam(aggValueParams, given, "duration")
    BY <1>2
  <2> HIDE DEF param, given
  <2>3. caHttpParam(aggValueParams, given, "duration") # Invalid
    BY <1>1, <1>2, <1>3, <2>2
  <2>4. caHttpParam(aggValueParams, given, "duration") \in 1 .. hour \cup {Undefined}
    BY <2>1, <2>3, NumberParam
  <2> QED BY <2>2, <2>4
<1>5. param.start_time \in 0 .. NoMax \cup {Undefined}
  <2>1. aggValueParams["start_time"] = Number(0, NoMax, Undefined)
    BY DEF aggValueParams
  <2>2. param["start_time"] = caHttpParam(aggValueParams, given, "start_time")
    BY <1>2
  <2> HIDE DEF param, given
  <2>3. caHttpParam(aggValueParams, given, "start_time") # Invalid
    BY <1>1, <1>2, <1>3, <2>2
  <2>4. caHttpParam(aggValueParams, given, "start_time") \in 0 .. NoMax \cup {Undefined}
    BY <2>1, <2>3, NumberParam
  <2> QED BY <2>2, <2>4
<1>6. param.end_time \in 0 .. NoMax \cup {Undefined}
  <2>1. aggValueParams["end_time"] = Number(0, NoMax, Undefined)
    BY DEF aggValueParams
  <2>2. param["end_time"] = caHttpParam(aggValueParams, given, "end_time")
    BY <1>2
  <2> HIDE DEF param, given
  <2>3. caHttpParam(aggValueParams, given, "end_time") # Invalid
    BY <1>1, <1>2, <1>3, <2>2
  <2>4. caHttpParam(aggValueParams, given, "end_time") \in 0 .. NoMax \cup {Undefined}
    BY <2>1, <2>3, NumberParam
  <2> QED BY <2>2, <2>4
<1>7. param.ndatapoints \in 1 .. NoMax \cup {1}
  <2>1. aggValueParams["ndatapoints"] = Number(1, NoMax, 1)
    BY DEF aggValueParams
  <2>2. param["ndatapoints"] = caHttpParam(aggValueParams, given, "ndatapoints")
    BY <1>2
  <2> HIDE DEF param, given
  <2>3. caHttpParam(aggValueParams, given, "ndatapoints") # Invalid
    BY <1>1, <1>2, <1>3, <2>2
  <2>4. caHttpParam(aggValueParams, given, "ndatapoints") \in 1 .. NoMax \cup {1}
    BY <2>1, <2>3, NumberParam
  <2> QED BY <2>2, <2>4
<1>8. interval.start \in Int /\ interval.duration \in Nat \ {0}
  <2>1. /\ param.start_time \in Nat \cup {Undefined} /\ param.end_time \in Nat \cup {Undefined}
        /\ param.duration \in Nat \cup {Undefined}
    <3> HIDE DEF param, hour
    <3>1. 1 .. hour \subseteq Nat /\ 0 .. NoMax \subseteq Nat
      BY <1>hour, NoMaxType
    <3> QED BY <1>4, <1>5, <1>6, <3>1
  <2> HIDE DEF param
  <2> QED BY <1>1, <2>1, IntervalIs
<1> DEFINE s == ptime(interval.start)
           D == ntime(interval.duration)
<1>9. normal = [start |-> s, duration |-> D]
  BY DEF normalizeInterval
<1>10. s \in Int /\ Multiple(s)
  <2> HIDE DEF interval
  <2> QED BY <1>8, ptimeIs
<1>11. D \in Nat \ {0} /\ Multiple(D)
  <2> HIDE DEF interval
  <2> QED BY <1>8, ntimeIs
<1>12. n \in Nat \ {0}
  BY <1>7, NoMaxType
<1>13. w.points = Points([start |-> s, duration |-> D], n)
  BY <1>1, <1>9
<1> HIDE DEF w, s, D, n
<1>14. Lasting(w.points, s, D, n)
  BY <1>10, <1>11, <1>12, <1>13 DEF Lasting
<1> QED BY <1>10, <1>14 DEF w

LEMMA StartedIs ==
    ASSUME NEW rq, rq.impl \in {"raw", "image", "details", "average", "percentile"}, NEW i,
           NEW now \in Nat, Start(rq, i, now) \notin {NotFound, Refused}
    PROVE  \E s, D, n : Lasting(Start(rq, i, now).points, s, D, n) /\ Multiple(s)
<1> DEFINE default == caAggrImpl[rq.impl].duration
           w == loadParameters(rq, default, now)
<1>1. default \in Nat \ {0}
  BY RequestsAssumption DEF caAggrImpl
<1> HIDE DEF default
<1>2. Start(rq, i, now) = w /\ w # Invalid
  BY DEF Start, default
<1>3. \E s, D, n : Lasting(w.points, s, D, n) /\ Multiple(s)
  BY <1>1, <1>2, LoadedIs
<1> QED BY <1>2, <1>3

LEMMA AskedIs ==
    ASSUME NEW i \in Instns, NEW wanted \in Asked[i]
    PROVE  \E s, D, n : Lasting(wanted.points, s, D, n)
<1> DEFINE S == {Start(rq, i, LastTime + 1) : rq \in RawRqs} \ {NotFound, Refused}
<1>1. Asked[i] = {[points |-> r.points, transformations |-> r.transformations] : r \in S}
  BY DEF Asked
<1>2. PICK r \in S : wanted.points = r.points
  <2> HIDE DEF S
  <2> QED BY <1>1
<1>3. PICK rq \in RawRqs : r = Start(rq, i, LastTime + 1) /\ r \notin {NotFound, Refused}
  OBVIOUS
<1>4. rq.impl = "raw"
  BY DEF RawRqs, Rq
<1>5. LastTime + 1 \in Nat
  BY DatasetAssumption
<1>6. \E s, D, n : Lasting(r.points, s, D, n)
  <2> HIDE DEF S
  <2> QED BY <1>3, <1>4, <1>5, StartedIs
<1> QED BY <1>2, <1>6

-----------------------------------------------------------------------------
(* Answers are true. *)

LEMMA Elsewhere ==
    ASSUME NEW K, NEW d \in Good(K), NEW t, t \notin Periods
    PROVE  (\A k, lo : Amount(K, d, t, k, lo) = 0) /\ NamesAt(K, d, t) = {}
<1>1. d \in Datasets(K)
  BY DEF Good
<1>2. t \notin DOMAIN d.data
  BY <1>1, DatasetIs, PartialIs
<1>3. t \notin DOMAIN d.keysbytime
  BY <1>1, DatasetIs, PartialIs
<1>4. ASSUME NEW k PROVE Dist(d, k, t) = <<>>
  <2>1. Get(d.distbykey, k, Empty) \in Partial(Periods, Distributions)
    BY <1>1, DistIs
  <2>2. t \notin DOMAIN Get(d.distbykey, k, Empty)
    BY <2>1, PartialIs
  <2> QED BY <2>2 DEF Dist, Get
<1>5. \A lo : In(<<>>, lo) = 0
  BY InEmpty
<1>6. Get(d.keysbytime, t, {}) = {}
  BY <1>3 DEF Get
<1> QED BY <1>2, <1>4, <1>5, <1>6 DEF Amount, NamesAt

LEMMA ToldAt ==
    ASSUME Inv(kind), ~tainted, ~Spoiled, NEW t
    PROVE  Told(kind, ds, t, Get(heard, t, {}))
<1>1. Clean(kind, ds)
  BY KindType DEF Spoiled, Clean
<1>2. CASE t \in Periods
  BY <1>1, <1>2 DEF Inv, Faithful
<1>3. CASE t \notin Periods
  <2>1. ds \in Good(kind) /\ t \notin DOMAIN heard
    BY <1>3 DEF Inv, TypeInv, Heeded
  <2>2. Get(heard, t, {}) = {}
    BY <2>1 DEF Get
  <2> QED BY <1>3, <2>1, <2>2, Elsewhere, NothingSaid DEF Told
<1> QED BY <1>2, <1>3

LEMMA CountedIs == \A t : Counted(t) = CountedOf(Get(heard, t, {}))
BY DEF Counted, CountedOf, Get

LEMMA SaysIs == \A v, k, lo : Says(v, k, lo) = SaysOf(kind, v, k, lo)
<1> SUFFICES ASSUME NEW v, NEW k, NEW lo PROVE Says(v, k, lo) = SaysOf(kind, v, k, lo)
  OBVIOUS
<1>1. CASE kind = "Scalar"
  BY <1>1 DEF Says, SaysOf
<1>2. CASE kind = "Decomp"
  BY <1>2 DEF Says, SaysOf
<1>3. CASE kind = "HeatmapScalar"
  BY <1>3 DEF Says, SaysOf
<1>4. CASE kind = "HeatmapDecomp"
  BY <1>4 DEF Says, SaysOf
<1> QED BY <1>1, <1>2, <1>3, <1>4, KindType DEF Kinds

\* The sum of the reports of some periods is what the dataset says of them.
LEMMA TruthIs ==
    ASSUME Inv(kind), ~tainted, ~Spoiled, NEW ts, IsFiniteSet(ts), NEW k, NEW lo
    PROVE  Truth(ts, k, lo) = SumFunctionOnSet(AmountsAt(kind, ds, ts, k, lo), ts)
<1> DEFINE inner(t) == [r \in Counted(t) |-> Says(r.datum, k, lo)]
           f == [t \in ts |-> SumFunction(inner(t))]
           g == AmountsAt(kind, ds, ts, k, lo)
<1>1. ds \in Good(kind) /\ Heeded(kind, heard, updates) /\ kind \in Kinds
  BY KindType DEF Inv, TypeInv
<1>2. Ints(g, ts)
  BY <1>1, AmountType
<1>3. ASSUME NEW t \in ts PROVE f[t] = g[t]
  <2> DEFINE R == Get(heard, t, {})
             h == inner(t)
  <2>1. R \in SUBSET Reports(kind) /\ IsFiniteSet(R)
    BY <1>1, HeededAt
  <2>2. DOMAIN h = CountedOf(R)
    BY CountedIs
  <2>3. \A r \in CountedOf(R) : h[r] = SaidBy(kind, R, k, lo)[r]
    <3>1. CountedOf(R) \subseteq R
      BY DEF CountedOf
    <3>2. Counted(t) = CountedOf(R)
      BY CountedIs
    <3>3. ASSUME NEW r \in CountedOf(R) PROVE h[r] = SaidBy(kind, R, k, lo)[r]
      <4>1. h[r] = Says(r.datum, k, lo)
        BY <3>2
      <4>2. Says(r.datum, k, lo) = SaysOf(kind, r.datum, k, lo)
        BY SaysIs
      <4> QED BY <3>1, <4>1, <4>2 DEF SaidBy
    <3> QED BY <3>3
  <2>4. f[t] = SumFunction(h)
    OBVIOUS
  <2>5. Told(kind, ds, t, R)
    BY ToldAt
  <2>6. g[t] = Amount(kind, ds, t, k, lo)
    BY DEF AmountsAt
  <2> HIDE DEF h, f, g, R
  <2>7. SumFunction(h) = SumFunctionOnSet(h, CountedOf(R))
    BY <2>2, SumWhole
  <2>8. SumOf(kind, R, k, lo) = SumFunctionOnSet(h, CountedOf(R))
    <3>1. Ints(SaidBy(kind, R, k, lo), CountedOf(R))
      BY <1>1, <2>1, SaidType
    <3> QED BY <2>3, <3>1, SumSame DEF SumOf
  <2> QED BY <2>4, <2>5, <2>6, <2>7, <2>8 DEF Told
<1>4. Truth(ts, k, lo) = SumFunction(f) /\ DOMAIN f = ts
  BY DEF Truth
<1> HIDE DEF f, g
<1>5. SumFunction(f) = SumFunctionOnSet(f, ts)
  BY <1>4, SumWhole
<1>6. SumFunctionOnSet(g, ts) = SumFunctionOnSet(f, ts)
  BY <1>2, <1>3, SumSame
<1> QED BY <1>4, <1>5, <1>6 DEF g

LEMMA NamedIs ==
    ASSUME Inv(kind), ~tainted, ~Spoiled, kind \in {"Decomp", "HeatmapDecomp"}, NEW ts
    PROVE  Named(ts) = UNION {NamesAt(kind, ds, t) : t \in ts}
<1>1. ASSUME NEW t PROVE NamesAt(kind, ds, t) = UNION {DOMAIN r.datum : r \in Counted(t)}
  <2>1. NamesAt(kind, ds, t) = NamesIn(kind, Get(heard, t, {}))
    BY ToldAt DEF Told
  <2>2. Counted(t) = CountedOf(Get(heard, t, {}))
    BY CountedIs
  <2>3. \A v : NamesOf(kind, v) = DOMAIN v
    BY DEF NamesOf
  <2> QED BY <2>1, <2>2, <2>3 DEF NamesIn
<1>2. ASSUME NEW x PROVE x \in Named(ts) <=> \E t \in ts : \E r \in Counted(t) : x \in DOMAIN r.datum
  BY DEF Named
<1>3. ASSUME NEW x
      PROVE  x \in UNION {NamesAt(kind, ds, t) : t \in ts} <=>
                 \E t \in ts : \E r \in Counted(t) : x \in DOMAIN r.datum
  BY <1>1
<1> QED BY <1>2, <1>3

\* The points of an answer, taken together, are the whole interval.
LEMMA AnswerTells ==
    ASSUME Inv(kind), ~tainted, ~Spoiled, NEW points, NEW s, NEW D, NEW n,
           Lasting(points, s, D, n), NEW v,
           v = [i \in DOMAIN points |-> dataForTime(ds, points[i].start, points[i].duration)]
    PROVE  /\ \A k, lo : SumFunctionOnSet([i \in DOMAIN points |-> SaysOf(kind, v[i], k, lo)],
                                          DOMAIN points) = Truth(Whole(points), k, lo)
           /\ UNION {NamesOf(kind, v[i]) : i \in DOMAIN points} =
                  UNION {NamesAt(kind, ds, t) : t \in Whole(points)}
<1> DEFINE I == DOMAIN points
           W == Windows(points)
           ts == Whole(points)
<1>1. /\ \A i \in I : IsFiniteSet(W[i])
      /\ \A i, j \in I : i # j => W[i] \cap W[j] = {}
      /\ Together(W, I) = ts
  BY WindowsApart
<1>2. ds \in Good(kind) /\ kind \in Kinds /\ Clean(kind, ds)
  BY KindType DEF Inv, TypeInv, Spoiled, Clean
<1>3. IsFiniteSet(I)
  <2>1. I = 1 .. n /\ n \in Nat
    BY LastingAt DEF Lasting
  <2>2. 1 \in Int /\ n \in Int
    BY <2>1
  <2> HIDE DEF I
  <2> QED BY <2>1, <2>2, FS_Interval
<1>4. ASSUME NEW i \in I PROVE Tells(kind, ds, W[i], v[i])
  <2>1. W[i] = Window(points[i].start, points[i].duration)
    BY DEF Windows
  <2>2. v[i] = dataForTime(ds, points[i].start, points[i].duration)
    OBVIOUS
  <2>3. IsFiniteSet(Window(points[i].start, points[i].duration))
    BY <1>1, <2>1
  <2> HIDE DEF W
  <2> QED BY <1>2, <2>1, <2>2, <2>3, dataForTimeTells
<1> HIDE DEF W, I
<1>5. \A i \in I : W[i] \subseteq ts
  BY <1>1 DEF Together
<1>6. ASSUME NEW k, NEW lo
      PROVE  SumFunctionOnSet([i \in I |-> SaysOf(kind, v[i], k, lo)], I) = Truth(ts, k, lo)
  <2> DEFINE f == AmountsAt(kind, ds, ts, k, lo)
             g == [i \in I |-> SaysOf(kind, v[i], k, lo)]
  <2>1. ASSUME NEW i \in I
        PROVE  Ints(f, W[i]) /\ SaysOf(kind, v[i], k, lo) = SumFunctionOnSet(f, W[i])
    <3> DEFINE h == AmountsAt(kind, ds, W[i], k, lo)
    <3>1. SaysOf(kind, v[i], k, lo) = SumFunctionOnSet(h, W[i])
      BY <1>2, <1>4 DEF Tells
    <3>2. Ints(h, W[i])
      BY <1>1, <1>2, AmountType
    <3>3. \A t \in W[i] : h[t] = f[t]
      BY <1>5 DEF AmountsAt
    <3> HIDE DEF h, f
    <3>4. SumFunctionOnSet(h, W[i]) = SumFunctionOnSet(f, W[i])
      BY <3>2, <3>3, SumSame
    <3>5. Ints(f, W[i])
      BY <3>2, <3>3 DEF Ints
    <3> QED BY <3>1, <3>4, <3>5
  <2>2. Parted(f, W, I)
    <3> HIDE DEF f
    <3> QED BY <1>1, <1>3, <2>1 DEF Parted
  <2>3. \A i \in I : SumsOf(f, W, I)[i] = g[i]
    <3> HIDE DEF f
    <3> QED BY <2>1 DEF SumsOf
  <2> HIDE DEF g
  <2>4. /\ Ints(f, ts) /\ Ints(SumsOf(f, W, I), I)
        /\ SumFunctionOnSet(SumsOf(f, W, I), I) = SumFunctionOnSet(f, ts)
    <3> HIDE DEF f
    <3> QED BY <1>1, <2>2, SumTogether
  <2>5. SumFunctionOnSet(SumsOf(f, W, I), I) = SumFunctionOnSet(g, I)
    <3> HIDE DEF f
    <3> QED BY <2>3, <2>4, SumSame
  <2>6. IsFiniteSet(ts)
    BY <2>4 DEF Ints
  <2>7. Truth(ts, k, lo) = SumFunctionOnSet(f, ts)
    <3> HIDE DEF ts
    <3> QED BY <2>6, TruthIs
  <2> QED BY <2>4, <2>5, <2>7 DEF g
<1>7. UNION {NamesOf(kind, v[i]) : i \in I} = UNION {NamesAt(kind, ds, t) : t \in ts}
  <2>1. \A i \in I : NamesOf(kind, v[i]) = UNION {NamesAt(kind, ds, t) : t \in W[i]}
    BY <1>2, <1>4 DEF Tells
  <2>2. ASSUME NEW x
        PROVE  x \in UNION {NamesOf(kind, v[i]) : i \in I} <=>
                   \E i \in I : \E t \in W[i] : x \in NamesAt(kind, ds, t)
    BY <2>1
  <2>3. ASSUME NEW x
        PROVE  x \in UNION {NamesAt(kind, ds, t) : t \in ts} <=>
                   \E i \in I : \E t \in W[i] : x \in NamesAt(kind, ds, t)
    BY <1>1 DEF Together
  <2> QED BY <2>2, <2>3
<1> QED BY <1>6, <1>7 DEF I

LEMMA RawIsTruthFrom == Inv(kind) /\ instn \in Instns /\ ~tainted /\ ~Spoiled => RawIsTruth
<1> SUFFICES ASSUME Inv(kind), instn \in Instns, ~tainted, ~Spoiled, NEW wanted \in Asked[instn]
             PROVE  LET answer == complete(ds, wanted)
                        ts == Whole(wanted.points)
                    IN  /\ \A k \in Keys, lo \in Los :
                              SumFunction([i \in DOMAIN answer |-> Says(answer[i].value, k, lo)])
                                  = Truth(ts, k, lo)
                        /\ kind \in {"Decomp", "HeatmapDecomp"} =>
                              \A x \in ToSet(wanted.transformations) \ Broken :
                                  UNION {answer[i].transformations[x] : i \in DOMAIN answer} = Named(ts)
  BY DEF RawIsTruth
<1> DEFINE points == wanted.points
           answer == complete(ds, wanted)
           I == DOMAIN points
           v == [i \in I |-> dataForTime(ds, points[i].start, points[i].duration)]
           ts == Whole(points)
           names(i) == IF kind \in {"Decomp", "HeatmapDecomp"} THEN DOMAIN v[i] ELSE {}
<1>1. PICK s, D, n : Lasting(points, s, D, n)
  BY AskedIs
<1>2. DOMAIN answer = I /\ \A i \in I : answer[i].value = v[i]
  BY DEF complete, caAggrValueRaw
<1>3. \A i \in I : answer[i].transformations = aggHttpValueTransform(wanted.transformations, names(i))
  BY DEF complete, caAggrValueRaw
<1>4. /\ \A k, lo : SumFunctionOnSet([i \in I |-> SaysOf(kind, v[i], k, lo)], I) = Truth(ts, k, lo)
      /\ UNION {NamesOf(kind, v[i]) : i \in I} = UNION {NamesAt(kind, ds, t) : t \in ts}
  <2>1. v = [i \in DOMAIN points |-> dataForTime(ds, points[i].start, points[i].duration)]
    OBVIOUS
  <2> HIDE DEF points, v, ts
  <2> QED BY <1>1, <2>1, AnswerTells DEF ts
<1> HIDE DEF answer, v, I
<1>5. ASSUME NEW k \in Keys, NEW lo \in Los
      PROVE  SumFunction([i \in DOMAIN answer |-> Says(answer[i].value, k, lo)]) = Truth(ts, k, lo)
  <2> DEFINE f == [i \in DOMAIN answer |-> Says(answer[i].value, k, lo)]
             g == [i \in I |-> SaysOf(kind, v[i], k, lo)]
  <2>1. \A i \in I : Says(answer[i].value, k, lo) = SaysOf(kind, v[i], k, lo)
    BY <1>2, SaysIs
  <2>2. f = g /\ DOMAIN g = I
    BY <1>2, <2>1
  <2>3. SumFunctionOnSet(g, I) = Truth(ts, k, lo)
    BY <1>4
  <2> HIDE DEF f, g
  <2>4. SumFunction(g) = SumFunctionOnSet(g, I)
    BY <2>2, SumWhole
  <2>5. SumFunction(f) = Truth(ts, k, lo)
    BY <2>2, <2>3, <2>4
  <2> QED BY <2>5 DEF f
<1>6. ASSUME kind \in {"Decomp", "HeatmapDecomp"}, NEW x \in ToSet(wanted.transformations) \ Broken
      PROVE  UNION {answer[i].transformations[x] : i \in DOMAIN answer} = Named(ts)
  <2>1. \A i \in I : names(i) = NamesOf(kind, v[i])
    BY <1>6 DEF NamesOf
  <2> HIDE DEF names
  <2>2. \A i \in I : answer[i].transformations[x] = NamesOf(kind, v[i])
    <3>1. ASSUME NEW keys PROVE aggHttpValueTransform(wanted.transformations, keys)[x] = keys
      BY <1>6 DEF aggHttpValueTransform
    <3> QED BY <1>3, <2>1, <3>1
  <2>3. {answer[i].transformations[x] : i \in DOMAIN answer} = {NamesOf(kind, v[i]) : i \in I}
    BY <1>2, <2>2
  <2>4. Named(ts) = UNION {NamesAt(kind, ds, t) : t \in ts}
    <3> HIDE DEF ts
    <3> QED BY <1>6, NamedIs
  <2> HIDE DEF ts
  <2> QED BY <1>4, <2>3, <2>4
<1> QED BY <1>5, <1>6 DEF answer

\* The instrumentation stays, and with it the kind.
LEMMA InstnStays == Spec => [](instn \in Instns)
<1>1. Init => instn \in Instns
  BY DEF Init
<1>2. instn \in Instns /\ [Next]_datavars => (instn \in Instns)'
  BY DEF Next, Update, Expire, Save, Crash, Load, datavars
<1> QED BY <1>1, <1>2, PTL DEF Spec

\* Whatever is asked, in whatever order data arrived, expired, were saved,
\* lost and restored, the points that are answered add up to the sum of the
\* reports that count of the whole interval, and what is transformed are their
\* names, unless a stash was loaded twice or the zero is spoiled
\* (caAggrValueRequest: loadParameters, complete; caDataset).
THEOREM AnswersAreTrue == Spec => []Accurate
<1>1. Inv(kind) /\ instn \in Instns => Accurate
  BY RawIsTruthFrom DEF Accurate
<1> QED BY <1>1, InvHolds, InstnStays, PTL

-----------------------------------------------------------------------------
(* Heatmaps. *)

\* Which datasets have heatmaps.
LEMMA HeatmapKinds ==
    instn \in Instns /\ instn.arity = "numeric" => kind \in {"HeatmapScalar", "HeatmapDecomp"}
BY InstnsAssumption DEF kind, caDatasetForInstrumentation

\* The sum of some summands, listed without repetition, is not more than that
\* of all.
LEMMA SumListed ==
    ASSUME NEW g, NEW S, Ints(g, S), \A x \in S : g[x] >= 0,
           NEW I, IsFiniteSet(I), NEW f, NEW h,
           \A i \in I : h[i] \in S /\ f[i] = g[h[i]],
           \A i, j \in I : h[i] = h[j] => i = j
    PROVE  /\ Ints(f, I) /\ SumFunctionOnSet(f, I) \in Nat
           /\ SumFunctionOnSet(f, I) <= SumFunctionOnSet(g, S)
<1> DEFINE A == Renamed(h, I)
           B == S \ A
<1>1. \A i \in I : f[i] \in Int /\ f[i] >= 0
  BY DEF Ints
<1>2. Ints(f, I) /\ Renames(h, f, g, I)
  BY <1>1 DEF Ints, Renames
<1>3. Ints(g, A) /\ SumFunctionOnSet(g, A) = SumFunctionOnSet(f, I)
  BY <1>2, SumRenamed
<1>4. A \subseteq S
  BY DEF Renamed
<1>5. SumFunctionOnSet(f, I) \in Nat
  BY <1>1, <1>2, SumNat
<1> HIDE DEF A
<1>6. Ints(g, B) /\ A \cup B = S /\ A \cap B = {}
  BY <1>4, IntsSubset
<1>7. SumFunctionOnSet(g, B) \in Nat
  BY <1>6, SumNat
<1> HIDE DEF B
<1>8. SumFunctionOnSet(g, S) = SumFunctionOnSet(g, A) + SumFunctionOnSet(g, B)
  <2>1. Ints(g, A \cup B)
    BY <1>6
  <2>2. SumFunctionOnSet(g, A \cup B) = SumFunctionOnSet(g, A) + SumFunctionOnSet(g, B)
    BY <2>1, <1>6, SumParts
  <2> QED BY <1>6, <2>2
<1> QED BY <1>2, <1>3, <1>5, <1>7, <1>8

\* What a column has of the names, and of all of them.
AllOf(d, t, lo) == In(Get(total(d), t, <<>>), lo)

LEMMA ColumnIs ==
    ASSUME NEW series, NEW t, NEW lo \in Los
    PROVE  Column(series, t)[lo] = In(Get(series, t, <<>>), lo)
BY DEF Column

\* A column has what those of the names have together, or there are no names.
LEMMA AllOfIs ==
    ASSUME Inv(kind), kind \in {"HeatmapScalar", "HeatmapDecomp"}, NEW t, NEW lo
    PROVE  /\ AllOf(ds, t, lo) \in Nat
           /\ Ints(Parts(ds, t, lo), Keys)
           /\ \A k \in Keys : /\ Parts(ds, t, lo)[k] >= 0
                              /\ Parts(ds, t, lo)[k] = In(Get(dataForKey(ds, k), t, <<>>), lo)
           /\ SumFunctionOnSet(Parts(ds, t, lo), Keys) <= AllOf(ds, t, lo)
           /\ kind = "HeatmapDecomp" =>
                  SumFunctionOnSet(Parts(ds, t, lo), Keys) = AllOf(ds, t, lo)
<1>1. ds \in Good(kind) /\ ds \in Datasets(kind)
  BY DEF Inv, TypeInv, Good
<1>2. Ints(Parts(ds, t, lo), Keys) /\ \A k : In(Dist(ds, k, t), lo) \in Nat
  BY <1>1, DistIs
<1>3. \A k \in Keys : /\ Parts(ds, t, lo)[k] >= 0
                      /\ Parts(ds, t, lo)[k] = In(Get(dataForKey(ds, k), t, <<>>), lo)
  BY <1>2 DEF Parts, Dist, dataForKey
<1>4. SumFunctionOnSet(Parts(ds, t, lo), Keys) \in Nat
  BY <1>2, <1>3, SumNat
<1>5. CASE kind = "HeatmapDecomp"
  <2>1. AllOf(ds, t, lo) = SumFunctionOnSet(Parts(ds, t, lo), Keys)
    BY <1>1, <1>5 DEF AllOf, total, Good, Agreeing
  <2> QED BY <1>2, <1>3, <1>4, <2>1
<1>6. CASE kind = "HeatmapScalar"
  <2>1. DOMAIN ds.distbykey = {}
    BY <1>1, <1>6 DEF Good
  <2>2. \A k \in Keys : Parts(ds, t, lo)[k] = 0
    BY <2>1, EmptyObject, InEmpty DEF Parts, Dist, Get
  <2>3. SumFunctionOnSet(Parts(ds, t, lo), Keys) = 0
    BY <1>2, <2>2, SumNone
  <2>4. Get(total(ds), t, <<>>) \in Distributions
    <3>1. total(ds) = [u \in DOMAIN ds.data |-> DataAt(ds, u)]
      BY <1>6 DEF total
    <3>2. \A u \in DOMAIN ds.data : DataAt(ds, u) \in Distributions
      BY <1>1, <1>6, DatasetIs DEF Datum
    <3> QED BY <3>1, <3>2, EmptyDistribution DEF Get
  <2>5. AllOf(ds, t, lo) \in Nat
    BY <2>4, InSum DEF AllOf, Distributions
  <2> QED BY <1>2, <1>3, <1>6, <2>3, <2>5
<1> QED BY <1>5, <1>6

\* A sequence lists names without repetition.
Lists(s) == /\ Len(s) \in Nat /\ DOMAIN s = 1 .. Len(s)
            /\ \A i \in DOMAIN s : s[i] \in Keys
            /\ \A i, j \in DOMAIN s : s[i] = s[j] => i = j

LEMMA SetToSeqLists ==
    ASSUME NEW S \in SUBSET Keys
    PROVE  Lists(SetToSeq(S))
<1>1. IsFiniteSet(S)
  BY DatasetAssumption, FS_Subset
<1> DEFINE n == Cardinality(S)
<1>2. n \in Nat /\ ExistsBijection(1 .. n, S)
  BY <1>1, FS_CardinalityType, FS_NatBijection, FS_CountingElements
<1>3. PICK f \in [1 .. n -> S] : IsInjective(f)
  BY <1>2 DEF ExistsBijection, Bijection, Injection, IsInjective
<1>4. SetToSeq(S) \in [1 .. n -> S] /\ IsInjective(SetToSeq(S))
  BY <1>3 DEF SetToSeq
<1> DEFINE s == SetToSeq(S)
<1> HIDE DEF n, s
<1>5. s \in [1 .. n -> S] /\ \A i, j \in DOMAIN s : s[i] = s[j] => i = j
  BY <1>4 DEF s, IsInjective
<1>6. s \in Seq(S) /\ Len(s) = n
  BY <1>2, <1>5
<1>7. Lists(s)
  BY <1>2, <1>5, <1>6 DEF Lists
<1> QED BY <1>7 DEF s

LEMMA SelectionsList == ASSUME NEW s \in Selections PROVE Lists(s)
<1>1. CASE s = <<>>
  BY <1>1 DEF Lists
<1>2. CASE \E k \in Keys : s = <<k>>
  BY <1>2 DEF Lists
<1>3. CASE s \in {q \in Keys \X Keys : q[1] # q[2]}
  <2>1. PICK a \in Keys, b \in Keys : s = <<a, b>> /\ a # b
    BY <1>3
  <2> QED BY <2>1 DEF Lists
<1> QED BY <1>1, <1>2, <1>3 DEF Selections

\* What is asked of an image.
LEMMA ImageConfIs ==
    ASSUME NEW conf \in Images
    PROVE  /\ conf.isolate \in BOOLEAN /\ conf.exclude \in BOOLEAN
           /\ conf.decompose_all \in BOOLEAN /\ Lists(conf.selected)
           /\ conf.hues # Undefined => /\ Len(conf.hues) \in Int
                                       /\ Len(conf.hues) >= Len(conf.selected)
                                       /\ ~conf.isolate => Len(conf.hues) >= Len(conf.selected) + 1
<1>1. PICK q \in ImageQueries : conf = ImageConf(q) /\ conf # Invalid
  BY DEF Images
<1> DEFINE own == {"selected", "isolate", "exclude", "decompose_all"}
           all == {"height", "width", "nbuckets", "ymin", "ymax", "weights", "coloring", "hues"} \cup own
           param == [p \in own |-> caHttpParam(caAggrHeatmapParams, q, p)]
           f == [p \in all |-> caHttpParam(caAggrHeatmapParams, q, p)]
           nhues == Len(param.selected) + IF param.isolate THEN 0 ELSE 1
<1>2. conf = caAggrHeatmapConf(q, DOMAIN param, param.isolate, Len(param.selected))
  BY <1>1 DEF ImageConf
<1>3. DOMAIN param = own
  OBVIOUS
<1>4. conf = f /\ (f.hues # Undefined => ~(nhues > Len(f.hues)))
  BY <1>1, <1>2, <1>3 DEF caAggrHeatmapConf
<1>5. ASSUME NEW p \in {"isolate", "exclude", "decompose_all"}
      PROVE  caHttpParam(caAggrHeatmapParams, q, p) \in BOOLEAN
  <2>1. caAggrHeatmapParams[p] = Flag
    BY DEF caAggrHeatmapParams
  <2>2. q[p] \in BOOLEAN /\ p \in DOMAIN q
    BY DEF ImageQueries
  <2> DEFINE D == caAggrHeatmapParams[p]
             raw == q[p]
  <2>3. D.type = "boolean" /\ D.required = FALSE /\ D.default = FALSE
    BY <2>1 DEF Flag
  <2>4. Get(q, p, Undefined) = raw
    BY <2>2 DEF Get
  <2>5. raw \in BOOLEAN
    BY <2>2
  <2> HIDE DEF D, raw
  <2>6. raw # Undefined => caHttpParam(caAggrHeatmapParams, q, p) = raw
    BY <2>3, <2>4, <2>5 DEF caHttpParam, D
  <2>7. raw = Undefined => caHttpParam(caAggrHeatmapParams, q, p) = D.default
    BY <2>3, <2>4 DEF caHttpParam, D
  <2>8. D.default \in BOOLEAN
    BY <2>3
  <2> QED BY <2>5, <2>6, <2>7, <2>8
<1>6. caHttpParam(caAggrHeatmapParams, q, "selected") \in Selections
  <2>1. caAggrHeatmapParams["selected"] = Array(<<>>)
    BY DEF caAggrHeatmapParams
  <2>2. q["selected"] \in Selections /\ "selected" \in DOMAIN q
    BY DEF ImageQueries
  <2>3. <<>> \in Selections
    BY DEF Selections
  <2> QED BY <2>1, <2>2, <2>3 DEF caHttpParam, Get, Array
<1>7. caHttpParam(caAggrHeatmapParams, q, "hues") \in Hues
  <2>1. caAggrHeatmapParams["hues"] = Array(Undefined)
    BY DEF caAggrHeatmapParams
  <2>2. q["hues"] \in Hues /\ "hues" \in DOMAIN q
    BY DEF ImageQueries
  <2> QED BY <2>1, <2>2 DEF caHttpParam, Get, Array
<1>8. /\ f["isolate"] \in BOOLEAN /\ f["exclude"] \in BOOLEAN /\ f["decompose_all"] \in BOOLEAN
      /\ f["selected"] \in Selections /\ f["hues"] \in Hues
      /\ param["isolate"] = f["isolate"] /\ param["selected"] = f["selected"]
  BY <1>5, <1>6, <1>7
<1> HIDE DEF f, param, own, all
<1>9. Lists(f.selected) /\ Len(f.selected) \in Nat
  BY <1>8, SelectionsList DEF Lists
<1>10. f.hues # Undefined => Len(f.hues) \in Nat
  BY <1>8 DEF Hues
<1>11. f.hues # Undefined => /\ Len(f.hues) >= Len(f.selected)
                             /\ ~f.isolate => Len(f.hues) >= Len(f.selected) + 1
  <2> SUFFICES ASSUME f.hues # Undefined
               PROVE  /\ Len(f.hues) >= Len(f.selected)
                      /\ ~f.isolate => Len(f.hues) >= Len(f.selected) + 1
    OBVIOUS
  <2> DEFINE m == Len(f.selected)
             have == Len(f.hues)
             isolate == f["isolate"]
  <2>1. ~(m + (IF isolate THEN 0 ELSE 1) > have) /\ isolate \in BOOLEAN /\ m \in Nat /\ have \in Nat
    BY <1>4, <1>8, <1>9, <1>10
  <2> HIDE DEF m, have, isolate
  <2>2. have >= m /\ (~isolate => have >= m + 1)
    <3>1. CASE isolate
      BY <2>1, <3>1
    <3>2. CASE ~isolate
      BY <2>1, <3>2
    <3> QED BY <3>1, <3>2
  <2> QED BY <2>2 DEF m, have, isolate
<1> QED BY <1>4, <1>8, <1>9, <1>10, <1>11

\* There is a hue for each dataset that is shown.
LEMMA HuesAre ==
    ASSUME NEW n \in Nat, NEW isolate \in BOOLEAN
    PROVE  /\ Len(caAggrHeatmapHues(n, isolate)) \in Nat
           /\ isolate => Len(caAggrHeatmapHues(n, isolate)) = n
           /\ ~isolate => Len(caAggrHeatmapHues(n, isolate)) = n + 1
<1> DEFINE hues == [i \in 1..(n + 1) |-> (21 + (i - 1) * 91) % 360]
<1>1. hues \in Seq(Int) /\ Len(hues) = n + 1
  <2>1. \A i \in 1 .. (n + 1) : (21 + (i - 1) * 91) % 360 \in Int
    OBVIOUS
  <2> QED BY <2>1
<1>2. caAggrHeatmapHues(n, isolate) = IF isolate THEN Tail(hues) ELSE hues
  BY DEF caAggrHeatmapHues
<1> HIDE DEF hues
<1>3. Len(Tail(hues)) = n
  BY <1>1
<1> QED BY <1>1, <1>2, <1>3

LEMMA SumPair ==
    ASSUME NEW f, NEW n \in Nat, NEW c \in Int, NEW g, Ints(g, 1 .. n),
           DOMAIN f = 1 .. (n + 1), f[1] = c, \A i \in 1 .. n : f[i + 1] = g[i]
    PROVE  SumFunction(f) = c + SumFunctionOnSet(g, 1 .. n)
<1> DEFINE I == 1 .. n
           J == 2 .. (n + 1)
           h == [i \in I |-> i + 1]
<1>1. Renames(h, g, f, I) /\ Renamed(h, I) = J
  <2>1. \A i \in I : f[h[i]] = g[i]
    OBVIOUS
  <2>2. \A i, j \in I : h[i] = h[j] => i = j
    OBVIOUS
  <2>3. {h[i] : i \in I} = J
    <3>1. \A j \in J : j - 1 \in I /\ h[j - 1] = j
      OBVIOUS
    <3>2. \A i \in I : h[i] \in J
      OBVIOUS
    <3> HIDE DEF h, I, J
    <3> QED BY <3>1, <3>2
  <2> QED BY <2>1, <2>2, <2>3 DEF Renames, Renamed
<1>2. Ints(f, J) /\ SumFunctionOnSet(f, J) = SumFunctionOnSet(g, I)
  <2> HIDE DEF h, J, I
  <2>1. Ints(f, Renamed(h, I)) /\ SumFunctionOnSet(f, Renamed(h, I)) = SumFunctionOnSet(g, I)
    BY <1>1, SumRenamed DEF I
  <2> QED BY <1>1, <2>1
<1>3. 1 .. (n + 1) = J \cup {1} /\ 1 \notin J
  OBVIOUS
<1> HIDE DEF J, I, h
<1>4. SumFunction(f) = SumFunctionOnSet(f, J \cup {1})
  BY <1>3, SumWhole
<1>5. SumFunctionOnSet(f, J \cup {1}) = f[1] + SumFunctionOnSet(f, J)
  BY <1>2, <1>3, SumMore
<1> QED BY <1>2, <1>4, <1>5 DEF I

\* The columns of what is shown, and what is left of the total: nothing is
\* below zero, together they are the total.
Shared(n, parts, rest, t) ==
    LET cols == <<rest>> \o parts
    IN  /\ n \in Nat /\ DOMAIN parts = 1 .. n
        /\ \A i \in DOMAIN parts : \A lo \in Los : parts[i][lo] >= 0
        /\ \A lo \in Los : rest[lo] >= 0
        /\ \A lo \in Los : SumFunction([i \in DOMAIN cols |-> cols[i][lo]]) = Column(total(ds), t)[lo]

LEMMA ColumnsAre ==
    ASSUME Inv(kind), kind \in {"HeatmapScalar", "HeatmapDecomp"}, NEW shown, Lists(shown), NEW t,
           NEW parts, parts = [i \in DOMAIN shown |-> Column(dataForKey(ds, shown[i]), t)],
           NEW rest, rest = Deduct(Column(total(ds), t), parts)
    PROVE  Shared(Len(shown), parts, rest, t)
<1> DEFINE n == Len(shown)
           I == 1 .. n
           cols == <<rest>> \o parts
<1>1. n \in Nat /\ DOMAIN shown = I /\ DOMAIN parts = I /\ IsFiniteSet(I)
  <2>1. n \in Nat /\ DOMAIN shown = 1 .. n
    BY DEF Lists
  <2>2. 1 \in Int /\ n \in Int
    BY <2>1
  <2> QED BY <2>1, <2>2, FS_Interval
<1>2. \A i \in I : shown[i] \in Keys
  BY <1>1 DEF Lists
<1>3. \A i, j \in I : shown[i] = shown[j] => i = j
  BY <1>1 DEF Lists
<1> HIDE DEF n, I
<1>4. ASSUME NEW lo \in Los
      PROVE  /\ \A i \in I : parts[i][lo] >= 0
             /\ rest[lo] >= 0 /\ rest[lo] \in Int
             /\ Ints([i \in I |-> parts[i][lo]], I)
             /\ Column(total(ds), t)[lo] = rest[lo] + SumFunctionOnSet([i \in I |-> parts[i][lo]], I)
  <2> DEFINE g == Parts(ds, t, lo)
             f == [i \in I |-> parts[i][lo]]
             all == AllOf(ds, t, lo)
  <2>1. /\ all \in Nat /\ Ints(g, Keys) /\ \A k \in Keys : g[k] >= 0
        /\ SumFunctionOnSet(g, Keys) <= all
    BY AllOfIs
  <2>2. \A k \in Keys : g[k] = In(Get(dataForKey(ds, k), t, <<>>), lo)
    BY AllOfIs
  <2>3. \A i \in I : f[i] = g[shown[i]]
    <3>1. \A i \in I : parts[i] = Column(dataForKey(ds, shown[i]), t)
      BY <1>1
    <3>2. \A i \in I : parts[i][lo] = In(Get(dataForKey(ds, shown[i]), t, <<>>), lo)
      BY <3>1, ColumnIs
    <3> HIDE DEF g
    <3> QED BY <1>2, <2>2, <3>2
  <2>4. /\ Ints(f, I) /\ SumFunctionOnSet(f, I) \in Nat
        /\ SumFunctionOnSet(f, I) <= SumFunctionOnSet(g, Keys)
    <3> HIDE DEF f, g
    <3> QED BY <1>1, <1>2, <1>3, <2>1, <2>3, SumListed
  <2>5. Column(total(ds), t)[lo] = all
    BY ColumnIs DEF AllOf
  <2>6. rest[lo] = all - SumFunctionOnSet(f, I)
    <3>1. rest[lo] = Column(total(ds), t)[lo] - SumFunction([i \in DOMAIN parts |-> parts[i][lo]])
      BY DEF Deduct
    <3>2. [i \in DOMAIN parts |-> parts[i][lo]] = f /\ DOMAIN f = I
      BY <1>1
    <3> HIDE DEF f, all
    <3>3. SumFunction(f) = SumFunctionOnSet(f, I)
      BY <3>2, SumWhole
    <3> QED BY <2>5, <3>1, <3>2, <3>3
  <2>7. SumFunctionOnSet(g, Keys) \in Int
    <3> HIDE DEF g
    <3> QED BY <2>1, SumType
  <2>8. \A i \in I : parts[i][lo] >= 0
    <3>1. \A i \in I : parts[i][lo] = f[i]
      OBVIOUS
    <3> HIDE DEF f, g
    <3> QED BY <1>2, <2>1, <2>3, <3>1
  <2> HIDE DEF f, g, all
  <2>9. rest[lo] >= 0 /\ rest[lo] \in Int /\ all = rest[lo] + SumFunctionOnSet(f, I)
    BY <2>1, <2>4, <2>6, <2>7
  <2> QED BY <2>4, <2>5, <2>8, <2>9 DEF f
<1>5. ASSUME NEW lo \in Los
      PROVE  SumFunction([i \in DOMAIN cols |-> cols[i][lo]]) = Column(total(ds), t)[lo]
  <2> DEFINE F == [i \in DOMAIN cols |-> cols[i][lo]]
             g == [i \in I |-> parts[i][lo]]
  <2>1. DOMAIN cols = 1 .. (n + 1) /\ cols[1] = rest /\ \A i \in 1 .. n : cols[i + 1] = parts[i]
    <3> DEFINE R == {parts[i] : i \in 1 .. n}
    <3>1. parts \in Seq(R) /\ Len(parts) = n
      <4>1. parts = [i \in 1 .. n |-> parts[i]]
        BY <1>1 DEF I
      <4>2. \A i \in 1 .. n : parts[i] \in R
        OBVIOUS
      <4> HIDE DEF R
      <4>3. parts \in [1 .. n -> R]
        BY <4>1, <4>2
      <4> QED BY <1>1, <4>3
    <3>2. <<rest>> \in Seq({rest}) /\ Len(<<rest>>) = 1
      OBVIOUS
    <3> QED BY <1>1, <3>1, <3>2 DEF I
  <2>2. DOMAIN F = 1 .. (n + 1) /\ F[1] = rest[lo] /\ \A i \in 1 .. n : F[i + 1] = g[i]
    <3> HIDE DEF cols
    <3> QED BY <1>1, <2>1 DEF I
  <2>3. Ints(g, 1 .. n) /\ rest[lo] \in Int
    BY <1>4 DEF I
  <2> HIDE DEF F, g
  <2>4. SumFunction(F) = rest[lo] + SumFunctionOnSet(g, 1 .. n)
    BY <1>1, <2>2, <2>3, SumPair
  <2> QED BY <1>4, <2>4 DEF F, g, I
<1> QED BY <1>1, <1>4, <1>5 DEF n, I, Shared

LEMMA keysForTimeType ==
    ASSUME Inv(kind), NEW start, NEW duration
    PROVE  keysForTime(ds, start, duration) \in SUBSET Keys
<1>1. ds.keysbytime \in Partial(Periods, SUBSET Keys)
  BY DatasetIs DEF Inv, TypeInv, Good
<1>2. \A t : Get(ds.keysbytime, t, {}) \subseteq Keys
  BY <1>1, PartialIs DEF Get
<1> QED BY <1>2 DEF keysForTime

\* An image, as the property says it is.
ImageFits(image, conf, ts, all) ==
    /\ image.drawn \/ (conf.decompose_all /\ conf.hues # Undefined)
    /\ \A t \in ts : LET cols == image.datasets[t] IN
         /\ \A i \in DOMAIN cols, lo \in Los : cols[i][lo] >= 0
         /\ ~conf.isolate /\ ~conf.exclude => \A lo \in Los :
                SumFunction([i \in DOMAIN cols |-> cols[i][lo]]) = Column(all, t)[lo]

LEMMA ImageIs ==
    ASSUME Inv(kind), kind \in {"HeatmapScalar", "HeatmapDecomp"}, NEW conf \in Images, NEW p
    PROVE  ImageFits(HeatmapImage(ds, conf, p), conf, PeriodsOf(p.start, p.duration), total(ds))
<1> DEFINE shown == IF conf.decompose_all THEN SetToSeq(keysForTime(ds, p.start, p.duration))
                    ELSE conf.selected
           hues == IF conf.hues # Undefined THEN conf.hues
                   ELSE caAggrHeatmapHues(Len(shown), conf.isolate)
           parts(t) == [i \in DOMAIN shown |-> Column(dataForKey(ds, shown[i]), t)]
           rest(t) == Deduct(Column(total(ds), t), parts(t))
           nothing == conf.isolate /\ shown = <<>>
           datasets(t) == IF nothing THEN <<Column(Empty, t)>>
                          ELSE IF conf.isolate THEN parts(t)
                          ELSE IF conf.exclude THEN <<rest(t)>>
                          ELSE <<rest(t)>> \o parts(t)
           ndatasets == IF conf.isolate THEN Len(shown)
                        ELSE IF conf.exclude THEN 1 ELSE Len(shown) + 1
           ts == PeriodsOf(p.start, p.duration)
           image == HeatmapImage(ds, conf, p)
<1>1. /\ image.drawn = (nothing \/ Len(hues) >= ndatasets)
      /\ \A t \in ts : image.datasets[t] = datasets(t)
  BY DEF HeatmapImage
<1>2. /\ conf.isolate \in BOOLEAN /\ conf.exclude \in BOOLEAN
      /\ conf.decompose_all \in BOOLEAN /\ Lists(conf.selected)
      /\ conf.hues # Undefined => /\ Len(conf.hues) \in Int
                                  /\ Len(conf.hues) >= Len(conf.selected)
                                  /\ ~conf.isolate => Len(conf.hues) >= Len(conf.selected) + 1
  BY ImageConfIs
<1>3. Lists(shown)
  BY <1>2, keysForTimeType, SetToSeqLists
<1> HIDE DEF image
<1>4. image.drawn \/ (conf.decompose_all /\ conf.hues # Undefined)
  <2> DEFINE m == Len(shown)
             have == Len(hues)
             isolate == conf.isolate
             exclude == conf.exclude
  <2>1. isolate \in BOOLEAN /\ exclude \in BOOLEAN /\ m \in Nat
    BY <1>2, <1>3 DEF Lists
  <2>2. ASSUME ~(conf.decompose_all /\ conf.hues # Undefined)
        PROVE  have \in Int /\ have >= m /\ (~isolate => have >= m + 1)
    <3>1. CASE conf.hues # Undefined
      <4>1. hues = conf.hues /\ shown = conf.selected
        BY <2>2, <3>1
      <4> HIDE DEF hues, shown
      <4> QED BY <1>2, <3>1, <4>1
    <3>2. CASE conf.hues = Undefined
      <4>1. hues = caAggrHeatmapHues(m, isolate)
        BY <3>2
      <4> HIDE DEF hues, m, isolate
      <4>2. /\ Len(hues) \in Nat
            /\ isolate => Len(hues) = m
            /\ ~isolate => Len(hues) = m + 1
        BY <2>1, <4>1, HuesAre
      <4>3. have \in Int /\ have >= m /\ (~isolate => have >= m + 1)
        BY <2>1, <4>2
      <4> QED BY <4>3
    <3> QED BY <3>1, <3>2
  <2>3. /\ isolate => ndatasets = m
        /\ ~isolate /\ exclude => ndatasets = 1
        /\ ~isolate /\ ~exclude => ndatasets = m + 1
    <3> HIDE DEF shown
    <3> QED OBVIOUS
  <2> HIDE DEF m, have, isolate, exclude, ndatasets
  <2>4. ASSUME ~(conf.decompose_all /\ conf.hues # Undefined) PROVE have >= ndatasets
    <3> DEFINE C == conf.decompose_all /\ conf.hues # Undefined
    <3>1. have \in Int /\ have >= m /\ (~isolate => have >= m + 1)
      BY <2>2, <2>4
    <3>2. CASE isolate
      BY <2>1, <2>3, <3>1, <3>2
    <3>3. CASE ~isolate /\ exclude
      BY <2>1, <2>3, <3>1, <3>3
    <3>4. CASE ~isolate /\ ~exclude
      BY <2>1, <2>3, <3>1, <3>4
    <3> QED BY <3>2, <3>3, <3>4
  <2> HIDE DEF nothing
  <2> QED BY <1>1, <2>4 DEF have
<1>5. ASSUME NEW t \in ts
      PROVE  /\ \A i \in DOMAIN datasets(t) : \A lo \in Los : datasets(t)[i][lo] >= 0
             /\ ~conf.isolate /\ ~conf.exclude => \A lo \in Los :
                    SumFunction([i \in DOMAIN datasets(t) |-> datasets(t)[i][lo]])
                        = Column(total(ds), t)[lo]
  <2> DEFINE P == parts(t)
             R == rest(t)
             Q == <<R>> \o P
  <2>1. /\ Len(shown) \in Nat /\ DOMAIN P = 1 .. Len(shown)
        /\ \A i \in DOMAIN P : \A lo \in Los : P[i][lo] >= 0
        /\ \A lo \in Los : R[lo] >= 0
        /\ \A lo \in Los : SumFunction([i \in DOMAIN Q |-> Q[i][lo]]) = Column(total(ds), t)[lo]
    <3>1. P = [i \in DOMAIN shown |-> Column(dataForKey(ds, shown[i]), t)]
      OBVIOUS
    <3>2. R = Deduct(Column(total(ds), t), P)
      OBVIOUS
    <3> HIDE DEF shown, P, R
    <3>3. Shared(Len(shown), P, R, t)
      BY <1>3, <3>1, <3>2, ColumnsAre
    <3> QED BY <3>3 DEF Shared
  <2> HIDE DEF nothing, shown, parts, rest, P, R
  <2>2. CASE nothing
    <3>1. datasets(t) = <<Column(Empty, t)>>
      BY <2>2
    <3>2. \A lo \in Los : Column(Empty, t)[lo] = 0
      BY InEmpty, EmptyObject, ColumnIs DEF Get
    <3>3. conf.isolate
      BY <2>2 DEF nothing
    <3> HIDE DEF datasets
    <3> QED BY <3>1, <3>2, <3>3
  <2>3. CASE ~nothing /\ conf.isolate
    <3>1. datasets(t) = P
      BY <2>3 DEF P
    <3> HIDE DEF datasets
    <3> QED BY <2>1, <2>3, <3>1
  <2>4. CASE ~nothing /\ ~conf.isolate /\ conf.exclude
    <3>1. datasets(t) = <<R>>
      BY <2>4 DEF R
    <3> HIDE DEF datasets
    <3> QED BY <2>1, <2>4, <3>1
  <2>5. CASE ~nothing /\ ~conf.isolate /\ ~conf.exclude
    <3>1. datasets(t) = Q
      BY <2>5 DEF R, P
    <3>2. \A i \in DOMAIN Q : Q[i] = R \/ \E j \in DOMAIN P : Q[i] = P[j]
      <4>1. DOMAIN P = 1 .. Len(shown) /\ Len(shown) \in Nat
        BY <2>1
      <4> DEFINE n == Len(shown)
                 V == {P[i] : i \in 1 .. n}
      <4> HIDE DEF n
      <4>2. P \in Seq(V) /\ Len(P) = n
        <5>1. P = [i \in 1 .. n |-> P[i]]
          BY <4>1 DEF P, parts, n
        <5>2. \A i \in 1 .. n : P[i] \in V
          OBVIOUS
        <5> HIDE DEF V
        <5>3. P \in [1 .. n -> V]
          BY <5>1, <5>2
        <5> QED BY <4>1, <5>3 DEF n
      <4>3. DOMAIN Q = 1 .. (n + 1) /\ Q[1] = R /\ \A i \in 1 .. n : Q[i + 1] = P[i]
        <5>1. n \in Nat
          BY <4>1 DEF n
        <5> HIDE DEF V
        <5> QED BY <4>2, <5>1
      <4>4. ASSUME NEW i \in 1 .. (n + 1) PROVE i = 1 \/ (i - 1 \in 1 .. n /\ (i - 1) + 1 = i)
        BY <4>1 DEF n
      <4>5. DOMAIN P = 1 .. n
        BY <4>1 DEF n
      <4> HIDE DEF Q, V
      <4> QED BY <4>3, <4>4, <4>5
    <3> HIDE DEF datasets
    <3>3. \A i \in DOMAIN Q : \A lo \in Los : Q[i][lo] >= 0
      <4> HIDE DEF Q
      <4> QED BY <2>1, <3>2
    <3> QED BY <2>1, <3>1, <3>3
  <2> QED BY <1>2, <2>2, <2>3, <2>4, <2>5
<1> HIDE DEF datasets, ts
<1> QED BY <1>1, <1>4, <1>5 DEF ImageFits, ts, image

\* A place in the details is inside the image.
LEMMA DetailsConfIs ==
    ASSUME NEW conf \in Details
    PROVE  conf.width \in Nat \ {0} /\ conf.x \in Nat /\ conf.x < conf.width
<1> DEFINE Q == [x : {0, 5, 9, 10, Undefined}, y : {0, 300}, width : {10}, ymax : {0, 1, Undefined}]
<1>1. PICK q \in Q : conf = DetailsConf(q) /\ conf # Invalid
  BY DEF Details
<1>2. q.x \in {0, 5, 9, 10, Undefined} /\ q.width = 10 /\ DOMAIN q = {"x", "y", "width", "ymax"}
  OBVIOUS
<1> DEFINE own == {"x", "y"}
           all == {"height", "width", "nbuckets", "ymin", "ymax", "weights", "coloring", "hues"} \cup own
           param == [p \in own |-> caHttpParam(caAggrHeatmapParams, q, p)]
           f == [p \in all |-> caHttpParam(caAggrHeatmapParams, q, p)]
<1> HIDE DEF Q
<1>3. DOMAIN param = own
  OBVIOUS
<1>4. /\ conf = caAggrHeatmapConf(q, own, FALSE, 0) /\ param["x"] # Invalid
      /\ Inside(param["x"], param["y"], conf)
  BY <1>1, <1>3 DEF DetailsConf
<1>5. conf = f /\ \A p \in all : f[p] # Invalid
  BY <1>1, <1>4 DEF caAggrHeatmapConf
<1>6. f["width"] = 10
  <2>1. caAggrHeatmapParams["width"] = Number(10, 1000, 600)
    BY DEF caAggrHeatmapParams
  <2>2. Get(q, "width", Undefined) = 10
    BY <1>2 DEF Get
  <2>3. 10 # Undefined
    BY UndefinedAssumption
  <2>4. f["width"] # Invalid /\ f["width"] = caHttpParam(caAggrHeatmapParams, q, "width")
    BY <1>5
  <2> HIDE DEF f
  <2> QED BY <2>1, <2>2, <2>3, <2>4 DEF caHttpParam, Number
<1>7. param["x"] \in Nat
  <2>1. caAggrHeatmapParams["x"] = RequiredNumber(0, NoMax)
    BY DEF caAggrHeatmapParams
  <2>2. Get(q, "x", Undefined) = q.x
    BY <1>2 DEF Get
  <2>3. q.x = Undefined \/ q.x \in Nat
    BY <1>2
  <2>4. param["x"] = caHttpParam(caAggrHeatmapParams, q, "x")
    OBVIOUS
  <2> HIDE DEF param
  <2> QED BY <1>4, <2>1, <2>2, <2>3, <2>4 DEF caHttpParam, RequiredNumber
<1>8. f["x"] = param["x"]
  OBVIOUS
<1> HIDE DEF f, param
<1>9. param["x"] < conf.width
  BY <1>4 DEF Inside
<1> QED BY <1>5, <1>6, <1>7, <1>8, <1>9

\* A place inside the image is a time inside its interval.
LEMMA PlaceIs ==
    ASSUME NEW x \in Nat, NEW w \in Nat \ {0}, x < w, NEW D \in Nat \ {0}
    PROVE  (x * D) \div w \in Nat /\ (x * D) \div w < D
<1> DEFINE n == x * D
           q == n \div w
<1>1. n \in Nat
  OBVIOUS
<1>2. n < w * D
  <2>1. w - x >= 1 /\ w - x \in Nat
    OBVIOUS
  <2>2. (w - x) * D >= 1
    BY <2>1
  <2>3. w * D = n + (w - x) * D
    OBVIOUS
  <2> HIDE DEF n
  <2> QED BY <1>1, <2>2, <2>3
<1> HIDE DEF n
<1>3. q \in Nat /\ n = w * q + (n % w) /\ n % w \in Nat
  BY <1>1
<1> HIDE DEF q
<1>4. w * q < w * D
  BY <1>1, <1>2, <1>3
<1>5. q < D
  <2>1. SUFFICES ASSUME q >= D PROVE FALSE
    BY <1>3
  <2>2. q - D \in Nat /\ w * (q - D) \in Nat
    BY <1>3, <2>1
  <2>3. w * q = w * D + w * (q - D)
    BY <1>3
  <2> QED BY <1>4, <2>2, <2>3
<1> QED BY <1>3, <1>5 DEF q, n

\* A period that a time of an interval is in is one of the interval.
LEMMA PeriodWithin ==
    ASSUME NEW s \in Int, Multiple(s), NEW D \in Nat \ {0}, NEW q \in Nat, q < D
    PROVE  ptime(s + q) \in PeriodsOf(s, D)
<1> DEFINE G == Granularity
           u == s + q
           t == ptime(u)
<1>1. G \in Nat /\ G > 0
  BY PeriodsType
<1>2. u \in Int /\ s <= u /\ u < s + D
  OBVIOUS
<1> HIDE DEF u
<1>3. t \in Int /\ Multiple(t) /\ t <= u /\ u < t + G
  BY <1>2, ptimeIs
<1>4. PICK a \in Int : s = G * a
  BY MultipleIs
<1>5. PICK b \in Int : t = G * b
  <2> HIDE DEF t
  <2> QED BY <1>3, MultipleIs
<1> HIDE DEF t, G
<1>6. s <= t
  <2> SUFFICES ASSUME t < s PROVE FALSE
    BY <1>3
  <2>1. G * b < G * a
    BY <1>4, <1>5
  <2>2. b < a
    <3> SUFFICES ASSUME b >= a PROVE FALSE
      OBVIOUS
    <3>1. b - a \in Nat /\ G * (b - a) \in Nat
      BY <1>1
    <3>2. G * b = G * a + G * (b - a)
      BY <1>1
    <3>3. G * a \in Int /\ G * b \in Int
      BY <1>1
    <3> QED BY <2>1, <3>1, <3>2, <3>3
  <2>3. a - (b + 1) \in Nat /\ G * (a - (b + 1)) \in Nat
    BY <1>1, <2>2
  <2>4. G * a = (G * b + G) + G * (a - (b + 1))
    BY <1>1
  <2>5. G * a >= G * b + G
    <3>1. G * a \in Int /\ G * b \in Int
      BY <1>1
    <3> QED BY <1>1, <2>3, <2>4, <3>1
  <2> QED BY <1>1, <1>2, <1>3, <1>4, <1>5, <2>5
<1>7. Multiple(t - s)
  BY <1>3, MultipleAdds
<1>8. t \in s .. (s + D - 1)
  BY <1>2, <1>3, <1>6
<1> QED BY <1>7, <1>8 DEF PeriodsOf, t, u

LEMMA DetailsAre ==
    ASSUME Inv(kind), kind \in {"HeatmapScalar", "HeatmapDecomp"}, NEW conf \in Details, NEW p,
           p.start \in Int, Multiple(p.start), p.duration \in Nat \ {0}, NEW lo \in Los
    PROVE  LET at == HeatmapDetails(ds, conf, p, lo)
           IN  /\ at.bucket_time \in PeriodsOf(p.start, p.duration)
               /\ at.total = Column(total(ds), at.bucket_time)[lo]
<1> DEFINE t == ptime(samplerange(conf, p))
           present == keysForTime(ds, t, p.duration)
           value == [k \in present |-> Column(dataForKey(ds, k), t)[lo]]
           parts == RestrictValues(value, LAMBDA n : n # 0)
           at == HeatmapDetails(ds, conf, p, lo)
           all == Column(total(ds), t)[lo]
<1>1. /\ at.bucket_time = t
      /\ at.total = IF present = {} THEN all ELSE SumFunction(parts)
  BY DEF HeatmapDetails
<1>2. t \in PeriodsOf(p.start, p.duration)
  <2>1. conf.width \in Nat \ {0} /\ conf.x \in Nat /\ conf.x < conf.width
    BY DetailsConfIs
  <2> DEFINE q == (conf.x * p.duration) \div conf.width
  <2>2. q \in Nat /\ q < p.duration
    BY <2>1, PlaceIs
  <2>3. t = ptime(p.start + q)
    BY DEF samplerange
  <2> HIDE DEF q
  <2>4. ptime(p.start + q) \in PeriodsOf(p.start, p.duration)
    BY <2>2, PeriodWithin
  <2> QED BY <2>3, <2>4
<1>3. t \in Int
  <2> HIDE DEF t
  <2> QED BY <1>2 DEF PeriodsOf
<1> HIDE DEF t, at
<1>4. ASSUME present # {} PROVE SumFunction(parts) = all
  <2>1. kind = "HeatmapDecomp"
    BY <1>4 DEF keysForTime
  <2>2. present \subseteq Keys
    BY keysForTimeType
  <2>3. t \in PeriodsOf(t, p.duration)
    <3>1. t - t = 0 /\ t <= t + p.duration - 1
      BY <1>3
    <3>2. Multiple(0)
      <4>1. Granularity \in Nat /\ Granularity > 0
        BY PeriodsType
      <4> QED BY <4>1 DEF Multiple
    <3> QED BY <1>3, <3>1, <3>2 DEF PeriodsOf
  <2>4. Get(ds.keysbytime, t, {}) \subseteq present
    BY <2>1, <2>3 DEF keysForTime
  <2> DEFINE g == Parts(ds, t, lo)
             T == DOMAIN parts
  <2>5. Ints(g, Keys) /\ SumFunctionOnSet(g, Keys) = AllOf(ds, t, lo)
    BY <2>1, AllOfIs
  <2>6. AllOf(ds, t, lo) = all
    BY ColumnIs DEF AllOf
  <2>7. \A k \in Keys : g[k] = In(Dist(ds, k, t), lo)
    BY DEF Parts
  <2>8. \A k \in present : value[k] = g[k]
    <3>1. \A k \in present : value[k] = In(Dist(ds, k, t), lo)
      BY ColumnIs DEF Dist, dataForKey
    <3> HIDE DEF g, value, present
    <3> QED BY <2>2, <2>7, <3>1
  <2>9. ASSUME NEW k \in Keys, k \notin present PROVE g[k] = 0
    <3>1. k \notin Get(ds.keysbytime, t, {})
      BY <2>4, <2>9
    <3>2. Agreeing(ds)
      BY DEF Inv, TypeInv, Good
    <3>3. Dist(ds, k, t) = <<>>
      BY <3>1, <3>2, EmptyObject DEF Agreeing, Dist, Get
    <3> HIDE DEF g
    <3> QED BY <2>7, <3>3, InEmpty
  <2> HIDE DEF present
  <2>10. T = {k \in present : value[k] # 0} /\ \A k \in T : parts[k] = value[k]
    BY DEF RestrictValues, Restrict
  <2>11. DOMAIN value = present
    OBVIOUS
  <2> HIDE DEF g, value, parts, T
  <2>12. T \in SUBSET Keys /\ \A k \in Keys : k \notin T => g[k] = 0
    BY <2>2, <2>8, <2>9, <2>10
  <2>13. SumFunctionOnSet(g, Keys) = SumFunctionOnSet(g, T)
    BY <2>5, <2>12, SumWithin
  <2>14. Ints(g, T)
    BY <2>5, <2>12, IntsSubset
  <2>15. \A k \in T : g[k] = parts[k]
    BY <2>8, <2>10
  <2>16. SumFunctionOnSet(g, T) = SumFunctionOnSet(parts, T)
    BY <2>14, <2>15, SumSame
  <2>17. SumFunction(parts) = SumFunctionOnSet(parts, T)
    BY SumWhole DEF T
  <2> QED BY <2>5, <2>6, <2>13, <2>16, <2>17
<1> HIDE DEF present, parts, all
<1>5. at.total = all
  BY <1>1, <1>4
<1> QED BY <1>1, <1>2, <1>5 DEF at, all

\* The points of a request for a heatmap.
LEMMA HeatmapPointIs ==
    ASSUME NEW i \in Instns, NEW p \in HeatmapPoints[i]
    PROVE  p.start \in Int /\ Multiple(p.start) /\ p.duration \in Nat \ {0}
<1> DEFINE rq == Rq("image", [start_time |-> FirstTime], Undefined)
           r == Start(rq, i, LastTime + 1)
<1>1. rq.impl = "image" /\ LastTime + 1 \in Nat
  BY DatasetAssumption DEF Rq
<1>2. HeatmapPoints[i] = IF r \in {NotFound, Refused} THEN {} ELSE ToSet(r.points)
  BY DEF HeatmapPoints
<1>3. r \notin {NotFound, Refused} /\ p \in ToSet(r.points)
  <2> HIDE DEF r
  <2> QED BY <1>2
<1>4. PICK s, D, n : Lasting(r.points, s, D, n) /\ Multiple(s)
  <2> HIDE DEF rq
  <2> QED BY <1>1, <1>3, StartedIs DEF r
<1> HIDE DEF r, rq
<1>5. PICK j \in DOMAIN r.points : p = r.points[j]
  BY <1>3 DEF ToSet
<1>6. /\ p.duration = D /\ p.start = s + (j - 1) * D
      /\ (j - 1) * D \in Nat /\ Multiple((j - 1) * D)
  BY <1>4, <1>5, LastingAt
<1>7. s \in Int /\ D \in Nat \ {0}
  BY <1>4 DEF Lasting
<1>8. Multiple(s + (j - 1) * D)
  BY <1>4, <1>6, <1>7, MultipleAdds
<1> QED BY <1>6, <1>7, <1>8

LEMMA ImageWholeFrom == Inv(kind) /\ instn \in Instns => ImageWhole
<1> SUFFICES ASSUME Inv(kind), instn \in Instns, "heatmap" \in aggHttpValueList(instn)
             PROVE  /\ {"image", "details"} \subseteq aggHttpValueHeatmapList(instn)
                    /\ \A p \in HeatmapPoints[instn] :
                         /\ \A conf \in Images : ImageFits(HeatmapImage(ds, conf, p), conf,
                                                    PeriodsOf(p.start, p.duration), total(ds))
                         /\ \A conf \in Details, lo \in Los :
                                LET at == HeatmapDetails(ds, conf, p, lo)
                                IN  /\ at.bucket_time \in PeriodsOf(p.start, p.duration)
                                    /\ at.total = Column(total(ds), at.bucket_time)[lo]
  BY DEF ImageWhole, ImageFits
<1>1. caAggrSupportsHeatmap(instn)
  BY DEF aggHttpValueList
<1>2. kind \in {"HeatmapScalar", "HeatmapDecomp"}
  BY <1>1, HeatmapKinds DEF caAggrSupportsHeatmap
<1>3. {"image", "details"} \subseteq aggHttpValueHeatmapList(instn)
  BY <1>1 DEF aggHttpValueHeatmapList
<1>4. ASSUME NEW p \in HeatmapPoints[instn], NEW conf \in Images
      PROVE  ImageFits(HeatmapImage(ds, conf, p), conf, PeriodsOf(p.start, p.duration), total(ds))
  BY <1>2, ImageIs
<1>5. ASSUME NEW p \in HeatmapPoints[instn], NEW conf \in Details, NEW lo \in Los
      PROVE  LET at == HeatmapDetails(ds, conf, p, lo)
             IN  /\ at.bucket_time \in PeriodsOf(p.start, p.duration)
                 /\ at.total = Column(total(ds), at.bucket_time)[lo]
  <2>1. p.start \in Int /\ Multiple(p.start) /\ p.duration \in Nat \ {0}
    BY HeatmapPointIs
  <2> QED BY <1>2, <2>1, DetailsAre
<1> QED BY <1>3, <1>4, <1>5

\* Where heatmaps are listed, images and details are; in an image of any
\* selection nothing is below zero and what is shown adds up to the total, it
\* has enough hues unless everything is to be shown in given ones, and the
\* details of a place are of a period of the interval and add up to its total,
\* whatever arrived, expired, was saved, lost and restored
\* (caAggrValueHeatmapImage, caAggrValueHeatmapDetails, caDatasetHeatmapDecomp).
THEOREM ImagesAreWhole == Spec => []ImageWhole
<1>1. Inv(kind) /\ instn \in Instns => ImageWhole
  BY ImageWholeFrom
<1> QED BY <1>1, InvHolds, InstnStays, PTL

=============================================================================

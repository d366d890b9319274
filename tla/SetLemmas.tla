----------------------------- MODULE SetLemmas -----------------------------
(***************************************************************************)
(* Facts about sets of natural numbers and about sums that the proofs of   *)
(* the other modules share.  They stand in for induction: a property of    *)
(* all numbers is shown by looking at the least number that lacks it.      *)
(***************************************************************************)
EXTENDS Integers, Functions, WellFoundedInduction, FiniteSetTheorems, TLAPS

\* Every non-empty set of natural numbers has a least element.
LEMMA LeastNat ==
  ASSUME NEW T, T \subseteq Nat, T # {}
  PROVE  \E x \in T : \A y \in T : x <= y
  <1> DEFINE R == {ss \in Nat \X Nat : ss[1] < ss[2]}
  <1>1. IsWellFoundedOn(R, Nat)
    BY NatLessThanWellFounded DEF OpToRel
  <1>2. \A x, y \in Nat : y < x => <<y, x>> \in R
    OBVIOUS
  <1> HIDE DEF R
  <1>3. PICK x \in T : \A y \in T : ~(<<y, x>> \in R)
    BY <1>1, WFMin
  <1>4. ASSUME NEW y \in T PROVE x <= y
    <2>1. x \in Nat /\ y \in Nat
      OBVIOUS
    <2>2. ~(y < x)
      BY <1>2, <1>3, <2>1
    <2>. QED
      BY <2>1, <2>2
  <1>. QED
    BY <1>4

\* Every non-empty bounded set of natural numbers has a greatest element.
LEMMA GreatestNat ==
  ASSUME NEW T, T \subseteq Nat, T # {}, NEW top \in Nat, \A x \in T : x <= top
  PROVE  \E x \in T : \A y \in T : y <= x
  <1> DEFINE gaps == {top - x : x \in T}
  <1>1. \A x \in T : x \in Nat /\ top - x \in Nat
    OBVIOUS
  <1>2. PICK g \in gaps : \A h \in gaps : g <= h
    <2>1. gaps \subseteq Nat /\ gaps # {}
      BY <1>1
    <2>. QED
      BY <2>1, LeastNat
  <1>3. PICK x \in T : g = top - x
    BY <1>2
  <1>4. ASSUME NEW y \in T PROVE y <= x
    <2>1. top - x <= top - y
      BY <1>2, <1>3
    <2>2. x \in Nat /\ y \in Nat
      BY <1>1
    <2>. QED
      BY <2>1, <2>2
  <1>. QED
    BY <1>4

\* Candidates with prices up to top, and different ranks.
Candidates(S, price, rank, top) ==
  /\ S # {} /\ top \in Nat
  /\ price \in [S -> Nat] /\ rank \in [S -> Nat]
  /\ \A x \in S : price[x] <= top
  /\ \A x, y \in S : rank[x] = rank[y] => x = y

\* The comparator of handleClear's sort puts one candidate before all others.
LEMMA BestExists ==
  ASSUME NEW S, NEW price, NEW rank, NEW top, Candidates(S, price, rank, top)
  PROVE  \E x \in S : \A y \in S \ {x} :
           \/ price[x] > price[y]
           \/ price[x] = price[y] /\ rank[x] < rank[y]
  <1> USE DEF Candidates
  <1>1. PICK p \in {price[x] : x \in S} : \A q \in {price[x] : x \in S} : q <= p
    <2>1. {price[x] : x \in S} \subseteq Nat /\ {price[x] : x \in S} # {}
      OBVIOUS
    <2>2. \A q \in {price[x] : x \in S} : q <= top
      OBVIOUS
    <2>. QED
      BY <2>1, <2>2, GreatestNat
  <1> DEFINE Best == {x \in S : price[x] = p}
  <1>2. PICK r \in {rank[x] : x \in Best} : \A s \in {rank[x] : x \in Best} : r <= s
    <2>1. {rank[x] : x \in Best} \subseteq Nat
      OBVIOUS
    <2>2. {rank[x] : x \in Best} # {}
      BY <1>1
    <2>. QED
      BY <2>1, <2>2, LeastNat
  <1>3. PICK x \in Best : rank[x] = r
    BY <1>2
  <1>4. ASSUME NEW y \in S \ {x}
        PROVE  price[x] > price[y] \/ (price[x] = price[y] /\ rank[x] < rank[y])
    <2>1. price[y] <= price[x] /\ price[x] \in Nat /\ price[y] \in Nat
      BY <1>1, <1>3
    <2>2. CASE price[y] = price[x]
      <3>1. rank[x] <= rank[y] /\ rank[x] # rank[y]
        BY <1>2, <1>3, <2>2
      <3>. QED
        BY <2>2, <3>1
    <2>3. CASE price[y] # price[x]
      BY <2>1, <2>3
    <2>. QED
      BY <2>2, <2>3
  <1>. QED
    BY <1>3, <1>4

-----------------------------------------------------------------------------
(* Sums                                                                    *)

Smaller(S, n) == {T \in SUBSET S : Cardinality(T) <= n}
Element(T) == CHOOSE x \in T : TRUE

\* g sums F over the subsets of S in D, one element at a time.
SumsOver(g, D, F) ==
  g = [T \in D |-> IF T = {} THEN 0 ELSE F[Element(T)] + g[T \ {Element(T)}]]

\* Removing the chosen element of a finite set leaves a smaller one.
LEMMA RemoveOne ==
  ASSUME NEW S, IsFiniteSet(S), NEW T \in SUBSET S, T # {}
  PROVE  /\ Element(T) \in T /\ T \ {Element(T)} \in SUBSET S
         /\ Cardinality(T) \in Nat
         /\ Cardinality(T \ {Element(T)}) = Cardinality(T) - 1
         /\ Cardinality(T \ {Element(T)}) \in Nat
  <1>1. Element(T) \in T
    BY DEF Element
  <1>2. IsFiniteSet(T)
    BY FS_Subset
  <1>. QED
    BY <1>1, <1>2, FS_RemoveElement, FS_CardinalityType

\* The sum exists: it is built for sets of one more element at a time.
LEMMA SumExists ==
  ASSUME NEW S, IsFiniteSet(S), NEW F \in [S -> Int]
  PROVE  \E g \in [SUBSET S -> Int] : SumsOver(g, SUBSET S, F)
  <1> DEFINE Good(n) == \E g \in [Smaller(S, n) -> Int] : SumsOver(g, Smaller(S, n), F)
             Bad == {n \in Nat : ~Good(n)}
  <1>1. Good(0)
    <2> DEFINE g == [T \in Smaller(S, 0) |-> 0]
    <2>1. \A T \in Smaller(S, 0) : T = {}
      <3> SUFFICES ASSUME NEW T \in SUBSET S, Cardinality(T) <= 0 PROVE T = {}
        BY DEF Smaller
      <3>1. IsFiniteSet(T) /\ Cardinality(T) \in Nat
        BY FS_Subset, FS_CardinalityType
      <3>. QED
        BY <3>1, FS_EmptySet
    <2>2. g \in [Smaller(S, 0) -> Int] /\ SumsOver(g, Smaller(S, 0), F)
      BY <2>1 DEF SumsOver
    <2>. QED
      BY <2>2
  <1>2. ASSUME NEW n \in Nat, Good(n) PROVE Good(n + 1)
    <2>1. PICK g \in [Smaller(S, n) -> Int] : SumsOver(g, Smaller(S, n), F)
      BY <1>2
    <2> DEFINE h == [T \in Smaller(S, n + 1) |->
                       IF T = {} THEN 0 ELSE F[Element(T)] + g[T \ {Element(T)}]]
    <2>2. \A T \in Smaller(S, n) : g[T] = IF T = {} THEN 0 ELSE F[Element(T)] + g[T \ {Element(T)}]
      BY <2>1 DEF SumsOver
    <2>3. \A T \in Smaller(S, n + 1) : T # {} =>
            Element(T) \in S /\ T \ {Element(T)} \in Smaller(S, n)
      BY RemoveOne DEF Smaller
    <2>4. Smaller(S, n) \subseteq Smaller(S, n + 1)
      <3> SUFFICES ASSUME NEW T \in SUBSET S, Cardinality(T) <= n PROVE Cardinality(T) <= n + 1
        BY DEF Smaller
      <3>1. Cardinality(T) \in Nat
        BY FS_Subset, FS_CardinalityType
      <3>. QED
        BY <3>1
    <2>5. h \in [Smaller(S, n + 1) -> Int]
      BY <2>3
    <2>6. \A T \in Smaller(S, n) : h[T] = g[T]
      BY <2>2, <2>4
    <2>7. \A T \in Smaller(S, n + 1) :
            h[T] = IF T = {} THEN 0 ELSE F[Element(T)] + h[T \ {Element(T)}]
      BY <2>3, <2>6
    <2> HIDE DEF h
    <2>8. SumsOver(h, Smaller(S, n + 1), F)
      BY <2>5, <2>7 DEF SumsOver
    <2>. QED
      BY <2>5, <2>8
  <1>3. Bad = {}
    <2> SUFFICES ASSUME Bad # {} PROVE FALSE
      OBVIOUS
    <2> HIDE DEF Good
    <2>1. PICK n \in Bad : \A k \in Bad : n <= k
      BY LeastNat
    <2>2. n \in Nat /\ n # 0
      BY <1>1
    <2>3. n - 1 \in Nat /\ Good(n - 1)
      BY <2>1, <2>2
    <2>4. Good((n - 1) + 1)
      BY <1>2, <2>3
    <2>5. (n - 1) + 1 = n
      BY <2>2
    <2>. QED
      BY <2>4, <2>5
  <1>4. Smaller(S, Cardinality(S)) = SUBSET S
    BY FS_Subset DEF Smaller
  <1>5. Cardinality(S) \in Nat
    BY FS_CardinalityType
  <1>6. Good(Cardinality(S))
    <2> HIDE DEF Good
    <2>. QED
      BY <1>3, <1>5
  <1>. QED
    BY <1>4, <1>6

\* Among the subsets of S that lack some property, one has no element to
\* spare: without its first element it has the property, or it is empty.
LEMMA LeastSubset ==
  ASSUME NEW S, IsFiniteSet(S), NEW Bad \in SUBSET SUBSET S, Bad # {}
  PROVE  \E T \in Bad : T = {} \/ T \ {Element(T)} \notin Bad
  <1> DEFINE sizes == {Cardinality(T) : T \in Bad}
  <1>1. \A T \in Bad : Cardinality(T) \in Nat
    BY FS_Subset, FS_CardinalityType
  <1>2. PICK n \in sizes : \A k \in sizes : n <= k
    <2>1. sizes \subseteq Nat /\ sizes # {}
      BY <1>1
    <2> HIDE DEF sizes
    <2>. QED
      BY <2>1, LeastNat
  <1>3. PICK T \in Bad : Cardinality(T) = n
    OBVIOUS
  <1>4. ASSUME T # {}, T \ {Element(T)} \in Bad PROVE FALSE
    <2>1. /\ Cardinality(T \ {Element(T)}) = Cardinality(T) - 1
          /\ Cardinality(T) \in Nat
      BY <1>4, RemoveOne
    <2>2. n <= Cardinality(T \ {Element(T)})
      BY <1>2, <1>4
    <2>. QED
      BY <1>3, <2>1, <2>2
  <1>. QED
    BY <1>4

\* Two sums over the same set, of functions that differ at most at p, differ
\* by what the functions differ there.
DifferAt(S, F, G, p, delta) ==
  /\ IsFiniteSet(S) /\ F \in [S -> Int] /\ G \in [S -> Int] /\ delta \in Int
  /\ \A x \in S : G[x] = F[x] + (IF x = p THEN delta ELSE 0)

\* Sums of functions that differ in one place differ by as much.
LEMMA SumsDiffer ==
  ASSUME NEW S, NEW F, NEW G, NEW p, NEW delta, DifferAt(S, F, G, p, delta),
         NEW g, NEW h \in [SUBSET S -> Int],
         SumsOver(g, SUBSET S, G), SumsOver(h, SUBSET S, F)
  PROVE  \A T \in SUBSET S : g[T] = h[T] + (IF p \in T THEN delta ELSE 0)
  <1> DEFINE Bad == {T \in SUBSET S : g[T] # h[T] + (IF p \in T THEN delta ELSE 0)}
  <1>1. \A T \in SUBSET S :
          /\ g[T] = IF T = {} THEN 0 ELSE G[Element(T)] + g[T \ {Element(T)}]
          /\ h[T] = IF T = {} THEN 0 ELSE F[Element(T)] + h[T \ {Element(T)}]
    BY DEF SumsOver
  <1> SUFFICES ASSUME Bad # {} PROVE FALSE
    OBVIOUS
  <1>2. PICK T \in Bad : T = {} \/ T \ {Element(T)} \notin Bad
    <2> HIDE DEF Bad
    <2>1. Bad \subseteq SUBSET S /\ IsFiniteSet(S)
      BY DEF Bad, DifferAt
    <2>. QED
      BY <2>1, LeastSubset
  <1>3. T # {}
    <2>1. g[{}] = 0 /\ h[{}] = 0
      BY <1>1
    <2>2. {} \notin Bad
      BY <2>1
    <2>. QED
      BY <2>2
  <1> DEFINE e == Element(T)
             U == T \ {e}
  <1>4. T \in SUBSET S /\ e \in T /\ e \in S /\ U \in SUBSET S
    BY <1>3 DEF Element
  <1>5. g[U] = h[U] + (IF p \in U THEN delta ELSE 0)
    BY <1>2, <1>3, <1>4
  <1>6. g[T] = G[e] + g[U] /\ h[T] = F[e] + h[U]
    BY <1>1, <1>3, <1>4
  <1>7. G[e] = F[e] + (IF e = p THEN delta ELSE 0) /\ delta \in Int
    BY <1>4 DEF DifferAt
  <1>8. p \in T <=> p = e \/ p \in U
    BY <1>4
  <1>9. p \in U => p # e
    OBVIOUS
  <1>10. h[U] \in Int /\ F[e] \in Int
    BY <1>4 DEF DifferAt
  <1> HIDE DEF e, U
  <1>11. g[T] = h[T] + (IF p \in T THEN delta ELSE 0)
    BY <1>5, <1>6, <1>7, <1>8, <1>9, <1>10
  <1>. QED
    BY <1>11

\* The fold behind SumFunction is a sum, element by element.
LEMMA SumUnfolds ==
  ASSUME NEW S, IsFiniteSet(S), NEW F \in [S -> Int]
  PROVE  \E g \in [SUBSET S -> Int] : SumsOver(g, SUBSET S, F) /\ SumFunction(F) = g[S]
  <1> DEFINE c == CHOOSE c : SumsOver(c, SUBSET S, F)
  <1>1. SumFunction(F) = c[S]
    BY DEF SumFunction, SumFunctionOnSet, FoldFunctionOnSet, MapThenFoldSet, SumsOver, Element
  <1>2. PICK h \in [SUBSET S -> Int] : SumsOver(h, SUBSET S, F)
    BY SumExists
  <1>3. SumsOver(c, SUBSET S, F)
    BY <1>2
  <1> HIDE DEF c
  <1>4. \A T \in SUBSET S : c[T] = h[T] + 0
    <2>1. DifferAt(S, F, F, S, 0)
      BY DEF DifferAt
    <2>2. \A T \in SUBSET S : c[T] = h[T] + (IF S \in T THEN 0 ELSE 0)
      BY <1>2, <1>3, <2>1, SumsDiffer
    <2>. QED
      BY <2>2
  <1>5. c[S] = h[S]
    BY <1>2, <1>4
  <1>. QED
    BY <1>1, <1>2, <1>5

\* The sum follows a change of one entry.
LEMMA SumChangesAt ==
  ASSUME NEW S, IsFiniteSet(S), NEW F \in [S -> Int], NEW G \in [S -> Int], NEW p \in S,
         \A x \in S : x # p => G[x] = F[x]
  PROVE  /\ SumFunction(F) \in Int
         /\ SumFunction(G) = SumFunction(F) + (G[p] - F[p])
  <1>1. PICK h \in [SUBSET S -> Int] : SumsOver(h, SUBSET S, F) /\ SumFunction(F) = h[S]
    BY SumUnfolds
  <1>2. PICK g \in [SUBSET S -> Int] : SumsOver(g, SUBSET S, G) /\ SumFunction(G) = g[S]
    BY SumUnfolds
  <1> DEFINE delta == G[p] - F[p]
  <1>3. DifferAt(S, F, G, p, delta)
    BY DEF DifferAt
  <1> HIDE DEF delta
  <1>4. g[S] = h[S] + (IF p \in S THEN delta ELSE 0)
    BY <1>1, <1>2, <1>3, SumsDiffer
  <1>. QED
    BY <1>1, <1>2, <1>4 DEF delta

\* A sum of zeros is zero.
LEMMA SumOfZeros ==
  ASSUME NEW S, IsFiniteSet(S)
  PROVE  SumFunction([x \in S |-> 0]) = 0
  <1> DEFINE F == [x \in S |-> 0]
  <1>1. PICK g \in [SUBSET S -> Int] : SumsOver(g, SUBSET S, F) /\ SumFunction(F) = g[S]
    <2>1. F \in [S -> Int]
      OBVIOUS
    <2> HIDE DEF F
    <2>. QED
      BY <2>1, SumUnfolds
  <1>2. \A T \in SUBSET S : g[T] = IF T = {} THEN 0 ELSE F[Element(T)] + g[T \ {Element(T)}]
    BY <1>1 DEF SumsOver
  <1> DEFINE Bad == {T \in SUBSET S : g[T] # 0}
  <1>3. ASSUME Bad # {} PROVE FALSE
    <2>1. PICK T \in Bad : T = {} \/ T \ {Element(T)} \notin Bad
      <3>1. Bad \subseteq SUBSET S
        OBVIOUS
      <3> HIDE DEF Bad
      <3>. QED
        BY <1>3, <3>1, LeastSubset
    <2>2. T # {}
      BY <1>2
    <2>3. Element(T) \in S /\ T \ {Element(T)} \in SUBSET S
      BY <2>2 DEF Element
    <2>4. g[T \ {Element(T)}] = 0 /\ F[Element(T)] = 0
      BY <2>1, <2>2, <2>3
    <2>. QED
      BY <1>2, <2>2, <2>4
  <1>. QED
    BY <1>1, <1>3

\* A sum of natural numbers is natural and at least each of them.
LEMMA SumAtLeast ==
  ASSUME NEW S, IsFiniteSet(S), NEW F \in [S -> Nat]
  PROVE  SumFunction(F) \in Nat /\ \A p \in S : SumFunction(F) >= F[p]
  <1>1. PICK g \in [SUBSET S -> Int] : SumsOver(g, SUBSET S, F) /\ SumFunction(F) = g[S]
    <2>1. F \in [S -> Int]
      OBVIOUS
    <2>. QED
      BY <2>1, SumUnfolds
  <1>2. \A T \in SUBSET S : g[T] = IF T = {} THEN 0 ELSE F[Element(T)] + g[T \ {Element(T)}]
    BY <1>1 DEF SumsOver
  <1> DEFINE Good(T) == g[T] >= 0 /\ \A p \in T : g[T] >= F[p]
             Bad == {T \in SUBSET S : ~Good(T)}
  <1>3. ASSUME Bad # {} PROVE FALSE
    <2>1. PICK T \in Bad : T = {} \/ T \ {Element(T)} \notin Bad
      <3>1. Bad \subseteq SUBSET S
        OBVIOUS
      <3> HIDE DEF Bad
      <3>. QED
        BY <1>3, <3>1, LeastSubset
    <2>2. T # {}
      <3>1. g[{}] = 0
        BY <1>2
      <3>2. Good({})
        BY <3>1
      <3>. QED
        BY <3>2
    <2> DEFINE e == Element(T)
               U == T \ {e}
    <2>3. T \in SUBSET S /\ e \in T /\ e \in S /\ U \in SUBSET S
      BY <2>2 DEF Element
    <2>4. Good(U) /\ g[U] \in Int /\ F[e] \in Nat
      BY <2>1, <2>2, <2>3
    <2>5. g[T] = F[e] + g[U]
      BY <1>2, <2>2, <2>3
    <2>6. \A p \in T : F[p] \in Nat /\ (p = e \/ p \in U)
      BY <2>3
    <2> HIDE DEF e, U
    <2>7. Good(T)
      BY <2>4, <2>5, <2>6
    <2>. QED
      BY <2>7
  <1>4. Good(S)
    BY <1>3
  <1>. QED
    BY <1>1, <1>4

\* A function on a non-empty finite set takes its greatest value somewhere.
LEMMA GreatestValue ==
  ASSUME NEW S, IsFiniteSet(S), S # {}, NEW f \in [S -> Nat]
  PROVE  \E x \in S : \A y \in S : f[y] <= f[x]
  <1> DEFINE Has(T) == \E x \in T : \A y \in T : f[y] <= f[x]
             Bad == {T \in SUBSET S : T # {} /\ ~Has(T)}
  <1> SUFFICES ASSUME ~Has(S) PROVE FALSE
    OBVIOUS
  <1>1. S \in Bad
    OBVIOUS
  <1>2. Bad \in SUBSET SUBSET S /\ Bad # {}
    BY <1>1
  <1>3. PICK T \in Bad : T = {} \/ T \ {Element(T)} \notin Bad
    <2> HIDE DEF Bad
    <2>. QED
      BY <1>2, LeastSubset
  <1>4. T \subseteq S /\ T # {} /\ ~Has(T)
    BY <1>3
  <1> DEFINE e == Element(T)
             R == T \ {e}
  <1>5. e \in T
    BY <1>4 DEF Element
  <1>6. R = {} \/ Has(R)
    BY <1>3, <1>4
  <1> HIDE DEF e
  <1>7. CASE R = {}
    <2>1. \A y \in T : y = e
      BY <1>7
    <2>2. \A y \in T : f[y] <= f[e]
      BY <1>4, <1>5, <2>1
    <2>. QED
      BY <1>4, <1>5, <2>2
  <1>8. CASE Has(R)
    <2>1. PICK x \in R : \A y \in R : f[y] <= f[x]
      BY <1>8
    <2>2. f[x] \in Nat /\ f[e] \in Nat /\ \A y \in T : f[y] \in Nat
      BY <1>4, <1>5, <2>1
    <2>3. CASE f[x] <= f[e]
      <3>1. \A y \in T : f[y] <= f[e]
        BY <2>1, <2>2, <2>3
      <3>. QED
        BY <1>4, <1>5, <3>1
    <2>4. CASE f[e] <= f[x]
      <3>1. \A y \in T : f[y] <= f[x]
        BY <2>1, <2>2, <2>4
      <3>. QED
        BY <1>4, <2>1, <3>1
    <2>. QED
      BY <2>2, <2>3, <2>4
  <1>. QED
    BY <1>6, <1>7, <1>8
=============================================================================

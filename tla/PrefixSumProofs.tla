--------------------------- MODULE PrefixSumProofs --------------------------
(***************************************************************************)
(* The facts about counting that the proofs of several modules rest on:    *)
(* the slots of prefix_sum, the least and the largest of a set of numbers, *)
(* the rank of an element in an order, sums over finite sets, quotients,   *)
(* and functions on numbers that are known step by step.                   *)
(***************************************************************************)
EXTENDS PrefixSum, Sums, FiniteSetTheorems, TLAPS

(***************************************************************************)
(* The slots of finitely many vertices are finitely many (the row pointers *)
(* of scan.h are numbers).                                                 *)
(***************************************************************************)
LEMMA SlotSetFinite ==
  ASSUME NEW d, NEW m \in Nat, NEW i \in Nat, NEW j \in Nat
  PROVE  IsFiniteSet(SlotSet(d, m, i, j)) /\ Cardinality(SlotSet(d, m, i, j)) \in Nat
<1>1. i \in Int /\ j - 1 \in Int /\ 0 \in Int /\ m - 1 \in Int
  OBVIOUS
<1>2. IsFiniteSet(i .. j - 1) /\ IsFiniteSet(0 .. m - 1)
  BY <1>1, FS_Interval, Zenon
<1>3. IsFiniteSet((i .. j - 1) \X (0 .. m - 1))
  BY <1>2, FS_Product
<1>4. SlotSet(d, m, i, j) \in SUBSET ((i .. j - 1) \X (0 .. m - 1))
  BY DEF SlotSet
<1> QED
  BY <1>3, <1>4, FS_Subset, FS_CardinalityType

\* No vertex, no slot: the first row pointer of scan.h is 0.
LEMMA SlotSetEmpty ==
  ASSUME NEW d, NEW m \in Nat, NEW i \in Nat
  PROVE  Cardinality(SlotSet(d, m, i, i)) = 0
<1>1. SlotSet(d, m, i, i) = {}
  BY DEF SlotSet
<1> QED
  BY <1>1, FS_EmptySet

(***************************************************************************)
(* The count over i .. k-1 splits at any j between: this is what lets      *)
(* scan.h sum the blocks apart.                                            *)
(***************************************************************************)
LEMMA SlotSetSplit ==
  ASSUME NEW d, NEW m \in Nat, NEW i \in Nat, NEW j \in Nat, NEW k \in Nat, i <= j, j <= k
  PROVE  Cardinality(SlotSet(d, m, i, k)) =
           Cardinality(SlotSet(d, m, i, j)) + Cardinality(SlotSet(d, m, j, k))
<1> DEFINE A == SlotSet(d, m, i, j)
           B == SlotSet(d, m, j, k)
<1>1. SlotSet(d, m, i, k) = A \cup B
  BY DEF SlotSet
<1>2. A \cap B = {}
  BY DEF SlotSet
<1>3. IsFiniteSet(A) /\ Cardinality(A) \in Nat /\ IsFiniteSet(B) /\ Cardinality(B) \in Nat
  BY SlotSetFinite
<1> HIDE DEF A, B
<1>4. Cardinality(A \cup B) = Cardinality(A) + Cardinality(B) - Cardinality(A \cap B)
  BY <1>3, FS_Union
<1>5. Cardinality(A \cap B) = 0
  BY <1>2, FS_EmptySet
<1>6. Cardinality(A \cup B) = Cardinality(A) + Cardinality(B)
  BY <1>3, <1>4, <1>5
<1> QED
  BY <1>1, <1>6, Zenon DEF A, B

\* One vertex contributes its degree.
LEMMA SlotSetOne ==
  ASSUME NEW n \in Nat, NEW m \in Nat, NEW d \in [0 .. n - 1 -> 0 .. m], NEW i \in 0 .. n - 1
  PROVE  Cardinality(SlotSet(d, m, i, i + 1)) = d[i]
<1>1. d[i] \in 0 .. m
  OBVIOUS
<1>2. SlotSet(d, m, i, i + 1) = {i} \X (0 .. d[i] - 1)
  BY <1>1 DEF SlotSet
<1>3. Cardinality(0 .. d[i] - 1) = d[i] /\ IsFiniteSet(0 .. d[i] - 1)
  <2>1. 0 \in Int /\ d[i] - 1 \in Int
    BY <1>1
  <2>2. /\ IsFiniteSet(0 .. d[i] - 1)
        /\ Cardinality(0 .. d[i] - 1) = IF 0 > d[i] - 1 THEN 0 ELSE d[i] - 1 - 0 + 1
    BY <2>1, FS_Interval, Zenon
  <2> QED
    BY <1>1, <2>2
<1>4. Cardinality({i}) = 1 /\ IsFiniteSet({i})
  BY FS_Singleton
<1>5. Cardinality({i} \X (0 .. d[i] - 1)) = Cardinality({i}) * Cardinality(0 .. d[i] - 1)
  BY <1>3, <1>4, FS_Product, Zenon
<1>6. 1 * d[i] = d[i]
  BY <1>1
<1> QED
  BY <1>2, <1>3, <1>4, <1>5, <1>6, Zenon

\* Going one vertex further adds its degree.
LEMMA SlotSetAdd ==
  ASSUME NEW n \in Nat, NEW m \in Nat, NEW d \in [0 .. n - 1 -> 0 .. m],
         NEW i \in Nat, NEW j \in 0 .. n - 1, i <= j
  PROVE  Cardinality(SlotSet(d, m, i, j + 1)) = Cardinality(SlotSet(d, m, i, j)) + d[j]
<1>1. j \in Nat /\ j + 1 \in Nat /\ j <= j + 1
  OBVIOUS
<1>2. Cardinality(SlotSet(d, m, i, j + 1)) =
        Cardinality(SlotSet(d, m, i, j)) + Cardinality(SlotSet(d, m, j, j + 1))
  BY <1>1, SlotSetSplit
<1>3. Cardinality(SlotSet(d, m, j, j + 1)) = d[j]
  BY SlotSetOne
<1> QED
  BY <1>2, <1>3

(***************************************************************************)
(* What the callers of the scan in graph.cc use: the row pointers are      *)
(* numbers, start at 0, follow the recurrence of CSR, and the ranges of    *)
(* two vertices do not overlap and end before the last pointer.            *)
(***************************************************************************)
LEMMA PrefixSumFacts ==
  ASSUME NEW n \in Nat, NEW m \in Nat, NEW d \in [0 .. n - 1 -> 0 .. m]
  PROVE  LET p == prefix_sum(d, m, n) IN
           /\ p \in [0 .. n -> Nat]
           /\ p[0] = 0
           /\ \A v \in 0 .. n - 1 : p[v + 1] = p[v] + d[v]
           /\ \A v \in 0 .. n - 1 : \A w \in 0 .. n : v < w => p[v] + d[v] <= p[w]
<1> DEFINE p == prefix_sum(d, m, n)
<1>1. \A i \in 0 .. n : p[i] = Cardinality(SlotSet(d, m, 0, i)) /\ p[i] \in Nat
  BY SlotSetFinite DEF prefix_sum
<1>2. p \in [0 .. n -> Nat]
  BY SlotSetFinite DEF prefix_sum
<1>3. p[0] = 0
  BY <1>1, SlotSetEmpty
<1>4. ASSUME NEW v \in 0 .. n - 1 PROVE p[v + 1] = p[v] + d[v]
  <2>1. v \in 0 .. n /\ v + 1 \in 0 .. n
    OBVIOUS
  <2>2. Cardinality(SlotSet(d, m, 0, v + 1)) = Cardinality(SlotSet(d, m, 0, v)) + d[v]
    BY SlotSetAdd
  <2> QED
    BY <1>1, <2>1, <2>2
<1>5. ASSUME NEW v \in 0 .. n - 1, NEW w \in 0 .. n, v < w PROVE p[v] + d[v] <= p[w]
  <2>1. w \in Nat /\ v + 1 \in Nat /\ v + 1 <= w /\ v + 1 \in 0 .. n /\ v \in 0 .. n
    BY <1>5
  <2>2. Cardinality(SlotSet(d, m, 0, w)) =
          Cardinality(SlotSet(d, m, 0, v + 1)) + Cardinality(SlotSet(d, m, v + 1, w))
    BY <2>1, SlotSetSplit
  <2>3. Cardinality(SlotSet(d, m, v + 1, w)) \in Nat
    BY <2>1, SlotSetFinite
  <2>4. p[v] \in Nat /\ p[v + 1] \in Nat /\ p[w] \in Nat /\ d[v] \in Nat
    BY <1>1, <2>1
  <2>5. p[w] = p[v + 1] + Cardinality(SlotSet(d, m, v + 1, w))
    BY <1>1, <2>1, <2>2
  <2> QED
    BY <1>4, <2>3, <2>4, <2>5
<1> QED
  BY <1>2, <1>3, <1>4, <1>5

\* Every set of naturals that is not empty has a least element.
LEMMA LeastNatural ==
  ASSUME NEW T \in SUBSET Nat, T # {}
  PROVE  \E x \in T : \A y \in T : x <= y
<1> DEFINE R == {ss \in Nat \X Nat : ss[1] < ss[2]}
<1>1. IsWellFoundedOn(R, Nat)
  BY NatLessThanWellFounded DEF OpToRel
<1>2. \E x \in T : \A y \in T : ~ (<<y, x>> \in R)
  BY <1>1, WFMin, Zenon
<1>3. PICK x \in T : \A y \in T : ~ (<<y, x>> \in R)
  BY <1>2
<1>4. ASSUME NEW y \in T PROVE x <= y
  <2>1. x \in Nat /\ y \in Nat /\ <<y, x>> \in Nat \X Nat /\ <<y, x>> \notin R
    BY <1>3
  <2>2. ~ (y < x)
    BY <2>1
  <2> QED
    BY <2>1, <2>2
<1> QED
  BY <1>4

(***************************************************************************)
(* The ranges of the vertices cover the array the scan sizes: no cell that *)
(* graph.cc allocates for new_edges belongs to no vertex.                  *)
(***************************************************************************)
LEMMA PrefixSumCover ==
  ASSUME NEW n \in Nat, NEW m \in Nat, NEW d \in [0 .. n - 1 -> 0 .. m],
         NEW x \in 0 .. prefix_sum(d, m, n)[n] - 1
  PROVE  \E v \in 0 .. n - 1 :
           /\ prefix_sum(d, m, n)[v] <= x
           /\ x < prefix_sum(d, m, n)[v] + d[v]
<1> DEFINE p == prefix_sum(d, m, n)
           T == {w \in 0 .. n : x < p[w]}
<1>1. /\ p \in [0 .. n -> Nat]
      /\ p[0] = 0
      /\ \A v \in 0 .. n - 1 : p[v + 1] = p[v] + d[v]
  BY PrefixSumFacts
<1> HIDE DEF p
<1>2. x \in 0 .. p[n] - 1
  BY DEF p
<1>3. n \in T /\ T \in SUBSET Nat
  BY <1>1, <1>2
<1>4. PICK w \in T : \A y \in T : w <= y
  BY <1>3, LeastNatural
<1>5. w # 0
  BY <1>1, <1>2, <1>4
<1>6. w - 1 \in 0 .. n - 1 /\ w - 1 \notin T
  BY <1>4, <1>5
<1>7. p[w - 1] <= x /\ x < p[w - 1] + d[w - 1]
  <2>1. p[w - 1] \in Nat /\ p[(w - 1) + 1] = p[w - 1] + d[w - 1] /\ (w - 1) + 1 = w
    BY <1>1, <1>4, <1>6
  <2> QED
    BY <1>2, <1>4, <1>6, <2>1
<1> QED
  BY <1>6, <1>7 DEF p

-----------------------------------------------------------------------------
(***************************************************************************)
(* Sets put in order.  The position of an element is the number of those   *)
(* before it, and every position is taken: an injection into a set of the  *)
(* same size is onto.                                                      *)
(***************************************************************************)

\* R is a strict linear order of S.
IsOrder(R, S) ==
  /\ \A a \in S : <<a, a>> \notin R
  /\ \A a, b, c \in S : <<a, b>> \in R /\ <<b, c>> \in R => <<a, c>> \in R
  /\ \A a, b \in S : a # b => <<a, b>> \in R \/ <<b, a>> \in R

Earlier(R, S, a) == {b \in S : <<b, a>> \in R}

\* An element has fewer elements before it than one after it has.
LEMMA RankStep ==
  ASSUME NEW S, IsFiniteSet(S), NEW R, IsOrder(R, S),
         NEW a \in S, NEW b \in S, <<a, b>> \in R
  PROVE  /\ Cardinality(Earlier(R, S, a)) \in Nat /\ Cardinality(Earlier(R, S, b)) \in Nat
         /\ Cardinality(Earlier(R, S, a)) < Cardinality(Earlier(R, S, b))
<1> DEFINE A == Earlier(R, S, a)
           B == Earlier(R, S, b)
<1>1. A \in SUBSET B /\ a \in B /\ a \notin A /\ B \in SUBSET S
  BY DEF IsOrder, Earlier
<1>2. IsFiniteSet(B)
  BY <1>1, FS_Subset
<1>3. IsFiniteSet(A) /\ Cardinality(A) <= Cardinality(B) /\ (Cardinality(B) = Cardinality(A) => A = B)
  BY <1>1, <1>2, FS_Subset
<1>4. Cardinality(A) \in Nat /\ Cardinality(B) \in Nat
  BY <1>2, <1>3, FS_CardinalityType
<1>5. Cardinality(A) # Cardinality(B)
  BY <1>1, <1>3
<1> HIDE DEF A, B
<1>6. Cardinality(A) < Cardinality(B)
  BY <1>3, <1>4, <1>5
<1> QED
  BY <1>4, <1>6 DEF A, B

\* Every number below the size of S is the rank of one element.
LEMMA RankOnto ==
  ASSUME NEW S, IsFiniteSet(S), NEW R, IsOrder(R, S)
  PROVE  /\ Cardinality(S) \in Nat
         /\ \A i \in 1 .. Cardinality(S) : \E a \in S : Cardinality(Earlier(R, S, a)) = i - 1
         /\ \A a \in S : Cardinality(Earlier(R, S, a)) \in 0 .. Cardinality(S) - 1
         /\ \A a, b \in S :
              Cardinality(Earlier(R, S, a)) = Cardinality(Earlier(R, S, b)) => a = b
<1> DEFINE rank(a) == Cardinality(Earlier(R, S, a))
           n == Cardinality(S)
           f == [a \in S |-> rank(a) + 1]
<1>1. n \in Nat
  BY FS_CardinalityType
<1>2. ASSUME NEW a \in S PROVE rank(a) \in Nat /\ rank(a) < n
  <2>1. Earlier(R, S, a) \in SUBSET S /\ Earlier(R, S, a) # S
    BY DEF Earlier, IsOrder
  <2>2. /\ IsFiniteSet(Earlier(R, S, a)) /\ rank(a) <= n
        /\ (n = rank(a) => S = Earlier(R, S, a))
    BY <2>1, FS_Subset
  <2>3. rank(a) \in Nat
    BY <2>2, FS_CardinalityType
  <2> HIDE DEF rank, n
  <2> QED
    BY <1>1, <2>1, <2>2, <2>3
<1>3. ASSUME NEW a \in S, NEW b \in S, rank(a) = rank(b) PROVE a = b
  <2>1. CASE <<a, b>> \in R
    BY <1>3, <2>1, RankStep
  <2>2. CASE <<b, a>> \in R
    BY <1>3, <2>2, RankStep
  <2> QED
    BY <2>1, <2>2 DEF IsOrder
<1> HIDE DEF rank, n
<1>4. f \in Injection(S, 1 .. n)
  <2>1. \A a \in S : f[a] = rank(a) + 1 /\ f[a] \in 1 .. n
    BY <1>1, <1>2
  <2>2. f \in [S -> 1 .. n]
    BY <2>1
  <2>3. \A a, b \in S : f[a] = f[b] => a = b
    BY <1>2, <1>3, <2>1
  <2> QED
    BY <2>2, <2>3, Zenon DEF Injection, IsInjective
<1>5. IsFiniteSet(1 .. n) /\ Cardinality(1 .. n) = n
  BY <1>1, FS_Interval
<1>6. f \in Surjection(S, 1 .. n)
  BY <1>4, <1>5, FS_Injection, Zenon DEF n
<1>7. \A i \in 1 .. n : \E a \in S : f[a] = i
  BY <1>6 DEF Surjection
<1>8. \A i \in 1 .. n : \E a \in S : rank(a) = i - 1
  BY <1>2, <1>7
<1> QED
  BY <1>1, <1>2, <1>3, <1>8 DEF rank, n

\* A finite set of numbers has a largest: the one with all others before it.
LEMMA LargestNatural ==
  ASSUME NEW S, IsFiniteSet(S), S \subseteq Nat, S # {}
  PROVE  \E m \in S : \A x \in S : x <= m
<1> DEFINE R == {p \in S \X S : p[1] < p[2]}
           n == Cardinality(S)
           rank(x) == Cardinality(Earlier(R, S, x))
<1>1. IsOrder(R, S)
  BY DEF IsOrder
<1>2. n \in Nat /\ n # 0
  BY FS_CardinalityType, FS_EmptySet
<1>3. /\ \A i \in 1 .. n : \E x \in S : rank(x) = i - 1
      /\ \A x \in S : rank(x) \in 0 .. n - 1
  <2> HIDE DEF R
  <2>1. /\ n \in Nat
        /\ \A i \in 1 .. n : \E x \in S : Cardinality(Earlier(R, S, x)) = i - 1
        /\ \A x \in S : Cardinality(Earlier(R, S, x)) \in 0 .. n - 1
        /\ \A x, y \in S :
             Cardinality(Earlier(R, S, x)) = Cardinality(Earlier(R, S, y)) => x = y
    BY <1>1, RankOnto, Zenon
  <2> QED
    BY <2>1, Zenon
<1>4. PICK m \in S : rank(m) = n - 1
  <2> HIDE DEF rank, n
  <2>1. n \in 1 .. n
    BY <1>2
  <2> QED
    BY <1>3, <2>1
<1>5. \A x \in S : m >= x
  <2> SUFFICES ASSUME NEW x \in S, x > m PROVE FALSE
    OBVIOUS
  <2>1. <<m, x>> \in R
    OBVIOUS
  <2>2. rank(m) < rank(x)
    BY <1>1, <2>1, RankStep
  <2>3. rank(x) \in 0 .. n - 1
    BY <1>3
  <2> HIDE DEF rank, n
  <2> QED
    BY <1>2, <1>4, <2>2, <2>3
<1> QED
  BY <1>5

-----------------------------------------------------------------------------
(***************************************************************************)
(* Sums over finite sets.  SumOver is a fold that picks the elements in an *)
(* arbitrary order.  It is shown to be a cardinality, of which what a sum  *)
(* does when one element is taken out follows without induction.           *)
(***************************************************************************)

\* One slot for every unit of every val[x].
UnitsOf(val, x) == {x} \X (0 .. val[x] - 1)
Units(val, S) == UNION {UnitsOf(val, x) : x \in S}

\* The units of one element are as many as its value.
LEMMA UnitsOfOne ==
  ASSUME NEW val, NEW x, val[x] \in Nat
  PROVE  IsFiniteSet(UnitsOf(val, x)) /\ Cardinality(UnitsOf(val, x)) = val[x]
<1>1. 0 \in Int /\ val[x] - 1 \in Int
  OBVIOUS
<1>2. /\ IsFiniteSet(0 .. val[x] - 1)
      /\ Cardinality(0 .. val[x] - 1) = IF 0 > val[x] - 1 THEN 0 ELSE val[x] - 1 - 0 + 1
  BY <1>1, FS_Interval, Zenon
<1>3. Cardinality(0 .. val[x] - 1) = val[x]
  BY <1>2
<1>4. IsFiniteSet({x}) /\ Cardinality({x}) = 1
  BY FS_Singleton
<1>5. /\ IsFiniteSet({x} \X (0 .. val[x] - 1))
      /\ Cardinality({x} \X (0 .. val[x] - 1)) = Cardinality({x}) * Cardinality(0 .. val[x] - 1)
  BY <1>2, <1>4, FS_Product, Zenon
<1> QED
  BY <1>3, <1>4, <1>5 DEF UnitsOf

\* A finite set has finitely many units.
LEMMA UnitsFinite ==
  ASSUME NEW val, NEW S, IsFiniteSet(S), \A x \in S : val[x] \in Nat
  PROVE  IsFiniteSet(Units(val, S)) /\ Cardinality(Units(val, S)) \in Nat
<1> DEFINE U == {UnitsOf(val, x) : x \in S}
           f == [x \in S |-> UnitsOf(val, x)]
<1>1. f \in Surjection(S, U)
  BY DEF Surjection
<1>2. IsFiniteSet(U)
  BY <1>1, FS_Surjection, Zenon
<1>3. \A T \in U : IsFiniteSet(T)
  BY UnitsOfOne
<1>4. IsFiniteSet(UNION U)
  BY <1>2, <1>3, FS_UNION, Zenon
<1> QED
  BY <1>4, FS_CardinalityType DEF Units

\* Taking x out of S takes its units out.
LEMMA UnitsTake ==
  ASSUME NEW val, NEW S, IsFiniteSet(S), \A y \in S : val[y] \in Nat, NEW x \in S
  PROVE  Cardinality(Units(val, S)) = val[x] + Cardinality(Units(val, S \ {x}))
<1> DEFINE A == UnitsOf(val, x)
           B == Units(val, S \ {x})
<1>1. Units(val, S) = A \cup B
  BY Zenon DEF Units
<1>2. A \cap B = {}
  BY DEF Units, UnitsOf
<1>3. IsFiniteSet(S \ {x}) /\ \A y \in S \ {x} : val[y] \in Nat
  BY FS_RemoveElement
<1>4. IsFiniteSet(B) /\ Cardinality(B) \in Nat
  BY <1>3, UnitsFinite
<1>5. IsFiniteSet(A) /\ Cardinality(A) = val[x]
  BY UnitsOfOne
<1>6. Cardinality(A \cup B) = Cardinality(A) + Cardinality(B) - Cardinality(A \cap B)
  BY <1>4, <1>5, FS_Union, Zenon
<1>7. Cardinality({}) = 0
  BY FS_EmptySet
<1>8. val[x] \in Nat
  OBVIOUS
<1>9. Cardinality(A \cap B) = 0 /\ Cardinality(Units(val, S)) = Cardinality(A \cup B)
  BY <1>1, <1>2, <1>7, Zenon
<1>10. Cardinality(A \cup B) = val[x] + Cardinality(B)
  <2> HIDE DEF A, B
  <2> QED
    BY <1>4, <1>5, <1>6, <1>8, <1>9
<1> QED
  BY <1>9, <1>10, Zenon

\* The element the fold picks from s.
Picked(s) == CHOOSE x \in s : TRUE

\* The recursive equation of the fold.
IsFold(iter, val, S) ==
  iter = [s \in SUBSET S |->
            IF s = {} THEN 0 ELSE val[Picked(s)] + iter[s \ {Picked(s)}]]

\* The fold's equation has a solution, and every solution counts units.
LEMMA FoldCounts ==
  ASSUME NEW val, NEW S, IsFiniteSet(S), \A x \in S : val[x] \in Nat
  PROVE  /\ \E iter : IsFold(iter, val, S)
         /\ \A iter : IsFold(iter, val, S) =>
                        \A s \in SUBSET S : iter[s] = Cardinality(Units(val, s))
<1> DEFINE count == [s \in SUBSET S |-> Cardinality(Units(val, s))]
<1>1. Cardinality(Units(val, {})) = 0
  <2>1. Units(val, {}) = {}
    BY DEF Units
  <2> QED
    BY <2>1, FS_EmptySet
<1>2. ASSUME NEW s \in SUBSET S, s # {}
      PROVE  /\ Picked(s) \in s /\ s \ {Picked(s)} \in SUBSET S
             /\ Cardinality(Units(val, s)) =
                  val[Picked(s)] + Cardinality(Units(val, s \ {Picked(s)}))
             /\ IsFiniteSet(s)
             /\ Cardinality(s) \in Nat /\ Cardinality(s \ {Picked(s)}) \in Nat
             /\ Cardinality(s \ {Picked(s)}) < Cardinality(s)
  <2>1. Picked(s) \in s
    BY <1>2 DEF Picked
  <2>2. IsFiniteSet(s) /\ \A y \in s : val[y] \in Nat
    BY FS_Subset
  <2>3. /\ IsFiniteSet(s \ {Picked(s)})
        /\ Cardinality(s \ {Picked(s)}) = Cardinality(s) - 1
    BY <2>1, <2>2, FS_RemoveElement
  <2>4. Cardinality(s) \in Nat /\ Cardinality(s \ {Picked(s)}) \in Nat
    BY <2>2, <2>3, FS_CardinalityType
  <2>5. Cardinality(Units(val, s)) =
          val[Picked(s)] + Cardinality(Units(val, s \ {Picked(s)}))
    <3>1. PICK x \in s : x = Picked(s)
      BY <2>1
    <3>2. Cardinality(Units(val, s)) = val[x] + Cardinality(Units(val, s \ {x}))
      BY <2>2, UnitsTake
    <3> QED
      BY <3>1, <3>2
  <2>6. Cardinality(s \ {Picked(s)}) < Cardinality(s)
    BY <2>3, <2>4
  <2> QED
    BY <2>1, <2>2, <2>4, <2>5, <2>6
<1>3. IsFold(count, val, S)
  <2>1. \A s \in SUBSET S :
          Cardinality(Units(val, s)) =
            IF s = {} THEN 0 ELSE val[Picked(s)] + count[s \ {Picked(s)}]
    BY <1>1, <1>2
  <2> QED
    BY <2>1 DEF IsFold
<1>4. ASSUME NEW iter, IsFold(iter, val, S), NEW b \in SUBSET S,
             iter[b] # Cardinality(Units(val, b))
      PROVE  FALSE
  <2> DEFINE Bad == {s \in SUBSET S : iter[s] # Cardinality(Units(val, s))}
             Sizes == {Cardinality(s) : s \in Bad}
  <2>1. b \in Bad
    BY <1>4
  <2>2. Sizes \in SUBSET Nat /\ Sizes # {}
    <3>1. \A s \in SUBSET S : Cardinality(s) \in Nat
      BY FS_Subset, FS_CardinalityType
    <3> QED
      BY <2>1, <3>1
  <2>3. \E x \in Sizes : \A y \in Sizes : x <= y
    BY <2>2, LeastNatural, Zenon
  <2>4. PICK s \in Bad : \A u \in Bad : Cardinality(s) <= Cardinality(u)
    BY <2>3
  <2>5. \A u \in SUBSET S :
          iter[u] = IF u = {} THEN 0 ELSE val[Picked(u)] + iter[u \ {Picked(u)}]
    BY <1>4 DEF IsFold
  <2>6. s # {}
    BY <1>1, <2>5
  <2>7. s \ {Picked(s)} \notin Bad
    BY <1>2, <2>4, <2>6
  <2>8. iter[s \ {Picked(s)}] = Cardinality(Units(val, s \ {Picked(s)}))
    BY <1>2, <2>6, <2>7
  <2> QED
    BY <1>2, <2>5, <2>6, <2>8
<1> QED
  BY <1>3, <1>4

\* A sum is the number of its units.
LEMMA SumCounts ==
  ASSUME NEW val, NEW S, IsFiniteSet(S), \A x \in S : val[x] \in Nat
  PROVE  SumOver(val, S) = Cardinality(Units(val, S))
<1> DEFINE fold == CHOOSE iter : IsFold(iter, val, S)
<1>1. SumOver(val, S) = fold[S]
  BY DEF SumOver, MapThenSumSet, MapThenFoldSet, IsFold, Picked
<1>2. IsFold(fold, val, S)
  BY FoldCounts, Zenon
<1> QED
  BY <1>1, <1>2, FoldCounts

LEMMA SumNat ==
  ASSUME NEW val, NEW S, IsFiniteSet(S), \A x \in S : val[x] \in Nat
  PROVE  SumOver(val, S) \in Nat
BY SumCounts, UnitsFinite

LEMMA SumZero ==
  ASSUME NEW val, NEW S, IsFiniteSet(S), \A x \in S : val[x] = 0
  PROVE  SumOver(val, S) = 0
<1>1. \A x \in S : val[x] \in Nat
  OBVIOUS
<1>2. \A x \in S : UnitsOf(val, x) = {}
  BY DEF UnitsOf
<1>3. Units(val, S) = {}
  BY <1>2 DEF Units
<1> QED
  BY <1>1, <1>3, SumCounts, FS_EmptySet

LEMMA SumTake ==
  ASSUME NEW val, NEW S, IsFiniteSet(S), \A y \in S : val[y] \in Nat, NEW x \in S
  PROVE  SumOver(val, S) = val[x] + SumOver(val, S \ {x})
<1>1. IsFiniteSet(S \ {x}) /\ \A y \in S \ {x} : val[y] \in Nat
  BY FS_RemoveElement
<1> QED
  BY <1>1, SumCounts, UnitsTake

LEMMA SumSame ==
  ASSUME NEW val, NEW new, NEW S, IsFiniteSet(S), \A x \in S : val[x] \in Nat,
         \A x \in S : new[x] = val[x]
  PROVE  SumOver(new, S) = SumOver(val, S)
<1>1. \A x \in S : new[x] \in Nat
  OBVIOUS
<1>2. \A x \in S : UnitsOf(new, x) = UnitsOf(val, x)
  BY DEF UnitsOf
<1>3. Units(new, S) = Units(val, S)
  BY <1>2 DEF Units
<1> QED
  BY <1>1, <1>3, SumCounts

\* When one value changes, the sum changes by as much.
LEMMA SumChange ==
  ASSUME NEW val, NEW new, NEW S, IsFiniteSet(S), NEW x \in S,
         \A y \in S : val[y] \in Nat, new[x] \in Nat,
         \A y \in S \ {x} : new[y] = val[y]
  PROVE  SumOver(new, S) + val[x] = SumOver(val, S) + new[x]
<1>1. IsFiniteSet(S \ {x})
  BY FS_RemoveElement
<1>2. SumOver(new, S \ {x}) = SumOver(val, S \ {x})
  BY <1>1, SumSame
<1>3. SumOver(val, S) = val[x] + SumOver(val, S \ {x})
  BY SumTake
<1>4. SumOver(new, S) = new[x] + SumOver(new, S \ {x})
  <2>1. \A y \in S : new[y] \in Nat
    OBVIOUS
  <2> QED
    BY <2>1, SumTake
<1>5. SumOver(val, S \ {x}) \in Nat
  BY <1>1, SumNat
<1>6. val[x] \in Nat
  OBVIOUS
<1> QED
  BY <1>2, <1>3, <1>4, <1>5, <1>6
-----------------------------------------------------------------------------
(* Quotients, and functions on numbers step by step.                       *)

\* A quotient and a remainder.
LEMMA Euclid ==
  ASSUME NEW a \in Nat, NEW b \in Nat \ {0}
  PROVE  a \div b \in Nat /\ a % b \in 0 .. b - 1 /\ a = (a \div b) * b + (a % b)
OBVIOUS

\* The next multiple of a number is no larger than a later one.
LEMMA NextMultiple ==
  ASSUME NEW a \in Int, NEW b \in Int, a < b, NEW s \in Nat
  PROVE  a * s + s <= b * s
<1>1. PICK d \in Nat : b = a + 1 + d
  <2>1. b - a - 1 \in Nat
    OBVIOUS
  <2> QED
    BY <2>1
<1>2. d * s \in Nat
  OBVIOUS
<1>3. b * s = a * s + s + d * s
  BY <1>1
<1> QED
  BY <1>2, <1>3

\* A quotient and a remainder determine each other.
LEMMA Digits ==
  ASSUME NEW s \in Nat \ {0}, NEW x \in Int, NEW y \in Int,
         NEW i \in 0 .. s - 1, NEW j \in 0 .. s - 1
  PROVE  /\ x * s + i = y * s + j => x = y /\ i = j
         /\ x * s + i < y * s + j => x < y \/ (x = y /\ i < j)
<1>1. x < y => x * s + s <= y * s
  BY NextMultiple
<1>2. y < x => y * s + s <= x * s
  BY NextMultiple
<1>3. x * s \in Int /\ y * s \in Int
  OBVIOUS
<1>4. x * s + i = y * s + j => x = y
  BY <1>1, <1>2, <1>3
<1>5. x * s + i < y * s + j => ~(y < x)
  BY <1>2, <1>3
<1> QED
  BY <1>3, <1>4, <1>5

\* The quotient and the remainder of a number that is written with them.
LEMMA DivMod ==
  ASSUME NEW s \in Nat \ {0}, NEW c \in Nat, NEW j \in 0 .. s - 1, NEW k, k = c * s + j
  PROVE  k \div s = c /\ k % s = j
<1>1. k \in Nat
  <2>1. c * s \in Nat
    OBVIOUS
  <2> QED
    BY <2>1
<1>2. k \div s \in Nat /\ k % s \in 0 .. s - 1 /\ k = (k \div s) * s + (k % s)
  BY <1>1, Euclid
<1>3. PICK d \in Nat, i \in 0 .. s - 1 : d = k \div s /\ i = k % s /\ k = d * s + i
  BY <1>2
<1>4. c = d /\ j = i
  <2>1. c * s + j = d * s + i
    BY <1>3
  <2> QED
    BY <2>1, Digits
<1> QED
  BY <1>3, <1>4

\* Ranges that are rounded up cover the vertices.
LEMMA RoundedUp ==
  ASSUME NEW N0 \in Nat \ {0}, NEW n \in Nat \ {0}, NEW s,
         s = N0 \div n + (IF N0 % n # 0 THEN 1 ELSE 0)
  PROVE  s \in Nat \ {0} /\ N0 <= s * n
<1>1. PICK q, r : q = N0 \div n /\ r = N0 % n
  OBVIOUS
<1>2. q \in Nat /\ r \in 0 .. n - 1 /\ N0 = q * n + r
  BY <1>1, Euclid
<1>3. CASE r = 0
  <2>1. s = q
    BY <1>1, <1>2, <1>3
  <2>2. q # 0
    BY <1>2, <1>3
  <2> QED
    BY <1>2, <1>3, <2>1, <2>2
<1>4. CASE r # 0
  <2>1. s = q + 1
    BY <1>1, <1>4
  <2>2. s * n = q * n + n
    BY <1>2, <2>1
  <2>3. q * n \in Nat
    BY <1>2
  <2> QED
    BY <1>2, <2>1, <2>2, <2>3
<1> QED
  BY <1>3, <1>4

\* Which range has a vertex.
LEMMA RangeOf ==
  ASSUME NEW N0 \in Nat \ {0}, NEW n \in Nat \ {0}, NEW s \in Nat \ {0}, N0 <= s * n,
         NEW v \in 0 .. N0 - 1
  PROVE  /\ v \div s \in 0 .. n - 1
         /\ \A j \in Nat : (s * j <= v /\ v < s * j + s) <=> j = v \div s
<1>0. v \in Nat
  OBVIOUS
<1>1. PICK q, r : q = v \div s /\ r = v % s
  OBVIOUS
<1>2. q \in Nat /\ r \in 0 .. s - 1 /\ v = q * s + r
  BY <1>0, <1>1, Euclid
<1>3. q < n
  <2> SUFFICES ASSUME ~(q < n) PROVE FALSE
    OBVIOUS
  <2>1. PICK d \in Nat : q = n + d
    <3>1. q - n \in Nat
      BY <1>2
    <3> QED
      BY <1>2, <3>1
  <2>2. q * s = s * n + d * s
    BY <2>1
  <2>3. d * s \in Nat /\ s * n \in Nat
    OBVIOUS
  <2> QED
    BY <1>2, <2>2, <2>3
<1>4. ASSUME NEW j \in Nat PROVE (s * j <= v /\ v < s * j + s) <=> j = q
  <2>1. s * j = j * s /\ j * s \in Int /\ q * s \in Int
    BY <1>2
  <2>2. ASSUME s * j <= v, v < s * j + s PROVE j = q
    <3>1. PICK i \in 0 .. s - 1 : v = j * s + i
      <4>1. v - j * s \in 0 .. s - 1
        BY <2>1, <2>2
      <4> QED
        BY <2>1, <4>1
    <3>2. j * s + i = q * s + r
      BY <1>2, <3>1
    <3> QED
      BY <1>2, <3>2, Digits
  <2>3. ASSUME j = q PROVE s * j <= v /\ v < s * j + s
    BY <1>2, <2>1, <2>3
  <2> QED
    BY <2>2, <2>3
<1> QED
  BY <1>1, <1>2, <1>3, <1>4

\* A set with 1 that has the successor of each of its members has them all.
LEMMA Upwards ==
  ASSUME NEW T, 1 \in T, \A n \in Nat \ {0} : n \in T => n + 1 \in T
  PROVE  \A n \in Nat \ {0} : n \in T
<1> DEFINE U == {n \in Nat : n # 0 /\ n \notin T}
<1> SUFFICES ASSUME U # {} PROVE FALSE
  OBVIOUS
<1>1. PICK x \in U : \A y \in U : x <= y
  <2>1. U \in SUBSET Nat
    OBVIOUS
  <2> HIDE DEF U
  <2> QED
    BY <2>1, LeastNatural
<1>2. x \in Nat /\ x # 0 /\ x # 1
  BY <1>1
<1>3. x - 1 \in Nat \ {0} /\ x - 1 \in T
  BY <1>1, <1>2
<1>4. (x - 1) + 1 \in T
  BY <1>3
<1> QED
  BY <1>1, <1>2, <1>4

\* Row pointers that ascend step by step ascend.
LEMMA Climbs ==
  ASSUME NEW n \in Nat, NEW x \in [0 .. n -> Nat], \A v \in 0 .. n - 1 : x[v] <= x[v + 1]
  PROVE  \A v, w \in 0 .. n : v <= w => x[v] <= x[w]
<1> DEFINE T == {k \in Nat \ {0} : \A v \in 0 .. n : v + k <= n => x[v] <= x[v + k]}
<1>1. 1 \in T
  <2> SUFFICES ASSUME NEW v \in 0 .. n, v + 1 <= n PROVE x[v] <= x[v + 1]
    OBVIOUS
  <2>1. v \in 0 .. n - 1
    OBVIOUS
  <2> QED
    BY <2>1
<1>2. ASSUME NEW k \in Nat \ {0}, k \in T PROVE k + 1 \in T
  <2> SUFFICES ASSUME NEW v \in 0 .. n, v + (k + 1) <= n PROVE x[v] <= x[v + (k + 1)]
    OBVIOUS
  <2>1. PICK w \in 0 .. n - 1 : w = v + k
    OBVIOUS
  <2>2. x[v] <= x[w]
    BY <1>2, <2>1
  <2>3. x[w] <= x[w + 1] /\ w + 1 = v + (k + 1)
    BY <2>1
  <2>4. PICK a, b, c \in Nat : a = x[v] /\ b = x[w] /\ c = x[w + 1]
    OBVIOUS
  <2>5. a <= c
    BY <2>2, <2>3, <2>4
  <2> QED
    BY <2>3, <2>4, <2>5
<1> HIDE DEF T
<1>3. \A k \in Nat \ {0} : k \in T
  BY <1>1, <1>2, Upwards
<1> SUFFICES ASSUME NEW v \in 0 .. n, NEW w \in 0 .. n, v <= w PROVE x[v] <= x[w]
  OBVIOUS
<1>4. CASE v = w
  <2>1. x[v] \in Nat
    OBVIOUS
  <2> QED
    BY <1>4, <2>1
<1>5. CASE v # w
  <2>1. PICK k \in Nat \ {0} : k = w - v
    BY <1>5
  <2>2. v + k <= n /\ v + k = w
    BY <2>1
  <2> QED
    BY <1>3, <2>2 DEF T
<1> QED
  BY <1>4, <1>5

\* Row pointers that grow no faster stay below.
LEMMA GrowsSlower ==
  ASSUME NEW n \in Nat, NEW x \in [0 .. n -> Nat], NEW y \in [0 .. n -> Nat], x[0] <= y[0],
         \A v \in 0 .. n - 1 : x[v + 1] - x[v] <= y[v + 1] - y[v]
  PROVE  x[n] <= y[n]
<1> DEFINE T == {k \in Nat \ {0} : k - 1 <= n => x[k - 1] <= y[k - 1]}
<1>1. 1 \in T
  OBVIOUS
<1>2. ASSUME NEW k \in Nat \ {0}, k \in T PROVE k + 1 \in T
  <2> SUFFICES ASSUME (k + 1) - 1 <= n PROVE x[(k + 1) - 1] <= y[(k + 1) - 1]
    OBVIOUS
  <2>1. PICK v \in 0 .. n - 1 : v = k - 1 /\ v + 1 = (k + 1) - 1
    OBVIOUS
  <2>2. x[v] <= y[v] /\ x[v + 1] - x[v] <= y[v + 1] - y[v]
    BY <1>2, <2>1
  <2>3. x[v] \in Nat /\ y[v] \in Nat /\ x[v + 1] \in Nat /\ y[v + 1] \in Nat
    OBVIOUS
  <2>4. x[v + 1] <= y[v + 1]
    BY <2>2, <2>3
  <2> QED
    BY <2>1, <2>4
<1> HIDE DEF T
<1>3. n + 1 \in T
  <2>1. \A k \in Nat \ {0} : k \in T
    BY <1>1, <1>2, Upwards
  <2>2. n + 1 \in Nat \ {0}
    OBVIOUS
  <2> QED
    BY <2>1, <2>2
<1>4. (n + 1) - 1 = n
  OBVIOUS
<1> QED
  BY <1>3, <1>4 DEF T

\* One more number adds its value to the sum over those below it.
LEMMA SumBelow ==
  ASSUME NEW val, NEW n \in Nat, \A i \in 0 .. n : val[i] \in Nat
  PROVE  /\ SumOver(val, 0 .. n) = SumOver(val, 0 .. n - 1) + val[n]
         /\ SumOver(val, 0 .. n - 1) \in Nat
<1>1. IsFiniteSet(0 .. n) /\ IsFiniteSet(0 .. n - 1)
  <2>1. 0 \in Int /\ n \in Int /\ n - 1 \in Int
    OBVIOUS
  <2> QED
    BY <2>1, FS_Interval
<1>2. n \in 0 .. n /\ (0 .. n) \ {n} = 0 .. n - 1
  OBVIOUS
<1>3. PICK S : S = 0 .. n
  OBVIOUS
<1>4. SumOver(val, S) = val[n] + SumOver(val, S \ {n})
  BY <1>1, <1>2, <1>3, SumTake
<1>5. SumOver(val, 0 .. n - 1) \in Nat
  <2>1. \A i \in 0 .. n - 1 : val[i] \in Nat
    OBVIOUS
  <2> QED
    BY <1>1, <2>1, SumNat
<1>6. val[n] \in Nat
  BY <1>2
<1>7. SumOver(val, 0 .. n) = val[n] + SumOver(val, 0 .. n - 1)
  BY <1>2, <1>3, <1>4, Zenon
<1> QED
  BY <1>5, <1>6, <1>7

\* The empty sum.
LEMMA SumNone == ASSUME NEW val PROVE SumOver(val, 0 .. -1) = 0
<1>1. 0 .. -1 = {}
  OBVIOUS
<1>2. IsFiniteSet({}) /\ \A x \in {} : val[x] = 0
  BY FS_EmptySet
<1> QED
  BY <1>1, <1>2, SumZero

\* Induction over a set of numbers, by its least gap.
LEMMA FromZero ==
  ASSUME NEW T, 0 \in T, \A n \in Nat : n \in T => n + 1 \in T
  PROVE  \A n \in Nat : n \in T
<1> DEFINE U == {n \in Nat : n \notin T}
<1> SUFFICES ASSUME U # {} PROVE FALSE
  OBVIOUS
<1>1. PICK x \in U : \A y \in U : x <= y
  <2>1. U \in SUBSET Nat
    OBVIOUS
  <2> HIDE DEF U
  <2> QED
    BY <2>1, LeastNatural
<1>2. x \in Nat /\ x # 0
  BY <1>1
<1>3. x - 1 \in Nat /\ x - 1 \in T
  BY <1>1, <1>2
<1>4. (x - 1) + 1 \in T
  BY <1>3
<1> QED
  BY <1>1, <1>2, <1>4

\* The sum of sums.
LEMMA SumAdd ==
  ASSUME NEW n \in Nat, NEW a, NEW b, NEW c,
         \A v \in 0 .. n - 1 : a[v] \in Nat /\ b[v] \in Nat /\ c[v] = a[v] + b[v]
  PROVE  SumOver(c, 0 .. n - 1) = SumOver(a, 0 .. n - 1) + SumOver(b, 0 .. n - 1)
<1> DEFINE T == {k \in Nat : k <= n => SumOver(c, 0 .. k - 1) = SumOver(a, 0 .. k - 1) + SumOver(b, 0 .. k - 1)}
<1>1. 0 \in T
  <2>1. 0 .. 0 - 1 = 0 .. -1
    OBVIOUS
  <2> QED
    BY <2>1, SumNone
<1>2. ASSUME NEW k \in Nat, k \in T PROVE k + 1 \in T
  <2> SUFFICES ASSUME k + 1 <= n
               PROVE  SumOver(c, 0 .. (k + 1) - 1) =
                        SumOver(a, 0 .. (k + 1) - 1) + SumOver(b, 0 .. (k + 1) - 1)
    OBVIOUS
  <2>1. SumOver(c, 0 .. k - 1) = SumOver(a, 0 .. k - 1) + SumOver(b, 0 .. k - 1)
    BY <1>2
  <2>2. (k + 1) - 1 = k /\ k \in 0 .. n - 1
    OBVIOUS
  <2>3. \A i \in 0 .. k : a[i] \in Nat /\ b[i] \in Nat /\ c[i] \in Nat
    OBVIOUS
  <2>4. /\ SumOver(a, 0 .. k) = SumOver(a, 0 .. k - 1) + a[k] /\ SumOver(a, 0 .. k - 1) \in Nat
        /\ SumOver(b, 0 .. k) = SumOver(b, 0 .. k - 1) + b[k] /\ SumOver(b, 0 .. k - 1) \in Nat
        /\ SumOver(c, 0 .. k) = SumOver(c, 0 .. k - 1) + c[k] /\ SumOver(c, 0 .. k - 1) \in Nat
    BY <2>3, SumBelow
  <2>5. a[k] \in Nat /\ b[k] \in Nat /\ c[k] = a[k] + b[k]
    BY <2>2
  <2>6. SumOver(c, 0 .. k) = SumOver(a, 0 .. k) + SumOver(b, 0 .. k)
    BY <2>1, <2>4, <2>5
  <2> QED
    BY <2>2, <2>6
<1> HIDE DEF T
<1>3. n \in T
  BY <1>1, <1>2, FromZero
<1> QED
  BY <1>3 DEF T
=============================================================================

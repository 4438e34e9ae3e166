------------------------ MODULE NeighborSamplerProofs ------------------------
(***************************************************************************)
(* Proofs about NeighborSampler, for every undirected graph and every      *)
(* command line: a walk is a partial match, no buffer overflows but those  *)
(* of a path or a cycle in a sparse graph, and no edge id is past the list *)
(* where the sampler draws from the list's length.                         *)
(***************************************************************************)
EXTENDS NeighborSampler, PrefixSumProofs

-----------------------------------------------------------------------------
(* Sets put in order.                                                      *)

\* Sorted lists every element of S after all the smaller ones.
LEMMA SortedFacts ==
  ASSUME NEW S, IsFiniteSet(S), S \subseteq Nat
  PROVE  /\ DOMAIN Sorted(S) = 1 .. Cardinality(S)
         /\ \A i \in DOMAIN Sorted(S) : Sorted(S)[i] \in S
         /\ \A x \in S : \E r \in DOMAIN Sorted(S) :
              Sorted(S)[r] = x /\ \A i \in 1 .. r - 1 : Sorted(S)[i] < x
<1> DEFINE R == {p \in S \X S : p[1] < p[2]}
           n == Cardinality(S)
           rank(x) == Cardinality(Below(S, x))
<1>1. IsOrder(R, S)
  BY DEF IsOrder
<1>2. \A x \in S : Earlier(R, S, x) = Below(S, x)
  BY DEF Earlier, Below
<1>3. /\ n \in Nat
      /\ \A i \in 1 .. n : \E x \in S : rank(x) = i - 1
      /\ \A x \in S : rank(x) \in 0 .. n - 1
      /\ \A x, y \in S : rank(x) = rank(y) => x = y
  <2> HIDE DEF R
  <2>1. /\ n \in Nat
        /\ \A i \in 1 .. n : \E x \in S : Cardinality(Earlier(R, S, x)) = i - 1
        /\ \A x \in S : Cardinality(Earlier(R, S, x)) \in 0 .. n - 1
        /\ \A x, y \in S :
             Cardinality(Earlier(R, S, x)) = Cardinality(Earlier(R, S, y)) => x = y
    BY <1>1, RankOnto, Zenon
  <2> QED
    BY <1>2, <2>1, Zenon
<1>4. \A x, y \in S : x < y => rank(x) < rank(y)
  <2> SUFFICES ASSUME NEW x \in S, NEW y \in S, x < y PROVE rank(x) < rank(y)
    OBVIOUS
  <2>1. <<x, y>> \in R
    OBVIOUS
  <2> QED
    BY <1>1, <1>2, <2>1, RankStep
<1>5. Sorted(S) = [i \in 1 .. n |-> CHOOSE x \in S : rank(x) = i - 1]
  BY DEF Sorted
<1> HIDE DEF rank, n, R
<1>6. \A i \in 1 .. n : Sorted(S)[i] \in S /\ rank(Sorted(S)[i]) = i - 1
  BY <1>3, <1>5
<1>7. ASSUME NEW x \in S
      PROVE  \E r \in 1 .. n : Sorted(S)[r] = x /\ \A i \in 1 .. r - 1 : Sorted(S)[i] < x
  <2>1. PICK r \in 1 .. n : r = rank(x) + 1
    BY <1>3
  <2>2. Sorted(S)[r] = x
    <3>1. rank(x) \in Int /\ Sorted(S)[r] \in S /\ rank(Sorted(S)[r]) = r - 1
      BY <1>3, <1>6
    <3>2. rank(Sorted(S)[r]) = rank(x)
      BY <2>1, <3>1
    <3> QED
      BY <1>3, <3>1, <3>2, Zenon
  <2>3. ASSUME NEW i \in 1 .. r - 1 PROVE Sorted(S)[i] < x
    <3>1. i \in 1 .. n /\ i - 1 < rank(x)
      BY <1>3, <2>1
    <3>2. PICK y \in S : /\ y = Sorted(S)[i] /\ rank(y) < rank(x)
                         /\ rank(y) \in Int /\ rank(x) \in Int
      <4>1. PICK y \in S : y = Sorted(S)[i] /\ rank(y) = i - 1
        BY <1>6, <3>1
      <4>2. rank(y) \in Int /\ rank(x) \in Int
        BY <1>3
      <4> QED
        BY <3>1, <4>1, <4>2
    <3>3. ~(x < y) /\ x # y
      BY <1>3, <1>4, <3>2
    <3> QED
      BY <3>2, <3>3
  <2> QED
    BY <2>2, <2>3
<1> QED
  BY <1>5, <1>6, <1>7 DEF n

\* Subtracting a sorted list removes all its elements.
LEMMA DifferenceSorted ==
  ASSUME NEW S, IsFiniteSet(S), S \subseteq Nat, NEW A
  PROVE  difference_set(A, Sorted(S)) = A \ S
<1>1. /\ \A i \in DOMAIN Sorted(S) : Sorted(S)[i] \in S
      /\ \A x \in S : \E r \in DOMAIN Sorted(S) :
           Sorted(S)[r] = x /\ \A i \in 1 .. r - 1 : Sorted(S)[i] < x
  BY SortedFacts, Zenon
<1> QED
  BY <1>1, Zenon DEF difference_set

\* The list of a set of arcs has an arc of the set at each of its positions.
LEMMA InOrderFacts ==
  ASSUME NEW S, IsFiniteSet(S), S \subseteq Nat \X Nat
  PROVE  /\ Len(InOrder(S)) = Cardinality(S) /\ Cardinality(S) \in Nat
         /\ DOMAIN InOrder(S) = 1 .. Cardinality(S)
         /\ \A i \in 1 .. Cardinality(S) : InOrder(S)[i] \in S
<1> DEFINE R == {p \in S \X S : Before(p[1], p[2])}
           n == Cardinality(S)
           rank(a) == Cardinality({b \in S : Before(b, a)})
<1>1. IsOrder(R, S)
  BY DEF IsOrder, Before
<1>2. \A x \in S : Earlier(R, S, x) = {b \in S : Before(b, x)}
  BY DEF Earlier
<1>3. /\ n \in Nat
      /\ \A i \in 1 .. n : \E x \in S : rank(x) = i - 1
  <2> HIDE DEF R
  <2>1. /\ n \in Nat
        /\ \A i \in 1 .. n : \E x \in S : Cardinality(Earlier(R, S, x)) = i - 1
    BY <1>1, RankOnto
  <2> QED
    BY <1>2, <2>1, Zenon
<1>4. InOrder(S) = [i \in 1 .. n |-> CHOOSE a \in S : rank(a) = i - 1]
  BY DEF InOrder
<1> HIDE DEF rank, n, R
<1>5. \A i \in 1 .. n : InOrder(S)[i] \in S
  BY <1>3, <1>4
<1>6. InOrder(S) \in [1 .. n -> S]
  BY <1>4, <1>5
<1>7. Len(InOrder(S)) = n /\ DOMAIN InOrder(S) = 1 .. n
  BY <1>3, <1>6
<1> QED
  BY <1>3, <1>5, <1>7 DEF n

\* Max is the largest of a finite set of numbers.
LEMMA MaxFacts ==
  ASSUME NEW S, IsFiniteSet(S), S \subseteq Nat, S # {}
  PROVE  Max(S) \in S /\ \A x \in S : x <= Max(S)
<1>1. PICK m \in S : \A x \in S : x <= m
  BY LargestNatural
<1>2. m \in S /\ \A x \in S : m >= x
  BY <1>1
<1>3. Max(S) \in S /\ \A x \in S : Max(S) >= x
  BY <1>2 DEF Max
<1> QED
  BY <1>3

-----------------------------------------------------------------------------
(* Graphs.                                                                 *)

IsGraph(g) == IsFiniteSet(V(g)) /\ V(g) \subseteq Nat /\ \A v \in V(g) : g[v] \subseteq V(g)

LEMMA ArcsFacts ==
  ASSUME NEW g, IsGraph(g)
  PROVE  IsFiniteSet(Arcs(g)) /\ Arcs(g) \subseteq Nat \X Nat
<1>1. IsFiniteSet(V(g) \X V(g))
  BY FS_Product, Zenon DEF IsGraph
<1>2. Arcs(g) \in SUBSET (V(g) \X V(g))
  BY DEF Arcs
<1>3. V(g) \X V(g) \subseteq Nat \X Nat
  BY DEF IsGraph
<1> QED
  BY <1>1, <1>2, <1>3, FS_Subset

\* Every edge id below nnz is that of an arc; the whole list has E() of them.
LEMMA EdgeListFacts ==
  ASSUME NEW g, IsGraph(g), NEW c
  PROVE  /\ Len(EdgeList(c, g)) \in Nat
         /\ \A i \in 1 .. Len(EdgeList(c, g)) : EdgeList(c, g)[i] \in Arcs(g)
         /\ ~Halves(c) => Len(EdgeList(c, g)) = E(g)
<1>1. IsFiniteSet(Arcs(g)) /\ Arcs(g) \subseteq Nat \X Nat
  BY ArcsFacts
<1>2. CASE Halves(c)
  <2>1. PICK S : S = {a \in Arcs(g) : a[2] < a[1]}
    OBVIOUS
  <2>2. S \in SUBSET Arcs(g)
    BY <2>1
  <2>3. IsFiniteSet(S) /\ S \subseteq Nat \X Nat
    BY <1>1, <2>2, FS_Subset
  <2>4. EdgeList(c, g) = InOrder(S)
    BY <1>2, <2>1 DEF EdgeList, init_edgelist
  <2>5. /\ Len(InOrder(S)) = Cardinality(S) /\ Cardinality(S) \in Nat
        /\ \A i \in 1 .. Cardinality(S) : InOrder(S)[i] \in S
    BY <2>3, InOrderFacts, Zenon
  <2> QED
    BY <1>2, <2>2, <2>4, <2>5, Zenon
<1>3. CASE ~Halves(c)
  <2>1. EdgeList(c, g) = InOrder(Arcs(g))
    BY <1>3 DEF EdgeList, init_simple_edgelist
  <2>2. /\ Len(InOrder(Arcs(g))) = Cardinality(Arcs(g)) /\ Cardinality(Arcs(g)) \in Nat
        /\ \A i \in 1 .. Cardinality(Arcs(g)) : InOrder(Arcs(g))[i] \in Arcs(g)
    BY <1>1, InOrderFacts, Zenon
  <2> QED
    BY <2>1, <2>2, Zenon DEF E
<1> QED
  BY <1>2, <1>3

LEMMA MaxDegreeFacts ==
  ASSUME NEW g, IsGraph(g)
  PROVE  /\ MAX_DEGREE(g) \in Nat
         /\ \A v \in V(g) : deg(g, v) \in Nat /\ deg(g, v) <= MAX_DEGREE(g)
<1> DEFINE D == {deg(g, v) : v \in V(g)}
           f == [v \in V(g) |-> deg(g, v)]
<1>1. \A v \in V(g) : deg(g, v) \in Nat
  <2> SUFFICES ASSUME NEW v \in V(g) PROVE deg(g, v) \in Nat
    OBVIOUS
  <2>1. g[v] \in SUBSET V(g) /\ IsFiniteSet(V(g))
    BY DEF IsGraph
  <2> QED
    BY <2>1, FS_Subset, FS_CardinalityType DEF deg
<1>2. f \in Surjection(V(g), D)
  BY Zenon DEF Surjection
<1>3. IsFiniteSet(D)
  BY <1>2, FS_Surjection, Zenon DEF IsGraph
<1>4. IsFiniteSet({1} \cup D)
  <2>1. IsFiniteSet(D \cup {1}) /\ {1} \cup D = D \cup {1}
    BY <1>3, FS_AddElement
  <2> QED
    BY <2>1, Zenon
<1>5. {1} \cup D \subseteq Nat /\ {1} \cup D # {}
  BY <1>1
<1>6. Max({1} \cup D) \in {1} \cup D /\ \A x \in {1} \cup D : x <= Max({1} \cup D)
  BY <1>4, <1>5, MaxFacts
<1>7. MAX_DEGREE(g) = Max({1} \cup D)
  BY DEF MAX_DEGREE
<1> QED
  BY <1>1, <1>5, <1>6, <1>7

\* The graph that main works on has the vertices of the input and no arc that
\* the input lacks.
LEMMA OrientedFacts ==
  ASSUME NEW g, IsUndirected(g)
  PROVE  /\ V(Oriented(g)) = V(g) /\ \A v \in V(g) : Oriented(g)[v] \subseteq g[v]
         /\ IsGraph(g) /\ IsGraph(Oriented(g))
BY DEF IsUndirected, IsGraph, Oriented, V

-----------------------------------------------------------------------------
(***************************************************************************)
(* Walks.  Each sampler adds a vertex that is not on the walk, and that a  *)
(* chain or a clique joins to the ones it has to be joined to.             *)
(***************************************************************************)

\* WalkMatches for a command line c and a walk w.
Matches(c, w) ==
  /\ IF c.sampler = "dumbbell"
     THEN /\ Len(w) <= 4 => Distinct(w)
          /\ Len(w) = 5 => /\ w[5] \notin {w[1], w[2]}
                           /\ w[5] = w[3] => w[3] < w[1]
     ELSE Distinct(w)
  /\ c.sampler = "clique" => \A i, j \in DOMAIN w : i # j => w[i] \in c.input[w[j]]
  /\ c.sampler \in {"path", "cycle", "house_base"} =>
       \A i \in 1 .. Len(w) - 1 : w[i + 1] \in c.input[w[i]]

\* The graph g that the sampler works on is the input, or part of it.
PartOf(c, g) ==
  /\ IsUndirected(c.input) /\ IsGraph(g)
  /\ V(g) = V(c.input) /\ \A v \in V(g) : g[v] \subseteq c.input[v]

LEMMA AppendFacts ==
  ASSUME NEW S, NEW w \in Seq(S), NEW x \in S
  PROVE  /\ Append(w, x) \in Seq(S) /\ Len(w) \in Nat /\ Len(Append(w, x)) = Len(w) + 1
         /\ Append(w, x)[Len(w) + 1] = x /\ \A i \in 1 .. Len(w) : Append(w, x)[i] = w[i]
         /\ DOMAIN w = 1 .. Len(w) /\ DOMAIN Append(w, x) = 1 .. Len(w) + 1
OBVIOUS

LEMMA DistinctAppend ==
  ASSUME NEW S, NEW w \in Seq(S), NEW x \in S, Distinct(w), \A i \in DOMAIN w : x # w[i]
  PROVE  Distinct(Append(w, x))
<1> SUFFICES ASSUME NEW i \in DOMAIN Append(w, x), NEW j \in DOMAIN Append(w, x),
                    Append(w, x)[i] = Append(w, x)[j]
             PROVE  i = j
  BY DEF Distinct
<1>1. DOMAIN w = 1 .. Len(w) /\ Len(w) \in Nat
  OBVIOUS
<1>2. /\ i \in 1 .. Len(w) => Append(w, x)[i] = w[i] /\ i \in DOMAIN w
      /\ j \in 1 .. Len(w) => Append(w, x)[j] = w[j] /\ j \in DOMAIN w
      /\ Append(w, x)[Len(w) + 1] = x
      /\ i \in 1 .. Len(w) \/ i = Len(w) + 1
      /\ j \in 1 .. Len(w) \/ j = Len(w) + 1
  BY <1>1, AppendFacts
<1> QED
  BY <1>2 DEF Distinct

LEMMA DistinctPrepend ==
  ASSUME NEW S, NEW w \in Seq(S), NEW x \in S, Distinct(w), \A i \in DOMAIN w : x # w[i]
  PROVE  Distinct(<<x>> \o w)
<1> SUFFICES ASSUME NEW i \in DOMAIN (<<x>> \o w), NEW j \in DOMAIN (<<x>> \o w),
                    (<<x>> \o w)[i] = (<<x>> \o w)[j]
             PROVE  i = j
  BY DEF Distinct
<1>1. DOMAIN w = 1 .. Len(w) /\ Len(w) \in Nat /\ DOMAIN (<<x>> \o w) = 1 .. Len(w) + 1
  OBVIOUS
<1>2. (<<x>> \o w)[1] = x /\ \A n \in 2 .. Len(w) + 1 : (<<x>> \o w)[n] = w[n - 1]
  OBVIOUS
<1> QED
  BY <1>1, <1>2 DEF Distinct

\* The first two vertices are an edge.
LEMMA EdgeMatches ==
  ASSUME NEW c, NEW g, PartOf(c, g), NEW a \in Arcs(g)
  PROVE  /\ a \in Seq(V(g)) /\ Len(a) = 2 /\ Matches(c, a)
<1>1. PICK v \in V(g), w \in V(g) : a = <<v, w>> /\ w \in g[v]
  BY DEF Arcs
<1>2. w # v /\ w \in c.input[v] /\ v \in c.input[w]
  BY <1>1 DEF PartOf, IsUndirected
<1> QED
  BY <1>1, <1>2 DEF Matches, Distinct

\* The number of vertices that each sampler draws.
LEMMA DrawsFacts ==
  ASSUME NEW s, NEW k \in Nat, k > 2
  PROVE  /\ Draws(s, k) \in Nat /\ Draws(s, k) >= 2
         /\ s \in {"clique", "path", "cycle"} => Draws(s, k) = k - 1
         /\ s = "house" => Draws(s, k) = 4
         /\ s \in {"dumbbell", "house_base"} => Draws(s, k) = 5
         /\ s = "clique_base" => Draws(s, k) = k
         /\ s \in {"diamond", "star", "tailedtriangle"} => Draws(s, k) = 2
         /\ s \in {"induced_diamond", "induced_star", "induced_tailedtri", "induced_cycle"}
              => Draws(s, k) = 3
<1>1. Draws(s, k) = IF s \in {"diamond", "star", "tailedtriangle"} THEN 2
                    ELSE IF s \in {"induced_diamond", "induced_star", "induced_tailedtri",
                                   "induced_cycle"} THEN 3
                    ELSE IF s = "house" THEN 4
                    ELSE IF s \in {"dumbbell", "house_base"} THEN 5
                    ELSE IF s = "clique_base" THEN k
                    ELSE k - 1
  BY DEF Draws
<1> QED
  BY <1>1

\* What all the extensions are about: a walk that is a match so far and still
\* short of its last level.
Extensible(c, g, w) ==
  /\ PartOf(c, g) /\ c.k \in Nat /\ c.k > 2
  /\ w \in Seq(V(g)) /\ Len(w) \in Nat /\ Len(w) >= 2 /\ Len(w) < Draws(c.sampler, c.k)
  /\ Matches(c, w)

LEMMA WalkLength ==
  ASSUME NEW c, NEW g, NEW w, Extensible(c, g, w)
  PROVE  /\ c.sampler = "house" => Len(w) \in {2, 3}
         /\ c.sampler = "dumbbell" => Len(w) \in {2, 3, 4} /\ Len(w) <= 4
         /\ c.sampler \in {"induced_diamond", "induced_star", "induced_tailedtri", "induced_cycle"}
              => Len(w) = 2
         /\ c.sampler \notin {"diamond", "star", "tailedtriangle"}
<1> DEFINE s == c.sampler
           k == c.k
           n == Draws(s, k)
           m == Len(w)
<1>1. k \in Nat /\ k > 2 /\ m \in Nat /\ m >= 2 /\ m < n
  BY DEF Extensible
<1>2. /\ n \in Nat /\ n >= 2
      /\ s = "house" => n = 4
      /\ s = "dumbbell" => n = 5
      /\ s \in {"diamond", "star", "tailedtriangle"} => n = 2
      /\ s \in {"induced_diamond", "induced_star", "induced_tailedtri", "induced_cycle"} => n = 3
  <2> HIDE DEF s, k
  <2> QED
    BY <1>1, DrawsFacts
<1> HIDE DEF s, k, n, m
<1>3. n = 4 => m \in {2, 3}
  BY <1>1
<1>4. (n = 5 => m \in {2, 3, 4} /\ m <= 4) /\ (n = 3 => m = 2) /\ n # 2
  BY <1>1, <1>2
<1>5. /\ s = "house" => m \in {2, 3}
      /\ s = "dumbbell" => m \in {2, 3, 4} /\ m <= 4
      /\ s \in {"induced_diamond", "induced_star", "induced_tailedtri", "induced_cycle"} => m = 2
      /\ s \notin {"diamond", "star", "tailedtriangle"}
  BY <1>2, <1>3, <1>4, Zenon
<1> QED
  BY <1>5 DEF s, m

\* The vertices of a walk are vertices, and no vertex is its own neighbour.
LEMMA WalkVertices ==
  ASSUME NEW c, NEW g, NEW w, Extensible(c, g, w)
  PROVE  /\ DOMAIN w = 1 .. Len(w) /\ Len(w) \in Nat
         /\ \A i \in 1 .. Len(w) : w[i] \in V(g) /\ w[i] \in Nat
         /\ IsFiniteSet(Range(w)) /\ Range(w) \subseteq Nat /\ \A i \in 1 .. Len(w) : w[i] \in Range(w)
         /\ Last(w) = w[Len(w)]
         /\ \A v \in V(g) : v \notin g[v] /\ g[v] \subseteq V(g)
<1>1. w \in Seq(V(g)) /\ Len(w) \in Nat /\ V(g) \subseteq Nat
  BY DEF Extensible, PartOf, IsGraph
<1>2. DOMAIN w = 1 .. Len(w) /\ \A i \in 1 .. Len(w) : w[i] \in V(g)
  BY <1>1
<1>3. \A i \in 1 .. Len(w) : w[i] \in Range(w)
  BY <1>2 DEF Range
<1>4. Range(w) \in SUBSET V(g)
  BY <1>2 DEF Range
<1>5. IsFiniteSet(Range(w))
  BY <1>4, FS_Subset DEF Extensible, PartOf, IsGraph
<1>6. \A v \in V(g) : v \notin g[v] /\ g[v] \subseteq V(g)
  BY DEF Extensible, PartOf, IsUndirected, IsGraph
<1> QED
  BY <1>1, <1>2, <1>3, <1>4, <1>5, <1>6 DEF Last

LEMMA ExtendClique ==
  ASSUME NEW c, NEW g, NEW w, Extensible(c, g, w), c.sampler = "clique", NEW x \in Common(g, w)
  PROVE  x \in V(g) /\ Matches(c, Append(w, x))
<1>1. x \in V(g) /\ \A i \in DOMAIN w : x \in g[w[i]]
  BY DEF Common
<1>2. \A i \in DOMAIN w : w[i] \in V(g) /\ x # w[i] /\ x \in c.input[w[i]] /\ w[i] \in c.input[x]
  BY <1>1, WalkVertices DEF Extensible, PartOf, IsUndirected
<1>3. w \in Seq(V(g)) /\ Distinct(w) /\ \A i, j \in DOMAIN w : i # j => w[i] \in c.input[w[j]]
  BY DEF Extensible, Matches
<1>4. Distinct(Append(w, x))
  BY <1>1, <1>2, <1>3, DistinctAppend
<1>5. \A i, j \in DOMAIN Append(w, x) : i # j => Append(w, x)[i] \in c.input[Append(w, x)[j]]
  <2>1. /\ DOMAIN w = 1 .. Len(w) /\ DOMAIN Append(w, x) = 1 .. Len(w) + 1 /\ Len(w) \in Nat
        /\ Append(w, x)[Len(w) + 1] = x /\ \A i \in 1 .. Len(w) : Append(w, x)[i] = w[i]
    BY <1>1, <1>3, AppendFacts
  <2> QED
    BY <1>2, <1>3, <2>1
<1> QED
  BY <1>1, <1>4, <1>5 DEF Matches

\* A path and a cycle go on from their last vertex, to one that is not on them.
LEMMA ExtendPath ==
  ASSUME NEW c, NEW g, NEW w, Extensible(c, g, w), c.sampler \in {"path", "cycle"},
         NEW x \in PathCandidates(g, w)
  PROVE  x \in V(g) /\ Matches(c, Append(w, x))
<1>1. PathCandidates(g, w) = g[Last(w)] \ Range(w)
  BY WalkVertices, DifferenceSorted DEF PathCandidates
<1>2. x \in g[Last(w)] /\ x \notin Range(w) /\ Last(w) = w[Len(w)] /\ Last(w) \in V(g)
  <2>1. Len(w) \in 1 .. Len(w)
    BY DEF Extensible
  <2> QED
    BY <1>1, <2>1, WalkVertices
<1>3. x \in V(g) /\ x \in c.input[w[Len(w)]]
  BY <1>2, WalkVertices DEF Extensible, PartOf
<1>4. /\ w \in Seq(V(g)) /\ Distinct(w)
      /\ \A i \in 1 .. Len(w) - 1 : w[i + 1] \in c.input[w[i]]
  BY DEF Extensible, Matches
<1>5. Distinct(Append(w, x))
  BY <1>2, <1>3, <1>4, WalkVertices, DistinctAppend
<1>6. /\ Len(w) \in Nat /\ Len(Append(w, x)) = Len(w) + 1
      /\ Append(w, x)[Len(w) + 1] = x /\ \A i \in 1 .. Len(w) : Append(w, x)[i] = w[i]
  BY <1>3, <1>4, AppendFacts
<1>7. \A i \in 1 .. Len(Append(w, x)) - 1 : Append(w, x)[i + 1] \in c.input[Append(w, x)[i]]
  BY <1>3, <1>4, <1>6
<1> QED
  BY <1>3, <1>5, <1>7 DEF Matches

\* For the samplers of which only distinctness is asked, a new vertex suffices.
LEMMA ExtendNew ==
  ASSUME NEW c, NEW g, NEW w, Extensible(c, g, w),
         c.sampler \notin {"clique", "path", "cycle", "house_base", "dumbbell"},
         NEW x \in V(g), \A i \in DOMAIN w : x # w[i]
  PROVE  Matches(c, Append(w, x))
<1>1. w \in Seq(V(g)) /\ Distinct(w)
  BY DEF Extensible, Matches
<1>2. Distinct(Append(w, x))
  BY <1>1, DistinctAppend
<1> QED
  BY <1>2 DEF Matches

\* The roof of a house is a common neighbour; the vertex after it is another
\* neighbour of v0.
LEMMA ExtendHouse ==
  ASSUME NEW c, NEW g, NEW w, Extensible(c, g, w), c.sampler = "house", NEW x \in HouseCandidates(g, w)
  PROVE  x \in V(g) /\ Matches(c, Append(w, x))
<1>1. Len(w) \in {2, 3}
  BY WalkLength
<1>2. CASE Len(w) = 2
  <2>1. x \in g[w[1]] /\ x \in g[w[2]]
    BY <1>2 DEF HouseCandidates
  <2>2. x \in V(g) /\ x # w[1] /\ x # w[2] /\ DOMAIN w = 1 .. 2
    BY <1>2, <2>1, WalkVertices
  <2> QED
    BY <2>2, ExtendNew
<1>3. CASE Len(w) = 3
  <2>1. w[1] \in V(g) /\ w[2] \in Nat /\ w[3] \in Nat /\ DOMAIN w = 1 .. 3
    <3>1. DOMAIN w = 1 .. Len(w) /\ \A i \in 1 .. Len(w) : w[i] \in V(g) /\ w[i] \in Nat
      BY WalkVertices
    <3>2. 1 \in 1 .. Len(w) /\ 2 \in 1 .. Len(w) /\ 3 \in 1 .. Len(w)
      BY <1>3
    <3> QED
      BY <1>3, <3>1, <3>2
  <2>2. IsFiniteSet({w[2], w[3]})
    <3>3. IsFiniteSet(Range(w)) /\ \A i \in 1 .. Len(w) : w[i] \in Range(w)
      BY WalkVertices
    <3>1. w[2] \in Range(w) /\ w[3] \in Range(w) /\ IsFiniteSet(Range(w))
      BY <1>3, <3>3
    <3>2. {w[2], w[3]} \in SUBSET Range(w)
      BY <3>1
    <3> QED
      BY <3>1, <3>2, FS_Subset
  <2>3. HouseCandidates(g, w) = g[w[1]] \ {w[2], w[3]}
    BY <1>3, <2>1, <2>2, DifferenceSorted DEF HouseCandidates
  <2>4. x \in V(g) /\ x # w[1] /\ x # w[2] /\ x # w[3]
    BY <2>1, <2>3, WalkVertices
  <2> QED
    BY <2>1, <2>4, ExtendNew
<1> QED
  BY <1>1, <1>2, <1>3

\* The first triangle of a dumbbell has new vertices.  Of the three vertices
\* that are subtracted for the second, v0 always goes, v2 when it is above v0.
LEMMA ExtendDumbbell ==
  ASSUME NEW c, NEW g, NEW w, Extensible(c, g, w), c.sampler = "dumbbell",
         NEW x \in DumbbellCandidates(g, w)
  PROVE  x \in V(g) /\ Matches(c, Append(w, x))
<1> DEFINE y0n1 == difference_set(g[w[1]], <<w[2]>>)
<1>1. Len(w) \in {2, 3, 4} /\ w \in Seq(V(g)) /\ Distinct(w)
  <2>1. Len(w) \in {2, 3, 4}
    BY WalkLength
  <2>2. Len(w) <= 4
    BY WalkLength
  <2>3. w \in Seq(V(g)) /\ (Len(w) <= 4 => Distinct(w))
    BY Zenon DEF Extensible, Matches
  <2> QED
    BY <2>1, <2>2, <2>3, Zenon
<1>2. y0n1 = g[w[1]] \ {w[2]}
  BY DEF difference_set
<1>3. ASSUME NEW y \in V(g), \A i \in DOMAIN w : y # w[i], Len(w) \in {2, 3}
      PROVE  Matches(c, Append(w, y))
  <2>1. Distinct(Append(w, y)) /\ Len(Append(w, y)) <= 4
    BY <1>1, <1>3, DistinctAppend, AppendFacts
  <2> QED
    BY <2>1 DEF Matches
<1>4. CASE Len(w) = 2
  <2>1. x \in g[w[1]] /\ x # w[2]
    BY <1>2, <1>4 DEF DumbbellCandidates
  <2>2. x \in V(g) /\ x # w[1] /\ x # w[2] /\ DOMAIN w = 1 .. 2
    BY <1>4, <2>1, WalkVertices
  <2> QED
    BY <1>3, <1>4, <2>2
<1>5. CASE Len(w) = 3
  <2>1. x \in g[w[1]] /\ x # w[2] /\ x \in g[w[3]]
    BY <1>2, <1>5 DEF DumbbellCandidates, Below
  <2>2. x \in V(g) /\ x # w[1] /\ x # w[2] /\ x # w[3] /\ DOMAIN w = 1 .. 3
    <3>1. /\ DOMAIN w = 1 .. Len(w) /\ \A i \in 1 .. Len(w) : w[i] \in V(g)
          /\ \A v \in V(g) : v \notin g[v] /\ g[v] \subseteq V(g)
      BY WalkVertices
    <3>2. 1 \in 1 .. Len(w) /\ 3 \in 1 .. Len(w)
      BY <1>5
    <3>3. w[1] \in V(g) /\ w[3] \in V(g)
      BY <3>1, <3>2
    <3> QED
      BY <1>5, <2>1, <3>1, <3>3
  <2> QED
    BY <1>3, <1>5, <2>2
<1>6. CASE Len(w) = 4
  <2> DEFINE b == <<w[1], w[3], w[4]>>
  <2>1. x \in difference_set(g[w[2]], b)
    BY <1>6 DEF DumbbellCandidates, y1n0
  <2>2. DOMAIN b = 1 .. 3 /\ b[1] = w[1] /\ b[2] = w[3]
    OBVIOUS
  <2>3. x \in g[w[2]] /\ \A r \in DOMAIN b : (\A i \in 1 .. r - 1 : b[i] < b[r]) => x # b[r]
    BY <2>1 DEF difference_set
  <2> HIDE DEF b
  <2>4. x # w[1]
    BY <2>2, <2>3
  <2>5. w[1] < w[3] => x # w[3]
    <3>1. SUFFICES ASSUME w[1] < w[3] PROVE x # w[3]
      OBVIOUS
    <3>2. \A i \in 1 .. 2 - 1 : b[i] < b[2]
      BY <2>2, <3>1
    <3> QED
      BY <2>2, <2>3, <3>2
  <2>6. w[1] \in Nat /\ w[3] \in Nat /\ w[1] # w[3]
    BY <1>1, <1>6, WalkVertices DEF Distinct
  <2>7. x \in V(g) /\ x # w[2]
    BY <1>6, <2>3, WalkVertices
  <2>8. /\ Len(Append(w, x)) = 5 /\ Append(w, x)[5] = x
        /\ Append(w, x)[1] = w[1] /\ Append(w, x)[2] = w[2] /\ Append(w, x)[3] = w[3]
    <3>1. /\ Len(Append(w, x)) = Len(w) + 1 /\ Append(w, x)[Len(w) + 1] = x
          /\ \A i \in 1 .. Len(w) : Append(w, x)[i] = w[i]
      BY <1>1, <2>7, AppendFacts
    <3> QED
      BY <1>6, <3>1
  <2> QED
    BY <2>4, <2>5, <2>6, <2>7, <2>8 DEF Matches
<1> QED
  BY <1>1, <1>4, <1>5, <1>6

\* The vertex-induced samplers draw one vertex, a neighbour of v0.
LEMMA ExtendInduced ==
  ASSUME NEW c, NEW g, NEW w, Extensible(c, g, w),
         c.sampler \in {"induced_diamond", "induced_star", "induced_tailedtri", "induced_cycle"},
         NEW x \in Candidates(g, c.sampler, w)
  PROVE  x \in V(g) /\ Matches(c, Append(w, x))
<1>1. Len(w) = 2
  BY WalkLength
<1>2. x \in g[w[1]] /\ (x \in g[w[2]] \/ x # w[2])
  BY DEF Candidates, Below
<1>3. x \in V(g) /\ x # w[1] /\ x # w[2] /\ DOMAIN w = 1 .. 2
  BY <1>1, <1>2, WalkVertices
<1> QED
  BY <1>3, ExtendNew

\* An edge that leaves the walk ends at a new vertex.
LEMMA OpenEdgeFacts ==
  ASSUME NEW c, NEW g, NEW w, Extensible(c, g, w), NEW U, NEW a \in OpenEdges(g, w, U)
  PROVE  /\ a[1] \in U /\ a[1] \in V(g) /\ a[2] \in V(g)
         /\ a[2] \in c.input[a[1]] /\ a[1] \in c.input[a[2]]
         /\ \A i \in DOMAIN w : a[2] # w[i]
<1>1. a[1] \in U /\ a[1] \in V(g) /\ a[2] \in V(g) /\ a[2] \in g[a[1]] /\ a[2] \notin Range(w)
  BY DEF OpenEdges, Arcs
<1>2. \A i \in DOMAIN w : a[2] # w[i]
  BY <1>1, WalkVertices
<1> QED
  BY <1>1, <1>2 DEF Extensible, PartOf, IsUndirected

LEMMA ExtendCliqueBase ==
  ASSUME NEW c, NEW g, NEW w, Extensible(c, g, w), c.sampler = "clique_base",
         NEW a \in connected_subgraph_sampler(g, w)
  PROVE  a[2] \in V(g) /\ Matches(c, Append(w, a[2]))
<1>1. a \in OpenEdges(g, w, Range(w))
  BY DEF connected_subgraph_sampler
<1>2. a[2] \in V(g) /\ \A i \in DOMAIN w : a[2] # w[i]
  BY <1>1, OpenEdgeFacts
<1> QED
  BY <1>2, ExtendNew

\* A chain grows at either end; its third vertex goes next to the end that it
\* came from.
LEMMA ExtendChain ==
  ASSUME NEW c, NEW g, NEW w, Extensible(c, g, w), c.sampler = "house_base",
         NEW a \in sample_edge(g, w)
  PROVE  Chain(w, a) \in Seq(V(g)) /\ Len(Chain(w, a)) = Len(w) + 1 /\ Matches(c, Chain(w, a))
<1> DEFINE x == a[2]
<1>1. /\ a[1] \in {w[1], Last(w)} /\ a[1] \in V(g) /\ x \in V(g)
      /\ x \in c.input[a[1]] /\ a[1] \in c.input[x] /\ \A i \in DOMAIN w : x # w[i]
  <2>1. a \in OpenEdges(g, w, {w[1], Last(w)})
    BY DEF sample_edge
  <2> QED
    BY <2>1, OpenEdgeFacts
<1>2. /\ w \in Seq(V(g)) /\ Len(w) \in Nat /\ Len(w) >= 2 /\ Distinct(w) /\ DOMAIN w = 1 .. Len(w)
      /\ \A i \in 1 .. Len(w) - 1 : w[i + 1] \in c.input[w[i]]
      /\ Last(w) = w[Len(w)] /\ \A i \in 1 .. Len(w) : w[i] \in V(g)
  <2>1. DOMAIN w = 1 .. Len(w) /\ Last(w) = w[Len(w)] /\ \A i \in 1 .. Len(w) : w[i] \in V(g)
    BY WalkVertices
  <2> QED
    BY <2>1 DEF Extensible, Matches
<1>3. CASE Len(w) = 2
  <2>1. w[1] # w[2] /\ w[2] \in c.input[w[1]] /\ w[1] \in c.input[w[2]] /\ w[1] \in V(g) /\ w[2] \in V(g)
    BY <1>2, <1>3 DEF Distinct, Extensible, PartOf, IsUndirected
  <2>2. PICK o \in V(g) : o = IF a[1] = w[1] THEN w[2] ELSE w[1]
    BY <2>1
  <2>3. Chain(w, a) = <<o, a[1], x>>
    BY <1>3, <2>2 DEF Chain
  <2>4. o # a[1] /\ o # x /\ a[1] # x /\ a[1] \in c.input[o]
    BY <1>1, <1>2, <1>3, <2>1, <2>2
  <2>5. Distinct(<<o, a[1], x>>)
    BY <2>4 DEF Distinct
  <2> QED
    BY <1>1, <1>3, <2>2, <2>3, <2>4, <2>5 DEF Matches
<1>4. CASE Len(w) # 2 /\ a[1] = w[1]
  <2>1. Chain(w, a) = <<x>> \o w
    BY <1>4 DEF Chain
  <2>2. Distinct(<<x>> \o w)
    BY <1>1, <1>2, DistinctPrepend
  <2>3. /\ <<x>> \o w \in Seq(V(g)) /\ Len(<<x>> \o w) = Len(w) + 1 /\ (<<x>> \o w)[1] = x
        /\ \A n \in 2 .. Len(w) + 1 : (<<x>> \o w)[n] = w[n - 1]
    BY <1>1, <1>2
  <2>4. ASSUME NEW i \in 1 .. Len(<<x>> \o w) - 1
        PROVE  (<<x>> \o w)[i + 1] \in c.input[(<<x>> \o w)[i]]
    <3>1. i \in 1 .. Len(w) /\ (<<x>> \o w)[i + 1] = w[i]
      BY <1>2, <2>3
    <3>2. CASE i = 1
      BY <1>1, <1>4, <2>3, <3>1, <3>2
    <3>3. CASE i # 1
      <4>1. i - 1 \in 1 .. Len(w) - 1 /\ (<<x>> \o w)[i] = w[i - 1] /\ (i - 1) + 1 = i
        BY <1>2, <2>3, <3>1, <3>3
      <4> QED
        BY <1>2, <3>1, <4>1
    <3> QED
      BY <3>2, <3>3
  <2> QED
    BY <2>1, <2>2, <2>3, <2>4 DEF Matches
<1>5. CASE Len(w) # 2 /\ a[1] # w[1]
  <2>1. Chain(w, a) = Append(w, x)
    BY <1>5 DEF Chain
  <2>2. Distinct(Append(w, x))
    BY <1>1, <1>2, DistinctAppend
  <2>3. /\ Append(w, x) \in Seq(V(g)) /\ Len(Append(w, x)) = Len(w) + 1
        /\ Append(w, x)[Len(w) + 1] = x /\ \A i \in 1 .. Len(w) : Append(w, x)[i] = w[i]
    BY <1>1, <1>2, AppendFacts
  <2>4. \A i \in 1 .. Len(Append(w, x)) - 1 : Append(w, x)[i + 1] \in c.input[Append(w, x)[i]]
    BY <1>1, <1>2, <1>5, <2>3
  <2> QED
    BY <2>1, <2>2, <2>3, <2>4 DEF Matches
<1> QED
  BY <1>3, <1>4, <1>5

-----------------------------------------------------------------------------
(***************************************************************************)
(* The invariant.  The sampler's graph is the input or its orientation,    *)
(* and the list is that of this graph; the walk is a partial match, within *)
(* the length of its sampler, and a house or a dumbbell has been given up  *)
(* unless the degrees leave room for the three vertices it collects.       *)
(***************************************************************************)
GraphInv == cmd \in Commands /\ PartOf(cmd, N)

ListInv == phase # "main" => list = EdgeList(cmd, N)

WalkInv ==
  /\ Matches(cmd, walk)
  /\ phase = "walk" =>
       /\ walk \in Seq(V(N)) /\ Len(walk) \in Nat
       /\ Len(walk) >= 2 /\ Len(walk) <= Draws(cmd.sampler, cmd.k)
       /\ cmd.sampler \in {"house", "dumbbell"} => MAX_DEGREE(N) >= 3

\* The command lines that draw as many ids as the graph has arcs from the list
\* of half of them: get_src reads past its end for no others.
PastTheList(c) == Halves(c) /\ ~(c.program = "alone" /\ c.sampler # "dumbbell")

BoundsInv == phase = "out_of_bounds" => PastTheList(cmd)

IInv == GraphInv /\ ListInv /\ WalkInv /\ BoundsInv /\ OverflowOnlySparse

SamplerNames ==
  {"clique", "path", "house", "dumbbell", "diamond", "star", "cycle", "tailedtriangle",
   "clique_base", "house_base", "induced_diamond", "induced_star", "induced_tailedtri",
   "induced_cycle"}

LEMMA CommandFacts ==
  ASSUME NEW c \in Commands
  PROVE  c.sampler \in SamplerNames /\ c.k \in Nat /\ c.k > 2 /\ IsUndirected(c.input)
<1>1. c.program \in DOMAIN Samplers /\ c.sampler \in Samplers[c.program] /\ c.k \in Nat
      /\ c.k > 2 /\ IsUndirected(c.input)
  BY CommandsAssumption
<1>2. \A p \in DOMAIN Samplers : Samplers[p] \subseteq SamplerNames
  BY DEF Samplers, SamplerNames
<1> QED
  BY <1>1, <1>2

\* One step of any sampler: a walk that matches grows by one vertex and still
\* matches.
LEMMA ExtendMatches ==
  ASSUME NEW c \in Commands, NEW g, NEW w, Extensible(c, g, w),
         NEW x \in Candidates(g, c.sampler, w)
  PROVE  /\ Extend(c.sampler, w, x) \in Seq(V(g))
         /\ Len(Extend(c.sampler, w, x)) = Len(w) + 1
         /\ Matches(c, Extend(c.sampler, w, x))
<1>1. c.sampler \in SamplerNames /\ c.sampler \notin {"diamond", "star", "tailedtriangle"}
  BY CommandFacts, WalkLength
<1>2. w \in Seq(V(g))
  BY DEF Extensible
<1>3. ASSUME c.sampler \notin {"clique_base", "house_base"}, x \in V(g), Matches(c, Append(w, x))
      PROVE  /\ Extend(c.sampler, w, x) \in Seq(V(g))
             /\ Len(Extend(c.sampler, w, x)) = Len(w) + 1
             /\ Matches(c, Extend(c.sampler, w, x))
  <2>1. Extend(c.sampler, w, x) = Append(w, x)
    BY <1>3 DEF Extend
  <2>2. Append(w, x) \in Seq(V(g)) /\ Len(Append(w, x)) = Len(w) + 1
    BY <1>2, <1>3, AppendFacts
  <2> QED
    BY <1>3, <2>1, <2>2
<1>4. CASE c.sampler = "clique"
  <2>1. x \in Common(g, w)
    BY <1>4 DEF Candidates
  <2> QED
    BY <1>3, <1>4, <2>1, ExtendClique
<1>5. CASE c.sampler \in {"path", "cycle"}
  <2>1. x \in PathCandidates(g, w)
    BY <1>5 DEF Candidates, Below
  <2> QED
    BY <1>3, <1>5, <2>1, ExtendPath
<1>6. CASE c.sampler = "house"
  <2>1. x \in HouseCandidates(g, w)
    BY <1>6 DEF Candidates
  <2> QED
    BY <1>3, <1>6, <2>1, ExtendHouse
<1>7. CASE c.sampler = "dumbbell"
  <2>1. x \in DumbbellCandidates(g, w)
    BY <1>7 DEF Candidates
  <2> QED
    BY <1>3, <1>7, <2>1, ExtendDumbbell
<1>8. CASE c.sampler = "clique_base"
  <2>1. x \in connected_subgraph_sampler(g, w) /\ Extend(c.sampler, w, x) = Append(w, x[2])
    BY <1>8 DEF Candidates, Extend
  <2>2. x[2] \in V(g) /\ Matches(c, Append(w, x[2]))
    BY <1>8, <2>1, ExtendCliqueBase
  <2>3. Append(w, x[2]) \in Seq(V(g)) /\ Len(Append(w, x[2])) = Len(w) + 1
    BY <1>2, <2>2, AppendFacts
  <2> QED
    BY <2>1, <2>2, <2>3
<1>9. CASE c.sampler = "house_base"
  <2>1. x \in sample_edge(g, w) /\ Extend(c.sampler, w, x) = Chain(w, x)
    BY <1>9 DEF Candidates, Extend
  <2> QED
    BY <1>9, <2>1, ExtendChain
<1>10. CASE c.sampler \in {"induced_diamond", "induced_star", "induced_tailedtri", "induced_cycle"}
  <2>1. x \in V(g) /\ Matches(c, Append(w, x))
    BY <1>10, ExtendInduced
  <2> QED
    BY <1>3, <1>10, <2>1
<1> QED
  BY <1>1, <1>4, <1>5, <1>6, <1>7, <1>8, <1>9, <1>10 DEF SamplerNames

\* A buffer is too small only for the walk of a path or a cycle that is longer
\* than every degree.
LEMMA HeldFacts ==
  ASSUME NEW c \in Commands, NEW g, PartOf(c, g), NEW w, Len(w) \in Nat,
         Len(w) <= Draws(c.sampler, c.k), Held(c.sampler, w) > MAX_DEGREE(g),
         c.sampler \in {"house", "dumbbell"} => MAX_DEGREE(g) >= 3
  PROVE  c.sampler \in {"path", "cycle"} /\ \A v \in V(g) : deg(g, v) < c.k - 1
<1> DEFINE s == c.sampler
           k == c.k
           n == Draws(s, k)
           h == Held(s, w)
           d == MAX_DEGREE(g)
           l == Len(w)
<1>1. d \in Nat /\ \A v \in V(g) : deg(g, v) \in Nat /\ deg(g, v) <= d
  BY MaxDegreeFacts DEF PartOf
<1>2. k \in Nat /\ k > 2 /\ l \in Nat /\ l <= n /\ h > d /\ (s \in {"house", "dumbbell"} => d >= 3)
  BY CommandFacts
<1>3. s \in {"path", "cycle"} => n = k - 1
  <2> HIDE DEF s, k
  <2> QED
    BY <1>2, DrawsFacts
<1>4. h = IF s \in {"path", "cycle"} THEN l ELSE
          IF s = "house" THEN 2 ELSE IF s = "dumbbell" THEN IF l < 4 THEN 1 ELSE 3 ELSE 0
  BY DEF Held
<1> HIDE DEF s, k, n, h, d, l
<1>5. s \in {"path", "cycle"}
  BY <1>1, <1>2, <1>4
<1>6. h = l /\ n = k - 1
  BY <1>3, <1>4, <1>5
<1>7. d < k - 1
  BY <1>1, <1>2, <1>6
<1>8. \A v \in V(g) : deg(g, v) < k - 1
  BY <1>1, <1>2, <1>7
<1> QED
  BY <1>5, <1>8 DEF s, k

-----------------------------------------------------------------------------
LEMMA InitHolds == Init => IInv
<1> SUFFICES ASSUME Init PROVE IInv
  OBVIOUS
<1>1. IsUndirected(cmd.input) /\ N = cmd.input /\ cmd \in Commands
  BY CommandFacts DEF Init
<1>2. GraphInv
  BY <1>1, OrientedFacts DEF GraphInv, PartOf
<1>3. phase = "main" /\ walk = <<>>
  BY DEF Init
<1>4. Matches(cmd, walk)
  BY <1>3 DEF Matches, Distinct
<1> QED
  BY <1>2, <1>3, <1>4 DEF IInv, ListInv, WalkInv, BoundsInv, OverflowOnlySparse

LEMMA MainHolds == IInv /\ Main => IInv'
<1> SUFFICES ASSUME IInv, Main PROVE IInv'
  OBVIOUS
<1>1. /\ phase' = "edge" /\ cmd' = cmd /\ walk' = walk /\ list' = EdgeList(cmd, N')
      /\ N' = N \/ N' = Oriented(N)
  BY DEF Main
<1>2. cmd \in Commands /\ PartOf(cmd, N) /\ Matches(cmd, walk)
  BY DEF IInv, GraphInv, WalkInv
<1>3. PartOf(cmd, N')
  <2>1. CASE N' = N
    BY <1>2, <2>1
  <2>2. CASE N' = Oriented(N)
    <3>1. /\ V(Oriented(N)) = V(N) /\ \A v \in V(N) : Oriented(N)[v] \subseteq N[v]
      BY DEF Oriented, V
    <3> QED
      BY <1>2, <2>2, <3>1 DEF PartOf, IsGraph
  <2> QED
    BY <1>1, <2>1, <2>2
<1> QED
  BY <1>1, <1>2, <1>3 DEF IInv, GraphInv, ListInv, WalkInv, BoundsInv, OverflowOnlySparse

LEMMA DrawEdgeHolds ==
  ASSUME IInv, NEW eid \in Nat, DrawEdge(eid)
  PROVE  IInv'
<1>1. /\ phase = "edge" /\ eid < Space(cmd, N, list)
      /\ cmd' = cmd /\ N' = N /\ list' = list
  BY DEF DrawEdge
<1>2. cmd \in Commands /\ PartOf(cmd, N) /\ Matches(cmd, walk) /\ list = EdgeList(cmd, N)
  BY <1>1 DEF IInv, GraphInv, WalkInv, ListInv
<1>3. /\ Len(list) \in Nat /\ (~Halves(cmd) => Len(list) = E(N))
      /\ \A i \in 1 .. Len(list) : list[i] \in Arcs(N)
  BY <1>2, EdgeListFacts DEF PartOf
<1>4. GraphInv' /\ (phase' # "main" => ListInv')
  BY <1>1, <1>2 DEF GraphInv, ListInv
<1>5. CASE eid + 1 > Len(list)
  <2>1. phase' = "out_of_bounds" /\ walk' = walk
    BY <1>5 DEF DrawEdge
  <2>2. PastTheList(cmd)
    <3>1. Space(cmd, N, list) # Len(list)
      BY <1>1, <1>3, <1>5
    <3> QED
      BY <1>3, <3>1 DEF Space, PastTheList
  <2> QED
    BY <1>1, <1>2, <1>4, <2>1, <2>2 DEF IInv, WalkInv, BoundsInv, OverflowOnlySparse
<1>6. CASE ~(eid + 1 > Len(list))
  <2>1. walk' = list[eid + 1] /\ eid + 1 \in 1 .. Len(list)
    BY <1>3, <1>6 DEF DrawEdge
  <2>2. walk' \in Arcs(N)
    BY <1>3, <2>1
  <2>3. walk' \in Seq(V(N)) /\ Len(walk') = 2 /\ Matches(cmd, walk')
    BY <1>2, <2>2, EdgeMatches
  <2>4. CASE GivesUp(N, cmd.sampler, walk')
    <3>1. phase' = "done"
      BY <1>6, <2>4 DEF DrawEdge
    <3> QED
      BY <1>1, <1>4, <2>3, <3>1 DEF IInv, WalkInv, BoundsInv, OverflowOnlySparse
  <2>5. CASE ~GivesUp(N, cmd.sampler, walk')
    <3>1. phase' = IF Held(cmd.sampler, walk') > MAX_DEGREE(N) THEN "overflow" ELSE "walk"
      BY <1>6, <2>5 DEF DrawEdge
    <3>2. cmd.sampler \in {"house", "dumbbell"} => MAX_DEGREE(N) >= 3
      <4> SUFFICES ASSUME cmd.sampler \in {"house", "dumbbell"} PROVE MAX_DEGREE(N) >= 3
        OBVIOUS
      <4>1. ~(deg(N, walk'[1]) < 3)
        BY <2>5 DEF GivesUp
      <4>2. walk'[1] \in V(N)
        BY <2>2 DEF Arcs
      <4>3. /\ MAX_DEGREE(N) \in Nat /\ deg(N, walk'[1]) \in Nat /\ deg(N, walk'[1]) <= MAX_DEGREE(N)
        BY <1>2, <4>2, MaxDegreeFacts DEF PartOf
      <4> QED
        BY <4>1, <4>3
    <3>3. Len(walk') <= Draws(cmd.sampler, cmd.k) /\ Len(walk') \in Nat /\ Len(walk') >= 2
      <4>1. Draws(cmd.sampler, cmd.k) \in Nat /\ Draws(cmd.sampler, cmd.k) >= 2
        BY <1>2, CommandFacts, DrawsFacts
      <4> QED
        BY <2>3, <4>1
    <3>4. CASE Held(cmd.sampler, walk') > MAX_DEGREE(N)
      <4>1. cmd.sampler \in {"path", "cycle"} /\ \A v \in V(N) : deg(N, v) < cmd.k - 1
        BY <1>2, <3>2, <3>3, <3>4, HeldFacts
      <4> QED
        BY <1>1, <1>4, <2>3, <3>1, <3>4, <4>1 DEF IInv, WalkInv, BoundsInv, OverflowOnlySparse
    <3>5. CASE ~(Held(cmd.sampler, walk') > MAX_DEGREE(N))
      BY <1>1, <1>4, <2>3, <3>1, <3>2, <3>3, <3>5 DEF IInv, WalkInv, BoundsInv, OverflowOnlySparse
    <3> QED
      BY <3>4, <3>5
  <2> QED
    BY <2>4, <2>5
<1> QED
  BY <1>5, <1>6

LEMMA DrawVertexHolds ==
  ASSUME IInv, NEW x, DrawVertex(x)
  PROVE  IInv'
<1>1. /\ phase = "walk" /\ ~LastLevel(cmd.sampler, walk, cmd.k)
      /\ x \in Candidates(N, cmd.sampler, walk) /\ walk' = Extend(cmd.sampler, walk, x)
      /\ cmd' = cmd /\ N' = N /\ list' = list
  BY DEF DrawVertex
<1>2. /\ cmd \in Commands /\ PartOf(cmd, N) /\ Matches(cmd, walk) /\ list = EdgeList(cmd, N)
      /\ walk \in Seq(V(N)) /\ Len(walk) \in Nat /\ Len(walk) >= 2
      /\ Len(walk) <= Draws(cmd.sampler, cmd.k)
      /\ cmd.sampler \in {"house", "dumbbell"} => MAX_DEGREE(N) >= 3
  BY <1>1 DEF IInv, GraphInv, WalkInv, ListInv
<1>3. cmd.k \in Nat /\ cmd.k > 2 /\ Draws(cmd.sampler, cmd.k) \in Nat
  <2>1. cmd.k \in Nat /\ cmd.k > 2
    BY <1>2, CommandFacts
  <2>2. Draws(cmd.sampler, cmd.k) \in Nat
    BY <2>1, DrawsFacts
  <2> QED
    BY <2>1, <2>2
<1>4. Len(walk) < Draws(cmd.sampler, cmd.k)
  BY <1>1, <1>2, <1>3 DEF LastLevel
<1>5. Extensible(cmd, N, walk)
  BY <1>2, <1>3, <1>4 DEF Extensible
<1>6. walk' \in Seq(V(N)) /\ Len(walk') = Len(walk) + 1 /\ Matches(cmd, walk')
  BY <1>1, <1>2, <1>5, ExtendMatches
<1>7. Len(walk') \in Nat /\ Len(walk') >= 2 /\ Len(walk') <= Draws(cmd.sampler, cmd.k)
  BY <1>2, <1>3, <1>4, <1>6
<1>8. GraphInv' /\ (phase' # "main" => ListInv')
  BY <1>1, <1>2 DEF GraphInv, ListInv
<1>9. CASE Pruned(N, cmd.sampler, walk')
  <2>1. phase' = "done"
    BY <1>9 DEF DrawVertex
  <2> QED
    BY <1>1, <1>6, <1>8, <2>1 DEF IInv, WalkInv, BoundsInv, OverflowOnlySparse
<1>10. CASE ~Pruned(N, cmd.sampler, walk')
  <2>1. phase' = IF Held(cmd.sampler, walk') > MAX_DEGREE(N) THEN "overflow" ELSE "walk"
    BY <1>10 DEF DrawVertex
  <2>2. CASE Held(cmd.sampler, walk') > MAX_DEGREE(N)
    <3>1. cmd.sampler \in {"path", "cycle"} /\ \A v \in V(N) : deg(N, v) < cmd.k - 1
      BY <1>2, <1>7, <2>2, HeldFacts
    <3> QED
      BY <1>1, <1>6, <1>8, <2>1, <2>2, <3>1 DEF IInv, WalkInv, BoundsInv, OverflowOnlySparse
  <2>3. CASE ~(Held(cmd.sampler, walk') > MAX_DEGREE(N))
    BY <1>1, <1>2, <1>6, <1>7, <1>8, <2>1, <2>3 DEF IInv, WalkInv, BoundsInv, OverflowOnlySparse
  <2> QED
    BY <2>2, <2>3
<1> QED
  BY <1>9, <1>10

\* The end of a walk, and a step that changes nothing.
LEMMA EndHolds ==
  ASSUME IInv, DeadEnd \/ CountLast \/ UNCHANGED vars
  PROVE  IInv'
<1>1. /\ cmd' = cmd /\ N' = N /\ list' = list /\ walk' = walk
      /\ (phase = "walk" /\ phase' = "done") \/ phase' = phase
  BY DEF DeadEnd, CountLast, vars
<1> QED
  BY <1>1 DEF IInv, GraphInv, ListInv, WalkInv, BoundsInv, OverflowOnlySparse

LEMMA NextHolds == IInv /\ [Next]_vars => IInv'
<1> SUFFICES ASSUME IInv, [Next]_vars PROVE IInv'
  OBVIOUS
<1>1. ASSUME NEW eid \in 0 .. E(N) - 1, DrawEdge(eid) PROVE IInv'
  BY <1>1, DrawEdgeHolds
<1>2. ASSUME NEW x, DrawVertex(x) PROVE IInv'
  BY <1>2, DrawVertexHolds
<1> QED
  BY <1>1, <1>2, MainHolds, EndHolds DEF Next

\* The invariant holds for every set of command lines over undirected graphs.
THEOREM SampleInvariant == Spec => []IInv
  BY InitHolds, NextHolds, PTL DEF Spec

\* A walk is a partial match, for every sampler (random_select_single only
\* ever extends by a vertex that keeps it one).
THEOREM SampleWalkMatches == Spec => []WalkMatches
<1>1. IInv => WalkMatches
  BY DEF IInv, WalkInv, Matches, WalkMatches
<1> QED
  BY <1>1, SampleInvariant, PTL

\* Only paths and cycles overflow a buffer of the pool, and only where every
\* degree is below k - 1.
THEOREM SampleOverflowOnlySparse == Spec => []OverflowOnlySparse
<1>1. IInv => OverflowOnlySparse
  BY DEF IInv
<1> QED
  BY <1>1, SampleInvariant, PTL

\* get_src and get_dst stay inside the list, for all command lines but those
\* that draw E() ids from the list of half the arcs.
THEOREM SampleEidInBounds ==
  ASSUME \A c \in Commands : ~PastTheList(c)
  PROVE  Spec => []EidInBounds
<1>1. IInv => EidInBounds
  BY DEF IInv, GraphInv, BoundsInv, EidInBounds
<1> QED
  BY <1>1, SampleInvariant, PTL
=============================================================================

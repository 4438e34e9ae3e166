-------------------------- MODULE NeighborSampler --------------------------
(***************************************************************************)
(* One sample of the NS programs (sansa/src/approx/NS), from main's graph  *)
(* and edge list to the weight that is added to counter: an edge is drawn, *)
(* the walk grows by vertices (or by edges) drawn from candidate sets, and *)
(* the weight is the product of the numbers of alternatives.               *)
(* OnlineSampler models how the weights of many samples are summed.        *)
(*                                                                         *)
(*   ns_online, ns_final  the engines, for one pattern;                    *)
(*   motif4               the six samplers that ns_final runs for 4motif;  *)
(*   alone                the programs that know one pattern (ns_diamond,  *)
(*                        ns_star, ns_tailedtri, ns_cycle, ns_house,       *)
(*                        ns_clique, ns_dumbbell).                         *)
(*                                                                         *)
(* A walk is w[1] = v0, w[2] = v1, and so on.                              *)
(***************************************************************************)
EXTENDS PatternCount, SequencesExt

CONSTANT Commands  \* the command lines that are tried, each with its graph

Samplers ==
  [ns_online |-> {"clique", "path", "house", "dumbbell"},
   ns_final  |-> {"clique", "path", "house", "dumbbell"},
   motif4    |-> {"clique", "path", "diamond", "star", "cycle", "tailedtriangle"},
   alone     |-> {"clique_base", "house_base", "house", "dumbbell", "induced_diamond",
                  "induced_star", "induced_tailedtri", "induced_cycle"}]

\* An input has each edge in both directions, and no loops.
IsUndirected(g) ==
  /\ IsFiniteSet(V(g)) /\ V(g) \subseteq Nat
  /\ \A v \in V(g) : g[v] \subseteq V(g) \ {v}
  /\ \A v, w \in V(g) : w \in g[v] => v \in g[w]

\* Any k above 2 ("assert(k > 2)"); sample_pattern calls the samplers of
\* 4motif with 4.
ASSUME CommandsAssumption ==
  \A c \in Commands :
    /\ c.program \in DOMAIN Samplers /\ c.sampler \in Samplers[c.program]
    /\ c.k \in Nat /\ c.k > 2 /\ IsUndirected(c.input)
    /\ c.program = "motif4" => c.k = 4

VARIABLES
  cmd,     \* the command line, with the graph it names
  phase,   \* the next step
  N,       \* the neighbours in the Graph object
  list,    \* src_list and dst_list, as a sequence of pairs
  walk,    \* the vertices drawn
  scale    \* the weight so far

vars == <<cmd, phase, N, list, walk, scale>>

deg(g, v) == Cardinality(g[v])

\* Graph::orientation, run by the constructor for the clique patterns.
Oriented(g) ==
  [v \in V(g) |-> {w \in g[v] : deg(g, w) > deg(g, v) \/ (deg(g, w) = deg(g, v) /\ w > v)}]

Arcs(g) == {a \in V(g) \X V(g) : a[2] \in g[a[1]]}

\* The loops over v and over N(v) meet arc b before arc a.
Before(b, a) == b[1] < a[1] \/ (b[1] = a[1] /\ b[2] < a[2])

\* A set of arcs in the order in which the loops meet them.
InOrder(S) ==
  [i \in 1 .. Cardinality(S) |->
     CHOOSE a \in S : Cardinality({b \in S : Before(b, a)}) = i - 1]

\* E(): the number of arcs of the graph.
E(g) == Cardinality(Arcs(g))

\* init_simple_edgelist, and init_edgelist(): every arc.
init_simple_edgelist(g) == InOrder(Arcs(g))

\* init_edgelist(true): the arcs to smaller vertices, half of them.
init_edgelist(g) == InOrder({a \in Arcs(g) : a[2] < a[1]})

\* The samplers whose main or sample_pattern asks for the halved list.
Halves(c) ==
  \/ c.program = "ns_final" /\ c.sampler \in {"house", "dumbbell"}
  \/ c.program = "alone" /\ c.sampler \in {"house", "dumbbell", "induced_diamond", "induced_cycle"}

\* Fault: every sampler gets the halved list.
EdgeList_Halved(c, g) == init_edgelist(g)

EdgeList(c, g) == IF Halves(c) THEN init_edgelist(g) ELSE init_simple_edgelist(g)

\* m, the number of ids that edge_dist draws from: E(), or what init_edgelist
\* returned (nnz) in the programs that keep it.
Space(c, g, l) ==
  IF c.program = "alone" /\ c.sampler # "dumbbell" THEN Len(l) ELSE E(g)

\* Fault: the degree of one vertex for the largest.
MAX_DEGREE_First(g) == Max({1, deg(g, 0)})

\* VertexSet::MAX_DEGREE, the size of every buffer of the pool: 1, or what the
\* constructor raises it to.
MAX_DEGREE(g) == Max({1} \cup {deg(g, v) : v \in V(g)})

Init ==
  /\ cmd \in Commands
  /\ E(cmd.input) > 0
  /\ phase = "main" /\ N = cmd.input /\ list = <<>>
  /\ walk = <<>> /\ scale = 0

\* The constructor (the clique runs of the engines pass DAG = 1), then the
\* edge list.
Main ==
  /\ phase = "main" /\ phase' = "edge"
  /\ N' = IF cmd.sampler = "clique" /\ cmd.program # "motif4" THEN Oriented(N) ELSE N
  /\ list' = EdgeList(cmd, N')
  /\ UNCHANGED <<cmd, walk, scale>>

-----------------------------------------------------------------------------
Below(S, x) == {y \in S : y < x}

Common(g, w) == {x \in V(g) : \A i \in DOMAIN w : x \in g[w[i]]}

(***************************************************************************)
(* A - b for a sorted A: the merge leaves an element of b behind for good  *)
(* when it meets a larger one of A, so that of an unsorted b only the      *)
(* elements that exceed all those before them are removed.                 *)
(***************************************************************************)
difference_set(A, b) ==
  A \ {b[r] : r \in {r \in DOMAIN b : \A i \in 1 .. r - 1 : b[i] < b[r]}}

\* vs.add for each vertex, then sort_vertexset.
Sorted(vs) ==
  [i \in 1 .. Cardinality(vs) |-> CHOOSE x \in vs : Cardinality(Below(vs, x)) = i - 1]

\* The edges that leave the walk at one of the vertices U.
OpenEdges(g, w, U) == {a \in Arcs(g) : a[1] \in U /\ a[2] \notin Range(w)}

\* connected_subgraph_sampler extends any vertex, sample_edge an end.
connected_subgraph_sampler(g, w) == OpenEdges(g, w, Range(w))
sample_edge(g, w) == OpenEdges(g, w, {w[1], Last(w)})

\* y1n0, what is left at v1 of a dumbbell; vs0 = v0, v2, v3 is not sorted.
y1n0(g, w) == difference_set(g[w[2]], <<w[1], w[3], w[4]>>)

\* Fault: the next vertex of a path may be one that is on it already.
PathCandidates_Revisit(g, w) == g[Last(w)]

\* N(v) without the vertices of vs.
PathCandidates(g, w) == difference_set(g[Last(w)], Sorted(Range(w)))

HouseCandidates(g, w) ==
  IF Len(w) = 2 THEN g[w[1]] \cap g[w[2]] ELSE difference_set(g[w[1]], Sorted({w[2], w[3]}))

DumbbellCandidates(g, w) ==
  LET y0n1 == difference_set(g[w[1]], <<w[2]>>)
  IN  CASE Len(w) = 2 -> y0n1
        [] Len(w) = 3 -> Below(y0n1 \cap g[w[3]], w[3])
        [] Len(w) = 4 -> y1n0(g, w)

\* Where the next step of the walk w is drawn from.  Subtracting N(v) also
\* removes v itself, the vid of the set.
Candidates(g, s, w) ==
  CASE s = "clique" -> Common(g, w)
    [] s = "path" -> PathCandidates(g, w)
    [] s = "house" -> HouseCandidates(g, w)
    [] s = "dumbbell" -> DumbbellCandidates(g, w)
    [] s = "cycle" -> Below(PathCandidates(g, w), w[1])
    [] s = "clique_base" -> connected_subgraph_sampler(g, w)
    [] s = "house_base" -> sample_edge(g, w)
    [] s = "induced_diamond" -> g[w[1]] \cap g[w[2]]
    [] s = "induced_tailedtri" -> Below(g[w[1]] \cap g[w[2]], w[2])
    [] s \in {"induced_star", "induced_cycle"} -> Below(g[w[1]] \ (g[w[2]] \cup {w[2]}), w[2])

\* Fewer candidates than the sampler needs; two of them have to be chosen for
\* a diamond and for a star.
TooFew(g, s, w) ==
  Cardinality(Candidates(g, s, w)) < IF s \in {"induced_diamond", "induced_star"} THEN 2 ELSE 1

\* prune of ns_house: the third vertex is put next to the end it came from,
\* the fourth and fifth at the end of the chain they came from.
Chain(w, a) ==
  IF Len(w) = 2 THEN <<IF a[1] = w[1] THEN w[2] ELSE w[1], a[1], a[2]>>
  ELSE IF a[1] = w[1] THEN <<a[2]>> \o w ELSE Append(w, a[2])

Extend(s, w, x) ==
  CASE s = "house_base" -> Chain(w, x)
    [] s = "clique_base" -> Append(w, x[2])
    [] OTHER -> Append(w, x)

\* prune: the third vertex of a house has to close a triangle.
Pruned(g, s, w) == s = "house_base" /\ Len(w) = 3 /\ w[3] \notin g[w[1]]

\* The walk's length when the draws end and the last factor is counted; only
\* cliques, paths and cycles depend on k.
Draws(s, k) ==
  CASE s \in {"diamond", "star", "tailedtriangle"} -> 2
    [] s \in {"induced_diamond", "induced_star", "induced_tailedtri", "induced_cycle"} -> 3
    [] s = "house" -> 4
    [] s \in {"dumbbell", "house_base"} -> 5
    [] s = "clique_base" -> k
    [] OTHER -> k - 1

Bit(b) == IF b THEN 1 ELSE 0

LastLevel(s, w, k) == Len(w) = Draws(s, k)

\* Fault: no symmetry breaking at the end of a path.
PathFinal_BothEnds(g, w) == PathCandidates(g, w)

\* A path's last vertex is below v0, a cycle's below v1 and next to v0.
PathFinal(g, w) == Below(PathCandidates(g, w), w[1])
CycleFinal(g, w) == Below(PathCandidates(g, w), w[2]) \cap g[w[1]]
HouseFinal(g, w) == g[w[4]] \cap difference_set(g[w[2]], Sorted({w[1], w[3]}))

DumbbellFinal(g, w) == Below(y1n0(g, w) \cap g[w[5]], w[5])

\* The fourth vertices of the vertex-induced samplers.
InducedDiamond(g, w) == Below((g[w[1]] \cap g[w[2]]) \ g[w[3]], w[3])
InducedStar(g, w) == Below(g[w[1]] \ (g[w[2]] \cup g[w[3]] \cup {w[2]}), w[3])
InducedTailedTri(g, w) == g[w[1]] \ (g[w[2]] \cup g[w[3]] \cup {w[2], w[3]})
InducedCycle(g, w) == Below((g[w[2]] \cap g[w[3]]) \ g[w[1]], w[1])

\* n * (d0 - 2) for n > 1: an edge with a single apex below v1 counts nothing.
TailedWeight(g, w) ==
  LET n == Cardinality(Below(g[w[1]] \cap g[w[2]], w[2]))
  IN  IF n > 1 THEN n * (deg(g, w[1]) - 2) ELSE 0

DiamondWeight(g, w) == LET n == Cardinality(g[w[1]] \cap g[w[2]]) IN (n * (n - 1)) \div 2

StarWeight(g, w) == LET n == deg(g, w[2]) IN ((n - 2) * (n - 1) * n) \div 6

\* Every vertex after the first two is joined to all before it.
is_clique(g, w) == \A i, j \in DOMAIN w : i > 2 /\ j < i => w[j] \in g[w[i]]

\* The last factor of a walk.
LastFactor(g, s, w) ==
  CASE s = "clique" -> Cardinality(Common(g, w))
    [] s = "path" -> Cardinality(PathFinal(g, w))
    [] s = "house" -> Cardinality(HouseFinal(g, w))
    [] s = "dumbbell" -> Cardinality(DumbbellFinal(g, w))
    [] s = "cycle" -> Cardinality(CycleFinal(g, w))
    [] s = "diamond" -> DiamondWeight(g, w)
    [] s = "star" -> StarWeight(g, w)
    [] s = "tailedtriangle" -> TailedWeight(g, w)
    [] s = "clique_base" -> Bit(is_clique(g, w))
    [] s = "house_base" -> Bit(w[5] \in g[w[1]])
    [] s = "induced_diamond" -> Cardinality(InducedDiamond(g, w))
    [] s = "induced_star" -> Cardinality(InducedStar(g, w))
    [] s = "induced_tailedtri" -> Cardinality(InducedTailedTri(g, w))
    [] s = "induced_cycle" -> Cardinality(InducedCycle(g, w))

\* The degrees of v0 and v1 below which a sampler gives up on an edge.
GivesUp(g, s, w) ==
  LET d0 == deg(g, w[1])
      d1 == deg(g, w[2])
  IN  CASE s \in {"house", "dumbbell", "diamond", "induced_diamond"} -> d0 < 3 \/ d1 < 3
        [] s \in {"tailedtriangle", "induced_tailedtri"} -> d0 < 3 \/ d1 < 2
        [] s = "induced_star" -> d0 < 3
        [] s = "induced_cycle" -> d0 < 2 \/ d1 < 2
        [] OTHER -> FALSE

\* Three samplers of 4motif leave m out of the weight and of the average.
Start(c, m) ==
  IF c.program = "motif4" /\ c.sampler \in {"diamond", "cycle", "tailedtriangle"} THEN 1 ELSE m

Factorial[n \in Nat] == IF n = 0 THEN 1 ELSE n * Factorial[n - 1]

\* What the base samplers divide their total by ("symmetry breaking").
Divisor(s, k) ==
  CASE s = "house_base" -> 16
    [] s = "clique_base" -> Factorial[k]
    [] OTHER -> 1

\* The vertices that vs holds: all of a path or a cycle, or those to exclude.
Held(s, w) ==
  CASE s \in {"path", "cycle"} -> Len(w)
    [] s = "house" -> 2
    [] s = "dumbbell" -> IF Len(w) < 4 THEN 1 ELSE 3
    [] OTHER -> 0

-----------------------------------------------------------------------------
\* scale *= c
Scaled(x, C) == x * Cardinality(C)

\* edge_dist(0, m-1), then get_src and get_dst.  Reading past the end of the
\* list, and adding past the end of a buffer, leave the model.
DrawEdge(eid) ==
  /\ phase = "edge" /\ eid < Space(cmd, N, list)
  /\ IF eid + 1 > Len(list)
     THEN phase' = "out_of_bounds" /\ UNCHANGED <<walk, scale>>
     ELSE /\ walk' = list[eid + 1]
          /\ IF GivesUp(N, cmd.sampler, walk')
             THEN phase' = "done" /\ scale' = 0
             ELSE /\ phase' = IF Held(cmd.sampler, walk') > MAX_DEGREE(N) THEN "overflow" ELSE "walk"
                  /\ scale' = Start(cmd, Space(cmd, N, list))
  /\ UNCHANGED <<cmd, N, list>>

\* random_select_single picks one of the candidates, scale *= c.
DrawVertex(x) ==
  /\ phase = "walk" /\ ~LastLevel(cmd.sampler, walk, cmd.k)
  /\ ~TooFew(N, cmd.sampler, walk) /\ x \in Candidates(N, cmd.sampler, walk)
  /\ walk' = Extend(cmd.sampler, walk, x)
  /\ IF Pruned(N, cmd.sampler, walk')
     THEN phase' = "done" /\ scale' = 0
     ELSE /\ phase' = IF Held(cmd.sampler, walk') > MAX_DEGREE(N) THEN "overflow" ELSE "walk"
          /\ scale' = Scaled(scale, Candidates(N, cmd.sampler, walk))
  /\ UNCHANGED <<cmd, N, list>>

\* Too few candidates: scale = 0; break, or continue.
DeadEnd ==
  /\ phase = "walk" /\ ~LastLevel(cmd.sampler, walk, cmd.k)
  /\ TooFew(N, cmd.sampler, walk)
  /\ phase' = "done" /\ scale' = 0
  /\ UNCHANGED <<cmd, N, list, walk>>

\* The last factor is a count, not a draw.
CountLast ==
  /\ phase = "walk" /\ LastLevel(cmd.sampler, walk, cmd.k)
  /\ phase' = "done"
  /\ scale' = scale * LastFactor(N, cmd.sampler, walk)
  /\ UNCHANGED <<cmd, N, list, walk>>

Next ==
  \/ Main \/ DeadEnd \/ CountLast
  \/ \E eid \in 0 .. E(N) - 1 : DrawEdge(eid)
  \/ \E x \in IF cmd.sampler \in {"clique_base", "house_base"} THEN Arcs(N) ELSE V(N) :
       DrawVertex(x)

Spec == Init /\ [][Next]_vars

-----------------------------------------------------------------------------
\* get_src and get_dst read inside the list: "nnz: number of edges in COO
\* format" (graph.h) bounds the edge ids that are drawn.
EidInBounds == phase # "out_of_bounds"

(***************************************************************************)
(* The vertices a sampler collects fit the pool's buffers, whose size is   *)
(* the largest degree and has nothing to do with k: only the path and the  *)
(* cycle, which collect the whole walk, write past a buffer, and only in a *)
(* graph whose degrees are all below k - 1.                                *)
(***************************************************************************)
OverflowOnlySparse ==
  phase = "overflow" =>
    /\ cmd.sampler \in {"path", "cycle"}
    /\ \A v \in V(N) : deg(N, v) < cmd.k - 1

Distinct(w) == \A i, j \in DOMAIN w : w[i] = w[j] => i = j

(***************************************************************************)
(* A walk is a partial match.  Its vertices are distinct, except for a     *)
(* dumbbell's: its second triangle may return to v3, or to v2 when that is *)
(* below v0.  Consecutive vertices of a chain are joined in the input, and *)
(* all pairs of a clique.                                                  *)
(***************************************************************************)
WalkMatches ==
  /\ IF cmd.sampler = "dumbbell"
     THEN /\ Len(walk) <= 4 => Distinct(walk)
          /\ Len(walk) = 5 => /\ walk[5] \notin {walk[1], walk[2]}
                              /\ walk[5] = walk[3] => walk[3] < walk[1]
     ELSE Distinct(walk)
  /\ cmd.sampler = "clique" =>
       \A i, j \in DOMAIN walk : i # j => walk[i] \in cmd.input[walk[j]]
  /\ cmd.sampler \in {"path", "cycle", "house_base"} =>
       \A i \in 1 .. Len(walk) - 1 : walk[i + 1] \in cmd.input[walk[i]]
=============================================================================

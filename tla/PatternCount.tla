---------------------------- MODULE PatternCount ----------------------------
(***************************************************************************)
(* What it means to count a pattern: the reference that the kernels and    *)
(* the samplers are compared with.  A graph is the set of neighbours N[v]  *)
(* of every vertex v, a pattern a set of edges {a, b} on the vertices      *)
(* 1 .. k.  Nothing here follows the code: no vertex order, no symmetry    *)
(* breaking, no intersections.                                             *)
(***************************************************************************)
EXTENDS Integers, FiniteSetsExt

\* The vertices of a graph are 0 .. n-1.
V(N) == DOMAIN N

\* The injective maps of 1 .. k into n vertices.
Injections ==
  [n \in 4 .. 6 |-> [k \in 3 .. 6 |->
     {f \in [1 .. k -> 0 .. n - 1] : \A a, b \in 1 .. k : f[a] = f[b] => a = b}]]

Placements(N, k) == Injections[Cardinality(V(N))][k]

Edge(N, v, w) == w \in N[v]

\* The subgraphs (sets of edges) of N that are isomorphic to the pattern.
Subgraphs(N, k, P) ==
  {{{f[a] : a \in e} : e \in P} :
     f \in {f \in Placements(N, k) : \A e \in P : \A a, b \in e : a # b => Edge(N, f[a], f[b])}}

\* The vertex sets of N that induce a graph isomorphic to the pattern.
InducedSets(N, k, P) ==
  {{f[a] : a \in 1 .. k} :
     f \in {f \in Placements(N, k) :
              \A a, b \in 1 .. k : a # b => (Edge(N, f[a], f[b]) <=> {a, b} \in P)}}

\* The k-cliques of N.
Cliques(N, k) ==
  {S \in kSubset(k, V(N)) : \A v, w \in S : v # w => Edge(N, v, w)}

Wedge == {{1, 2}, {1, 3}}
Triangle == {{1, 2}, {1, 3}, {2, 3}}
Star3 == {{1, 2}, {1, 3}, {1, 4}}
Path4 == {{1, 2}, {2, 3}, {3, 4}}
TailedTriangle == Triangle \cup {{3, 4}}
Cycle4 == Path4 \cup {{4, 1}}
Diamond == Cycle4 \cup {{1, 3}}
Clique4 == Diamond \cup {{2, 4}}
Path5 == Path4 \cup {{4, 5}}
Pentagon == Path5 \cup {{5, 1}}
House == Cycle4 \cup {{1, 5}, {2, 5}}
Dumbbell == Triangle \cup {{1, 4}, {4, 5}, {4, 6}, {5, 6}}

\* The motifs of three and of four vertices in the engine's order.
Motifs3 == <<Wedge, Triangle>>
Motifs4 == <<Star3, Path4, TailedTriangle, Cycle4, Diamond, Clique4>>

MotifCounts(N, k, motifs) ==
  [i \in DOMAIN motifs |-> Cardinality(InducedSets(N, k, motifs[i]))]
=============================================================================

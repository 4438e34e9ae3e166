---------------------------- MODULE SmallGraphs ----------------------------
(***************************************************************************)
(* Small undirected graphs, as inputs of the models that work on           *)
(* neighbour sets.                                                         *)
(***************************************************************************)
EXTENDS PatternCount

\* The undirected graph of n vertices with a set of edges {v, w}.
Undirected(n, E) == [v \in 0 .. n - 1 |-> {w \in 0 .. n - 1 : w # v /\ {v, w} \in E}]

Pairs(n) == kSubset(2, 0 .. n - 1)

\* Every labelled graph: the kernels break symmetries by vertex id, so
\* isomorphic graphs are different inputs.
AllGraphs(n) == {Undirected(n, E) : E \in SUBSET Pairs(n)}

Complete(n) == Undirected(n, Pairs(n))

\* The complete graph and all the graphs that lack one of its edges.
NearComplete(n) ==
  {Complete(n)} \cup {Undirected(n, Pairs(n) \ {e}) : e \in Pairs(n)}

\* Five-vertex graphs that between them hold all the five-vertex patterns.
FiveVertex ==
  {Undirected(5, E) : E \in {
     {{0, 1}, {1, 2}, {2, 3}, {3, 4}, {0, 4}},                    \* pentagon
     {{0, 1}, {1, 2}, {2, 3}, {0, 3}, {0, 4}, {1, 4}},            \* house
     {{0, 1}, {1, 2}, {2, 3}, {0, 3}, {0, 4}, {1, 4}, {2, 4}},    \* house and chord
     {{0, 4}, {1, 4}, {2, 4}, {3, 4}, {0, 1}, {1, 2}, {2, 3}},    \* fan
     {{0, 1}, {1, 2}, {2, 3}, {3, 4}},                            \* path
     Pairs(4) \cup {{3, 4}},                                      \* clique and tail
     Pairs(5)}}

\* Two triangles joined by an edge, with two labellings, with two more edges
\* between them, and with one that makes a third triangle.
SixVertex ==
  {Undirected(6, E) : E \in {
     {{0, 1}, {0, 2}, {1, 2}, {0, 3}, {3, 4}, {3, 5}, {4, 5}},
     {{5, 1}, {5, 3}, {1, 3}, {5, 2}, {2, 0}, {2, 4}, {0, 4}},
     {{0, 1}, {0, 2}, {1, 2}, {0, 3}, {3, 4}, {3, 5}, {4, 5}, {1, 4}, {2, 5}},
     {{0, 1}, {0, 2}, {1, 2}, {0, 3}, {3, 4}, {3, 5}, {4, 5}, {2, 3}}}}
=============================================================================

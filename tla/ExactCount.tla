----------------------------- MODULE ExactCount -----------------------------
(***************************************************************************)
(* The counting kernels of the GS engine                                   *)
(* (sansa/src/approx/GS/exact-counting/*.h), as functions of the graph.    *)
(* Every kernel is a loop over v0 whose iterations add to one reduced      *)
(* counter, so its result is a sum over v0.  A loop over a sorted          *)
(* neighbour list that breaks at the first element >= b is a sum over      *)
(* Below(list, b).                                                         *)
(***************************************************************************)
EXTENDS PatternCount, Combinatorics

SumOver(S, f(_)) == MapThenSumSet(f, S)

\* bounded(a, up), and the loops that break at up.
Below(S, up) == {x \in S : x < up}

\* difference_set(S, g.N(v)): VertexSet's difference also drops v itself.
Without(N, S, v) == S \ (N[v] \cup {v})

\* The nested loops of the clique kernels: `levels' more vertices from y.
RECURSIVE CliqueLoops(_, _, _)
CliqueLoops(N, y, levels) ==
  IF levels = 1 THEN Cardinality(y)
  ELSE SumOver(y, LAMBDA v : CliqueLoops(N, y \cap N[v], levels - 1))

\* Fault: the count on a DAG is divided by the symmetries as well.
clique_DividedOnDag(N, k, dag, symmetries) ==
  SumOver(V(N), LAMBDA v0 : CliqueLoops(N, N[v0], k - 1)) \div symmetries

\* The clique kernels: all the orders of a clique are found on an undirected
\* graph, one on a DAG.
clique(N, k, dag, symmetries) ==
  LET counter == SumOver(V(N), LAMBDA v0 : CliqueLoops(N, N[v0], k - 1))
  IN  IF dag THEN counter ELSE counter \div symmetries

triangle(N, dag) == clique(N, 3, dag, factorial[3])
clique4(N, dag) == clique(N, 4, dag, factorial[4])
clique5(N, dag) == clique(N, 5, dag, factorial[5])
clique6(N, dag) == clique(N, 6, dag, factorial[6])
\* 8clique.h has the divisor of 9clique.h.
clique8(N, dag) == clique(N, 8, dag, factorial[9])
clique9(N, dag) == clique(N, 9, dag, factorial[9])

diamond(N) ==
  SumOver(V(N), LAMBDA v0 : SumOver(Below(N[v0], v0), LAMBDA v1 :
    LET y0y1 == N[v0] \cap N[v1]
    IN  SumOver(y0y1, LAMBDA v2 : Cardinality(Below(y0y1, v2)))))

\* Fault: the symmetry breaking v2 < v1 is missing.
rectangle_NoOrder(N) ==
  SumOver(V(N), LAMBDA v0 : SumOver(Below(N[v0], v0), LAMBDA v1 :
    SumOver(N[v0] \ {v1}, LAMBDA v2 :
      Cardinality(Below(N[v1] \cap N[v2], v0)))))

rectangle(N) ==
  SumOver(V(N), LAMBDA v0 : SumOver(Below(N[v0], v0), LAMBDA v1 :
    SumOver(Below(N[v0], v1), LAMBDA v2 :
      Cardinality(Below(N[v1] \cap N[v2], v0)))))

house(N) ==
  SumOver(V(N), LAMBDA v0 : SumOver(Below(N[v0], v0), LAMBDA v1 :
    SumOver(N[v0] \cap N[v1], LAMBDA v2 :
      SumOver(N[v1] \ {v0, v2}, LAMBDA v3 :
        Cardinality((N[v0] \cap N[v3]) \ {v1, v2})))))

pentagon(N) ==
  SumOver(V(N), LAMBDA v0 : SumOver(Below(N[v0], v0), LAMBDA v1 :
    SumOver(Below(N[v0], v1), LAMBDA v2 :
      SumOver(Below(N[v2], v0) \ {v1}, LAMBDA v3 :
        Cardinality(Below(N[v1] \cap N[v3], v0) \ {v2})))))

deg(N, v) == Cardinality(N[v])

\* 5path.h: wedges around v0 times the ends of v1, less what is not a path.
fivepath(N) ==
  SumOver({v \in V(N) : deg(N, v) >= 2}, LAMBDA v0 :
    SumOver({v \in N[v0] : deg(N, v) >= 2}, LAMBDA v1 :
      LET wedge_count == SumOver(Below(N[v0], v1), LAMBDA v2 :
                           IF deg(N, v2) > 1 THEN deg(N, v2) - 1 ELSE 0)
          cycle_count == SumOver(Below(N[v0], v1), LAMBDA v2 :
                           Cardinality(N[v1] \cap N[v2]) - 1)
          a0a1 == Below(N[v0] \cap N[v1], v1)
          tri_count == Cardinality(a0a1)
          tt1_count == tri_count * (deg(N, v1) - 2)
          tt2_count == SumOver(a0a1, LAMBDA v2 :
                         IF deg(N, v2) > 2 THEN deg(N, v2) - 2 ELSE 0)
      IN  wedge_count * (deg(N, v1) - 1) - cycle_count
            - tt1_count - tt2_count - tri_count))

triangletriangle(N) ==
  SumOver(V(N), LAMBDA v0 : SumOver(N[v0], LAMBDA v1 :
    SumOver(Below(N[v0] \cap N[v1], v1), LAMBDA v2 :
      SumOver(N[v0] \ {v1, v2}, LAMBDA v3 :
        SumOver(Below(N[v3], v1) \ {v0, v2}, LAMBDA v4 :
          Cardinality(Below(N[v3] \cap N[v4], v4)))))))

\* 3motif.h: induced wedges and triangles.
motif3(N) ==
  <<SumOver(V(N), LAMBDA v0 : SumOver(N[v0], LAMBDA v1 :
      Cardinality(Without(N, Below(N[v0], v1), v1)))),
    SumOver(V(N), LAMBDA v0 : SumOver(Below(N[v0], v0), LAMBDA v1 :
      Cardinality(Below(N[v0] \cap N[v1], v1))))>>

\* 4motif.h: the six induced motifs of four vertices.
motif4(N) ==
  LET overEdges(f(_, _)) ==
        SumOver(V(N), LAMBDA v0 : SumOver(Below(N[v0], v0), LAMBDA v1 : f(v0, v1)))
      n0y1(v0, v1) == Without(N, N[v1], v0)
  IN
  <<SumOver(V(N), LAMBDA v0 : SumOver(N[v0], LAMBDA v1 :
      LET y0n1f1 == Without(N, Below(N[v0], v1), v1)
      IN  SumOver(y0n1f1, LAMBDA v2 : Cardinality(Without(N, Below(y0n1f1, v2), v2))))),
    overEdges(LAMBDA v0, v1 : SumOver(Without(N, N[v0], v1), LAMBDA v2 :
      Cardinality(Without(N, n0y1(v0, v1), v2)))),
    overEdges(LAMBDA v0, v1 : SumOver(N[v0] \cap N[v1], LAMBDA v2 :
      Cardinality(Without(N, Without(N, N[v2], v0), v1)))),
    overEdges(LAMBDA v0, v1 : SumOver(Without(N, Below(N[v0], v1), v1), LAMBDA v2 :
      Cardinality(Below(n0y1(v0, v1) \cap N[v2], v0)))),
    overEdges(LAMBDA v0, v1 : SumOver(N[v0] \cap N[v1], LAMBDA v2 :
      Cardinality(Without(N, Below(N[v0] \cap N[v1], v2), v2)))),
    overEdges(LAMBDA v0, v1 : SumOver(Below(N[v0] \cap N[v1], v1), LAMBDA v2 :
      Cardinality(Below(Below(N[v0] \cap N[v1], v1) \cap N[v2], v2))))>>
=============================================================================

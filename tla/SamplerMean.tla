----------------------------- MODULE SamplerMean -----------------------------
(***************************************************************************)
(* What the samplers of NeighborSampler count on average: the mean of a    *)
(* sample's weight, over all its draws, against the occurrences of the     *)
(* pattern.                                                                *)
(***************************************************************************)
EXTENDS NeighborSampler

\* A multiple of the possible odds of three draws.
Unit == 60 * 60 * 60

(***************************************************************************)
(* The mean of what scale is multiplied by while the walk w is finished,   *)
(* starting from x: the average over the candidates at every draw.  units  *)
(* carries the probability of the draws so far as a share of Unit.         *)
(***************************************************************************)
RECURSIVE Expected(_, _, _, _, _, _)
Expected(g, s, k, w, x, units) ==
  IF Pruned(g, s, w) THEN 0
  ELSE IF LastLevel(s, w, k) THEN units * x * LastFactor(g, s, w)
  ELSE IF TooFew(g, s, w) THEN 0
  ELSE LET C == Candidates(g, s, w) IN
       MapThenSumSet(LAMBDA c : Expected(g, s, k, Extend(s, w, c), Scaled(x, C),
                                         units \div Cardinality(C)), C)

\* m times the mean weight, in units, but for the factor (1 or m) that scale
\* starts with: each of the m ids has probability 1/m.
MeanFactor(g, s, k) ==
  LET ids == {i \in DOMAIN list : ~GivesUp(g, s, list[i])}
  IN  MapThenSumSet(LAMBDA i : Expected(g, s, k, list[i], 1, Unit), ids)

Walks == MeanFactor(N, cmd.sampler, cmd.k)

Path(k) == {{i, i + 1} : i \in 1 .. k - 1}

\* The occurrences of the pattern in the input.
TrueCount ==
  LET subgraphs(k, P) == Cardinality(Subgraphs(cmd.input, k, P))
      induced(P) == Cardinality(InducedSets(cmd.input, 4, P))
      s == cmd.sampler
  IN  CASE s \in {"clique", "clique_base"} -> Cardinality(Cliques(cmd.input, cmd.k))
        [] s = "path" -> subgraphs(cmd.k, Path(cmd.k))
        [] s \in {"house", "house_base"} -> subgraphs(5, House)
        [] s = "dumbbell" -> subgraphs(6, Dumbbell)
        [] s = "diamond" -> subgraphs(4, Diamond)
        [] s = "cycle" -> subgraphs(4, Cycle4)
        [] s = "tailedtriangle" -> subgraphs(4, TailedTriangle)
        [] s = "star" -> subgraphs(4, Star3)
        [] s = "induced_diamond" -> induced(Diamond)
        [] s = "induced_star" -> induced(Star3)
        [] s = "induced_tailedtri" -> induced(TailedTriangle)
        [] s = "induced_cycle" -> induced(Cycle4)

\* The weights of this command's samples are those of the code: main has run
\* and no walk writes past a buffer.
Ready == phase = "edge" /\ (cmd.sampler \in {"path", "cycle"} => MAX_DEGREE(N) >= cmd.k - 1)

\* How often the engines find one house: from both orientations of the edge
\* between the roof and the square.
Houses == IF cmd.sampler = "house" /\ cmd.program # "alone" THEN 2 ELSE 1

\* The mean of the estimate is the number of occurrences of the pattern (twice
\* that for the house of the engines): the walks find each occurrence equally
\* often, the factors of scale make up for the probability of the draws, and m
\* for that of the edge.
MeanIsCount ==
  LET m == Space(cmd, N, list)
  IN  /\ m = Len(list)
      /\ Walks = Unit * (m \div Start(cmd, m)) * Divisor(cmd.sampler, cmd.k) * Houses * TrueCount

(***************************************************************************)
(* The clique, path and house samplers of the engines (the path of 4motif  *)
(* included), and the programs for one vertex-induced pattern, estimate    *)
(* the number of occurrences of their pattern without a bias.              *)
(***************************************************************************)
UnbiasedSample ==
  Ready /\ cmd.sampler \in {"clique", "path", "house", "house_base", "induced_diamond",
                            "induced_star", "induced_tailedtri", "induced_cycle"}
        /\ ~(cmd.program = "motif4" /\ cmd.sampler = "clique") => MeanIsCount

(***************************************************************************)
(* Every sampler does: "produces motif counts seen in table 4a", says      *)
(* experiments.md of the runs of 4motif; "scale down by number of          *)
(* samples", "symmetry breaking", says ns_clique.                          *)
(***************************************************************************)
EverySampleUnbiased == Ready => MeanIsCount
==============================================================================

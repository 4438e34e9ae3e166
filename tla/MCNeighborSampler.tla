------------------------- MODULE MCNeighborSampler -------------------------
(***************************************************************************)
(* NeighborSampler with its inputs.                                        *)
(***************************************************************************)
EXTENDS SamplerMean, SmallGraphs

On(graphs, program, samplers, ks) ==
  [program : {program}, sampler : samplers, k : ks, input : graphs]

\* Every sampler whose edge ids stay inside its list, on graphs that hold its
\* pattern; all graphs of four vertices where the pattern has no more.
PassingCommands ==
  LET small == AllGraphs(4)
  IN  On(small \cup FiveVertex, "ns_online", {"clique", "path"}, {3, 4})
      \cup On(FiveVertex, "ns_online", {"clique", "path", "house"}, {5})
      \cup On(FiveVertex \cup SixVertex, "ns_online", {"dumbbell"}, {6})
      \cup On(SixVertex \cup {Complete(6)}, "ns_online", {"clique", "path"}, {6})
      \cup On(FiveVertex, "ns_final", {"clique", "path"}, {4})
      \cup On(small \cup FiveVertex, "motif4", Samplers.motif4, {4})
      \cup On(small \cup FiveVertex, "alone",
              {"clique_base", "induced_diamond", "induced_star", "induced_tailedtri", "induced_cycle"}, {4})
      \cup On(FiveVertex, "alone", {"clique_base"}, {3, 5})
      \cup On(FiveVertex, "alone", {"house", "house_base"}, {5})

\* The runs of src/scripts/tables with the house, in ns_final.
HouseCommands == On(FiveVertex, "ns_final", {"house"}, {5})

\* The samplers that src/scripts/tables/tbl4a.sh runs, on the smallest graph
\* that holds all of their patterns.
MotifCommands == On({Complete(4)}, "motif4", Samplers.motif4, {4})
=============================================================================

----------------------------- MODULE MCGSEngine -----------------------------
(***************************************************************************)
(* GSEngine with its inputs.  The dag flag is for the cliques only.        *)
(***************************************************************************)
EXTENDS GSEngine, SmallGraphs

Lines(graphs, names, deltas, dags) ==
  {c \in [input : graphs, name : names, delta : deltas, dag : dags] :
     c.dag => IsClique(c.name)}

SmallNames ==
  {"triangle", "4clique", "5clique", "diamond", "rectangle", "house",
   "pentagon", "5path", "3motif", "4motif"}

\* Exact counts of every graph of five vertices, two colours on a few, the 0
\* colours of scripts/tables/tbl4a.sh, and the large cliques on the DAGs of
\* nine vertices.
PassingCommands ==
  Lines(AllGraphs(5), SmallNames, {1}, BOOLEAN)
    \cup Lines(FiveVertex, SmallNames, {2}, BOOLEAN)
    \cup Lines(FiveVertex, {"3motif", "4motif"}, {0}, {FALSE})
    \cup Lines(NearComplete(9), {"6clique", "8clique", "9clique"}, {1}, {TRUE})

TriTriCommands == Lines({Complete(5)}, {"triangletriangle"}, {1}, {FALSE})
=============================================================================

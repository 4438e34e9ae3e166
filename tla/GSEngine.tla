------------------------------ MODULE GSEngine ------------------------------
(***************************************************************************)
(* The GS engine (sansa/src/approx/GS): main builds the graph, SansaSolver *)
(* lets the ColorSampler sparsify it, counts the pattern with the kernel   *)
(* its name selects and scales the count back up.                          *)
(*                                                                         *)
(* orientation and color_sparsify_fast are atomic here; that their         *)
(* parallel loops implement these steps is the subject of CSRBuild.        *)
(***************************************************************************)
EXTENDS ExactCount, Sequences

CONSTANT
  Commands \* the command lines: [input, name, delta, dag], input standing for
           \* the graph in the file as its neighbour sets, delta for num_colors

\* The graphs are undirected and have no loops.
ASSUME CommandsAssumption ==
  \A c \in Commands :
    /\ c.delta \in Nat /\ c.dag \in BOOLEAN
    /\ \A v \in V(c.input) :
         /\ c.input[v] \subseteq V(c.input) /\ v \notin c.input[v]
         /\ \A w \in c.input[v] : v \in c.input[w]

VARIABLES
  name, delta, dag, \* the command line
  input,         \* the graph in the file
  N,             \* the neighbours in the Graph object
  phase,         \* the next step of main and SansaSolver
  counter,       \* the reduced counter
  total_vec,     \* the motif counters
  scale_factor,  \* ColorSampler's
  total,         \* total_num as printed by main
  printed        \* the motif counts as printed by SansaSolver

args == <<name, delta, dag, input>>
vars == <<args, N, phase, counter, total_vec, scale_factor, total, printed>>

\* The patterns that have the k-clique kernels, which may run on a DAG.
CliqueSize ==
  [triangle |-> 3, 4clique |-> 4, 5clique |-> 5, 6clique |-> 6, 8clique |-> 8, 9clique |-> 9]

IsClique(p) == p \in DOMAIN CliqueSize

\* Pattern::get_nodes
get_nodes(p) ==
  IF p \in {"diamond", "rectangle", "4clique", "4motif"} THEN 4
  ELSE IF p \in {"5clique", "house", "pentagon", "5path"} THEN 5
  ELSE IF p \in {"triangle", "3motif"} THEN 3
  ELSE IF p \in {"6clique", "triangletriangle", "dumbell"} THEN 6
  ELSE IF p = "8clique" THEN 8 ELSE 9

\* total_vec after the kernel; empty for the patterns that do not use it.
MotifKernel(p, g) ==
  IF p = "3motif" THEN motif3(g) ELSE IF p = "4motif" THEN motif4(g) ELSE <<>>

SumSeq(s) == SumOver(DOMAIN s, LAMBDA i : s[i])

(***************************************************************************)
(* The dispatch of SansaSolver on the pattern's name.  A name that no test *)
(* recognises runs no kernel and leaves counter at 0.                      *)
(***************************************************************************)
Kernel(p, g, d) ==
  CASE p = "house" -> house(g)
    [] p = "pentagon" -> pentagon(g)
    [] p = "rectangle" -> rectangle(g)
    [] p = "diamond" -> diamond(g)
    [] p = "triangle" -> triangle(g, d)
    [] p = "9clique" -> clique9(g, d)
    [] p = "8clique" -> clique8(g, d)
    [] p = "5clique" -> clique5(g, d)
    [] p = "4clique" -> clique4(g, d)
    [] p = "5path" -> fivepath(g)
    [] p = "6clique" -> clique6(g, d)
    [] p \in {"triangletriangle", "dumbell"} -> triangletriangle(g)
    [] p \in {"3motif", "4motif"} -> SumSeq(MotifKernel(p, g))
    [] OTHER -> 0

\* Graph::orientation: up the order (degree, id).
Oriented(g) ==
  [v \in V(g) |-> {w \in g[v] : deg(g, w) > deg(g, v) \/ (deg(g, w) = deg(g, v) /\ w > v)}]

\* Graph::color_sparsify_fast with the colouring col.
Sparsified(g, col) == [v \in V(g) |-> {w \in g[v] : col[w] = col[v]}]

(***************************************************************************)
(* What dist(0, c-1) may draw.  For c = 0, which scripts/tables/tbl4a.sh   *)
(* passes, it is undefined: in the build any int, of which only the        *)
(* equalities matter, so that there are as many colours as vertices.       *)
(***************************************************************************)
Colors(g, c) == IF c = 0 THEN V(g) ELSE 0 .. c - 1

Init ==
  /\ \E c \in Commands :
       name = c.name /\ delta = c.delta /\ dag = c.dag /\ input = c.input
  /\ N = input /\ phase = "construct"
  /\ counter = 0 /\ total_vec = <<>> /\ scale_factor = 0 /\ total = 0 /\ printed = <<>>

\* Graph g(argv[1], dag)
Construct ==
  /\ phase = "construct" /\ phase' = "sample"
  /\ N' = IF dag THEN Oriented(N) ELSE N
  /\ UNCHANGED <<args, counter, total_vec, scale_factor, total, printed>>

\* Fault: the scale factor has one power of the colours too many.
ScaleFactor_OnePowerMore(p, c) == c ^ get_nodes(p)

\* scale_factor = std::pow(delta, p.get_nodes()-1)
ScaleFactor(p, c) == c ^ (get_nodes(p) - 1)

\* ColorSampler::GetGraph: one colour means no sparsification.
GetGraph ==
  /\ phase = "sample" /\ phase' = "count"
  /\ IF delta # 1
     THEN \E col \in [V(N) -> Colors(N, delta)] : N' = Sparsified(N, col)
     ELSE N' = N
  /\ scale_factor' = ScaleFactor(name, delta)
  /\ UNCHANGED <<args, counter, total_vec, total, printed>>

\* The kernel.
CountPattern ==
  /\ phase = "count" /\ phase' = "scale"
  /\ counter' = Kernel(name, N, dag)
  /\ total_vec' = MotifKernel(name, N)
  /\ UNCHANGED <<args, N, scale_factor, total, printed>>

\* ColorSampler::Scale
Scale(count) == count * scale_factor

\* The motif counts are printed scaled, and the total is scaled.
Report ==
  /\ phase = "scale" /\ phase' = "done"
  /\ printed' = [i \in DOMAIN total_vec |-> Scale(total_vec[i])]
  /\ total' = Scale(counter)
  /\ UNCHANGED <<args, N, counter, total_vec, scale_factor>>

Next == Construct \/ GetGraph \/ CountPattern \/ Report

Spec == Init /\ [][Next]_vars

-----------------------------------------------------------------------------
\* The motif counts of the reference, for the two motif patterns.
TrueMotifs(p, g) ==
  IF p = "3motif" THEN MotifCounts(g, 3, Motifs3)
  ELSE IF p = "4motif" THEN MotifCounts(g, 4, Motifs4) ELSE <<>>

\* How often the pattern of this name occurs in the graph.
TrueCount(p, g) ==
  CASE IsClique(p) -> Cardinality(Cliques(g, CliqueSize[p]))
    [] p = "diamond" -> Cardinality(Subgraphs(g, 4, Diamond))
    [] p = "rectangle" -> Cardinality(Subgraphs(g, 4, Cycle4))
    [] p = "house" -> Cardinality(Subgraphs(g, 5, House))
    [] p = "pentagon" -> Cardinality(Subgraphs(g, 5, Pentagon))
    [] p = "5path" -> Cardinality(Subgraphs(g, 5, Path5))
    [] p \in {"triangletriangle", "dumbell", "dumbbell"} ->
         Cardinality(Subgraphs(g, 6, Dumbbell))
    [] OTHER -> SumSeq(TrueMotifs(p, g))

(***************************************************************************)
(* "The exact count method is embedded in the GS engine ... run with       *)
(* number of colors = 1" (experiments.md): with one colour, total_num and  *)
(* the printed motif counts are the numbers of occurrences in the input.   *)
(***************************************************************************)
ExactTotal ==
  phase = "done" /\ delta = 1 =>
    total = TrueCount(name, input) /\ printed = TrueMotifs(name, input)

(***************************************************************************)
(* The engine's estimate is unbiased: its mean over all the colourings is  *)
(* the number of occurrences in the input.  Stated for a run that is about *)
(* to colour, over the colourings it may draw.  With no colours there is   *)
(* no estimate: the scale factor is 0.                                     *)
(***************************************************************************)
Unbiased ==
  phase = "sample" /\ delta > 0 =>
    SumOver([V(N) -> Colors(N, delta)], LAMBDA col :
        ScaleFactor(name, delta) * Kernel(name, Sparsified(N, col), dag))
      = delta ^ Cardinality(V(N)) * TrueCount(name, input)
=============================================================================

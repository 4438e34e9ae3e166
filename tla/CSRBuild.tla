------------------------------ MODULE CSRBuild ------------------------------
(***************************************************************************)
(* The two methods of Graph (sansa/src/common/graph.cc) that replace the   *)
(* CSR arrays by those of a subgraph, with their OpenMP loops:             *)
(*                                                                         *)
(*   orientation          keeps the edges that go up in the order          *)
(*                        (degree, vertex id), making the graph a DAG;     *)
(*   color_sparsify_fast  gives every vertex a random colour and keeps the *)
(*                        edges between vertices of one colour.            *)
(*                                                                         *)
(* Both have the same shape.  A parallel for counts the edges each vertex  *)
(* keeps, parallel_prefix_sum turns the counts into row pointers, a second *)
(* parallel for copies the kept edges into the new array, and the new      *)
(* arrays are published by assigning the pointers.  Nothing is locked: the *)
(* loops are correct because the ranges of the new array that the          *)
(* iterations write do not overlap.                                        *)
(*                                                                         *)
(* An iteration (a vertex) is run by one thread; any set of iterations may *)
(* be under way at once, which includes what schedule(static) and          *)
(* schedule(dynamic, 1024) allow.  The reads of N(src) and the writes of   *)
(* one iteration are separate steps, one per neighbour.                    *)
(***************************************************************************)
EXTENDS PrefixSum

CONSTANTS
  NV,        \* n_vertices
  Graphs,    \* the contents of the .vertex.bin and .edge.bin files
  MaxColors, \* the largest c that color_sparsify_fast is called with
  MaxPasses  \* bound on the number of calls

ASSUME NVAssumption == NV \in Nat \ {0}

V == 0 .. NV - 1

\* The files hold undirected graphs in CSR: row pointers that cover the edge
\* array in order, and strictly ascending neighbour lists without self loops.
ASSUME GraphsAssumption ==
  \A g \in Graphs :
    /\ g.n_edges \in Nat
    /\ g.vertices \in [0 .. NV -> 0 .. g.n_edges]
    /\ g.edges \in [0 .. g.n_edges - 1 -> V]
    /\ g.vertices[0] = 0 /\ g.vertices[NV] = g.n_edges
    /\ \A v \in V :
         /\ g.vertices[v] <= g.vertices[v + 1]
         /\ \A e, f \in g.vertices[v] .. g.vertices[v + 1] - 1 :
              e < f => g.edges[e] < g.edges[f]
         /\ \A e \in g.vertices[v] .. g.vertices[v + 1] - 1 :
              /\ g.edges[e] # v
              /\ \E f \in g.vertices[g.edges[e]] .. g.vertices[g.edges[e] + 1] - 1 :
                   g.edges[f] = v
ASSUME MaxColorsAssumption == MaxColors \in Nat
ASSUME MaxPassesAssumption == MaxPasses \in Nat

VARIABLES
  vertices,     \* row pointers
  edges,        \* column indices
  n_edges,      \* number of column indices
  phase,        \* the loop that is running, "idle" outside the two methods
  op,           \* the method that is running
  tag,          \* colors, or degrees, of that method
  at,           \* the edge index each iteration has reached
  offset,       \* offset of each iteration of the fill loop
  finished,     \* iterations of the running loop that have ended
  new_degrees, new_vertices, new_edges,
  form,         \* "dag" once orientation has run (the constructor's use_dag)
  passes        \* number of calls so far

graph == <<vertices, edges, n_edges>>
call == <<op, tag, form, passes>>
loop == <<at, offset, finished>>
new == <<new_degrees, new_vertices, new_edges>>
vars == <<graph, phase, call, loop, new>>

\* Fault: `>=' in the comparison of the degrees, so ties keep both arcs.
Keep_TiesKept(src, dst) ==
  IF op = "color" THEN tag[src] = tag[dst] ELSE tag[dst] >= tag[src]

\* Fault: the tie-break by vertex id is missing, so ties lose both arcs.
Keep_NoTieBreak(src, dst) ==
  IF op = "color" THEN tag[src] = tag[dst] ELSE tag[dst] > tag[src]

\* The test `keep edge' of the two loops.
Keep(src, dst) ==
  IF op = "color"
  THEN tag[src] = tag[dst]
  ELSE tag[dst] > tag[src] \/ (tag[dst] = tag[src] /\ dst > src)

\* Content of a cell of new_edges that nothing wrote yet.
Unset == -1

(***************************************************************************)
(* The constructor reads one of the input files.                           *)
(***************************************************************************)
Load(g) == vertices = g.vertices /\ edges = g.edges /\ n_edges = g.n_edges

Init ==
  /\ \E g \in Graphs : Load(g)
  /\ phase = "idle" /\ op = "none" /\ form = "undirected" /\ passes = 0
  /\ tag = [v \in V |-> 0]
  /\ at = [v \in V |-> 0] /\ offset = [v \in V |-> 0] /\ finished = {}
  /\ new_degrees = [v \in V |-> 0]
  /\ new_vertices = [v \in 0 .. NV |-> 0]
  /\ new_edges = [e \in {} |-> Unset]

\* A parallel for over the vertices is entered: every iteration that walks
\* N(src) starts at the first neighbour.
EnterLoop ==
  /\ at' = [v \in V |-> vertices[v]]
  /\ offset' = [v \in V |-> 0]
  /\ finished' = {}

(***************************************************************************)
(* orientation(), called by the constructor when use_dag is set and by the *)
(* clique samplers, also on a graph that is reduced or oriented already.   *)
(* Its first loop reads the degrees.                                       *)
(***************************************************************************)
orientation ==
  /\ phase = "idle" /\ passes < MaxPasses
  /\ op' = "dag" /\ phase' = "degrees" /\ passes' = passes + 1
  /\ tag' = [v \in V |-> 0]
  /\ new_degrees' = [v \in V |-> 0]
  /\ finished' = {}
  /\ UNCHANGED <<graph, at, offset, new_vertices, new_edges, form>>

\* degrees[v] = get_degree(v)
DegreeStep(v) ==
  /\ phase = "degrees" /\ v \notin finished
  /\ tag' = [tag EXCEPT ![v] = vertices[v + 1] - vertices[v]]
  /\ finished' = finished \cup {v}
  /\ UNCHANGED <<graph, phase, op, form, passes, at, offset, new>>

DegreeBarrier ==
  /\ phase = "degrees" /\ finished = V
  /\ phase' = "count"
  /\ EnterLoop
  /\ UNCHANGED <<graph, call, new>>

(***************************************************************************)
(* color_sparsify_fast(c): the sequential colouring, then the first        *)
(* parallel for is entered.                                                *)
(***************************************************************************)
color_sparsify_fast(c) ==
  /\ phase = "idle" /\ passes < MaxPasses
  /\ op' = "color" /\ phase' = "count" /\ passes' = passes + 1
  /\ tag' \in [V -> 0 .. c - 1]
  /\ new_degrees' = [v \in V |-> 0]
  /\ EnterLoop
  /\ UNCHANGED <<graph, new_vertices, new_edges, form>>

\* One neighbour of the counting loop: new_degrees[src] += 1 if it is kept.
CountStep(src) ==
  /\ phase = "count" /\ at[src] < vertices[src + 1]
  /\ new_degrees' = [new_degrees EXCEPT ![src] =
                       IF Keep(src, edges[at[src]]) THEN @ + 1 ELSE @]
  /\ at' = [at EXCEPT ![src] = @ + 1]
  /\ UNCHANGED <<graph, phase, call, offset, finished, new_vertices, new_edges>>

\* Fault: an iteration ends one neighbour early.
LoopEnd_Early(src) ==
  /\ phase \in {"count", "fill"} /\ src \notin finished
  /\ at[src] + 1 >= vertices[src + 1]
  /\ finished' = finished \cup {src}
  /\ UNCHANGED <<graph, phase, call, at, offset, new>>

LoopEnd(src) ==
  /\ phase \in {"count", "fill"} /\ src \notin finished
  /\ at[src] = vertices[src + 1]
  /\ finished' = finished \cup {src}
  /\ UNCHANGED <<graph, phase, call, at, offset, new>>

\* Fault: a `nowait' on the counting loop.
CountBarrier_NoWait ==
  /\ phase = "count"
  /\ new_vertices' = prefix_sum(new_degrees, n_edges, NV)
  /\ new_edges' = [e \in 0 .. new_vertices'[NV] - 1 |-> Unset]
  /\ phase' = "fill"
  /\ EnterLoop
  /\ UNCHANGED <<graph, call, new_degrees>>

(***************************************************************************)
(* The barrier of the counting loop, then parallel_prefix_sum (specified   *)
(* and proved in ParallelScan), the allocation of new_edges and the entry  *)
(* of the fill loop.                                                       *)
(***************************************************************************)
CountBarrier ==
  /\ phase = "count" /\ finished = V
  /\ new_vertices' = prefix_sum(new_degrees, n_edges, NV)
  /\ new_edges' = [e \in 0 .. new_vertices'[NV] - 1 |-> Unset]
  /\ phase' = "fill"
  /\ EnterLoop
  /\ UNCHANGED <<graph, call, new_degrees>>

\* Fault: the range is filled from its end.
FillStep_FromEnd(src) ==
  /\ phase = "fill" /\ at[src] < vertices[src + 1]
  /\ LET dst == edges[at[src]] IN
       IF Keep(src, dst)
       THEN /\ new_edges' = [new_edges EXCEPT ![new_vertices[src + 1] - 1 - offset[src]] = dst]
            /\ offset' = [offset EXCEPT ![src] = @ + 1]
       ELSE UNCHANGED <<new_edges, offset>>
  /\ at' = [at EXCEPT ![src] = @ + 1]
  /\ UNCHANGED <<graph, phase, call, finished, new_degrees, new_vertices>>

\* One neighbour of the fill loop: new_edges[begin+offset] = dst; offset++.
FillStep(src) ==
  /\ phase = "fill" /\ at[src] < vertices[src + 1]
  /\ LET dst == edges[at[src]] IN
       IF Keep(src, dst)
       THEN /\ new_edges' = [new_edges EXCEPT ![new_vertices[src] + offset[src]] = dst]
            /\ offset' = [offset EXCEPT ![src] = @ + 1]
       ELSE UNCHANGED <<new_edges, offset>>
  /\ at' = [at EXCEPT ![src] = @ + 1]
  /\ UNCHANGED <<graph, phase, call, finished, new_degrees, new_vertices>>

\* Fault: n_edges keeps the number of edges of the old graph.
Publish_StaleCount ==
  /\ phase = "fill" /\ finished = V
  /\ vertices' = new_vertices
  /\ edges' = new_edges
  /\ n_edges' = n_edges
  /\ phase' = "idle"
  /\ form' = IF op = "dag" THEN "dag" ELSE form
  /\ UNCHANGED <<op, tag, passes, loop, new>>

(***************************************************************************)
(* The barrier of the fill loop, then the assignments that publish the new *)
(* arrays and the return to the caller.                                    *)
(***************************************************************************)
Publish ==
  /\ phase = "fill" /\ finished = V
  /\ vertices' = new_vertices
  /\ edges' = new_edges
  /\ n_edges' = new_vertices[NV]
  /\ phase' = "idle"
  /\ form' = IF op = "dag" THEN "dag" ELSE form
  /\ UNCHANGED <<op, tag, passes, loop, new>>

VertexStep(v) == DegreeStep(v) \/ CountStep(v) \/ LoopEnd(v) \/ FillStep(v)

CallerStep ==
  \/ orientation
  \/ \E c \in 1 .. MaxColors : color_sparsify_fast(c)

MasterStep == DegreeBarrier \/ CountBarrier \/ Publish

Next == CallerStep \/ MasterStep \/ \E v \in V : VertexStep(v)

Spec == Init /\ [][Next]_vars

-----------------------------------------------------------------------------
Row(v) == vertices[v] .. vertices[v + 1] - 1

\* The positions of the edges of v before position p that the call keeps.
Kept(v, p) == {e \in vertices[v] .. p - 1 : Keep(v, edges[e])}

Adj(v) == {edges[e] : e \in Row(v)}

GraphType ==
  /\ n_edges \in Nat
  /\ vertices \in [0 .. NV -> 0 .. n_edges]
  /\ edges \in [0 .. n_edges - 1 -> V]

CallType ==
  /\ phase \in {"idle", "degrees", "count", "fill"}
  /\ op \in {"none", "dag", "color"}
  /\ tag \in [V -> Nat]
  /\ form \in {"undirected", "dag"}
  /\ passes \in 0 .. MaxPasses

LoopType == at \in [V -> Nat] /\ offset \in [V -> Nat] /\ finished \in SUBSET V

NewType ==
  /\ new_degrees \in [V -> Nat]
  /\ new_vertices \in [0 .. NV -> Nat]
  /\ new_edges \in [0 .. new_vertices[NV] - 1 -> V \cup {Unset}]

\* The arrays have the sizes the code allocates and hold vertices (or, while
\* they are being filled, unwritten cells).
TypeOK == GraphType /\ CallType /\ LoopType /\ NewType

(***************************************************************************)
(* What N(v), get_degree and every kernel assume of the arrays while no    *)
(* method runs: row pointers cover the edge array in order, and every      *)
(* neighbour list is strictly ascending (the merge intersections of        *)
(* VertexSet need it).                                                     *)
(***************************************************************************)
WellFormed ==
  /\ vertices[0] = 0 /\ vertices[NV] = n_edges
  /\ \A v \in V : vertices[v] <= vertices[v + 1]
  /\ \A v \in V : \A e, f \in Row(v) : e < f => edges[e] < edges[f]

(***************************************************************************)
(* The data-race freedom of the fill loop: the cell an iteration is about  *)
(* to write lies inside new_edges, nothing wrote it before, and no other   *)
(* iteration that is under way is about to write it.                       *)
(***************************************************************************)
AboutToWrite(v) ==
  phase = "fill" /\ at[v] < vertices[v + 1] /\ Keep(v, edges[at[v]])

Target(v) == new_vertices[v] + offset[v]

NoWriteRace ==
  \A v \in V : AboutToWrite(v) =>
    /\ Target(v) \in DOMAIN new_edges
    /\ new_edges[Target(v)] = Unset
    /\ \A w \in V \ {v} : AboutToWrite(w) => Target(w) # Target(v)

(***************************************************************************)
(* Publishing replaces the neighbour list of every vertex by the edges it  *)
(* keeps, in their old order: as many as were kept, the edge that had k    *)
(* kept edges before it at place k.                                        *)
(***************************************************************************)
PublishCorrect ==
  [][\A v \in V :
       /\ vertices'[v + 1] - vertices'[v] = Cardinality(Kept(v, vertices[v + 1]))
       /\ \A e \in Kept(v, vertices[v + 1]) :
            edges'[vertices'[v] + Cardinality(Kept(v, e))] = edges[e]]_graph

(***************************************************************************)
(* A graph loaded undirected stays undirected (colour sparsification keeps *)
(* both arcs of an edge or none) until orientation, which leaves a graph   *)
(* without a directed cycle: the k-clique kernels count each clique once   *)
(* only on an acyclic orientation.                                         *)
(***************************************************************************)
Direction ==
  phase = "idle" =>
    IF form = "dag"
    THEN \A S \in (SUBSET V) \ {{}} : \E v \in S : Adj(v) \cap S = {}
    ELSE \A v, w \in V : w \in Adj(v) <=> v \in Adj(w)

\* The subgraph each call promises, as one atomic step.
Reduction == INSTANCE GraphReduction WITH adj <- [v \in V |-> Adj(v)], dag <- (form = "dag")

(***************************************************************************)
(* The parallel loops implement the atomic reductions: orientation keeps   *)
(* the arcs that go up in one linear order, color_sparsify_fast the arcs   *)
(* inside the colour classes, and no other step of any thread changes the  *)
(* graph that the rest of the program sees.                                *)
(***************************************************************************)
ImplementsReduction == Reduction!Spec
=============================================================================

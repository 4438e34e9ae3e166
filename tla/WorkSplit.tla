----------------------------- MODULE WorkSplit -----------------------------
(***************************************************************************)
(* A program that loads a Graph, calls its methods in any order, and then  *)
(* divides the work: the task list among the queues of a Scheduler, or the *)
(* graph among the subgraphs of a PartitionedGraph.                        *)
(***************************************************************************)
EXTENDS Scheduler, GraphPartition

CONSTANT MaxCallsBefore   \* bound on the calls of the graph before a split

ASSUME MaxCallsBeforeAssumption == MaxCallsBefore \in Nat

vars == <<gvars, svars, pvars>>

SplitInit == Init /\ SchedulerInit /\ PartitionInit

Idle == phase = "idle" /\ stage = "idle"

CallGraph == Idle /\ GraphStep /\ UNCHANGED <<svars, pvars>>

CallScheduler ==
  /\ Idle /\ calls <= MaxCallsBefore
  /\ \E m \in Methods, n \in 1 .. MaxQueues, s \in 1 .. MaxStride : Split(m, n, s)
  /\ UNCHANGED pvars

CallPartition ==
  /\ Idle /\ calls <= MaxCallsBefore
  /\ Partition /\ UNCHANGED svars

Working ==
  \/ SchedulerStep /\ UNCHANGED pvars
  \/ PartitionStep /\ UNCHANGED svars

Next == CallGraph \/ CallScheduler \/ CallPartition \/ Working

Spec == SplitInit /\ [][Next]_vars

-----------------------------------------------------------------------------
\* The tasks that the list was asked to hold when it was made.
Wanted ==
  {a \in past.arcs : past.sym_break => IF past.ascend THEN a[1] < a[2]
                                                      ELSE a[1] > a[2]}

(***************************************************************************)
(* A list holds every arc of the graph it was made from once (of a         *)
(* symmetric graph, with sym_break, every edge once), however the graph    *)
(* is reduced afterwards, although without sym_break dst_list is the edge  *)
(* array of the graph itself.  The exceptions: orientation has freed that  *)
(* array, sym_break was used on an oriented graph, or the list was empty   *)
(* and a stream, finding nnz = 0, has set nnz to its own length.           *)
(***************************************************************************)
ListExact ==
  /\ g.src_list # NULL /\ ~past.lostList
  /\ past.sym_break => Symmetric(past.arcs)
  /\ Wanted = {} => g.stream = NULL
  => LET pair(e) == <<Src(e), Dst(e)>> IN
       /\ {pair(e) : e \in 0 .. nnz - 1} = Wanted
       /\ nnz = Cardinality(Wanted)

(***************************************************************************)
(* No pointer of the object is left to a freed block, but for the two      *)
(* cases in which orientation frees an array that has a second owner: the  *)
(* incoming arcs of an undirected graph and a list without sym_break.      *)
(***************************************************************************)
OnlyOrientationDangles ==
  status \notin {"destroyed", "double_free"} =>
    \A m \in {"vertices", "edges", "reverse_vertices", "reverse_edges",
              "vertices_c", "edges_c", "src_list", "dst_list", "stream"} :
      g[m] # NULL /\ ~heap[g[m]].live =>
        CASE m \in {"reverse_vertices", "reverse_edges"} -> past.oriented
          [] m = "dst_list" -> past.lostList
          [] OTHER -> FALSE

\* The arcs of the graph that was loaded.
LoadedArcs ==
  UNION {{<<v, u>> : u \in ToSet(Row(v, past.loaded.vertices, past.loaded.edges))} : v \in V}

(***************************************************************************)
(* The incoming rows (in_neigh, graph.cc:607) are the transposed rows of   *)
(* the current graph as long as this is the graph that was loaded, also    *)
(* after sparsifications that dropped nothing and after swaps that brought *)
(* it back.  No reduction rebuilds the incoming rows, so nothing is said   *)
(* of a graph that has lost an arc; nor is it where orientation has freed  *)
(* the arrays or color_sparsify has worked in the row pointers that an     *)
(* undirected graph shares with them.                                      *)
(***************************************************************************)
ReverseExact ==
  ~past.oriented /\ ~past.inPlace /\ status = "ok" /\ Arcs = LoadedArcs =>
    \A v \in V :
      Row(v, Array(g.reverse_vertices), Array(g.reverse_edges)) =
        Ascending({u \in V : <<u, v>> \in Arcs})

(***************************************************************************)
(* A row of either CSR fits a buffer of a VertexSet, which has the         *)
(* MAX_DEGREE of the constructor (with use_dag, that of the DAG's rows).   *)
(* No sparsifier updates max_degree; it stays an upper bound, unless       *)
(* swap_graph_mode brings back arrays from before an orientation, which    *)
(* has lowered it.                                                         *)
(***************************************************************************)
RowsFit ==
  /\ \A m \in {"vertices", "vertices_c"}, v \in V :
       g[m] # NULL => Array(g[m])[v + 1] - Array(g[m])[v] <= g.MAX_DEGREE
  /\ ~(past.oriented /\ g.vertices_c # NULL) =>
       \A v \in V : get_degree(v) <= g.max_degree

-----------------------------------------------------------------------------
\* round_robin loses its last chunk when that is full and the queues get equal
\* numbers of chunks.
Lost ==
  IF job.method = "round_robin" /\ rest = 0 /\ last_size = 0
  THEN nnz - job.stride .. nnz - 1 ELSE {}

Given == phase = "done" /\ status = "ok"

(***************************************************************************)
(* Every task of the list is handed to exactly one queue, each queue has   *)
(* its tasks in the order of the list, no write was past a queue's array,  *)
(* and the lengths that are returned cover written cells only: for every   *)
(* method, every order of the parallel iterations and every list that the  *)
(* graph may hold.  An exception: vertex_chunking takes the lengths from   *)
(* sizes, which also counts the lists that reinit_edgelist has replaced,   *)
(* and does not count a list of init_simple_edgelist.                      *)
(***************************************************************************)
TasksOnce ==
  Given /\ (job.method = "vertex_chunking" => past.counted) =>
    LET cells == {c \in Q \X UNION {DOMAIN queues[q] : q \in Q} :
                    c[2] \in DOMAIN queues[c[1]] /\ queues[c[1]][c[2]] # Unset}
        task(c) == queues[c[1]][c[2]]
    IN  /\ {task(c) : c \in cells} = (0 .. nnz - 1) \ Lost
        /\ \A c, d \in cells : task(c) = task(d) => c = d
        /\ \A c, d \in cells : c[1] = d[1] /\ c[2] < d[2] => task(c) < task(d)
        /\ \A q \in Q : DOMAIN queues[q] = 0 .. lens[q] - 1
        /\ IF job.method = "vertex_chunking"
           THEN SumOver(lens, Q) = past.sized
           ELSE \A q \in Q : \A k \in DOMAIN queues[q] : queues[q][k] # Unset

(***************************************************************************)
(* least_first balances: two queues differ by no more work than the        *)
(* largest of the chunks that are counted (the last one is not).           *)
(***************************************************************************)
Balanced ==
  phase \in {"more", "done"} /\ status = "ok" /\ job.method = "least_first" =>
    LET largest == Max({Work(c * job.stride, job.stride) :
                            c \in 0 .. (nnz - 1) \div job.stride - 1})
    IN  \A a, b \in Q : scores[a] - scores[b] <= largest

-----------------------------------------------------------------------------
\* Row k of arrays, under the ids of idx_map.
Mapped(s, k) ==
  [j \in 1 .. s.csr.vertices[k] - s.csr.vertices[k - 1] |->
     s.idx_map[s.csr.edges[s.csr.vertices[k - 1] + j - 1] + 1]]

(***************************************************************************)
(* The ranges of edgecut_induced_partition1D cover every vertex once.  A   *)
(* subgraph has whole rows for the vertices of its range, which are its    *)
(* local_begin .. local_end - 1, and for the others the arcs that stay     *)
(* inside; it has nothing of the subgraphs before it.                      *)
(***************************************************************************)
EdgeCutExact ==
  stage = "cut" =>
    /\ \A v \in V : Cardinality({i \in 1 .. num_subgraphs :
                                   v \in Own(i - 1, num_subgraphs)}) = 1
    /\ \A i \in 1 .. num_subgraphs :
         LET s == subgraphs[i]
             own == Own(i - 1, num_subgraphs)
             members == own \cup UNION {ToSet(N(v)) : v \in own}
         IN  /\ s.idx_map = Ascending(members)
             /\ {s.idx_map[k + 1] : k \in s.local_begin .. s.local_end - 1} = own
             /\ \A k \in DOMAIN s.idx_map :
                  Mapped(s, k) = Kept(N(s.idx_map[k]), members)

\* The vertices that have an arc into segment i.
Tails(i) == {v \in V : Into(v, i) # <<>>}

(***************************************************************************)
(* Every arc is in the segment of its head, once and in the order of the   *)
(* graph, and idx_map maps the segment's rows to the arcs' tails.  (The    *)
(* row pointers of the segments are not what Graph::N needs; nothing is    *)
(* said of them.)                                                          *)
(***************************************************************************)
SegmentsExact ==
  stage = "segmented" =>
    \A i \in 1 .. num_subgraphs :
      LET s == subgraphs[i]
      IN  /\ s.idx_map = Ascending(Tails(i - 1))
          /\ s.edges = FlattenSeq([k \in DOMAIN s.idx_map |-> Into(s.idx_map[k], i - 1)])

-----------------------------------------------------------------------------
\* Why status says that something went wrong.
StatusExplained ==
  CASE status = "overrun" -> ~Symmetric(Arcs)
    [] status = "unset" -> past.sym_break /\ ~Symmetric(past.arcs)
    [] status = "null" -> g.stream # NULL
    [] status = "past_end" -> g.stream # NULL /\ Wanted = {}
    [] status \in {"freed", "double_free"} -> past.oriented /\ past.lostList
    [] status = "sizes" -> past.sized = 0
    [] status = "assert" -> nnz <= MinTasks \/ job.n * job.stride >= nnz
    [] status = "uninitialized" -> g.vertices_c = NULL
    [] status = "division" -> num_subgraphs > g.n_vertices
    [] status = "out_of_bounds" -> g.n_vertices % num_subgraphs # 0
    [] OTHER -> TRUE

\* A segment that has all of its rows.
StrayExplained ==
  stage = "stray" =>
    \E i \in 1 .. num_subgraphs :
      Tails(i - 1) # {} /\ subgraphs[i].idx_map = Ascending(Tails(i - 1))

(***************************************************************************)
(* What goes wrong does so for the reason stated: a list that overruns its *)
(* arrays or leaves cells unset was made with sym_break from a graph that  *)
(* is not symmetric; a missing list was replaced by a stream, and so was   *)
(* an empty one that is read past its end; a list whose array is freed, or *)
(* freed twice, was made before orientation; sizes is missing while no     *)
(* task has been counted in it; swap_graph_mode fails without a second     *)
(* CSR; segments fail when they do not divide the vertices; a store past a *)
(* segment's row pointers is that of the segment's last row.               *)
(***************************************************************************)
FaultsExplained == StatusExplained /\ StrayExplained
=============================================================================

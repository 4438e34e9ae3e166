---------------------------- MODULE GraphObject ----------------------------
(***************************************************************************)
(* The Graph class (sansa/src/common/graph.cc, include/graph.h) as an      *)
(* owner of arrays: which block of memory each pointer refers to, who      *)
(* frees it, and what the lists made from the CSR arrays hold after the    *)
(* arrays have been replaced.                                              *)
(*                                                                         *)
(* A method is one step here; CSRBuild and InPlaceSparsify have the loops  *)
(* of the reductions.                                                      *)
(***************************************************************************)
EXTENDS CSRInputs, FiniteSets

CONSTANTS
  Inputs,     \* the files: [csr |-> arrays, directed |-> BOOLEAN]
  MaxColors,  \* the largest c
  MaxCalls    \* bound on the number of calls after the constructor

ASSUME MaxColorsAssumption == MaxColors \in Nat
ASSUME MaxCallsAssumption == MaxCalls \in Nat

VARIABLES
  heap,   \* the blocks allocated so far: [live |-> BOOLEAN, data |-> array]
  g,      \* the members of the object; a pointer is an index of heap
  status, \* "ok", "destroyed", or how the program went wrong
  calls,  \* number of calls so far
  past    \* history: the arrays that were loaded, the arcs and the order of the
          \* last list, the tasks counted in sizes and whether those of this
          \* list are, which hazards have occurred

gvars == <<heap, g, status, calls, past>>

NULL == 0
Unset == -1   \* a cell that nothing has written

Block(array) == [live |-> TRUE, data |-> array]
Fresh(k) == Len(heap) + k
Array(p) == heap[p].data

\* Row v of a pair of arrays; N(v) is that of the current ones.
Row(v, vertices, edges) ==
  [k \in 1 .. vertices[v + 1] - vertices[v] |-> edges[vertices[v] + k - 1]]
N(v) == Row(v, Array(g.vertices), Array(g.edges))
V == 0 .. g.n_vertices - 1
get_degree(v) == Array(g.vertices)[v + 1] - Array(g.vertices)[v]

\* The members of a set of numbers in ascending order.
Ascending(S) ==
  [i \in 1 .. Cardinality(S) |-> CHOOSE x \in S : Cardinality({y \in S : y < x}) = i - 1]

\* The members of a list that are in K, in the order of the list.
Kept(s, K) ==
  LET at == Ascending({i \in DOMAIN s : s[i] \in K}) IN [j \in DOMAIN at |-> s[at[j]]]

\* The CSR arrays of the arcs <<v, u>> of the current graph that are in keep.
Filtered(keep) ==
  CSR([i \in 1 .. g.n_vertices |-> Kept(N(i - 1), {u \in V : <<i - 1, u>> \in keep})])

\* Arrays with n rows of ascending, different vertices, m in all.  The edge
\* array may have more cells than that.
IsCSR(n, vertices, edges, m) ==
  /\ m \in Nat /\ vertices \in [0 .. n -> 0 .. m]
  /\ vertices[0] = 0 /\ vertices[n] = m
  /\ \A v \in 0 .. n - 1 :
       /\ vertices[v] <= vertices[v + 1]
       /\ \A e \in vertices[v] .. vertices[v + 1] - 1 :
            /\ edges[e] \in (0 .. n - 1) \ {v}
            /\ \A d \in vertices[v] .. e - 1 : edges[d] < edges[e]

(***************************************************************************)
(* What the methods take for granted of a file: there is a vertex, the     *)
(* row pointers ascend from the first edge to behind the last one, a row   *)
(* lists other vertices in the order of their ids, and in an undirected    *)
(* graph the row of v lists the vertices that list v.                      *)
(***************************************************************************)
IsFile(f) ==
  LET nv == Cardinality(DOMAIN f.csr.vertices) - 1
      row(v) == Row(v, f.csr.vertices, f.csr.edges)
  IN  /\ f.directed \in BOOLEAN /\ nv \in Nat \ {0}
      /\ IsCSR(nv, f.csr.vertices, f.csr.edges, f.csr.n_edges)
      /\ ~f.directed => \A v \in 0 .. nv - 1 :
           row(v) = Ascending({u \in 0 .. nv - 1 : v \in ToSet(row(u))})

ASSUME InputsAssumption == \A f \in Inputs : IsFile(f)

MaxRow(nv, vertices) == Max({vertices[v + 1] - vertices[v] : v \in 0 .. nv - 1})

-----------------------------------------------------------------------------
\* Fault: the reverse arrays are those of the outgoing arcs.
build_reverse_graph_Forward(csr) == csr

(***************************************************************************)
(* The constructor, without use_dag.  A directed graph gets arrays of its  *)
(* own for the incoming arcs (need_reverse); in an undirected one they are *)
(* the same arrays.                                                        *)
(***************************************************************************)
build_reverse_graph(csr) ==
  LET nv == Cardinality(DOMAIN csr.vertices) - 1
      into(u) == {v \in 0 .. nv - 1 : u \in ToSet(Row(v, csr.vertices, csr.edges))}
  IN  CSR([i \in 1 .. nv |-> Ascending(into(i - 1))])

Init ==
  \E f \in Inputs :
    LET nv == Cardinality(DOMAIN f.csr.vertices) - 1
        rev == build_reverse_graph(f.csr)
        deg == MaxRow(nv, f.csr.vertices)
    IN  /\ heap = <<Block(f.csr.vertices), Block(f.csr.edges)>>
                  \o IF f.directed
                     THEN <<Block(rev.vertices), Block(rev.edges)>> ELSE <<>>
        /\ g = [n_vertices |-> nv, n_edges |-> f.csr.n_edges,
                vertices |-> 1, edges |-> 2,
                reverse_vertices |-> IF f.directed THEN 3 ELSE 1,
                reverse_edges |-> IF f.directed THEN 4 ELSE 2,
                vertices_c |-> NULL, edges_c |-> NULL, n_edges_c |-> 0,
                src_list |-> NULL, dst_list |-> NULL, stream |-> NULL,
                nnz |-> 0, sizes |-> <<>>, max_degree |-> deg,
                MAX_DEGREE |-> Max({deg, 1})]
        /\ status = "ok" /\ calls = 0
        /\ past = [loaded |-> f.csr,
                   arcs |-> {}, sym_break |-> FALSE, ascend |-> FALSE,
                   sized |-> 0, counted |-> FALSE, oriented |-> FALSE, inPlace |-> FALSE,
                   lostList |-> FALSE]

Called == status = "ok" /\ calls < MaxCalls /\ calls' = calls + 1

Arcs == UNION {{<<v, u>> : u \in ToSet(N(v))} : v \in V}
Symmetric(A) == \A a \in A : <<a[2], a[1]>> \in A

-----------------------------------------------------------------------------
(* The reductions.                                                         *)

\* The pairs in the order of the DAG: by degree, ties by vertex id.
Before ==
  {a \in V \X V :
     \/ get_degree(a[2]) > get_degree(a[1])
     \/ get_degree(a[2]) = get_degree(a[1]) /\ a[2] > a[1]}

Freed(S) ==
  [p \in DOMAIN heap |-> IF p \in S THEN [heap[p] EXCEPT !.live = FALSE]
                                    ELSE heap[p]]

\* Fault: the degrees are counted without the rule for ties.
new_max_degree_NoTies ==
  LET higher == {a \in V \X V : get_degree(a[2]) > get_degree(a[1])}
  IN  MaxRow(g.n_vertices, Filtered(higher).vertices)

new_max_degree == MaxRow(g.n_vertices, Filtered(Before).vertices)

\* Fault: the arrays that are freed are the ones of the second CSR, too.
Orient_FreesAll(buffers) ==
  /\ Called
  /\ LET new == Filtered(Before) IN
       /\ heap' = Freed({g.vertices, g.edges, g.vertices_c, g.edges_c})
                  \o <<Block(new.vertices), Block(new.edges)>>
       /\ g' = [g EXCEPT !.vertices = Fresh(1), !.edges = Fresh(2),
                         !.n_edges = new.n_edges, !.max_degree = new_max_degree,
                         !.MAX_DEGREE = buffers]
  /\ past' = [past EXCEPT !.oriented = TRUE,
                          !.lostList = @ \/ g.dst_list = g.edges]
  /\ UNCHANGED status

\* The new arrays are published and the old ones freed, whatever else points
\* to them; buffers is the MAX_DEGREE from then on.
Orient(buffers) ==
  /\ Called
  /\ LET new == Filtered(Before) IN
       /\ heap' = Freed({g.vertices, g.edges})
                  \o <<Block(new.vertices), Block(new.edges)>>
       /\ g' = [g EXCEPT !.vertices = Fresh(1), !.edges = Fresh(2),
                         !.n_edges = new.n_edges, !.max_degree = new_max_degree,
                         !.MAX_DEGREE = buffers]
  /\ past' = [past EXCEPT !.oriented = TRUE,
                          !.lostList = @ \/ g.dst_list = g.edges]
  /\ UNCHANGED status

orientation == Orient(g.MAX_DEGREE)

\* The constructor with use_dag, which wants an undirected graph: it orients
\* before it sets MAX_DEGREE, so that the buffers fit the rows of the DAG only.
use_dag ==
  /\ calls = 0 /\ g.vertices_c = NULL /\ g.reverse_vertices = g.vertices
  /\ Orient(Max({new_max_degree, 1}))

Monochrome(colors) ==
  Filtered({a \in V \X V : colors[a[1]] = colors[a[2]]})

\* color_sparsify_fast(c): new arrays; the old ones are not freed.
color_sparsify_fast(c) ==
  /\ Called
  /\ \E colors \in [V -> 0 .. c - 1] :
       LET new == Monochrome(colors) IN
         /\ heap' = heap \o <<Block(new.vertices), Block(new.edges)>>
         /\ g' = [g EXCEPT !.vertices = Fresh(1), !.edges = Fresh(2),
                           !.n_edges = new.n_edges]
  /\ UNCHANGED <<status, past>>

\* color_sparsify_fast_d(c): the same, published as the second CSR.
color_sparsify_fast_d(c) ==
  /\ Called
  /\ \E colors \in [V -> 0 .. c - 1] :
       LET new == Monochrome(colors) IN
         /\ heap' = heap \o <<Block(new.vertices), Block(new.edges)>>
         /\ g' = [g EXCEPT !.vertices_c = Fresh(1), !.edges_c = Fresh(2),
                           !.n_edges_c = new.n_edges]
  /\ UNCHANGED <<status, past>>

\* The two CSRs change places.  Before a second one is made its pointers are
\* uninitialized, and so would be those of the graph.
swap_graph_mode ==
  /\ Called
  /\ IF g.vertices_c = NULL THEN status' = "uninitialized" /\ UNCHANGED g
     ELSE /\ g' = [g EXCEPT !.vertices = g.vertices_c, !.vertices_c = g.vertices,
                            !.edges = g.edges_c, !.edges_c = g.edges,
                            !.n_edges = g.n_edges_c, !.n_edges_c = g.n_edges]
          /\ UNCHANGED status
  /\ UNCHANGED <<heap, past>>

\* Fault: the kept arcs are moved down in the old edge array.
color_sparsify_Compacts(c) ==
  /\ Called
  /\ \E colors \in [V -> 0 .. c - 1] :
       LET new == Monochrome(colors)
           moved == [i \in DOMAIN Array(g.edges) |->
                       IF i < new.n_edges THEN new.edges[i]
                                          ELSE Array(g.edges)[i]]
       IN  /\ heap' = [heap EXCEPT ![g.vertices].data = new.vertices,
                                   ![g.edges].data = moved]
           /\ g' = [g EXCEPT !.n_edges = new.n_edges]
  /\ past' = [past EXCEPT !.inPlace = TRUE]
  /\ UNCHANGED status

\* color_sparsify(c): a new edge array with room for all the old arcs, and the
\* old row pointers shifted in place.
color_sparsify(c) ==
  /\ Called
  /\ \E colors \in [V -> 0 .. c - 1] :
       LET new == Monochrome(colors)
           new_edges == [i \in 0 .. g.n_edges - 1 |->
                           IF i < new.n_edges THEN new.edges[i] ELSE Unset]
       IN  /\ heap' = [heap EXCEPT ![g.vertices].data = new.vertices]
                      \o <<Block(new_edges)>>
           /\ g' = [g EXCEPT !.edges = Fresh(1), !.n_edges = new.n_edges]
  /\ past' = [past EXCEPT !.inPlace = @ \/ g.vertices = g.reverse_vertices]
  /\ UNCHANGED status

-----------------------------------------------------------------------------
(* The lists made from the CSR arrays.                                     *)

\* The arcs that the loops over the rows visit, row by row.
Listed(rows) ==
  FlattenSeq([i \in 1 .. g.n_vertices |->
                [k \in DOMAIN rows[i - 1] |-> <<i - 1, rows[i - 1][k]>>]])

\* An array of n cells of which the first are filled.
Filled(n, list, side) ==
  [i \in 0 .. n - 1 |-> IF i < Len(list) THEN list[i + 1][side] ELSE Unset]

Remembered(sym_break, ascend) ==
  [past EXCEPT !.arcs = Arcs, !.sym_break = sym_break, !.ascend = ascend,
               !.counted = FALSE, !.lostList = FALSE]

\* Two arrays, or none when the guard on nnz finds an earlier list or stream.
init_simple_edgelist ==
  /\ Called
  /\ IF g.nnz # 0 THEN UNCHANGED <<heap, g, past>>
     ELSE LET list == Listed([v \in V |-> N(v)]) IN
            /\ heap' = heap \o <<Block(Filled(g.n_edges, list, 1)),
                                 Block(Filled(g.n_edges, list, 2))>>
            /\ g' = [g EXCEPT !.nnz = g.n_edges,
                              !.src_list = Fresh(1), !.dst_list = Fresh(2)]
            /\ past' = Remembered(FALSE, FALSE)
  /\ UNCHANGED status

\* The stream, an array of pairs, shares nnz with the lists.
create_edge_stream ==
  /\ Called
  /\ IF g.nnz # 0 THEN UNCHANGED <<heap, g>>
     ELSE LET list == Listed([v \in V |-> N(v)]) IN
            /\ heap' = Append(heap, Block([i \in 0 .. 2 * g.n_edges - 1 |->
                                             list[i \div 2 + 1][(i % 2) + 1]]))
            /\ g' = [g EXCEPT !.nnz = g.n_edges, !.stream = Fresh(1)]
  /\ UNCHANGED <<status, past>>

\* The prefix of row v before the first neighbour above v: the loop breaks.
UpTo(v) ==
  LET stop == {k \in DOMAIN N(v) : N(v)[k] > v}
  IN  IF stop = {} THEN N(v)
      ELSE SubSeq(N(v), 1, (CHOOSE k \in stop : \A j \in stop : k <= j) - 1)

\* Fault: the descending order does not stop at v.
Tasks_NoBreak(v, sym_break, ascend) ==
  CASE ~sym_break -> N(v)
    [] sym_break /\ ascend -> Kept(N(v), {u \in V : u > v})
    [] OTHER -> N(v)

\* The neighbours of v that init_edgelist lists.
Tasks(v, sym_break, ascend) ==
  CASE ~sym_break -> N(v)
    [] sym_break /\ ascend -> Kept(N(v), {u \in V : u > v})
    [] OTHER -> UpTo(v)

(***************************************************************************)
(* init_edgelist, where the guard on nnz has let it pass (so has           *)
(* reinit_edgelist, which clears nnz).  With sym_break there is room for   *)
(* half of the arcs; without, dst_list is the edge array itself.  sizes is *)
(* resized, not cleared.                                                   *)
(***************************************************************************)
MakeList(sym_break, ascend) ==
  LET list == Listed([v \in V |-> Tasks(v, sym_break, ascend)])
      nnz == IF sym_break THEN g.n_edges \div 2 ELSE g.n_edges
      old == IF g.sizes = <<>> THEN [v \in V |-> 0] ELSE g.sizes
  IN  IF Len(list) > nnz
      THEN status' = "overrun" /\ UNCHANGED <<heap, g, past>>
      ELSE /\ heap' = heap \o <<Block(Filled(nnz, list, 1))>>
                      \o IF sym_break THEN <<Block(Filled(nnz, list, 2))>> ELSE <<>>
           /\ g' = [g EXCEPT !.nnz = nnz, !.src_list = Fresh(1),
                             !.dst_list = IF sym_break THEN Fresh(2) ELSE g.edges,
                             !.sizes = [v \in V |->
                                old[v] + Len(Tasks(v, sym_break, ascend))]]
           /\ past' = [Remembered(sym_break, ascend) EXCEPT
                         !.sized = past.sized + Len(list), !.counted = TRUE]
           /\ UNCHANGED status

init_edgelist(sym_break, ascend) ==
  /\ Called
  /\ IF g.nnz # 0 THEN UNCHANGED <<heap, g, status, past>>
     ELSE MakeList(sym_break, ascend)

reinit_edgelist(sym_break, ascend) == Called /\ MakeList(sym_break, ascend)

\* ~Graph(): dst_list is freed unless it is the edge array of now.
destroy ==
  /\ Called
  /\ LET freed == {g.edges, g.vertices}
                  \cup ({g.src_list, g.dst_list} \ {NULL})
     IN  /\ status' = IF \E p \in freed : ~heap[p].live
                     THEN "double_free" ELSE "destroyed"
         /\ heap' = Freed(freed)
  /\ UNCHANGED <<g, past>>

GraphStep ==
  \/ use_dag \/ orientation \/ swap_graph_mode
  \/ \E c \in 1 .. MaxColors :
       color_sparsify_fast(c) \/ color_sparsify_fast_d(c) \/ color_sparsify(c)
  \/ init_simple_edgelist \/ create_edge_stream
  \/ \E s, a \in BOOLEAN : init_edgelist(s, a) \/ reinit_edgelist(s, a)
  \/ destroy
=============================================================================

-------------------------- MODULE GraphPartition ---------------------------
(***************************************************************************)
(* PartitionedGraph (sansa/src/common/graph_partition.cc): the graph is    *)
(* divided into num_subgraphs graphs,                                      *)
(*                                                                         *)
(*   edgecut_induced_partition1D  by ranges of vertices, each with its     *)
(*                                neighbours and the arcs among them;      *)
(*   csr_segmenting               by ranges of the arcs' heads.            *)
(***************************************************************************)
EXTENDS GraphObject

CONSTANT MaxSubgraphs   \* bound on the number of subgraphs

ASSUME SubgraphsAssumption == MaxSubgraphs \in Nat

VARIABLES
  stage,          \* "idle", "mark", "segment", or how the method ended: "cut",
                  \* "segmented", "failed", "stray"
  num_subgraphs,
  cur,            \* the subgraph, or the vertex, that the outer loop is at
  vertex_masks,   \* the vertices marked 1
  unmarked,       \* the iterations of the parallel loop still to run
  subgraphs       \* the subgraphs made so far, with their idx_map

pvars == <<stage, num_subgraphs, cur, vertex_masks, unmarked, subgraphs>>

PartitionInit ==
  /\ stage = "idle" /\ num_subgraphs = 0 /\ cur = 0
  /\ vertex_masks = {} /\ unmarked = {} /\ subgraphs = <<>>

Least(a, b) == IF a < b THEN a ELSE b

-----------------------------------------------------------------------------
(* edgecut_induced_partition1D                                             *)

\* The vertices of a range: rounded up.
subgraph_size(n) ==
  g.n_vertices \div n + IF g.n_vertices % n # 0 THEN 1 ELSE 0

begin_vid(i, n) == subgraph_size(n) * i
end_vid(i, n) == Least(begin_vid(i, n) + subgraph_size(n), g.n_vertices)
Own(i, n) == begin_vid(i, n) .. end_vid(i, n) - 1

\* PartitionedGraph(g, n) and the method; the constructor asserts n > 1.
edgecut_induced_partition1D(n) ==
  /\ stage = "idle" /\ status = "ok"
  /\ stage' = "mark" /\ num_subgraphs' = n /\ cur' = 0
  /\ unmarked' = Own(0, n)
  /\ UNCHANGED <<gvars, vertex_masks, subgraphs>>

\* One iteration of the parallel loop; all iterations write the same 1.
Mark(v) ==
  /\ stage = "mark" /\ v \in unmarked
  /\ vertex_masks' = vertex_masks \cup {v} \cup ToSet(N(v))
  /\ unmarked' = unmarked \ {v}
  /\ UNCHANGED <<gvars, stage, num_subgraphs, cur, subgraphs>>

\* The subgraph induced by the marked vertices, under new ids in their order.
generate_induced_subgraph(i) ==
  LET idx_map == Ascending(vertex_masks)
      new_id(v) == CHOOSE k \in DOMAIN idx_map : idx_map[k] = v
      marked(v) == Kept(N(v), vertex_masks)
      row(k) == [j \in DOMAIN marked(idx_map[k]) |-> new_id(marked(idx_map[k])[j]) - 1]
      \* the entry of v, or the 0 that resize has put there
      local(v, off) == IF v \in vertex_masks THEN new_id(v) - 1 + off ELSE 0
  IN  [idx_map |-> idx_map,
       csr |-> CSR([k \in DOMAIN idx_map |-> row(k)]),
       local_begin |-> local(begin_vid(i, num_subgraphs), 0),
       local_end |-> local(end_vid(i, num_subgraphs) - 1, 1)]

\* Fault: the masks are not cleared for the next subgraph.
BuildSubgraph_KeepsMasks ==
  /\ stage = "mark" /\ unmarked = {}
  /\ subgraphs' = Append(subgraphs, generate_induced_subgraph(cur))
  /\ cur' = cur + 1
  /\ unmarked' = IF cur' < num_subgraphs THEN Own(cur', num_subgraphs) ELSE {}
  /\ stage' = IF cur' < num_subgraphs THEN "mark" ELSE "cut"
  /\ UNCHANGED <<gvars, num_subgraphs, vertex_masks>>

\* The rest of the outer loop's body: ids, the subgraph, cleared masks.
BuildSubgraph ==
  /\ stage = "mark" /\ unmarked = {}
  /\ subgraphs' = Append(subgraphs, generate_induced_subgraph(cur))
  /\ vertex_masks' = {} /\ cur' = cur + 1
  /\ unmarked' = IF cur' < num_subgraphs THEN Own(cur', num_subgraphs) ELSE {}
  /\ stage' = IF cur' < num_subgraphs THEN "mark" ELSE "cut"
  /\ UNCHANGED <<gvars, num_subgraphs>>

-----------------------------------------------------------------------------
(* csr_segmenting                                                          *)

Heads(v) == ToSet(N(v))

\* The number of a head's segment; here the range is rounded down.
bcol(u) == u \div (g.n_vertices \div num_subgraphs)

Into(v, i) == Kept(N(v), {u \in Heads(v) : bcol(u) = i})

\* The first pass counts the vertices and arcs of every segment, for which it
\* divides by the range and writes at the segment's number; allocateFrom makes
\* one row pointer more than the segment has rows.
csr_segmenting(n) ==
  /\ stage = "idle" /\ status = "ok"
  /\ num_subgraphs' = n /\ cur' = 0
  /\ LET size == g.n_vertices \div n
         heads == UNION {Heads(v) : v \in V}
         rows(i) == Cardinality({v \in V : \E u \in Heads(v) : u \div size = i})
     IN  CASE heads # {} /\ size = 0 ->
                status' = "division" /\ stage' = "failed" /\ UNCHANGED subgraphs
           [] size > 0 /\ (\E u \in heads : u \div size >= n) ->
                status' = "out_of_bounds" /\ stage' = "failed" /\ UNCHANGED subgraphs
           [] OTHER ->
                /\ subgraphs' = [i \in 1 .. n |->
                     [idx_map |-> <<>>, edges |-> <<>>, vertices |->
                        [x \in 0 .. rows(i - 1) |-> IF x = 0 THEN 0 ELSE Unset]]]
                /\ stage' = "segment" /\ UNCHANGED status
  /\ UNCHANGED <<heap, g, calls, past, vertex_masks, unmarked>>

fixEndEdge(vertices, vid, row_end) ==
  [x \in DOMAIN vertices |-> IF x = vid + 1 THEN row_end ELSE vertices[x]]

\* The second pass calls fixEndEdge(++index, end), which stores at index + 1:
\* for the last row of a segment that is past the array.
Strays ==
  \E i \in 1 .. num_subgraphs :
    Into(cur, i - 1) # <<>>
      /\ Len(subgraphs[i].idx_map) + 2 \notin DOMAIN subgraphs[i].vertices

\* Fault: a segment lists every vertex, also one without arcs into it.
SegmentVertex_All ==
  /\ stage = "segment" /\ cur < g.n_vertices
  /\ subgraphs' = [i \in 1 .. num_subgraphs |->
       LET s == subgraphs[i]
           edges == s.edges \o Into(cur, i - 1)
           index == Len(s.idx_map) + 1
       IN  [idx_map |-> Append(s.idx_map, cur), edges |-> edges,
            vertices |-> fixEndEdge(s.vertices, index, Len(edges))]]
  /\ cur' = cur + 1
  /\ UNCHANGED <<gvars, stage, num_subgraphs, vertex_masks, unmarked>>

\* The second pass at vertex v: its arcs go to their segments, and in every
\* segment that got one it becomes the next row.  A store past an array goes
\* unnoticed, or it ends the program.
SegmentVertex ==
  /\ stage = "segment" /\ cur < g.n_vertices
  /\ subgraphs' = [i \in 1 .. num_subgraphs |->
       LET s == subgraphs[i]
           edges == s.edges \o Into(cur, i - 1)
           index == Len(s.idx_map) + 1
       IN  IF Into(cur, i - 1) = <<>> THEN s
           ELSE [idx_map |-> Append(s.idx_map, cur), edges |-> edges,
                 vertices |-> fixEndEdge(s.vertices, index, Len(edges))]]
  /\ cur' = cur + 1
  /\ \/ UNCHANGED stage
     \/ Strays /\ stage' = "stray"
  /\ UNCHANGED <<gvars, num_subgraphs, vertex_masks, unmarked>>

SegmentEnd ==
  /\ stage = "segment" /\ cur = g.n_vertices /\ stage' = "segmented"
  /\ UNCHANGED <<gvars, num_subgraphs, cur, vertex_masks, unmarked, subgraphs>>

PartitionStep ==
  \/ BuildSubgraph \/ \E v \in unmarked : Mark(v)
  \/ SegmentVertex \/ SegmentEnd

Partition ==
  \E n \in 2 .. MaxSubgraphs : edgecut_induced_partition1D(n) \/ csr_segmenting(n)
=============================================================================

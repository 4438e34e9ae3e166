-------------------------- MODULE InPlaceSparsify --------------------------
(***************************************************************************)
(* The sequential sparsifiers of Graph (sansa/src/common/graph.cc):        *)
(*                                                                         *)
(*   color_sparsify, color_sparsify_old  keep the arcs inside the colours; *)
(*   edge_sparsify                       keeps each arc with a chance of p. *)
(*                                                                         *)
(* One pass over the rows copies the kept arcs to a new array and shifts   *)
(* the row pointers in place, while later rows still have to be read       *)
(* through them.  vertices[v] is lowered by what had been removed before   *)
(* row v (last_offset), after the row has been read.                       *)
(***************************************************************************)
EXTENDS Integers, FiniteSets

CONSTANTS
  NV,        \* n_vertices
  Graphs,    \* the graphs that the object may hold, in CSR
  MaxColors, \* the largest c
  MaxPasses  \* bound on the number of calls

ASSUME NVAssumption == NV \in Nat \ {0}

V == 0 .. NV - 1

\* Row pointers that cover the edge array in order, ascending rows, both arcs
\* of every edge.
ASSUME GraphsAssumption ==
  \A g \in Graphs :
    /\ g.n_edges \in Nat
    /\ g.vertices \in [0 .. NV -> 0 .. g.n_edges]
    /\ g.edges \in [0 .. g.n_edges - 1 -> V]
    /\ g.vertices[0] = 0 /\ g.vertices[NV] = g.n_edges
    /\ \A v \in V : g.vertices[v] <= g.vertices[v + 1]
ASSUME MaxColorsAssumption == MaxColors \in Nat
ASSUME MaxPassesAssumption == MaxPasses \in Nat

VARIABLES
  vertices, edges, n_edges,  \* the CSR arrays
  phase,      \* "idle", "row" (before a row), "scan" (inside it)
  op,         \* "color" or "edge", the method that is running
  colors,
  row,        \* the loop variable v
  e, end,     \* the inner loop
  count, edges_removed, last_offset,
  new_edges,
  old,        \* the graph when the method was called (history)
  kept,       \* the positions in it that were kept (history)
  passes      \* number of calls so far

graph == <<vertices, edges, n_edges>>
locals == <<colors, row, e, end, count, edges_removed, last_offset, new_edges>>
history == <<old, kept, passes>>
vars == <<graph, phase, op, locals, history>>

\* Content of a cell of new_edges that nothing wrote yet.
Unset == -1

Load(g) == vertices = g.vertices /\ edges = g.edges /\ n_edges = g.n_edges

Init ==
  /\ \E g \in Graphs : Load(g) /\ old = g
  /\ phase = "idle" /\ op = "color" /\ colors = [v \in V |-> 0]
  /\ row = 0 /\ e = 0 /\ end = 0
  /\ count = 0 /\ edges_removed = 0 /\ last_offset = 0
  /\ new_edges = [i \in {} |-> Unset]
  /\ kept = {} /\ passes = 0

\* The start of the loop over the rows.
Enter ==
  /\ phase = "idle" /\ passes < MaxPasses
  /\ phase' = "row" /\ row' = 0
  /\ new_edges' = [i \in 0 .. n_edges - 1 |-> Unset]
  /\ count' = 0 /\ edges_removed' = 0 /\ last_offset' = 0
  /\ old' = [vertices |-> vertices, edges |-> edges, n_edges |-> n_edges]
  /\ kept' = {} /\ passes' = passes + 1
  /\ UNCHANGED <<graph, e, end>>

\* color_sparsify(c) and color_sparsify_old(c): the vertices are coloured.
color_sparsify(c) ==
  /\ Enter /\ op' = "color"
  /\ colors' \in [V -> 0 .. c - 1]

edge_sparsify ==
  /\ Enter /\ op' = "edge"
  /\ UNCHANGED colors

\* begin = edge_begin(v), end = edge_end(v)
StartRow ==
  /\ phase = "row" /\ row < NV
  /\ phase' = "scan" /\ e' = vertices[row] /\ end' = vertices[row + 1]
  /\ UNCHANGED <<graph, op, colors, row, count, edges_removed, last_offset,
                 new_edges, history>>

KeepArc ==
  /\ new_edges' = [new_edges EXCEPT ![count] = edges[e]]
  /\ count' = count + 1 /\ kept' = kept \cup {e}
  /\ UNCHANGED edges_removed

RemoveArc ==
  /\ edges_removed' = edges_removed + 1
  /\ UNCHANGED <<new_edges, count, kept>>

\* Fault: only the colour of the row's vertex decides, that of the neighbour does
\* not.
Outcomes_OneSided == IF colors[row] = 0 THEN {TRUE} ELSE {FALSE}

\* The outcomes of the test on the arc at e: its colours, or a coin.
Outcomes ==
  IF op = "color" THEN {colors[row] = colors[edges[e]]} ELSE BOOLEAN

\* One iteration of the inner loop.
Scan ==
  /\ phase = "scan" /\ e < end
  /\ \E keep \in Outcomes : IF keep THEN KeepArc ELSE RemoveArc
  /\ e' = e + 1
  /\ UNCHANGED <<graph, phase, op, colors, row, end, last_offset, old, passes>>

\* Fault: the next row pointer is lowered, before its row has been read.
EndRow_ShiftsNext ==
  /\ phase = "scan" /\ e = end
  /\ vertices' = [vertices EXCEPT ![row + 1] = @ - edges_removed]
  /\ last_offset' = edges_removed
  /\ phase' = "row" /\ row' = row + 1
  /\ UNCHANGED <<edges, n_edges, op, colors, e, end, count, edges_removed,
                 new_edges, history>>

\* vertices[v] -= last_offset; last_offset = edges_removed
EndRow ==
  /\ phase = "scan" /\ e = end
  /\ vertices' = [vertices EXCEPT ![row] = @ - last_offset]
  /\ last_offset' = edges_removed
  /\ phase' = "row" /\ row' = row + 1
  /\ UNCHANGED <<edges, n_edges, op, colors, e, end, count, edges_removed,
                 new_edges, history>>

\* Fault: the last row pointer is forgotten.
Publish_NoLast ==
  /\ phase = "row" /\ row = NV
  /\ UNCHANGED vertices
  /\ n_edges' = count
  /\ edges' = [i \in 0 .. count - 1 |-> new_edges[i]]
  /\ phase' = "idle"
  /\ UNCHANGED <<op, locals, history>>

\* vertices[n_vertices] -= edges_removed; n_edges = count; edges = new_edges.
\* Only the first n_edges cells of the array are ever used.
Publish ==
  /\ phase = "row" /\ row = NV
  /\ vertices' = [vertices EXCEPT ![NV] = @ - edges_removed]
  /\ n_edges' = count
  /\ edges' = [i \in 0 .. count - 1 |-> new_edges[i]]
  /\ phase' = "idle"
  /\ UNCHANGED <<op, locals, history>>

CallerStep == edge_sparsify \/ \E c \in 1 .. MaxColors : color_sparsify(c)

LoopStep == StartRow \/ Scan \/ EndRow \/ Publish

Next == CallerStep \/ LoopStep

\* The method runs to its end; no call is forced to happen.
Spec == Init /\ [][Next]_vars /\ WF_vars(LoopStep)

-----------------------------------------------------------------------------
\* How many of the arcs before position p of the old graph were kept.
Rank(p) == Cardinality({i \in kept : i < p})

(***************************************************************************)
(* Every row is read through the pointers the method was called with,      *)
(* although the pointers of the rows before it have been lowered already:  *)
(* a row is scanned from its old begin to its old end, and no write of     *)
(* new_edges is past the kept arcs.                                        *)
(***************************************************************************)
ReadsOldRows ==
  phase # "idle" =>
    /\ phase = "scan" =>
         end = old.vertices[row + 1] /\ e \in old.vertices[row] .. end
    /\ \A u \in row .. NV : vertices[u] = old.vertices[u]
    /\ \A u \in 0 .. row - 1 : vertices[u] = Rank(old.vertices[u])
    /\ count = Cardinality(kept)

(***************************************************************************)
(* When the method returns, the arrays are the CSR of the kept arcs, in    *)
(* their old order.                                                        *)
(***************************************************************************)
Compacted ==
  phase = "idle" /\ passes > 0 =>
    /\ n_edges = Cardinality(kept)
    /\ \A u \in 0 .. NV : vertices[u] = Rank(old.vertices[u])
    /\ \A i \in kept : edges[Rank(i)] = old.edges[i]

Adj(g) ==
  [v \in V |-> {g.edges[i] : i \in g.vertices[v] .. g.vertices[v + 1] - 1}]

\* The graph as the callers see it: the old one until the method returns.
Seen ==
  IF phase = "idle"
  THEN Adj([vertices |-> vertices, edges |-> edges, n_edges |-> n_edges])
  ELSE Adj(old)

Reduction == INSTANCE GraphReduction WITH adj <- Seen, dag <- FALSE

(***************************************************************************)
(* The colour methods make the same promise as color_sparsify_fast: they   *)
(* drop only arcs between vertices they separate for good.                 *)
(***************************************************************************)
ColorSeparates == [][op = "color" => Reduction!Next]_Seen

=============================================================================

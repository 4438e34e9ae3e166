--------------------------- MODULE GraphReduction ---------------------------
(***************************************************************************)
(* What orientation and color_sparsify_fast of Graph promise their         *)
(* callers, without arrays, loops or threads: each replaces the graph by a *)
(* subgraph in one step.                                                   *)
(***************************************************************************)
EXTENDS Integers

CONSTANT V   \* the vertices

VARIABLES
  adj,   \* the neighbours of each vertex
  dag    \* the graph has been oriented

vars == <<adj, dag>>

LinearOrders ==
  {R \in SUBSET (V \X V) :
     /\ \A v \in V : <<v, v>> \notin R
     /\ \A u, v, w \in V : <<u, v>> \in R /\ <<v, w>> \in R => <<u, w>> \in R
     /\ \A v, w \in V : v # w => <<v, w>> \in R \/ <<w, v>> \in R}

\* A set of vertices that no arc of the graph g enters or leaves.
Separated(g, S) == \A v \in V : \A w \in g[v] : v \in S <=> w \in S

Init == adj \in [V -> SUBSET V] /\ dag = FALSE

\* Orientation keeps the arcs that go up in some linear order of the vertices.
Orient ==
  /\ dag' = TRUE
  /\ \E R \in LinearOrders : adj' = [v \in V |-> {w \in adj[v] : <<v, w>> \in R}]

(***************************************************************************)
(* Sparsification cuts the graph into classes (the colours): it drops an   *)
(* arc only where its ends have been separated for good, so a subgraph     *)
(* whose vertices are still connected has kept all its arcs.               *)
(***************************************************************************)
Sparsify ==
  /\ \A v \in V :
       /\ adj'[v] \subseteq adj[v]
       /\ \A w \in adj[v] \ adj'[v] :
            \E S \in SUBSET V : v \in S /\ w \notin S /\ Separated(adj', S)
  /\ DOMAIN adj' = V
  /\ UNCHANGED dag

Next == Orient \/ Sparsify

Spec == Init /\ [][Next]_vars
=============================================================================

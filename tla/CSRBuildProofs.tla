--------------------------- MODULE CSRBuildProofs ---------------------------
(***************************************************************************)
(* Proofs about orientation and color_sparsify_fast (CSRBuild), for every  *)
(* number of vertices, every input graph and every interleaving of the     *)
(* iterations of their parallel loops.                                     *)
(***************************************************************************)
EXTENDS CSRBuild, PrefixSumProofs

(***************************************************************************)
(* The inductive invariant.  The counters of both loops are the number of  *)
(* kept edges passed so far, so the fill loop writes into the range the    *)
(* counting loop reserved.                                                 *)
(***************************************************************************)
CallInv ==
  /\ phase # "idle" => op \in {"dag", "color"}
  /\ phase = "degrees" => op = "dag" /\ new_degrees = [v \in V |-> 0]

AtInv ==
  phase \in {"count", "fill"} =>
    \A v \in V : /\ at[v] \in vertices[v] .. vertices[v + 1]
                 /\ v \in finished => at[v] = vertices[v + 1]

CountInv ==
  phase = "count" => \A v \in V : new_degrees[v] = Cardinality(Kept(v, at[v]))

\* What the fill loop has done for vertex v.
FillRow(v) ==
  /\ new_degrees[v] = Cardinality(Kept(v, vertices[v + 1]))
  /\ offset[v] = Cardinality(Kept(v, at[v]))
  /\ \A e \in Kept(v, at[v]) :
       new_edges[new_vertices[v] + Cardinality(Kept(v, e))] = edges[e]
  /\ \A k \in 0 .. offset[v] - 1 :
       \E e \in Kept(v, at[v]) : Cardinality(Kept(v, e)) = k
  /\ \A k \in offset[v] .. new_degrees[v] - 1 :
       new_edges[new_vertices[v] + k] = Unset

FillInv ==
  phase = "fill" =>
    /\ new_vertices = prefix_sum(new_degrees, n_edges, NV)
    /\ \A v \in V : FillRow(v)

IInv == TypeOK /\ WellFormed /\ CallInv /\ AtInv /\ CountInv /\ FillInv

-----------------------------------------------------------------------------
(***************************************************************************)
(* Facts about the set of kept edges: it is finite, starts empty, and one  *)
(* iteration of either inner loop adds the edge it keeps.                  *)
(***************************************************************************)
LEMMA VFacts ==
  /\ NV \in Nat /\ NV > 0
  /\ \A v \in V : v \in 0 .. NV /\ v + 1 \in 0 .. NV /\ v \in Nat
BY NVAssumption DEF V

\* A row of the published arrays lies inside the edge array and holds vertices.
LEMMA RowFacts ==
  ASSUME TypeOK, NEW v \in V
  PROVE  /\ vertices[v] \in Nat /\ vertices[v + 1] \in Nat /\ n_edges \in Nat
         /\ vertices[v + 1] <= n_edges
         /\ \A e \in Row(v) : e \in 0 .. n_edges - 1 /\ edges[e] \in V
<1>1. /\ n_edges \in Nat
      /\ vertices \in [0 .. NV -> 0 .. n_edges]
      /\ edges \in [0 .. n_edges - 1 -> V]
  BY DEF TypeOK, GraphType
<1>2. v \in 0 .. NV /\ v + 1 \in 0 .. NV
  BY VFacts
<1>3. vertices[v] \in 0 .. n_edges /\ vertices[v + 1] \in 0 .. n_edges
  BY <1>1, <1>2
<1>4. \A e \in Row(v) : e \in 0 .. n_edges - 1
  BY <1>1, <1>3 DEF Row
<1> QED
  BY <1>1, <1>3, <1>4

\* A row keeps a finite number of edges, no more than the graph has.
LEMMA KeptFinite ==
  ASSUME TypeOK, NEW v \in V, NEW p \in Nat, p <= vertices[v + 1]
  PROVE  /\ IsFiniteSet(Kept(v, p))
         /\ Cardinality(Kept(v, p)) \in 0 .. n_edges
<1>1. Kept(v, p) \in SUBSET (0 .. n_edges - 1)
  BY RowFacts DEF Kept
<1>2. 0 \in Int /\ n_edges - 1 \in Int /\ n_edges \in Nat
  BY DEF TypeOK, GraphType
<1>3. /\ IsFiniteSet(0 .. n_edges - 1)
      /\ Cardinality(0 .. n_edges - 1) = IF 0 > n_edges - 1 THEN 0 ELSE n_edges - 1 - 0 + 1
  BY <1>2, FS_Interval, Zenon
<1>4. Cardinality(0 .. n_edges - 1) = n_edges
  BY <1>2, <1>3
<1>5. IsFiniteSet(Kept(v, p)) /\ Cardinality(Kept(v, p)) <= Cardinality(0 .. n_edges - 1)
  BY <1>1, <1>3, FS_Subset, Zenon
<1>6. Cardinality(Kept(v, p)) \in Nat
  BY <1>5, FS_CardinalityType
<1> QED
  BY <1>2, <1>4, <1>5, <1>6

\* At the start of its row an iteration has kept nothing.
LEMMA KeptEmpty ==
  ASSUME TypeOK, NEW v \in V
  PROVE  Kept(v, vertices[v]) = {} /\ Cardinality(Kept(v, vertices[v])) = 0
<1>1. Kept(v, vertices[v]) = {}
  BY RowFacts DEF Kept
<1> QED
  BY <1>1, FS_EmptySet

\* Passing an edge of the row adds it to the kept ones exactly if it is kept.
LEMMA KeptStep ==
  ASSUME TypeOK, NEW v \in V, NEW p \in Row(v)
  PROVE  /\ Kept(v, p + 1) = IF Keep(v, edges[p]) THEN Kept(v, p) \cup {p} ELSE Kept(v, p)
         /\ Cardinality(Kept(v, p + 1)) =
              IF Keep(v, edges[p]) THEN Cardinality(Kept(v, p)) + 1 ELSE Cardinality(Kept(v, p))
<1>1. p \in Nat /\ vertices[v] <= p /\ p + 1 <= vertices[v + 1] /\ p <= vertices[v + 1]
  BY RowFacts DEF Row
<1>2. Kept(v, p + 1) = IF Keep(v, edges[p]) THEN Kept(v, p) \cup {p} ELSE Kept(v, p)
  BY <1>1, RowFacts DEF Kept
<1>3. p \notin Kept(v, p)
  BY <1>1, RowFacts DEF Kept
<1>4. IsFiniteSet(Kept(v, p))
  BY <1>1, KeptFinite
<1>5. Cardinality(Kept(v, p) \cup {p}) = Cardinality(Kept(v, p)) + 1
  BY <1>3, <1>4, FS_AddElement
<1> QED
  BY <1>2, <1>5

\* An iteration that is further along its row has kept no fewer edges.
LEMMA KeptMono ==
  ASSUME TypeOK, NEW v \in V, NEW p \in Nat, NEW q \in Nat, p <= q, q <= vertices[v + 1]
  PROVE  Cardinality(Kept(v, p)) <= Cardinality(Kept(v, q))
<1>1. Kept(v, p) \in SUBSET Kept(v, q)
  BY RowFacts DEF Kept
<1>2. IsFiniteSet(Kept(v, q))
  BY RowFacts, KeptFinite
<1> QED
  BY <1>1, <1>2, FS_Subset

\* The rank of a kept edge is smaller than the number of kept edges after it.
LEMMA KeptRank ==
  ASSUME TypeOK, NEW v \in V, NEW q \in Nat, q <= vertices[v + 1], NEW e \in Kept(v, q)
  PROVE  /\ e \in Row(v) /\ e < q /\ e \in Nat /\ Keep(v, edges[e])
         /\ Cardinality(Kept(v, e)) \in Nat
         /\ Cardinality(Kept(v, e)) < Cardinality(Kept(v, q))
<1>1. e \in Row(v) /\ e < q /\ e \in Nat /\ Keep(v, edges[e]) /\ e <= vertices[v + 1]
  BY RowFacts DEF Kept, Row
<1>2. Cardinality(Kept(v, e + 1)) = Cardinality(Kept(v, e)) + 1
  BY <1>1, KeptStep
<1>3. Cardinality(Kept(v, e + 1)) <= Cardinality(Kept(v, q))
  BY <1>1, KeptMono
<1>4. Cardinality(Kept(v, e)) \in Nat /\ Cardinality(Kept(v, q)) \in Nat
  BY <1>1, KeptFinite, RowFacts
<1> QED
  BY <1>1, <1>2, <1>3, <1>4
-----------------------------------------------------------------------------
(***************************************************************************)
(* The ranges of new_edges that the scan reserves, while the fill loop     *)
(* runs: inside the array and disjoint.                                    *)
(***************************************************************************)
LEMMA RangeFacts ==
  ASSUME IInv, phase = "fill"
  PROVE  /\ new_degrees \in [0 .. NV - 1 -> 0 .. n_edges]
         /\ new_vertices \in [0 .. NV -> Nat]
         /\ new_vertices[0] = 0
         /\ \A v \in V : new_vertices[v + 1] = new_vertices[v] + new_degrees[v]
         /\ \A v \in V : \A w \in 0 .. NV :
              v < w => new_vertices[v] + new_degrees[v] <= new_vertices[w]
         /\ new_edges \in [0 .. new_vertices[NV] - 1 -> V \cup {Unset}]
<1>1. TypeOK /\ NV \in Nat /\ n_edges \in Nat /\ V = 0 .. NV - 1
  BY NVAssumption DEF IInv, TypeOK, GraphType, V
<1>2. ASSUME NEW v \in V PROVE new_degrees[v] \in 0 .. n_edges
  <2>1. vertices[v + 1] \in Nat /\ vertices[v + 1] <= vertices[v + 1]
    BY <1>1, RowFacts
  <2>2. Cardinality(Kept(v, vertices[v + 1])) \in 0 .. n_edges
    BY <1>1, <2>1, KeptFinite
  <2> QED
    BY <2>2 DEF IInv, FillInv, FillRow
<1>3. new_degrees \in [0 .. NV - 1 -> 0 .. n_edges]
  BY <1>1, <1>2 DEF TypeOK, NewType
<1>4. new_vertices = prefix_sum(new_degrees, n_edges, NV)
  BY DEF IInv, FillInv
<1>5. /\ new_vertices[0] = 0
      /\ \A v \in 0 .. NV - 1 : new_vertices[v + 1] = new_vertices[v] + new_degrees[v]
      /\ \A v \in 0 .. NV - 1 : \A w \in 0 .. NV :
           v < w => new_vertices[v] + new_degrees[v] <= new_vertices[w]
  BY <1>1, <1>3, <1>4, PrefixSumFacts
<1> QED
  BY <1>1, <1>3, <1>5 DEF TypeOK, NewType

\* The cell of the k-th kept edge of v is inside new_edges and is no cell of
\* another vertex.
LEMMA CellFacts ==
  ASSUME IInv, phase = "fill", NEW v \in V, NEW k \in 0 .. new_degrees[v] - 1
  PROVE  /\ new_vertices[v] + k \in 0 .. new_vertices[NV] - 1
         /\ \A w \in V \ {v} : \A l \in 0 .. new_degrees[w] - 1 :
              new_vertices[w] + l # new_vertices[v] + k
<1>1. /\ v \in 0 .. NV /\ v < NV /\ NV \in 0 .. NV /\ v \in Nat /\ NV \in Nat
      /\ \A w \in V : w \in 0 .. NV /\ w \in Nat
  BY VFacts DEF V
<1>2. \A w \in V : new_vertices[w] \in Nat /\ new_degrees[w] \in Nat
  BY <1>1, RangeFacts DEF V
<1>3. new_vertices[NV] \in Nat /\ new_vertices[v] + new_degrees[v] <= new_vertices[NV]
  BY <1>1, RangeFacts
<1>4. new_vertices[v] + k \in 0 .. new_vertices[NV] - 1
  BY <1>2, <1>3
<1>5. ASSUME NEW w \in V \ {v}, NEW l \in 0 .. new_degrees[w] - 1
      PROVE  new_vertices[w] + l # new_vertices[v] + k
  <2>1. CASE v < w
    <3>1. new_vertices[v] + new_degrees[v] <= new_vertices[w]
      BY <1>1, <2>1, RangeFacts
    <3> QED
      BY <1>2, <3>1
  <2>2. CASE w < v
    <3>1. new_vertices[w] + new_degrees[w] <= new_vertices[v]
      BY <1>1, <2>2, RangeFacts
    <3> QED
      BY <1>2, <3>1
  <2> QED
    BY <1>1, <2>1, <2>2
<1> QED
  BY <1>4, <1>5

\* The next cell of an iteration of the fill loop that is about to write.
LEMMA TargetFacts ==
  ASSUME IInv, NEW v \in V, AboutToWrite(v)
  PROVE  /\ at[v] \in Row(v)
         /\ offset[v] \in 0 .. new_degrees[v] - 1
         /\ Cardinality(Kept(v, at[v] + 1)) = offset[v] + 1
         /\ Kept(v, at[v] + 1) = Kept(v, at[v]) \cup {at[v]}
<1>1. /\ TypeOK /\ phase = "fill" /\ at[v] \in vertices[v] .. vertices[v + 1]
      /\ at[v] < vertices[v + 1] /\ Keep(v, edges[at[v]])
  BY DEF IInv, AboutToWrite, AtInv
<1>2. at[v] \in Row(v) /\ at[v] \in Nat /\ at[v] + 1 \in Nat /\ at[v] + 1 <= vertices[v + 1]
  BY <1>1, RowFacts DEF Row
<1>3. /\ offset[v] = Cardinality(Kept(v, at[v]))
      /\ new_degrees[v] = Cardinality(Kept(v, vertices[v + 1]))
  BY <1>1 DEF IInv, FillInv, FillRow
<1>4. /\ Cardinality(Kept(v, at[v] + 1)) = offset[v] + 1
      /\ Kept(v, at[v] + 1) = Kept(v, at[v]) \cup {at[v]}
  BY <1>1, <1>2, <1>3, KeptStep
<1>5. Cardinality(Kept(v, at[v] + 1)) <= new_degrees[v]
  BY <1>1, <1>2, <1>3, KeptMono, RowFacts
<1>6. offset[v] \in Nat /\ new_degrees[v] \in Nat
  BY <1>1 DEF TypeOK, LoopType, NewType
<1> QED
  BY <1>2, <1>4, <1>5, <1>6

\* The graph that the constructor has loaded satisfies the invariant.
LEMMA InitIInv == Init => IInv
<1> SUFFICES ASSUME Init PROVE IInv
  OBVIOUS
<1>1. PICK g \in Graphs : Load(g)
  BY DEF Init
<1>2. /\ n_edges \in Nat
      /\ vertices \in [0 .. NV -> 0 .. n_edges]
      /\ edges \in [0 .. n_edges - 1 -> V]
  BY <1>1, GraphsAssumption DEF Load
<1>3. WellFormed
  BY <1>1, GraphsAssumption DEF Load, WellFormed, Row
<1>4. new_edges \in [0 .. new_vertices[NV] - 1 -> V \cup {Unset}]
  <2>1. new_vertices[NV] = 0
    BY NVAssumption DEF Init
  <2>2. 0 .. new_vertices[NV] - 1 = {}
    BY <2>1
  <2> QED
    BY <2>2 DEF Init
<1>5. TypeOK
  <2>1. GraphType
    BY <1>2 DEF GraphType
  <2>2. CallType
    BY MaxPassesAssumption DEF Init, CallType
  <2>3. LoopType
    BY DEF Init, LoopType
  <2>4. NewType
    BY <1>4 DEF Init, NewType
  <2> QED
    BY <2>1, <2>2, <2>3, <2>4 DEF TypeOK
<1> QED
  BY <1>3, <1>5 DEF Init, IInv, CallInv, AtInv, CountInv, FillInv
-----------------------------------------------------------------------------
\* Steps that leave the graph and the call alone keep the meaning of Kept.
LEMMA KeptUnchanged ==
  ASSUME UNCHANGED graph, op' = op, tag' = tag
  PROVE  \A v, p : Kept(v, p)' = Kept(v, p)
BY DEF Kept, Keep, graph

\* The entry of a parallel for over the neighbour lists.
LEMMA EnterLoopFacts ==
  ASSUME TypeOK, WellFormed, UNCHANGED graph, EnterLoop
  PROVE  /\ LoopType' /\ AtInv'
         /\ \A v \in V : /\ at'[v] = vertices[v] /\ offset'[v] = 0
                         /\ Kept(v, at[v])' = {}
                         /\ Cardinality(Kept(v, at[v])') = 0
<1>1. \A v \in V : vertices[v] \in Nat /\ vertices[v + 1] \in Nat /\ vertices[v] <= vertices[v + 1]
  BY RowFacts DEF WellFormed
<1>2. \A v \in V : at'[v] = vertices[v] /\ offset'[v] = 0
  BY DEF EnterLoop
<1>3. LoopType'
  BY <1>1 DEF EnterLoop, LoopType
<1>4. AtInv'
  BY <1>1, <1>2 DEF AtInv, EnterLoop, graph
<1>5. \A v \in V : Kept(v, at[v])' = {}
  BY <1>1, <1>2 DEF Kept, graph
<1> QED
  BY <1>2, <1>3, <1>4, <1>5, FS_EmptySet

\* The entry of orientation and color_sparsify_fast keeps the invariant.
LEMMA CallerPreserves == IInv /\ CallerStep => IInv'
<1> SUFFICES ASSUME IInv, CallerStep PROVE IInv'
  OBVIOUS
<1>1. CASE orientation
  <2>1. GraphType' /\ WellFormed'
    BY <1>1 DEF orientation, IInv, TypeOK, GraphType, WellFormed, Row, graph
  <2>2. CallType'
    BY <1>1, MaxPassesAssumption DEF orientation, IInv, TypeOK, CallType
  <2>3. LoopType' /\ NewType'
    BY <1>1 DEF orientation, IInv, TypeOK, LoopType, NewType
  <2>4. CallInv'
    BY <1>1, MaxPassesAssumption DEF orientation, IInv, TypeOK, CallType, CallInv
  <2> QED
    BY <1>1, <2>1, <2>2, <2>3, <2>4 DEF orientation, IInv, TypeOK, AtInv, CountInv, FillInv
<1>2. CASE \E c \in 1 .. MaxColors : color_sparsify_fast(c)
  <2>1. PICK c \in 1 .. MaxColors : color_sparsify_fast(c)
    BY <1>2
  <2>2. GraphType' /\ WellFormed'
    BY <2>1 DEF color_sparsify_fast, IInv, TypeOK, GraphType, WellFormed, Row, graph
  <2>3. CallType'
    <3>1. tag' \in [V -> Nat]
      BY <2>1, MaxColorsAssumption DEF color_sparsify_fast
    <3> QED
      BY <2>1, <3>1, MaxPassesAssumption DEF color_sparsify_fast, IInv, TypeOK, CallType
  <2>4. UNCHANGED graph /\ EnterLoop /\ TypeOK /\ WellFormed
    BY <2>1 DEF color_sparsify_fast, IInv
  <2>5. LoopType' /\ AtInv'
    BY <2>4, EnterLoopFacts
  <2>6. NewType'
    BY <2>1 DEF color_sparsify_fast, IInv, TypeOK, NewType
  <2>7. CallInv'
    BY <2>1, MaxPassesAssumption DEF color_sparsify_fast, IInv, TypeOK, CallType, CallInv
  <2>8. CountInv'
    <3>1. \A v \in V : new_degrees'[v] = 0
      BY <2>1 DEF color_sparsify_fast
    <3> QED
      BY <2>4, <3>1, EnterLoopFacts DEF CountInv
  <2>9. FillInv'
    BY <2>1 DEF color_sparsify_fast, FillInv
  <2> QED
    BY <2>2, <2>3, <2>5, <2>6, <2>7, <2>8, <2>9 DEF IInv, TypeOK
<1> QED
  BY <1>1, <1>2 DEF CallerStep

\* An iteration of the degree loop keeps the invariant.
LEMMA DegreeStepPreserves == ASSUME IInv, NEW v \in V, DegreeStep(v) PROVE IInv'
<1>1. GraphType' /\ WellFormed'
  BY DEF DegreeStep, IInv, TypeOK, GraphType, WellFormed, Row, graph
<1>2. vertices[v + 1] - vertices[v] \in Nat
  BY RowFacts DEF IInv, WellFormed
<1>3. CallType'
  BY <1>2 DEF DegreeStep, IInv, TypeOK, CallType
<1>4. LoopType' /\ NewType'
  BY DEF DegreeStep, IInv, TypeOK, LoopType, NewType, new
<1>5. CallInv'
  BY DEF DegreeStep, IInv, CallInv, new
<1> QED
  BY <1>1, <1>3, <1>4, <1>5 DEF DegreeStep, IInv, TypeOK, AtInv, CountInv, FillInv

\* Leaving the degree loop and entering the counting loop keeps the invariant.
LEMMA DegreeBarrierPreserves == ASSUME IInv, DegreeBarrier PROVE IInv'
<1>1. UNCHANGED graph /\ EnterLoop /\ TypeOK /\ WellFormed
  BY DEF DegreeBarrier, IInv
<1>2. GraphType' /\ WellFormed'
  BY <1>1 DEF TypeOK, GraphType, WellFormed, Row, graph
<1>3. CallType'
  BY DEF DegreeBarrier, IInv, TypeOK, CallType, call
<1>4. NewType'
  BY DEF DegreeBarrier, IInv, TypeOK, NewType, new
<1>5. CallInv'
  BY DEF DegreeBarrier, IInv, CallInv, call, new
<1>6. CountInv'
  <2>1. \A v \in V : new_degrees'[v] = 0
    BY DEF DegreeBarrier, IInv, CallInv, new
  <2> QED
    BY <1>1, <2>1, EnterLoopFacts DEF CountInv
<1>7. FillInv'
  BY DEF DegreeBarrier, FillInv
<1> QED
  BY <1>1, <1>2, <1>3, <1>4, <1>5, <1>6, <1>7, EnterLoopFacts DEF IInv, TypeOK

\* Counting one neighbour keeps the invariant: new_degrees follows the kept edges.
LEMMA CountStepPreserves == ASSUME IInv, NEW v \in V, CountStep(v) PROVE IInv'
<1>1. GraphType' /\ WellFormed'
  BY DEF CountStep, IInv, TypeOK, GraphType, WellFormed, Row, graph
<1>2. CallType' /\ CallInv'
  BY DEF CountStep, IInv, TypeOK, CallType, CallInv, call
<1>3. TypeOK /\ at[v] \in Row(v) /\ at[v] + 1 \in Nat /\ at[v] + 1 <= vertices[v + 1]
  BY RowFacts DEF CountStep, IInv, AtInv, Row
<1>4. LoopType' /\ NewType'
  BY <1>3 DEF CountStep, TypeOK, LoopType, NewType
<1>5. AtInv'
  <2>1. ASSUME NEW w \in V
        PROVE  /\ at'[w] \in vertices'[w] .. vertices'[w + 1]
               /\ w \in finished' => at'[w] = vertices'[w + 1]
    <3>1. /\ at[w] \in vertices[w] .. vertices[w + 1]
          /\ w \in finished => at[w] = vertices[w + 1]
      BY DEF CountStep, IInv, AtInv
    <3>2. vertices' = vertices /\ finished' = finished
      BY DEF CountStep, graph
    <3>3. CASE w = v
      <4>1. at'[v] = at[v] + 1 /\ v \notin finished
        BY <3>1, <3>3, RowFacts DEF CountStep, IInv, TypeOK, LoopType
      <4> QED
        BY <1>3, <3>1, <3>2, <3>3, <4>1, RowFacts
    <3>4. CASE w # v
      <4>1. at'[w] = at[w]
        BY <3>4 DEF CountStep, IInv, TypeOK, LoopType
      <4> QED
        BY <3>1, <3>2, <4>1
    <3> QED
      BY <3>3, <3>4
  <2> QED
    BY <2>1 DEF AtInv
<1>6. CountInv'
  <2>1. \A w, p : Kept(w, p)' = Kept(w, p)
    BY KeptUnchanged DEF CountStep, call
  <2>2. ASSUME NEW w \in V PROVE new_degrees'[w] = Cardinality(Kept(w, at'[w]))
    <3>1. new_degrees[w] = Cardinality(Kept(w, at[w]))
      BY DEF CountStep, IInv, CountInv
    <3>2. CASE w = v
      <4>1. at'[v] = at[v] + 1
        BY <1>3 DEF CountStep, TypeOK, LoopType
      <4>2. new_degrees'[v] =
              IF Keep(v, edges[at[v]]) THEN new_degrees[v] + 1 ELSE new_degrees[v]
        BY <1>3 DEF CountStep, TypeOK, NewType
      <4>3. Cardinality(Kept(v, at[v] + 1)) =
              IF Keep(v, edges[at[v]])
              THEN Cardinality(Kept(v, at[v])) + 1 ELSE Cardinality(Kept(v, at[v]))
        BY <1>3, KeptStep
      <4> QED
        BY <3>1, <3>2, <4>1, <4>2, <4>3
    <3>3. CASE w # v
      <4>1. at'[w] = at[w] /\ new_degrees'[w] = new_degrees[w]
        BY <3>3 DEF CountStep, IInv, TypeOK, LoopType, NewType
      <4> QED
        BY <3>1, <4>1
    <3> QED
      BY <3>2, <3>3
  <2>3. \A w \in V : new_degrees'[w] = Cardinality(Kept(w, at[w])')
    BY <2>1, <2>2 DEF Kept, Keep, CountStep, graph, call
  <2> QED
    BY <2>3 DEF CountInv
<1>7. FillInv'
  BY DEF CountStep, FillInv
<1> QED
  BY <1>1, <1>2, <1>4, <1>5, <1>6, <1>7 DEF IInv, TypeOK

\* The end of an iteration keeps the invariant.
LEMMA LoopEndPreserves == ASSUME IInv, NEW v \in V, LoopEnd(v) PROVE IInv'
<1>1. GraphType' /\ WellFormed'
  BY DEF LoopEnd, IInv, TypeOK, GraphType, WellFormed, Row, graph
<1>2. CallType' /\ CallInv'
  BY DEF LoopEnd, IInv, TypeOK, CallType, CallInv, call, new
<1>3. LoopType' /\ NewType'
  BY DEF LoopEnd, IInv, TypeOK, LoopType, NewType, new
<1>4. AtInv'
  BY DEF LoopEnd, IInv, AtInv, graph
<1>5. \A w, p : Kept(w, p)' = Kept(w, p)
  BY KeptUnchanged DEF LoopEnd, call
<1>6. CountInv'
  BY <1>5 DEF LoopEnd, IInv, CountInv, new
<1>7. FillInv'
  BY <1>5 DEF LoopEnd, IInv, FillInv, FillRow, graph, new
<1> QED
  BY <1>1, <1>2, <1>3, <1>4, <1>6, <1>7 DEF IInv, TypeOK

\* After the barrier the counts are those of the whole rows, so the scan
\* reserves for every vertex what its fill iteration will write.
LEMMA CountBarrierPreserves == ASSUME IInv, CountBarrier PROVE IInv'
<1>1. UNCHANGED graph /\ EnterLoop /\ TypeOK /\ WellFormed /\ op' = op /\ tag' = tag
  BY DEF CountBarrier, IInv, call
<1>2. GraphType' /\ WellFormed'
  BY <1>1 DEF TypeOK, GraphType, WellFormed, Row, graph
<1>3. CallType' /\ CallInv'
  BY DEF CountBarrier, IInv, TypeOK, CallType, CallInv, call
<1>4. LoopType' /\ AtInv'
  BY <1>1, EnterLoopFacts
<1>5. \A v \in V : new_degrees[v] = Cardinality(Kept(v, vertices[v + 1]))
  BY DEF CountBarrier, IInv, AtInv, CountInv
<1>6. \A v \in V : new_degrees[v] \in 0 .. n_edges
  <2> SUFFICES ASSUME NEW v \in V PROVE new_degrees[v] \in 0 .. n_edges
    OBVIOUS
  <2>1. vertices[v + 1] \in Nat /\ vertices[v + 1] <= vertices[v + 1]
    BY <1>1, RowFacts
  <2>2. Cardinality(Kept(v, vertices[v + 1])) \in 0 .. n_edges
    BY <1>1, <2>1, KeptFinite
  <2> QED
    BY <1>5, <2>2
<1>7. new_degrees \in [0 .. NV - 1 -> 0 .. n_edges] /\ NV \in Nat /\ n_edges \in Nat
  BY <1>1, <1>6, NVAssumption DEF TypeOK, GraphType, NewType, V
<1>8. /\ new_vertices' \in [0 .. NV -> Nat]
      /\ new_vertices'[0] = 0
      /\ \A v \in V : \A w \in 0 .. NV :
           v < w => new_vertices'[v] + new_degrees[v] <= new_vertices'[w]
  BY <1>7, PrefixSumFacts DEF CountBarrier, V
<1>9. NewType'
  <2>1. new_degrees' = new_degrees
    BY DEF CountBarrier
  <2>2. new_edges' \in [0 .. new_vertices'[NV] - 1 -> V \cup {Unset}]
    BY DEF CountBarrier
  <2> QED
    BY <1>1, <1>8, <2>1, <2>2 DEF TypeOK, NewType
<1>10. CountInv'
  BY DEF CountBarrier, CountInv
<1>11. FillInv'
  <2>1. \A v, p : Kept(v, p)' = Kept(v, p)
    BY <1>1, KeptUnchanged
  <2>2. /\ new_vertices' = prefix_sum(new_degrees', n_edges', NV)
        /\ new_degrees' = new_degrees /\ vertices' = vertices
    BY DEF CountBarrier, graph
  <2>3. ASSUME NEW v \in V, NEW k \in 0 .. new_degrees[v] - 1
        PROVE  new_edges'[new_vertices'[v] + k] = Unset
    <3>1. v \in 0 .. NV /\ v < NV /\ NV \in 0 .. NV /\ NV \in Nat
      BY VFacts DEF V
    <3>2. /\ new_vertices'[v] \in Nat /\ new_vertices'[NV] \in Nat /\ new_degrees[v] \in Nat
          /\ new_vertices'[v] + new_degrees[v] <= new_vertices'[NV]
      BY <1>6, <1>7, <1>8, <3>1
    <3>3. new_vertices'[v] + k \in 0 .. new_vertices'[NV] - 1
      BY <3>2
    <3> QED
      BY <3>3 DEF CountBarrier
  <2>4. ASSUME NEW v \in V
        PROVE  /\ new_degrees'[v] = Cardinality(Kept(v, vertices[v + 1])')
               /\ offset'[v] = 0
               /\ Kept(v, at[v])' = {} /\ Cardinality(Kept(v, at[v])') = 0
    <3>1. Kept(v, vertices[v + 1])' = Kept(v, vertices[v + 1])
      BY <2>2, <1>1 DEF Kept, Keep, graph
    <3> QED
      BY <1>1, <1>5, <2>2, <3>1, EnterLoopFacts
  <2>5. \A v \in V :
         /\ new_degrees'[v] = Cardinality(Kept(v, vertices[v + 1])')
         /\ offset'[v] = Cardinality(Kept(v, at[v])')
         /\ \A e \in Kept(v, at[v])' :
              new_edges'[new_vertices'[v] + Cardinality(Kept(v, e)')] = edges'[e]
         /\ \A k \in 0 .. offset'[v] - 1 :
              \E e \in Kept(v, at[v])' : Cardinality(Kept(v, e)') = k
         /\ \A k \in offset'[v] .. new_degrees'[v] - 1 :
              new_edges'[new_vertices'[v] + k] = Unset
    BY <2>2, <2>3, <2>4
  <2> QED
    BY <2>2, <2>5 DEF FillInv, FillRow
<1> QED
  BY <1>2, <1>3, <1>4, <1>9, <1>10, <1>11 DEF IInv, TypeOK

\* Copying one neighbour keeps the invariant: the cell it writes is its own.
LEMMA FillStepPreserves == ASSUME IInv, NEW v \in V, FillStep(v) PROVE IInv'
<1> DEFINE keep == Keep(v, edges[at[v]])
<1>1. GraphType' /\ WellFormed'
  BY DEF FillStep, IInv, TypeOK, GraphType, WellFormed, Row, graph
<1>2. CallType' /\ CallInv'
  BY DEF FillStep, IInv, TypeOK, CallType, CallInv, call
<1>3. /\ TypeOK /\ phase = "fill" /\ phase' = "fill"
      /\ at[v] \in Row(v) /\ at[v] + 1 \in Nat /\ at[v] + 1 <= vertices[v + 1]
      /\ at[v] < vertices[v + 1] /\ at[v] \in Nat
  BY RowFacts DEF FillStep, IInv, AtInv, Row
<1>4. /\ vertices' = vertices /\ edges' = edges /\ n_edges' = n_edges
      /\ new_degrees' = new_degrees /\ new_vertices' = new_vertices /\ finished' = finished
  BY DEF FillStep, graph
<1>5. /\ at' \in [V -> Nat] /\ at'[v] = at[v] + 1
      /\ \A w \in V \ {v} : at'[w] = at[w]
  BY <1>3 DEF FillStep, TypeOK, LoopType
<1>6. /\ offset' \in [V -> Nat]
      /\ offset'[v] = IF keep THEN offset[v] + 1 ELSE offset[v]
      /\ \A w \in V \ {v} : offset'[w] = offset[w]
  BY <1>3 DEF FillStep, TypeOK, LoopType
<1>7. keep => AboutToWrite(v)
  BY <1>3 DEF AboutToWrite
<1>8. \A w \in V : /\ new_vertices[w] \in Nat /\ offset[w] \in Nat /\ new_degrees[w] \in Nat
  BY <1>3, VFacts DEF TypeOK, LoopType, NewType
<1>9. ASSUME keep
      PROVE  /\ Target(v) \in 0 .. new_vertices[NV] - 1
             /\ \A w \in V \ {v} : \A l \in 0 .. new_degrees[w] - 1 :
                  new_vertices[w] + l # Target(v)
  BY <1>3, <1>7, <1>9, TargetFacts, CellFacts DEF Target
<1>10. /\ new_edges' \in [0 .. new_vertices[NV] - 1 -> V \cup {Unset}]
       /\ keep => new_edges'[Target(v)] = edges[at[v]]
       /\ \A x \in 0 .. new_vertices[NV] - 1 :
            (keep => x # Target(v)) => new_edges'[x] = new_edges[x]
  <2>1. new_edges \in [0 .. new_vertices[NV] - 1 -> V \cup {Unset}] /\ edges[at[v]] \in V
    BY <1>3, RowFacts DEF TypeOK, NewType
  <2>2. CASE keep
    <3>1. new_edges' = [new_edges EXCEPT ![Target(v)] = edges[at[v]]]
      BY <2>2 DEF FillStep, Target
    <3> QED
      BY <1>9, <2>1, <2>2, <3>1
  <2>3. CASE ~keep
    BY <2>1, <2>3 DEF FillStep
  <2> QED
    BY <2>2, <2>3
<1>11. LoopType'
  BY <1>3, <1>4, <1>5, <1>6 DEF TypeOK, LoopType
<1>12. NewType'
  BY <1>3, <1>4, <1>10 DEF TypeOK, NewType
<1>13. AtInv'
  <2>1. ASSUME NEW w \in V
        PROVE  /\ at'[w] \in vertices'[w] .. vertices'[w + 1]
               /\ w \in finished' => at'[w] = vertices'[w + 1]
    <3>1. /\ at[w] \in vertices[w] .. vertices[w + 1]
          /\ w \in finished => at[w] = vertices[w + 1]
      BY <1>3 DEF IInv, AtInv
    <3>2. CASE w = v
      <4>1. v \notin finished
        BY <1>3, <3>1, <3>2, RowFacts
      <4> QED
        BY <1>3, <1>4, <1>5, <3>1, <3>2, <4>1, RowFacts
    <3>3. CASE w # v
      BY <1>4, <1>5, <3>1, <3>3
    <3> QED
      BY <3>2, <3>3
  <2> QED
    BY <2>1 DEF AtInv
<1>14. CountInv'
  BY <1>3 DEF CountInv
<1>15. \A w, p : Kept(w, p)' = Kept(w, p)
  BY KeptUnchanged DEF FillStep, call
<1>16. ASSUME NEW w \in V PROVE FillRow(w)'
  <2>1. FillRow(w)
    BY <1>3 DEF IInv, FillInv
  <2>2. Kept(w, vertices[w + 1])' = Kept(w, vertices[w + 1])
    BY <1>4, <1>15 DEF Kept, Keep, FillStep, call
  <2>3. Kept(w, at[w])' = Kept(w, at'[w])
    BY <1>4 DEF Kept, Keep, FillStep, call
  <2>4. CASE w # v
    <3>1. at'[w] = at[w] /\ offset'[w] = offset[w]
      BY <1>5, <1>6, <2>4
    <3>2. \A k \in 0 .. new_degrees[w] - 1 :
            new_edges'[new_vertices[w] + k] = new_edges[new_vertices[w] + k]
      BY <1>3, <1>9, <1>10, <2>4, CellFacts
    <3>3. \A e \in Kept(w, at[w]) : Cardinality(Kept(w, e)) \in 0 .. new_degrees[w] - 1
      <4> SUFFICES ASSUME NEW e \in Kept(w, at[w])
                   PROVE  Cardinality(Kept(w, e)) \in 0 .. new_degrees[w] - 1
        OBVIOUS
      <4>1. at[w] \in Nat /\ at[w] <= vertices[w + 1] /\ vertices[w + 1] \in Nat
        BY <1>3, RowFacts DEF IInv, AtInv
      <4>2. /\ Cardinality(Kept(w, e)) \in Nat
            /\ Cardinality(Kept(w, e)) < Cardinality(Kept(w, at[w]))
        BY <1>3, <4>1, KeptRank
      <4>3. Cardinality(Kept(w, at[w])) <= Cardinality(Kept(w, vertices[w + 1]))
        BY <1>3, <4>1, KeptMono
      <4> QED
        BY <1>8, <2>1, <4>2, <4>3 DEF FillRow
    <3>4. \A k \in offset[w] .. new_degrees[w] - 1 : k \in 0 .. new_degrees[w] - 1
      BY <1>8
    <3> QED
      BY <1>4, <1>15, <2>1, <2>2, <2>3, <3>1, <3>2, <3>3, <3>4 DEF FillRow
  <2>5. CASE w = v /\ keep
    <3>1. /\ offset[v] \in 0 .. new_degrees[v] - 1
          /\ Cardinality(Kept(v, at[v] + 1)) = offset[v] + 1
          /\ Kept(v, at[v] + 1) = Kept(v, at[v]) \cup {at[v]}
      BY <1>7, <2>5, TargetFacts
    <3>2. at'[v] = at[v] + 1 /\ offset'[v] = offset[v] + 1
      BY <1>5, <1>6, <2>5
    <3>3. \A k \in 0 .. new_degrees[v] - 1 : k # offset[v] =>
            new_edges'[new_vertices[v] + k] = new_edges[new_vertices[v] + k]
      BY <1>3, <1>8, <1>10, CellFacts DEF Target
    <3>4. \A e \in Kept(v, at[v]) : /\ Cardinality(Kept(v, e)) \in 0 .. new_degrees[v] - 1
                                    /\ Cardinality(Kept(v, e)) # offset[v]
      <4> SUFFICES ASSUME NEW e \in Kept(v, at[v])
                   PROVE  /\ Cardinality(Kept(v, e)) \in 0 .. new_degrees[v] - 1
                          /\ Cardinality(Kept(v, e)) # offset[v]
        OBVIOUS
      <4>1. /\ Cardinality(Kept(v, e)) \in Nat
            /\ Cardinality(Kept(v, e)) < Cardinality(Kept(v, at[v]))
        <5>1. at[v] <= vertices[v + 1]
          BY <1>3, RowFacts
        <5> QED
          BY <1>3, <5>1, KeptRank
      <4> QED
        BY <1>8, <2>1, <2>5, <3>1, <4>1 DEF FillRow
    <3>5. Cardinality(Kept(v, at[v])) = offset[v]
      BY <2>1, <2>5 DEF FillRow
    <3>6. \A e \in Kept(v, at[v] + 1) :
            new_edges'[new_vertices[v] + Cardinality(Kept(v, e))] = edges[e]
      <4>1. ASSUME NEW e \in Kept(v, at[v])
            PROVE  new_edges'[new_vertices[v] + Cardinality(Kept(v, e))] = edges[e]
        BY <2>1, <2>5, <3>3, <3>4 DEF FillRow
      <4>2. new_edges'[new_vertices[v] + Cardinality(Kept(v, at[v]))] = edges[at[v]]
        BY <1>10, <2>5, <3>5 DEF Target
      <4> QED
        BY <3>1, <4>1, <4>2
    <3>7. \A k \in 0 .. offset[v] :
            \E e \in Kept(v, at[v] + 1) : Cardinality(Kept(v, e)) = k
      <4> SUFFICES ASSUME NEW k \in 0 .. offset[v]
                   PROVE  \E e \in Kept(v, at[v] + 1) : Cardinality(Kept(v, e)) = k
        OBVIOUS
      <4>1. CASE k = offset[v]
        BY <3>1, <3>5, <4>1
      <4>2. CASE k # offset[v]
        <5>1. k \in 0 .. offset[v] - 1
          BY <1>8, <4>2
        <5> QED
          BY <2>1, <2>5, <3>1, <5>1 DEF FillRow
      <4> QED
        BY <4>1, <4>2
    <3>8. \A k \in offset[v] + 1 .. new_degrees[v] - 1 :
            new_edges'[new_vertices[v] + k] = Unset
      <4>1. \A k \in offset[v] + 1 .. new_degrees[v] - 1 :
              /\ k \in 0 .. new_degrees[v] - 1 /\ k # offset[v]
              /\ k \in offset[v] .. new_degrees[v] - 1
        BY <1>8
      <4> QED
        BY <2>1, <2>5, <3>3, <4>1 DEF FillRow
    <3>9. 0 .. offset'[v] - 1 = 0 .. offset[v]
      BY <1>8, <3>2
    <3>10. Kept(v, at[v])' = Kept(v, at[v] + 1)
      BY <2>3, <2>5, <3>2
    <3> QED
      BY <1>4, <1>15, <2>1, <2>2, <2>5, <3>1, <3>2, <3>6, <3>7, <3>8, <3>9, <3>10 DEF FillRow
  <2>6. CASE w = v /\ ~keep
    <3>1. Kept(v, at[v] + 1) = Kept(v, at[v])
      BY <1>3, <2>6, KeptStep
    <3>2. at'[v] = at[v] + 1 /\ offset'[v] = offset[v] /\ new_edges' = new_edges
      BY <1>5, <1>6, <2>6 DEF FillStep
    <3>3. Kept(v, at[v])' = Kept(v, at[v])
      BY <2>3, <2>6, <3>1, <3>2
    <3> QED
      BY <1>4, <1>15, <2>1, <2>2, <2>6, <3>2, <3>3 DEF FillRow
  <2> QED
    BY <2>4, <2>5, <2>6
<1>17. FillInv'
  <2>1. new_vertices' = prefix_sum(new_degrees', n_edges', NV)
    BY <1>3, <1>4 DEF IInv, FillInv
  <2> QED
    BY <1>16, <2>1 DEF FillInv
<1> QED
  BY <1>1, <1>2, <1>11, <1>12, <1>13, <1>14, <1>17 DEF IInv, TypeOK

(***************************************************************************)
(* When the fill loop has ended every cell of a vertex's range holds the   *)
(* kept edge whose rank is the cell's place in the range.                  *)
(***************************************************************************)
LEMMA Filled ==
  ASSUME IInv, phase = "fill", finished = V, NEW v \in V,
         NEW x \in new_vertices[v] .. new_vertices[v + 1] - 1
  PROVE  \E e \in Kept(v, vertices[v + 1]) :
           /\ x = new_vertices[v] + Cardinality(Kept(v, e))
           /\ new_edges[x] = edges[e]
<1>1. at[v] = vertices[v + 1] /\ TypeOK
  BY DEF IInv, AtInv
<1>2. FillRow(v)
  BY DEF IInv, FillInv
<1>3. /\ new_vertices[v] \in Nat /\ new_degrees[v] \in Nat
      /\ new_vertices[v + 1] = new_vertices[v] + new_degrees[v]
  BY <1>1, VFacts, RangeFacts DEF TypeOK, NewType
<1>4. offset[v] = new_degrees[v]
  BY <1>1, <1>2 DEF FillRow
<1>5. x - new_vertices[v] \in 0 .. offset[v] - 1
  BY <1>3, <1>4
<1>6. PICK e \in Kept(v, vertices[v + 1]) : Cardinality(Kept(v, e)) = x - new_vertices[v]
  BY <1>1, <1>2, <1>5 DEF FillRow
<1>7. x = new_vertices[v] + Cardinality(Kept(v, e))
  BY <1>3, <1>6
<1>8. new_edges[new_vertices[v] + Cardinality(Kept(v, e))] = edges[e]
  BY <1>1, <1>2 DEF FillRow
<1> QED
  BY <1>7, <1>8

\* And conversely every kept edge is in the cell of its rank.
LEMMA Stored ==
  ASSUME IInv, phase = "fill", finished = V, NEW v \in V,
         NEW e \in Kept(v, vertices[v + 1])
  PROVE  /\ new_vertices[v] + Cardinality(Kept(v, e)) \in new_vertices[v] .. new_vertices[v + 1] - 1
         /\ new_edges[new_vertices[v] + Cardinality(Kept(v, e))] = edges[e]
<1>1. at[v] = vertices[v + 1] /\ TypeOK
  BY DEF IInv, AtInv
<1>2. FillRow(v)
  BY DEF IInv, FillInv
<1>3. /\ new_vertices[v] \in Nat /\ new_degrees[v] \in Nat
      /\ new_vertices[v + 1] = new_vertices[v] + new_degrees[v]
  BY <1>1, VFacts, RangeFacts DEF TypeOK, NewType
<1>4. /\ Cardinality(Kept(v, e)) \in Nat
      /\ Cardinality(Kept(v, e)) < Cardinality(Kept(v, vertices[v + 1]))
  <2>1. vertices[v + 1] \in Nat /\ vertices[v + 1] <= vertices[v + 1]
    BY <1>1, RowFacts
  <2> QED
    BY <1>1, <2>1, KeptRank
<1>5. Cardinality(Kept(v, vertices[v + 1])) = new_degrees[v]
  BY <1>2 DEF FillRow
<1> QED
  BY <1>1, <1>2, <1>3, <1>4, <1>5 DEF FillRow

\* After the fill loop every cell is written, and the new arrays are a
\* well-formed graph.
LEMMA PublishPreserves == ASSUME IInv, Publish PROVE IInv'
<1>1. /\ TypeOK /\ phase = "fill" /\ finished = V /\ phase' = "idle"
      /\ vertices' = new_vertices /\ edges' = new_edges /\ n_edges' = new_vertices[NV]
      /\ new_degrees' = new_degrees /\ new_vertices' = new_vertices /\ new_edges' = new_edges
      /\ at' = at /\ offset' = offset /\ finished' = finished
      /\ passes' = passes /\ op' = op /\ tag' = tag
      /\ form' = IF op = "dag" THEN "dag" ELSE form
  BY DEF Publish, IInv, loop, new
<1>2. /\ NV \in Nat /\ NV \in 0 .. NV /\ V = 0 .. NV - 1
      /\ \A v \in V : v \in 0 .. NV /\ v + 1 \in 0 .. NV /\ v \in Nat /\ v + 1 \in Nat
  BY VFacts DEF V
<1>3. /\ new_degrees \in [0 .. NV - 1 -> 0 .. n_edges] /\ n_edges \in Nat
      /\ new_vertices \in [0 .. NV -> Nat] /\ new_vertices[0] = 0
      /\ \A v \in V : new_vertices[v + 1] = new_vertices[v] + new_degrees[v]
      /\ \A v \in V : \A w \in 0 .. NV :
           v < w => new_vertices[v] + new_degrees[v] <= new_vertices[w]
      /\ new_edges \in [0 .. new_vertices[NV] - 1 -> V \cup {Unset}]
  BY <1>1, RangeFacts DEF TypeOK, GraphType
<1>4. \A w \in 0 .. NV : new_vertices[w] \in 0 .. new_vertices[NV]
  <2> SUFFICES ASSUME NEW w \in 0 .. NV PROVE new_vertices[w] \in 0 .. new_vertices[NV]
    OBVIOUS
  <2>1. CASE w = NV
    BY <1>2, <1>3, <2>1
  <2>2. CASE w # NV
    <3>1. w \in V /\ w < NV
      BY <1>2, <2>2
    <3>2. new_vertices[w] + new_degrees[w] <= new_vertices[NV] /\ new_degrees[w] \in Nat
      BY <1>2, <1>3, <3>1
    <3> QED
      BY <1>2, <1>3, <3>2
  <2> QED
    BY <2>1, <2>2
<1>5. \A x \in 0 .. new_vertices[NV] - 1 : new_edges[x] \in V
  <2> SUFFICES ASSUME NEW x \in 0 .. new_vertices[NV] - 1 PROVE new_edges[x] \in V
    OBVIOUS
  <2>1. new_vertices = prefix_sum(new_degrees, n_edges, NV)
    BY <1>1 DEF IInv, FillInv
  <2>2. PICK v \in 0 .. NV - 1 : new_vertices[v] <= x /\ x < new_vertices[v] + new_degrees[v]
    BY <1>2, <1>3, <2>1, PrefixSumCover
  <2>3. x \in new_vertices[v] .. new_vertices[v + 1] - 1 /\ v \in V
    BY <1>2, <1>3, <2>2
  <2>4. PICK e \in Kept(v, vertices[v + 1]) : new_edges[x] = edges[e]
    BY <1>1, <2>3, Filled
  <2>5. e \in Row(v)
    BY DEF Kept, Row
  <2> QED
    BY <1>1, <2>3, <2>4, <2>5, RowFacts
<1>6. GraphType'
  <2>1. new_edges \in [0 .. new_vertices[NV] - 1 -> V]
    BY <1>3, <1>5
  <2>2. new_vertices \in [0 .. NV -> 0 .. new_vertices[NV]] /\ new_vertices[NV] \in Nat
    BY <1>2, <1>3, <1>4
  <2> QED
    BY <1>1, <2>1, <2>2 DEF GraphType
<1>7. WellFormed'
  <2>1. vertices'[0] = 0 /\ vertices'[NV] = n_edges'
    BY <1>1, <1>3
  <2>2. ASSUME NEW v \in V PROVE vertices'[v] <= vertices'[v + 1]
    BY <1>1, <1>2, <1>3
  <2>3. ASSUME NEW v \in V, NEW x \in Row(v)', NEW y \in Row(v)', x < y
        PROVE  edges'[x] < edges'[y]
    <3>1. /\ x \in new_vertices[v] .. new_vertices[v + 1] - 1
          /\ y \in new_vertices[v] .. new_vertices[v + 1] - 1
      BY <1>1 DEF Row
    <3>2. PICK e \in Kept(v, vertices[v + 1]) :
            x = new_vertices[v] + Cardinality(Kept(v, e)) /\ new_edges[x] = edges[e]
      BY <1>1, <3>1, Filled
    <3>3. PICK f \in Kept(v, vertices[v + 1]) :
            y = new_vertices[v] + Cardinality(Kept(v, f)) /\ new_edges[y] = edges[f]
      BY <1>1, <3>1, Filled
    <3>4. /\ e \in Row(v) /\ f \in Row(v) /\ e \in Nat /\ f \in Nat
          /\ e <= vertices[v + 1] /\ f <= vertices[v + 1]
      BY <1>1, RowFacts DEF Kept, Row
    <3>5. e < f
      <4>1. CASE f <= e
        <5>1. Cardinality(Kept(v, f)) <= Cardinality(Kept(v, e))
          BY <1>1, <3>4, <4>1, KeptMono
        <5>2. /\ Cardinality(Kept(v, f)) \in Nat /\ Cardinality(Kept(v, e)) \in Nat
              /\ new_vertices[v] \in Nat
          <6>1. Cardinality(Kept(v, f)) \in 0 .. n_edges
            BY <1>1, <3>4, KeptFinite
          <6>2. Cardinality(Kept(v, e)) \in 0 .. n_edges
            BY <1>1, <3>4, KeptFinite
          <6>3. n_edges \in Nat
            BY <1>1, RowFacts
          <6>4. new_vertices[v] \in 0 .. new_vertices[NV] /\ new_vertices[NV] \in Nat
            BY <1>2, <1>3, <1>4
          <6> QED
            BY <6>1, <6>2, <6>3, <6>4
        <5> QED
          BY <2>3, <3>2, <3>3, <5>1, <5>2
      <4> QED
        BY <3>4, <4>1
    <3>6. edges[e] < edges[f]
      BY <3>4, <3>5 DEF IInv, WellFormed
    <3> QED
      BY <1>1, <3>2, <3>3, <3>6
  <2> QED
    BY <2>1, <2>2, <2>3 DEF WellFormed
<1>8. CallType'
  BY <1>1 DEF TypeOK, CallType
<1>9. LoopType' /\ NewType'
  BY <1>1 DEF TypeOK, LoopType, NewType
<1>10. CallInv'
  BY <1>1 DEF IInv, CallInv
<1> QED
  BY <1>1, <1>6, <1>7, <1>8, <1>9, <1>10 DEF IInv, TypeOK, AtInv, CountInv, FillInv

-----------------------------------------------------------------------------
\* Every step of every thread keeps the invariant.
LEMMA NextIInv == IInv /\ [Next]_vars => IInv'
<1> SUFFICES ASSUME IInv, [Next]_vars PROVE IInv'
  OBVIOUS
<1>1. CASE CallerStep
  BY <1>1, CallerPreserves
<1>2. CASE MasterStep
  BY <1>2, DegreeBarrierPreserves, CountBarrierPreserves, PublishPreserves DEF MasterStep
<1>3. ASSUME NEW v \in V, VertexStep(v) PROVE IInv'
  BY <1>3, DegreeStepPreserves, CountStepPreserves, LoopEndPreserves, FillStepPreserves
     DEF VertexStep
<1>4. CASE UNCHANGED vars
  <2>1. /\ UNCHANGED <<vertices, edges, n_edges, phase, op, tag, form, passes>>
        /\ UNCHANGED <<at, offset, finished, new_degrees, new_vertices, new_edges>>
    BY <1>4 DEF vars, graph, call, loop, new
  <2>2. TypeOK' /\ WellFormed'
    BY <2>1 DEF IInv, TypeOK, GraphType, CallType, LoopType, NewType, WellFormed, Row
  <2>3. CallInv' /\ AtInv'
    BY <2>1 DEF IInv, CallInv, AtInv
  <2>4. \A v, p : Kept(v, p)' = Kept(v, p)
    BY <2>1, KeptUnchanged DEF graph
  <2>5. CountInv'
    BY <2>1, <2>4 DEF IInv, CountInv
  <2>6. FillInv'
    BY <2>1, <2>4 DEF IInv, FillInv, FillRow
  <2> QED
    BY <2>2, <2>3, <2>5, <2>6 DEF IInv
<1> QED
  BY <1>1, <1>2, <1>3, <1>4 DEF Next

(***************************************************************************)
(* The invariant holds in every reachable state of the two methods.        *)
(***************************************************************************)
THEOREM BuildInvariant == Spec => []IInv
BY InitIInv, NextIInv, PTL DEF Spec

(***************************************************************************)
(* Type correctness: in particular the published edge array never holds an *)
(* unwritten cell.                                                         *)
(***************************************************************************)
THEOREM BuildTypeCorrect == Spec => []TypeOK
<1>1. IInv => TypeOK
  BY DEF IInv
<1> QED
  BY <1>1, BuildInvariant, PTL

(***************************************************************************)
(* The arrays the program sees are a well-formed CSR graph with ascending  *)
(* neighbour lists, before, during and after every call.                   *)
(***************************************************************************)
THEOREM BuildWellFormed == Spec => []WellFormed
<1>1. IInv => WellFormed
  BY DEF IInv
<1> QED
  BY <1>1, BuildInvariant, PTL

(***************************************************************************)
(* The fill loop writes inside new_edges, each cell once, and no two       *)
(* iterations under way are about to write the same cell.                  *)
(***************************************************************************)
THEOREM BuildNoWriteRace == Spec => []NoWriteRace
<1>1. IInv => NoWriteRace
  <2> SUFFICES ASSUME IInv, NEW v \in V, AboutToWrite(v)
               PROVE  /\ Target(v) \in DOMAIN new_edges
                      /\ new_edges[Target(v)] = Unset
                      /\ \A w \in V \ {v} : AboutToWrite(w) => Target(w) # Target(v)
    BY DEF NoWriteRace
  <2>1. phase = "fill" /\ offset[v] \in 0 .. new_degrees[v] - 1
    BY TargetFacts DEF AboutToWrite
  <2>2. /\ Target(v) \in 0 .. new_vertices[NV] - 1
        /\ \A w \in V \ {v} : \A l \in 0 .. new_degrees[w] - 1 :
             new_vertices[w] + l # Target(v)
    BY <2>1, CellFacts DEF Target
  <2>3. Target(v) \in DOMAIN new_edges
    BY <2>1, <2>2, RangeFacts
  <2>4. offset[v] \in offset[v] .. new_degrees[v] - 1
    BY <2>1 DEF IInv, TypeOK, LoopType, NewType
  <2>5. new_edges[Target(v)] = Unset
    BY <2>1, <2>4 DEF IInv, FillInv, FillRow, Target
  <2>6. \A w \in V \ {v} : AboutToWrite(w) => Target(w) # Target(v)
    BY <2>2, TargetFacts DEF Target
  <2> QED
    BY <2>3, <2>5, <2>6
<1> QED
  BY <1>1, BuildInvariant, PTL

(***************************************************************************)
(* Publishing replaces every neighbour list by its kept edges, in order.   *)
(***************************************************************************)
THEOREM BuildPublishCorrect == Spec => PublishCorrect
<1> DEFINE Filter ==
      \A v \in V :
        /\ vertices'[v + 1] - vertices'[v] = Cardinality(Kept(v, vertices[v + 1]))
        /\ \A e \in Kept(v, vertices[v + 1]) :
             edges'[vertices'[v] + Cardinality(Kept(v, e))] = edges[e]
<1>1. IInv /\ [Next]_vars => [Filter]_graph
  <2> SUFFICES ASSUME IInv, [Next]_vars, graph' # graph PROVE Filter
    OBVIOUS
  <2>1. Publish
    BY DEF Next, CallerStep, MasterStep, VertexStep, orientation, color_sparsify_fast,
           DegreeStep, DegreeBarrier, CountStep, LoopEnd, CountBarrier, FillStep, vars, graph
  <2>2. phase = "fill" /\ finished = V /\ vertices' = new_vertices /\ edges' = new_edges
    BY <2>1 DEF Publish
  <2>3. ASSUME NEW v \in V
        PROVE  new_vertices[v + 1] - new_vertices[v] = Cardinality(Kept(v, vertices[v + 1]))
    <3>1. new_degrees[v] = Cardinality(Kept(v, vertices[v + 1]))
      BY <2>2 DEF IInv, FillInv, FillRow
    <3>2. new_vertices[v] \in Nat /\ new_degrees[v] \in Nat
      BY VFacts DEF IInv, TypeOK, NewType
    <3> QED
      BY <2>2, <3>1, <3>2, RangeFacts
  <2> QED
    BY <2>2, <2>3, Stored
<1> QED
  BY <1>1, BuildInvariant, PTL DEF Spec, PublishCorrect

-----------------------------------------------------------------------------
\* The neighbours of a vertex after publishing are the kept ones.
LEMMA PublishAdj ==
  ASSUME IInv, Publish, NEW v \in V
  PROVE  Adj(v)' = {w \in Adj(v) : Keep(v, w)}
<1>1. /\ TypeOK /\ phase = "fill" /\ finished = V
      /\ vertices' = new_vertices /\ edges' = new_edges
  BY DEF Publish, IInv
<1>2. Adj(v)' = {new_edges[x] : x \in new_vertices[v] .. new_vertices[v + 1] - 1}
  BY <1>1 DEF Adj, Row
<1>3. ASSUME NEW x \in new_vertices[v] .. new_vertices[v + 1] - 1
      PROVE  new_edges[x] \in Adj(v) /\ Keep(v, new_edges[x])
  <2>1. PICK e \in Kept(v, vertices[v + 1]) : new_edges[x] = edges[e]
    BY <1>1, Filled
  <2>2. e \in Row(v) /\ Keep(v, edges[e])
    BY DEF Kept, Row
  <2> QED
    BY <2>1, <2>2 DEF Adj
<1>4. ASSUME NEW w \in Adj(v), Keep(v, w)
      PROVE  \E x \in new_vertices[v] .. new_vertices[v + 1] - 1 : w = new_edges[x]
  <2>1. PICK e \in Row(v) : w = edges[e]
    BY DEF Adj
  <2>2. e \in Kept(v, vertices[v + 1])
    BY <1>4, <2>1 DEF Kept, Row
  <2> QED
    BY <1>1, <2>1, <2>2, Stored
<1> QED
  BY <1>2, <1>3, <1>4

\* Neighbours are vertices.
LEMMA AdjType == ASSUME TypeOK, NEW v \in V PROVE Adj(v) \in SUBSET V
BY RowFacts DEF Adj

(***************************************************************************)
(* Refinement: whatever the threads do, the program sees the graph change  *)
(* only by the atomic steps of GraphReduction - an orientation along a     *)
(* linear order, or a cut into colour classes.                             *)
(***************************************************************************)
THEOREM BuildImplementsReduction == Spec => ImplementsReduction
<1> DEFINE A == [v \in V |-> Adj(v)]
           D == (form = "dag")
<1>1. Init => Reduction!Init
  <2> SUFFICES ASSUME Init PROVE Reduction!Init
    OBVIOUS
  <2>1. TypeOK
    BY InitIInv DEF IInv
  <2>2. A \in [V -> SUBSET V]
    BY <2>1, AdjType
  <2>3. D = FALSE
    BY DEF Init
  <2> QED
    BY <2>2, <2>3 DEF Reduction!Init
<1>2. IInv /\ [Next]_vars => [Reduction!Next]_(Reduction!vars)
  <2> SUFFICES ASSUME IInv, [Next]_vars PROVE [Reduction!Next]_(Reduction!vars)
    OBVIOUS
  <2>1. CASE Publish
    <3>1. \A v \in V : Adj(v)' = {w \in Adj(v) : Keep(v, w)}
      BY <2>1, PublishAdj
    <3>2. A' = [v \in V |-> {w \in A[v] : Keep(v, w)}]
      BY <3>1
    <3>3. TypeOK /\ tag \in [V -> Nat] /\ \A v \in V : A[v] \in SUBSET V
      BY AdjType DEF IInv, TypeOK, CallType
    <3>4. CASE op = "dag"
      <4> DEFINE R == {a \in V \X V : tag[a[2]] > tag[a[1]] \/ (tag[a[2]] = tag[a[1]] /\ a[2] > a[1])}
      <4>1. R \in Reduction!LinearOrders
        BY <3>3, VFacts DEF Reduction!LinearOrders
      <4>2. A' = [v \in V |-> {w \in A[v] : <<v, w>> \in R}]
        <5>1. \A v \in V : \A w \in A[v] : Keep(v, w) <=> <<v, w>> \in R
          BY <3>3, <3>4 DEF Keep
        <5>2. \A v \in V : {w \in A[v] : Keep(v, w)} = {w \in A[v] : <<v, w>> \in R}
          BY <5>1
        <5> QED
          BY <3>2, <5>2
      <4>3. D' = TRUE
        BY <2>1, <3>4 DEF Publish
      <4> QED
        BY <4>1, <4>2, <4>3 DEF Reduction!Next, Reduction!Orient
    <3>5. CASE op # "dag"
      <4>1. op = "color"
        BY <2>1, <3>5 DEF Publish, IInv, CallInv
      <4>2. ASSUME NEW v \in V PROVE A'[v] \subseteq A[v]
        BY <3>2
      <4>3. ASSUME NEW v \in V, NEW w \in A[v] \ A'[v]
            PROVE  \E S \in SUBSET V : v \in S /\ w \notin S /\ Reduction!Separated(A', S)
        <5> DEFINE S == {u \in V : tag[u] = tag[v]}
        <5>1. w \in V /\ ~Keep(v, w)
          BY <3>2, <3>3
        <5>2. v \in S /\ w \notin S /\ S \in SUBSET V
          BY <4>1, <5>1 DEF Keep
        <5>3. ASSUME NEW x \in V, NEW y \in A'[x] PROVE x \in S <=> y \in S
          <6>1. y \in V /\ Keep(x, y)
            BY <3>2, <3>3
          <6> QED
            BY <4>1, <6>1 DEF Keep
        <5>4. Reduction!Separated(A', S)
          BY <5>3 DEF Reduction!Separated
        <5> QED
          BY <5>2, <5>4
      <4>4. DOMAIN A' = V
        OBVIOUS
      <4>5. D' = D
        BY <2>1, <3>5 DEF Publish
      <4> QED
        BY <4>2, <4>3, <4>4, <4>5 DEF Reduction!Next, Reduction!Sparsify
    <3> QED
      BY <3>4, <3>5
  <2>2. CASE UNCHANGED <<vertices, edges, form>>
    <3>1. A' = A /\ D' = D
      BY <2>2 DEF Adj, Row
    <3> QED
      BY <3>1 DEF Reduction!vars
  <2>3. ~Publish => UNCHANGED <<vertices, edges, form>>
    BY DEF Next, CallerStep, MasterStep, VertexStep, orientation, color_sparsify_fast, DegreeStep,
           DegreeBarrier, CountStep, LoopEnd, CountBarrier, FillStep, vars, graph, call
  <2> QED
    BY <2>1, <2>2, <2>3
<1> QED
  BY <1>1, <1>2, BuildInvariant, PTL DEF Spec, ImplementsReduction, Reduction!Spec

-----------------------------------------------------------------------------
\* What Direction says of the graph that the program sees, also during a call.
Directed ==
  IF form = "dag"
  THEN \A S \in (SUBSET V) \ {{}} : \E v \in S : Adj(v) \cap S = {}
  ELSE \A v, w \in V : w \in Adj(v) <=> v \in Adj(w)

\* The vertices above v in the order by which orientation keeps arcs.
Above(v) == {w \in V : Keep(v, w)}

\* Fewer vertices are above a vertex the higher it is, so that a set of
\* vertices has a highest one: one from which orientation keeps no arc into it.
LEMMA HighestVertex ==
  ASSUME TypeOK, op = "dag", NEW S \in SUBSET V, S # {}
  PROVE  \E v \in S : \A w \in S : ~Keep(v, w)
<1> DEFINE T == {Cardinality(Above(v)) : v \in S}
<1>1. IsFiniteSet(V)
  <2>1. 0 \in Int /\ NV - 1 \in Int
    BY NVAssumption
  <2> QED
    BY <2>1, FS_Interval, Zenon DEF V
<1>2. \A v \in V : IsFiniteSet(Above(v)) /\ Cardinality(Above(v)) \in Nat
  <2>1. \A v \in V : Above(v) \in SUBSET V
    BY DEF Above
  <2> QED
    BY <1>1, <2>1, FS_Subset, FS_CardinalityType
<1>3. T \in SUBSET Nat /\ T # {}
  BY <1>2
<1>4. PICK x \in T : \A y \in T : x <= y
  BY <1>3, LeastNatural
<1>5. PICK v \in S : x = Cardinality(Above(v))
  BY <1>4
<1>6. ASSUME NEW w \in S, Keep(v, w) PROVE FALSE
  <2>1. /\ tag \in [V -> Nat] /\ v \in V /\ w \in V
        /\ \A u \in V : u \in Nat /\ tag[u] \in Nat
    BY VFacts DEF TypeOK, CallType
  <2>2. w \in Above(v) /\ w \notin Above(w)
    BY <1>6, <2>1 DEF Above, Keep
  <2>3. Above(w) \in SUBSET Above(v)
    BY <1>6, <2>1 DEF Above, Keep
  <2>4. Cardinality(Above(w)) <= Cardinality(Above(v)) /\ Cardinality(Above(w)) # Cardinality(Above(v))
    BY <1>2, <2>1, <2>2, <2>3, FS_Subset
  <2>5. Cardinality(Above(v)) <= Cardinality(Above(w))
    BY <1>4, <1>5, <1>6
  <2> QED
    BY <1>2, <2>1, <2>4, <2>5
<1> QED
  BY <1>6

\* Publishing keeps the direction: colours treat both arcs of an edge alike,
\* a subgraph of a DAG is one, and orientation makes one.
LEMMA PublishDirected == ASSUME IInv, Directed, Publish PROVE Directed'
<1>1. \A v \in V : Adj(v)' = {w \in Adj(v) : Keep(v, w)}
  BY PublishAdj
<1>2. TypeOK /\ op \in {"dag", "color"} /\ form' = IF op = "dag" THEN "dag" ELSE form
  BY DEF IInv, CallInv, Publish
<1>3. CASE op = "dag"
  <2> SUFFICES ASSUME NEW S \in (SUBSET V) \ {{}} PROVE \E v \in S : Adj(v)' \cap S = {}
    BY <1>2, <1>3 DEF Directed
  <2>1. PICK v \in S : \A w \in S : ~Keep(v, w)
    BY <1>2, <1>3, HighestVertex
  <2>2. v \in V
    OBVIOUS
  <2> QED
    BY <1>1, <2>1, <2>2
<1>4. CASE op = "color" /\ form = "dag"
  <2> SUFFICES ASSUME NEW S \in (SUBSET V) \ {{}} PROVE \E v \in S : Adj(v)' \cap S = {}
    BY <1>2, <1>4 DEF Directed
  <2>1. PICK v \in S : Adj(v) \cap S = {}
    BY <1>4 DEF Directed
  <2>2. v \in V
    OBVIOUS
  <2> QED
    BY <1>1, <2>1, <2>2
<1>5. CASE op = "color" /\ form # "dag"
  <2> SUFFICES ASSUME NEW v \in V, NEW w \in V PROVE w \in Adj(v)' <=> v \in Adj(w)'
    BY <1>2, <1>5 DEF Directed
  <2>1. Keep(v, w) <=> Keep(w, v)
    BY <1>5 DEF Keep
  <2>2. w \in Adj(v) <=> v \in Adj(w)
    BY <1>5 DEF Directed
  <2> QED
    BY <1>1, <2>1, <2>2
<1> QED
  BY <1>2, <1>3, <1>4, <1>5

(***************************************************************************)
(* An undirected graph stays undirected until orientation makes it a DAG,  *)
(* on which the clique kernels find every clique once, and a DAG stays     *)
(* acyclic under every later reduction.                                    *)
(***************************************************************************)
THEOREM BuildDirection == Spec => []Direction
<1>1. Init => Directed
  <2> SUFFICES ASSUME Init, NEW v \in V, NEW w \in Adj(v) PROVE v \in Adj(w)
    BY DEF Init, Directed
  <2>1. PICK g \in Graphs : Load(g)
    BY DEF Init
  <2>2. PICK e \in g.vertices[v] .. g.vertices[v + 1] - 1 : w = g.edges[e]
    BY <2>1 DEF Load, Adj, Row
  <2>3. \E f \in g.vertices[w] .. g.vertices[w + 1] - 1 : g.edges[f] = v
    BY <2>2, GraphsAssumption
  <2> QED
    BY <2>1, <2>3 DEF Load, Adj, Row
<1>2. IInv /\ Directed /\ [Next]_vars => Directed'
  <2> SUFFICES ASSUME IInv, Directed, [Next]_vars PROVE Directed'
    OBVIOUS
  <2>1. CASE Publish
    BY <2>1, PublishDirected
  <2>2. CASE ~Publish
    <3>1. UNCHANGED <<vertices, edges, form>>
      BY <2>2 DEF Next, CallerStep, MasterStep, VertexStep, orientation, color_sparsify_fast,
             DegreeStep, DegreeBarrier, CountStep, LoopEnd, CountBarrier, FillStep, vars, graph, call
    <3>2. \A v \in V : Adj(v)' = Adj(v)
      BY <3>1 DEF Adj, Row
    <3> QED
      BY <3>1, <3>2 DEF Directed
  <2> QED
    BY <2>1, <2>2
<1>3. Directed => Direction
  BY DEF Directed, Direction
<1> QED
  BY <1>1, <1>2, <1>3, BuildInvariant, PTL DEF Spec

=============================================================================

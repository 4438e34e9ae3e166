----------------------- MODULE InPlaceSparsifyProofs -----------------------
(***************************************************************************)
(* Proofs about color_sparsify, color_sparsify_old and edge_sparsify       *)
(* (InPlaceSparsify), for every graph, every colouring, every outcome of   *)
(* the coins and every number of calls.                                    *)
(***************************************************************************)
EXTENDS InPlaceSparsify, PrefixSumProofs

(***************************************************************************)
(* The inductive invariant.  Everything before the position the scan has   *)
(* reached is decided: the kept arcs stand at their ranks in new_edges,    *)
(* and the two counters of removed arcs say by how much the pointers of    *)
(* this row and of the next one have to be lowered.                        *)
(***************************************************************************)
WellFormed(g) ==
  /\ g.n_edges \in Nat
  /\ g.vertices \in [0 .. NV -> 0 .. g.n_edges]
  /\ g.edges \in [0 .. g.n_edges - 1 -> V]
  /\ g.vertices[0] = 0 /\ g.vertices[NV] = g.n_edges
  /\ \A v \in V : g.vertices[v] <= g.vertices[v + 1]

Current == [vertices |-> vertices, edges |-> edges, n_edges |-> n_edges]

OldRow(v) == old.vertices[v] .. old.vertices[v + 1] - 1

\* The arcs before this position of the old graph have been decided.
Reached == IF phase = "scan" THEN e ELSE old.vertices[row]

\* The arcs of the kept ones that are decided by their colours.
Decided(p) ==
  op = "color" =>
    \A v \in V : \A i \in OldRow(v) :
      i < p => (i \in kept <=> colors[v] = colors[old.edges[i]])

CallInv ==
  /\ phase \in {"idle", "row", "scan"} /\ op \in {"color", "edge"}
  /\ WellFormed(old) /\ kept \in SUBSET (0 .. old.n_edges - 1)

LoopType ==
  /\ row \in 0 .. NV /\ (phase = "scan" => row < NV)
  /\ edges = old.edges /\ n_edges = old.n_edges
  /\ vertices \in [0 .. NV -> 0 .. n_edges]
  /\ new_edges \in [0 .. n_edges - 1 -> V \cup {Unset}]

\* The removed arcs, counted before this arc and before this row.
Removed ==
  /\ \A i \in kept : i < Reached
  /\ edges_removed = Reached - count
  /\ last_offset = old.vertices[row] - Rank(old.vertices[row])

\* The cells of new_edges that are written are those of the kept arcs.
Copied ==
  /\ \A i \in kept : new_edges[Rank(i)] = old.edges[i]
  /\ \A k \in 0 .. Cardinality(kept) - 1 : \E i \in kept : Rank(i) = k

LoopInv == LoopType /\ ReadsOldRows /\ Removed /\ Copied /\ Decided(Reached)

IInv ==
  /\ CallInv
  /\ phase = "idle" => WellFormed(Current) /\ Compacted
  /\ phase # "idle" => LoopInv

-----------------------------------------------------------------------------
\* How many of the positions in K are before p.
RankIn(K, p) == Cardinality({i \in K : i < p})

\* The vertices as positions of the array of row pointers.
LEMMA VFacts ==
  /\ NV \in Nat /\ NV > 0 /\ 0 \in 0 .. NV /\ NV \in 0 .. NV
  /\ \A v \in V : v \in 0 .. NV /\ v + 1 \in 0 .. NV /\ v \in Nat /\ v < NV
BY NVAssumption DEF V

\* A rank is a number, no larger than the position: new_edges has room.
LEMMA RankType ==
  ASSUME NEW m \in Nat, NEW K \in SUBSET (0 .. m - 1), NEW p \in Nat
  PROVE  /\ IsFiniteSet(K) /\ IsFiniteSet({i \in K : i < p})
         /\ RankIn(K, p) \in 0 .. p /\ Cardinality(K) \in Nat
<1> DEFINE B == {i \in K : i < p}
<1>1. 0 \in Int /\ m - 1 \in Int /\ p - 1 \in Int
  OBVIOUS
<1>2. /\ IsFiniteSet(0 .. m - 1) /\ IsFiniteSet(0 .. p - 1)
      /\ Cardinality(0 .. p - 1) = IF 0 > p - 1 THEN 0 ELSE p - 1 - 0 + 1
  BY <1>1, FS_Interval, Zenon
<1>3. Cardinality(0 .. p - 1) = p
  BY <1>2
<1>4. \A i \in B : i \in 0 .. p - 1
  OBVIOUS
<1>5. IsFiniteSet(K) /\ IsFiniteSet(B) /\ Cardinality(B) <= Cardinality(0 .. p - 1)
  <2>1. B \in SUBSET (0 .. p - 1)
    BY <1>4
  <2> QED
    BY <1>2, <2>1, FS_Subset, Zenon
<1>6. Cardinality(K) \in Nat /\ Cardinality(B) \in Nat
  BY <1>5, FS_CardinalityType
<1> QED
  BY <1>3, <1>5, <1>6 DEF RankIn

\* Ranks grow with the position, and by one at a kept arc.
LEMMA RankMono ==
  ASSUME NEW m \in Nat, NEW K \in SUBSET (0 .. m - 1), NEW p \in Nat, NEW q \in Nat, p <= q
  PROVE  /\ RankIn(K, p) <= RankIn(K, q)
         /\ p \in K /\ p < q => RankIn(K, p) < RankIn(K, q)
<1> DEFINE B == {i \in K : i < p}
           C == {i \in K : i < q}
<1>1. IsFiniteSet(B) /\ IsFiniteSet(C)
  BY RankType
<1>2. \A i \in B : i \in C
  OBVIOUS
<1>3. p \in K /\ p < q => B # C
  OBVIOUS
<1>4. Cardinality(B) <= Cardinality(C) /\ (p \in K /\ p < q => Cardinality(C) # Cardinality(B))
  BY <1>1, <1>2, <1>3, FS_Subset
<1>5. Cardinality(B) \in Nat /\ Cardinality(C) \in Nat
  BY <1>1, FS_CardinalityType
<1> QED
  BY <1>4, <1>5 DEF RankIn

\* A position behind all of them has all of them before it.
LEMMA RankAll ==
  ASSUME NEW m \in Nat, NEW K \in SUBSET (0 .. m - 1), NEW p \in Nat, \A i \in K : i < p
  PROVE  RankIn(K, p) = Cardinality(K)
<1>1. {i \in K : i < p} = K
  OBVIOUS
<1> QED
  BY <1>1 DEF RankIn

\* An arc that is kept behind all the others gets their number as its rank and
\* leaves theirs alone.
LEMMA RankAdd ==
  ASSUME NEW m \in Nat, NEW K \in SUBSET (0 .. m - 1), NEW x \in 0 .. m - 1, \A i \in K : i < x
  PROVE  /\ \A p \in Nat : p <= x => RankIn(K \cup {x}, p) = RankIn(K, p)
         /\ RankIn(K \cup {x}, x) = Cardinality(K)
         /\ Cardinality(K \cup {x}) = Cardinality(K) + 1
<1>1. \A p \in Nat : p <= x => {i \in K \cup {x} : i < p} = {i \in K : i < p}
  OBVIOUS
<1>2. \A p \in Nat : p <= x => RankIn(K \cup {x}, p) = RankIn(K, p)
  BY <1>1 DEF RankIn
<1>3. x \in Nat /\ x <= x /\ x \notin K
  OBVIOUS
<1>4. RankIn(K, x) = Cardinality(K)
  BY <1>3, RankAll
<1>5. Cardinality(K \cup {x}) = Cardinality(K) + 1
  BY <1>3, RankType, FS_AddElement
<1> QED
  BY <1>2, <1>3, <1>4, <1>5

\* Row pointers ascend, also over several rows.
LEMMA RowsOrdered ==
  ASSUME NEW g, WellFormed(g), NEW u \in 0 .. NV, NEW w \in 0 .. NV, u <= w
  PROVE  g.vertices[u] <= g.vertices[w]
<1> DEFINE p == g.vertices
           T == {x \in 0 .. NV : u <= x /\ p[x] < p[u]}
<1>1. /\ p \in [0 .. NV -> 0 .. g.n_edges] /\ g.n_edges \in Nat
      /\ \A v \in V : p[v] <= p[v + 1]
  BY DEF WellFormed
<1>2. ASSUME NEW x \in 0 .. NV PROVE p[x] \in Nat
  <2>1. p[x] \in 0 .. g.n_edges
    BY <1>1
  <2> QED
    BY <1>1, <2>1
<1> HIDE DEF p
<1>3. ASSUME T # {} PROVE FALSE
  <2>1. T \in SUBSET Nat
    BY VFacts
  <2>2. PICK x \in T : \A y \in T : x <= y
    BY <1>3, <2>1, LeastNatural
  <2>3. x # u /\ x \in Nat /\ u \in Nat
    BY <1>2, VFacts
  <2>4. x - 1 \in V /\ x - 1 \in 0 .. NV /\ u <= x - 1 /\ x - 1 \notin T /\ (x - 1) + 1 = x
    BY <2>2, <2>3, VFacts DEF V
  <2>5. p[x - 1] <= p[x] /\ p[u] <= p[x - 1]
    BY <1>1, <1>2, <2>4
  <2> QED
    BY <1>2, <2>2, <2>4, <2>5
<1>4. w \notin T
  BY <1>3
<1> QED
  BY <1>2, <1>4 DEF p

\* The old graph, seen from row v: its pointers and arcs.
LEMMA OldFacts ==
  ASSUME CallInv
  PROVE  /\ old.n_edges \in Nat /\ old.vertices \in [0 .. NV -> 0 .. old.n_edges]
         /\ old.edges \in [0 .. old.n_edges - 1 -> V]
         /\ old.vertices[0] = 0 /\ old.vertices[NV] = old.n_edges
         /\ \A u \in 0 .. NV : old.vertices[u] \in Nat /\ old.vertices[u] <= old.n_edges
         /\ \A u, w \in 0 .. NV : u <= w => old.vertices[u] <= old.vertices[w]
         /\ kept \in SUBSET (0 .. old.n_edges - 1) /\ IsFiniteSet(kept)
         /\ Cardinality(kept) \in Nat
         /\ \A v \in V : OldRow(v) \in SUBSET (0 .. old.n_edges - 1)
<1>1. /\ old.n_edges \in Nat /\ old.vertices \in [0 .. NV -> 0 .. old.n_edges]
      /\ old.edges \in [0 .. old.n_edges - 1 -> V]
      /\ old.vertices[0] = 0 /\ old.vertices[NV] = old.n_edges
      /\ kept \in SUBSET (0 .. old.n_edges - 1)
  BY DEF CallInv, WellFormed
<1>2. ASSUME NEW u \in 0 .. NV PROVE old.vertices[u] \in Nat /\ old.vertices[u] <= old.n_edges
  <2>1. old.vertices[u] \in 0 .. old.n_edges
    BY <1>1
  <2> QED
    BY <1>1, <2>1
<1>3. \A u, w \in 0 .. NV : u <= w => old.vertices[u] <= old.vertices[w]
  BY RowsOrdered DEF CallInv
<1>4. IsFiniteSet(kept) /\ Cardinality(kept) \in Nat
  BY <1>1, RankType
<1>5. ASSUME NEW v \in V PROVE OldRow(v) \in SUBSET (0 .. old.n_edges - 1)
  <2>1. /\ old.vertices[v] \in Nat /\ old.vertices[v + 1] \in Nat
        /\ old.vertices[v + 1] <= old.n_edges
    BY <1>2, VFacts
  <2> QED
    BY <1>1, <2>1 DEF OldRow
<1> QED
  BY <1>1, <1>2, <1>3, <1>4, <1>5

\* Rank is RankIn of the kept arcs.
LEMMA RankDef == \A p : Rank(p) = RankIn(kept, p) /\ Rank(p)' = RankIn(kept', p)
BY DEF Rank, RankIn

\* The ranks of the kept arcs: as many as there are kept arcs, in their order.
LEMMA KeptRanks ==
  ASSUME CallInv
  PROVE  /\ \A p \in Nat : RankIn(kept, p) \in Nat /\ RankIn(kept, p) <= p
         /\ \A p, q \in Nat : p <= q => RankIn(kept, p) <= RankIn(kept, q)
         /\ \A i \in kept : i \in Nat /\ i < old.n_edges
         /\ \A i \in kept : \A q \in Nat : i < q => RankIn(kept, i) < RankIn(kept, q)
         /\ RankIn(kept, old.n_edges) = Cardinality(kept)
         /\ \A i \in kept : RankIn(kept, i) \in 0 .. Cardinality(kept) - 1
<1>1. old.n_edges \in Nat /\ kept \in SUBSET (0 .. old.n_edges - 1) /\ Cardinality(kept) \in Nat
  BY OldFacts
<1>2. ASSUME NEW p \in Nat PROVE RankIn(kept, p) \in Nat /\ RankIn(kept, p) <= p
  <2>1. RankIn(kept, p) \in 0 .. p
    BY <1>1, RankType
  <2> QED
    BY <2>1
<1>3. ASSUME NEW p \in Nat, NEW q \in Nat, p <= q PROVE RankIn(kept, p) <= RankIn(kept, q)
  BY <1>1, <1>3, RankMono
<1>4. ASSUME NEW i \in kept PROVE i \in Nat /\ i < old.n_edges
  BY <1>1
<1>5. ASSUME NEW i \in kept, NEW q \in Nat, i < q PROVE RankIn(kept, i) < RankIn(kept, q)
  <2>1. i \in Nat /\ i <= q
    BY <1>4, <1>5
  <2> QED
    BY <1>1, <1>5, <2>1, RankMono
<1>6. RankIn(kept, old.n_edges) = Cardinality(kept)
  BY <1>1, <1>4, RankAll
<1>7. ASSUME NEW i \in kept PROVE RankIn(kept, i) \in 0 .. Cardinality(kept) - 1
  <2>1. RankIn(kept, i) \in Nat /\ RankIn(kept, i) < Cardinality(kept)
    BY <1>1, <1>2, <1>4, <1>5, <1>6
  <2> QED
    BY <1>1, <2>1
<1> QED
  BY <1>2, <1>3, <1>4, <1>5, <1>6, <1>7

\* Two rows of the old graph share no arc.
LEMMA RowsDisjoint ==
  ASSUME CallInv, NEW v \in V, NEW w \in V, NEW i \in OldRow(v), i \in OldRow(w)
  PROVE  v = w
<1> DEFINE p == old.vertices
<1>1. /\ v \in 0 .. NV /\ v + 1 \in 0 .. NV /\ w \in 0 .. NV /\ w + 1 \in 0 .. NV
      /\ v \in Nat /\ w \in Nat
  BY VFacts
<1>2. p[v] \in Nat /\ p[v + 1] \in Nat /\ p[w] \in Nat /\ p[w + 1] \in Nat
  BY <1>1, OldFacts
<1>3. v < w => p[v + 1] <= p[w]
  <2>1. v < w => v + 1 <= w
    BY <1>1
  <2> QED
    BY <1>1, <2>1, OldFacts, Zenon
<1>4. w < v => p[w + 1] <= p[v]
  <2>1. w < v => w + 1 <= v
    BY <1>1
  <2> QED
    BY <1>1, <2>1, OldFacts, Zenon
<1>5. i \in p[v] .. p[v + 1] - 1 /\ i \in p[w] .. p[w + 1] - 1
  BY DEF OldRow
<1> QED
  BY <1>1, <1>2, <1>3, <1>4, <1>5
-----------------------------------------------------------------------------
\* The graph that the constructor has loaded satisfies the invariant.
LEMMA InitIInv == Init => IInv
<1> SUFFICES ASSUME Init PROVE IInv
  OBVIOUS
<1>1. PICK g \in Graphs : Load(g) /\ old = g
  BY DEF Init
<1>2. WellFormed(g)
  BY GraphsAssumption DEF WellFormed
<1>3. WellFormed(old) /\ WellFormed(Current)
  BY <1>1, <1>2 DEF Load, WellFormed, Current
<1> QED
  BY <1>3 DEF Init, IInv, CallInv, Compacted

\* The entry of a method: nothing is decided yet.
LEMMA EnterPreserves ==
  ASSUME IInv, Enter, op' \in {"color", "edge"}
  PROVE  IInv'
<1>1. /\ phase = "idle" /\ phase' = "row" /\ row' = 0 /\ old' = Current /\ kept' = {}
      /\ count' = 0 /\ edges_removed' = 0 /\ last_offset' = 0
      /\ vertices' = vertices /\ edges' = edges /\ n_edges' = n_edges
      /\ new_edges' = [i \in 0 .. n_edges - 1 |-> Unset]
  BY DEF Enter, Current, graph
<1>2. WellFormed(Current)
  BY <1>1 DEF IInv
<1>3. /\ old'.vertices = vertices /\ old'.edges = edges /\ old'.n_edges = n_edges
      /\ n_edges \in Nat /\ vertices \in [0 .. NV -> 0 .. n_edges]
      /\ edges \in [0 .. n_edges - 1 -> V] /\ vertices[0] = 0
  BY <1>1, <1>2 DEF Current, WellFormed
<1>4. CallInv'
  BY <1>1, <1>2 DEF CallInv, WellFormed
<1>5. Cardinality({}) = 0 /\ \A p : Rank(p)' = 0
  <2>1. \A p : {i \in {} : i < p} = {}
    OBVIOUS
  <2> QED
    BY <1>1, <2>1, FS_EmptySet DEF Rank
<1>6. Reached' = 0
  BY <1>1, <1>3 DEF Reached
<1>7. LoopType'
  BY <1>1, <1>3, VFacts DEF LoopType
<1>8. ReadsOldRows'
  BY <1>1, <1>3, <1>5 DEF ReadsOldRows
<1>9. Removed'
  BY <1>1, <1>3, <1>5, <1>6 DEF Removed
<1>10. Copied'
  BY <1>1, <1>5 DEF Copied
<1>11. Decided(Reached)'
  <2> SUFFICES ASSUME NEW v \in V, NEW i \in OldRow(v)', i < Reached' PROVE FALSE
    BY DEF Decided
  <2>1. vertices[v] \in 0 .. n_edges /\ vertices[v + 1] \in 0 .. n_edges
    BY <1>3, VFacts
  <2>2. i \in vertices[v] .. vertices[v + 1] - 1
    BY <1>3 DEF OldRow
  <2> QED
    BY <1>3, <1>6, <2>1, <2>2
<1> QED
  BY <1>1, <1>4, <1>7, <1>8, <1>9, <1>10, <1>11 DEF IInv, LoopInv

\* The row is entered through the pointers of the old graph.
LEMMA StartRowPreserves == ASSUME IInv, StartRow PROVE IInv'
<1>1. /\ phase = "row" /\ row < NV /\ phase' = "scan" /\ e' = vertices[row]
      /\ end' = vertices[row + 1] /\ vertices' = vertices /\ edges' = edges
      /\ n_edges' = n_edges /\ op' = op /\ colors' = colors /\ row' = row
      /\ count' = count /\ edges_removed' = edges_removed /\ last_offset' = last_offset
      /\ new_edges' = new_edges /\ old' = old /\ kept' = kept
  BY DEF StartRow, graph, history
<1>2. CallInv /\ LoopInv
  BY <1>1 DEF IInv
<1>3. row \in V /\ row \in row .. NV /\ row + 1 \in row .. NV
  BY <1>1, <1>2, VFacts DEF LoopInv, LoopType, V
<1>4. vertices[row] = old.vertices[row] /\ vertices[row + 1] = old.vertices[row + 1]
  BY <1>1, <1>2, <1>3 DEF LoopInv, ReadsOldRows
<1>5. Reached' = Reached
  BY <1>1, <1>4 DEF Reached
<1>6. \A p : Rank(p)' = Rank(p)
  BY <1>1 DEF Rank
<1>7. CallInv' /\ LoopType'
  BY <1>1, <1>2 DEF CallInv, LoopInv, LoopType, WellFormed
<1>8. old.vertices[row] \in Nat /\ old.vertices[row + 1] \in Nat /\ old.vertices[row] <= old.vertices[row + 1]
  <2>1. row \in 0 .. NV /\ row + 1 \in 0 .. NV /\ row <= row + 1
    BY <1>3, VFacts
  <2> QED
    BY <1>2, <2>1, OldFacts
<1>9. ReadsOldRows'
  BY <1>1, <1>2, <1>4, <1>6, <1>8 DEF LoopInv, ReadsOldRows
<1>10. Removed' /\ Copied'
  BY <1>1, <1>2, <1>5, <1>6 DEF LoopInv, Removed, Copied
<1>11. Decided(Reached)'
  BY <1>1, <1>2, <1>5 DEF LoopInv, Decided, OldRow
<1> QED
  BY <1>1, <1>7, <1>9, <1>10, <1>11 DEF IInv, LoopInv

\* The arc the scan has reached lies in the row and in no other.
LEMMA ScanFacts ==
  ASSUME IInv, phase = "scan"
  PROVE  /\ CallInv /\ LoopInv /\ row \in V /\ Reached = e /\ e \in Nat
         /\ end = old.vertices[row + 1] /\ end \in Nat /\ end <= old.n_edges
         /\ old.vertices[row] \in Nat /\ old.vertices[row] <= e /\ e <= end
         /\ \A i \in kept : i < e
         /\ count = Cardinality(kept) /\ count \in 0 .. e
         /\ \A p \in Nat : Rank(p) \in 0 .. p
<1>1. CallInv /\ LoopInv /\ Reached = e
  BY DEF IInv, Reached
<1>2. row \in V /\ row \in 0 .. NV /\ row + 1 \in 0 .. NV
  BY <1>1, VFacts DEF LoopInv, LoopType, V
<1>3. end = old.vertices[row + 1] /\ e \in old.vertices[row] .. end
  BY <1>1 DEF LoopInv, ReadsOldRows
<1>4. old.vertices[row] \in Nat /\ old.vertices[row + 1] \in Nat /\ old.vertices[row + 1] <= old.n_edges
  BY <1>1, <1>2, OldFacts
<1>5. e \in Nat /\ old.vertices[row] <= e /\ e <= end
  BY <1>3, <1>4
<1>6. \A i \in kept : i < e
  BY <1>1 DEF LoopInv, Removed
<1>7. \A p \in Nat : Rank(p) \in 0 .. p
  BY <1>1, OldFacts, RankDef, RankType
<1>8. count = Cardinality(kept)
  BY <1>1 DEF LoopInv, ReadsOldRows
<1>9. RankIn(kept, e) = Cardinality(kept)
  BY <1>1, <1>5, <1>6, OldFacts, RankAll
<1>10. count \in 0 .. e
  BY <1>5, <1>7, <1>8, <1>9, RankDef
<1> QED
  BY <1>1, <1>2, <1>3, <1>4, <1>5, <1>6, <1>7, <1>8, <1>10

\* An arc is kept: it is copied to the cell of its rank.
LEMMA KeepPreserves ==
  ASSUME IInv, phase = "scan", e < end, KeepArc, e' = e + 1,
         UNCHANGED <<graph, phase, op, colors, row, end, last_offset, old, passes>>,
         op = "color" => colors[row] = colors[edges[e]]
  PROVE  IInv'
<1>1. /\ phase' = phase /\ vertices' = vertices /\ edges' = edges
      /\ n_edges' = n_edges /\ op' = op /\ colors' = colors /\ row' = row /\ end' = end
      /\ count' = count + 1 /\ edges_removed' = edges_removed /\ last_offset' = last_offset
      /\ new_edges' = [new_edges EXCEPT ![count] = edges[e]]
      /\ old' = old /\ kept' = kept \cup {e} /\ e' = e + 1
  BY DEF KeepArc, graph
<1>2. /\ CallInv /\ LoopInv /\ row \in V /\ Reached = e /\ e \in Nat
      /\ end = old.vertices[row + 1] /\ end \in Nat /\ end <= old.n_edges
      /\ old.vertices[row] \in Nat /\ old.vertices[row] <= e
      /\ \A i \in kept : i < e
      /\ count = Cardinality(kept) /\ count \in 0 .. e
  BY ScanFacts
<1>3. /\ old.n_edges \in Nat /\ kept \in SUBSET (0 .. old.n_edges - 1)
      /\ e \in 0 .. old.n_edges - 1 /\ count \in 0 .. old.n_edges - 1
      /\ old.edges[e] \in V /\ edges = old.edges /\ n_edges = old.n_edges
      /\ new_edges \in [0 .. old.n_edges - 1 -> V \cup {Unset}]
  <2>1. old.n_edges \in Nat /\ kept \in SUBSET (0 .. old.n_edges - 1)
    BY <1>2, OldFacts
  <2>2. e \in 0 .. old.n_edges - 1 /\ count \in 0 .. old.n_edges - 1
    BY <1>2, <2>1
  <2> QED
    BY <1>2, <2>1, <2>2, OldFacts DEF LoopInv, LoopType
<1>4. /\ \A p \in Nat : p <= e => Rank(p)' = Rank(p)
      /\ RankIn(kept', e) = count /\ Cardinality(kept') = count + 1
  <2>1. /\ \A p \in Nat : p <= e => RankIn(kept \cup {e}, p) = RankIn(kept, p)
        /\ RankIn(kept \cup {e}, e) = Cardinality(kept)
        /\ Cardinality(kept \cup {e}) = Cardinality(kept) + 1
    <3>1. PICK m, K, x : m = old.n_edges /\ K = kept /\ x = e
      OBVIOUS
    <3>2. m \in Nat /\ K \in SUBSET (0 .. m - 1) /\ x \in 0 .. m - 1 /\ \A i \in K : i < x
      BY <1>2, <1>3, <3>1
    <3>3. /\ \A p \in Nat : p <= x => RankIn(K \cup {x}, p) = RankIn(K, p)
          /\ RankIn(K \cup {x}, x) = Cardinality(K)
          /\ Cardinality(K \cup {x}) = Cardinality(K) + 1
      BY <3>2, RankAdd
    <3> QED
      BY <3>1, <3>3
  <2> QED
    BY <1>1, <1>2, <2>1, RankDef
<1>5. Reached' = e + 1
  BY <1>1 DEF Reached
<1>6. CallInv'
  BY <1>1, <1>2, <1>3 DEF CallInv, WellFormed
<1>7. LoopType'
  BY <1>1, <1>2, <1>3 DEF LoopInv, LoopType
<1>8. ReadsOldRows'
  <2>1. ASSUME NEW u \in 0 .. row - 1 PROVE old.vertices[u] \in Nat /\ old.vertices[u] <= e
    <3>1. u \in 0 .. NV /\ row \in 0 .. NV /\ u <= row
      BY <1>2, VFacts
    <3>2. old.vertices[u] <= old.vertices[row] /\ old.vertices[u] \in Nat
      BY <1>2, <3>1, OldFacts
    <3> QED
      BY <1>2, <3>2
  <2>2. \A u \in 0 .. row - 1 : vertices[u] = Rank(old.vertices[u])'
    BY <1>2, <1>4, <2>1 DEF LoopInv, ReadsOldRows
  <2>3. e + 1 \in old.vertices[row] .. end
    BY <1>2
  <2>4. /\ end = old.vertices[row + 1]
        /\ \A u \in row .. NV : vertices[u] = old.vertices[u]
    BY <1>2 DEF LoopInv, ReadsOldRows
  <2> QED
    BY <1>1, <1>2, <1>4, <2>2, <2>3, <2>4 DEF ReadsOldRows
<1>9. Removed'
  <2>1. \A i \in kept' : i < e + 1
    BY <1>1, <1>2, <1>3
  <2>2. edges_removed' = (e + 1) - (count + 1)
    BY <1>1, <1>2 DEF LoopInv, Removed
  <2>3. last_offset = old.vertices[row] - Rank(old.vertices[row])
    BY <1>2 DEF LoopInv, Removed
  <2> QED
    BY <1>1, <1>2, <1>4, <1>5, <2>1, <2>2, <2>3 DEF Removed
<1>10. Copied'
  <2>1. ASSUME NEW i \in kept PROVE i \in Nat /\ i <= e /\ Rank(i) \in Nat /\ Rank(i) < count
    <3>1. i \in Nat /\ i <= e /\ i < e
      BY <1>2, <1>3
    <3>2. RankIn(kept, i) < RankIn(kept, e) /\ RankIn(kept, e) = Cardinality(kept)
      BY <1>2, <1>3, <3>1, RankMono, RankAll
    <3>3. Rank(i) \in 0 .. i
      BY <3>1, ScanFacts
    <3> QED
      BY <1>2, <3>1, <3>2, <3>3, RankDef
  <2>2. ASSUME NEW i \in kept' PROVE new_edges'[Rank(i)'] = old.edges[i]
    <3>1. CASE i = e
      BY <1>1, <1>3, <1>4, <3>1, RankDef
    <3>2. CASE i \in kept
      <4>1. new_edges[Rank(i)] = old.edges[i]
        BY <1>2, <3>2 DEF LoopInv, Copied
      <4>2. Rank(i)' = Rank(i) /\ Rank(i) # count
        BY <1>2, <1>4, <2>1, <3>2
      <4> QED
        BY <1>1, <1>3, <4>1, <4>2
    <3> QED
      BY <1>1, <3>1, <3>2
  <2>3. ASSUME NEW k \in 0 .. Cardinality(kept') - 1 PROVE \E i \in kept' : Rank(i)' = k
    <3>1. CASE k = count
      BY <1>1, <1>4, <3>1, RankDef
    <3>2. CASE k # count
      <4>1. k \in 0 .. Cardinality(kept) - 1
        BY <1>2, <1>4, <3>2
      <4>2. PICK i \in kept : Rank(i) = k
        BY <1>2, <4>1 DEF LoopInv, Copied
      <4>3. Rank(i)' = k
        BY <1>4, <2>1, <4>2
      <4> QED
        BY <1>1, <4>3
    <3> QED
      BY <3>1, <3>2
  <2> QED
    BY <1>1, <2>2, <2>3 DEF Copied
<1>11. Decided(Reached)'
  <2> SUFFICES ASSUME op = "color", NEW v \in V, NEW i \in OldRow(v), i < e + 1
               PROVE  i \in kept' <=> colors[v] = colors[old.edges[i]]
    BY <1>1, <1>5 DEF Decided, OldRow
  <2>1. CASE i = e
    <3>1. e \in OldRow(row)
      BY <1>2 DEF OldRow
    <3>2. v = row
      BY <1>2, <2>1, <3>1, RowsDisjoint
    <3> QED
      BY <1>1, <1>3, <2>1, <3>2
  <2>2. CASE i # e
    <3>1. i \in Nat /\ i < e
      BY <1>2, <2>2, OldFacts
    <3>2. i \in kept <=> colors[v] = colors[old.edges[i]]
      BY <1>2, <3>1 DEF LoopInv, Decided
    <3> QED
      BY <1>1, <2>2, <3>2
  <2> QED
    BY <2>1, <2>2
<1> QED
  BY <1>1, <1>6, <1>7, <1>8, <1>9, <1>10, <1>11 DEF IInv, LoopInv

\* An arc is removed: only the counter of removed arcs changes.
LEMMA RemovePreserves ==
  ASSUME IInv, phase = "scan", e < end, RemoveArc, e' = e + 1,
         UNCHANGED <<graph, phase, op, colors, row, end, last_offset, old, passes>>,
         op = "color" => colors[row] # colors[edges[e]]
  PROVE  IInv'
<1>1. /\ phase' = phase /\ vertices' = vertices /\ edges' = edges
      /\ n_edges' = n_edges /\ op' = op /\ colors' = colors /\ row' = row /\ end' = end
      /\ count' = count /\ edges_removed' = edges_removed + 1 /\ last_offset' = last_offset
      /\ new_edges' = new_edges /\ old' = old /\ kept' = kept /\ e' = e + 1
  BY DEF RemoveArc, graph
<1>2. /\ CallInv /\ LoopInv /\ row \in V /\ Reached = e /\ e \in Nat
      /\ end = old.vertices[row + 1] /\ end \in Nat
      /\ old.vertices[row] \in Nat /\ old.vertices[row] <= e
      /\ \A i \in kept : i < e
      /\ count \in 0 .. e
  BY ScanFacts
<1>3. Reached' = e + 1 /\ edges = old.edges
  BY <1>1, <1>2 DEF Reached, LoopInv, LoopType
<1>4. \A p : Rank(p)' = Rank(p)
  BY <1>1 DEF Rank
<1>5. CallInv' /\ LoopType' /\ Copied'
  BY <1>1, <1>2, <1>4 DEF CallInv, WellFormed, LoopInv, LoopType, Copied
<1>6. ReadsOldRows'
  <2>1. e + 1 \in old.vertices[row] .. end
    BY <1>2
  <2> QED
    BY <1>1, <1>2, <1>4, <2>1 DEF LoopInv, ReadsOldRows
<1>7. Removed'
  <2>1. \A i \in kept : i < e + 1
    BY <1>2, OldFacts
  <2>2. edges_removed = e - count
    BY <1>2 DEF LoopInv, Removed
  <2>3. edges_removed' = (e + 1) - count
    BY <1>1, <1>2, <2>2
  <2>4. last_offset = old.vertices[row] - Rank(old.vertices[row])
    BY <1>2 DEF LoopInv, Removed
  <2> QED
    BY <1>1, <1>3, <1>4, <2>1, <2>3, <2>4 DEF Removed
<1>8. Decided(Reached)'
  <2> SUFFICES ASSUME op = "color", NEW v \in V, NEW i \in OldRow(v), i < e + 1
               PROVE  i \in kept <=> colors[v] = colors[old.edges[i]]
    BY <1>1, <1>3 DEF Decided, OldRow
  <2>1. CASE i = e
    <3>1. e \in OldRow(row)
      BY <1>2 DEF OldRow
    <3>2. v = row
      BY <1>2, <2>1, <3>1, RowsDisjoint
    <3>3. e \notin kept
      BY <1>2
    <3> QED
      BY <1>3, <2>1, <3>2, <3>3
  <2>2. CASE i # e
    <3>1. i \in Nat /\ i < e
      BY <1>2, <2>2, OldFacts
    <3> QED
      BY <1>2, <3>1 DEF LoopInv, Decided
  <2> QED
    BY <2>1, <2>2
<1> QED
  BY <1>1, <1>5, <1>6, <1>7, <1>8 DEF IInv, LoopInv

\* One iteration of the inner loop keeps or removes an arc.
LEMMA ScanPreserves == ASSUME IInv, Scan PROVE IInv'
<1>1. PICK keep \in Outcomes : IF keep THEN KeepArc ELSE RemoveArc
  BY DEF Scan
<1>2. /\ phase = "scan" /\ e < end /\ e' = e + 1
      /\ UNCHANGED <<graph, phase, op, colors, row, end, last_offset, old, passes>>
  BY DEF Scan
<1>3. op = "color" => (keep <=> colors[row] = colors[edges[e]])
  BY DEF Outcomes
<1>4. CASE keep
  BY <1>1, <1>2, <1>3, <1>4, KeepPreserves
<1>5. CASE ~keep
  BY <1>1, <1>2, <1>3, <1>5, RemovePreserves
<1> QED
  BY <1>4, <1>5

\* The pointer of the row that has been read is lowered to its rank.
LEMMA EndRowPreserves == ASSUME IInv, EndRow PROVE IInv'
<1>1. /\ phase = "scan" /\ e = end /\ phase' = "row" /\ row' = row + 1
      /\ vertices' = [vertices EXCEPT ![row] = @ - last_offset]
      /\ last_offset' = edges_removed /\ edges' = edges /\ n_edges' = n_edges
      /\ op' = op /\ colors' = colors /\ e' = e /\ end' = end /\ count' = count
      /\ edges_removed' = edges_removed /\ new_edges' = new_edges
      /\ old' = old /\ kept' = kept
  BY DEF EndRow, history
<1>2. /\ CallInv /\ LoopInv /\ row \in V /\ Reached = e /\ e \in Nat
      /\ end = old.vertices[row + 1] /\ end <= old.n_edges
      /\ old.vertices[row] \in Nat /\ old.vertices[row] <= e /\ e <= end
      /\ \A i \in kept : i < e
      /\ count = Cardinality(kept) /\ count \in 0 .. e
      /\ \A p \in Nat : Rank(p) \in 0 .. p
  BY <1>1, ScanFacts
<1>3. /\ row \in 0 .. NV /\ row + 1 \in 0 .. NV /\ row < NV /\ row \in Nat /\ NV \in Nat
      /\ old.n_edges \in Nat /\ n_edges = old.n_edges
      /\ vertices \in [0 .. NV -> 0 .. n_edges]
  BY <1>2, VFacts, OldFacts DEF LoopInv, LoopType
<1>4. Reached' = e
  BY <1>1, <1>2 DEF Reached
<1>5. \A p : Rank(p)' = Rank(p)
  BY <1>1 DEF Rank
<1>6. vertices[row] = old.vertices[row] /\ last_offset = old.vertices[row] - Rank(old.vertices[row])
  <2>1. row \in row .. NV
    BY <1>3
  <2> QED
    BY <1>1, <1>2, <2>1 DEF LoopInv, ReadsOldRows, Removed
<1>7. Rank(old.vertices[row]) \in 0 .. old.vertices[row]
  BY <1>2
<1>8. vertices'[row] = Rank(old.vertices[row]) /\ vertices'[row] \in 0 .. n_edges
  <2>1. vertices[row] - last_offset = Rank(old.vertices[row])
    BY <1>2, <1>6, <1>7
  <2>2. Rank(old.vertices[row]) \in 0 .. n_edges
    <3>1. old.vertices[row] <= n_edges
      BY <1>2, <1>3, OldFacts
    <3>2. Rank(old.vertices[row]) \in Nat /\ Rank(old.vertices[row]) <= old.vertices[row]
      BY <1>2, <1>7
    <3>3. old.vertices[row] \in Nat /\ n_edges \in Nat
      BY <1>2, <1>3
    <3> QED
      BY <3>1, <3>2, <3>3
  <2> QED
    BY <1>1, <1>3, <2>1, <2>2
<1>9. \A u \in 0 .. NV : u # row => vertices'[u] = vertices[u]
  BY <1>1, <1>3
<1>10. CallInv' /\ Copied'
  BY <1>1, <1>2, <1>5 DEF CallInv, WellFormed, LoopInv, Copied
<1>11. LoopType'
  <2>1. vertices' \in [0 .. NV -> 0 .. n_edges]
    BY <1>1, <1>3, <1>8
  <2> QED
    BY <1>1, <1>2, <1>3, <2>1 DEF LoopInv, LoopType
<1>12. ReadsOldRows'
  <2>1. ASSUME NEW u \in row + 1 .. NV PROVE vertices'[u] = old.vertices[u]
    <3>1. u \in 0 .. NV /\ u # row /\ u \in row .. NV
      BY <1>3
    <3> QED
      BY <1>1, <1>2, <1>9, <3>1 DEF LoopInv, ReadsOldRows
  <2>2. ASSUME NEW u \in 0 .. row PROVE vertices'[u] = Rank(old.vertices[u])
    <3>1. CASE u = row
      BY <1>8, <3>1
    <3>2. CASE u # row
      <4>1. u \in 0 .. row - 1 /\ u \in 0 .. NV
        BY <1>3, <3>2
      <4> QED
        BY <1>1, <1>2, <1>9, <3>2, <4>1 DEF LoopInv, ReadsOldRows
    <3> QED
      BY <3>1, <3>2
  <2>3. 0 .. row' - 1 = 0 .. row /\ row' .. NV = row + 1 .. NV
    BY <1>1, <1>3
  <2> QED
    BY <1>1, <1>2, <1>5, <2>1, <2>2, <2>3 DEF ReadsOldRows
<1>13. Removed'
  <2>1. edges_removed = e - count
    BY <1>2 DEF LoopInv, Removed
  <2>2. Rank(e) = count
    BY <1>2, OldFacts, RankAll, RankDef
  <2>3. old'.vertices[row'] = e
    BY <1>1, <1>2
  <2>4. last_offset' = old'.vertices[row'] - Rank(old.vertices[row])'
    BY <1>1, <1>5, <2>1, <2>2, <2>3
  <2> QED
    BY <1>1, <1>2, <1>4, <2>1, <2>4 DEF Removed
<1>14. Decided(Reached)'
  BY <1>1, <1>2, <1>4 DEF LoopInv, Decided, OldRow
<1> QED
  BY <1>1, <1>10, <1>11, <1>12, <1>13, <1>14 DEF IInv, LoopInv

\* At the end of the loop everything has been decided.
LEMMA EndFacts ==
  ASSUME IInv, Publish
  PROVE  /\ CallInv /\ LoopInv
         /\ phase' = "idle" /\ old' = old /\ kept' = kept /\ op' = op
         /\ n_edges' = Cardinality(kept)
         /\ \A u \in 0 .. NV : vertices'[u] = Rank(old.vertices[u])
         /\ vertices' \in [0 .. NV -> 0 .. Cardinality(kept)]
         /\ edges' = [i \in 0 .. Cardinality(kept) - 1 |-> new_edges[i]]
         /\ Decided(old.n_edges)
<1>1. /\ phase = "row" /\ row = NV /\ phase' = "idle" /\ old' = old /\ kept' = kept
      /\ vertices' = [vertices EXCEPT ![NV] = @ - edges_removed]
      /\ n_edges' = count /\ edges' = [i \in 0 .. count - 1 |-> new_edges[i]] /\ op' = op
  BY DEF Publish, history
<1>2. CallInv /\ LoopInv
  BY <1>1 DEF IInv
<1>3. /\ NV \in 0 .. NV /\ old.vertices[NV] = old.n_edges /\ old.n_edges \in Nat
      /\ kept \in SUBSET (0 .. old.n_edges - 1) /\ Cardinality(kept) \in Nat
  BY <1>2, VFacts, OldFacts
<1>4. Reached = old.n_edges
  BY <1>1, <1>3 DEF Reached
<1>5. count = Cardinality(kept) /\ edges_removed = old.n_edges - count
  BY <1>1, <1>2, <1>4 DEF LoopInv, ReadsOldRows, Removed
<1>6. Rank(old.n_edges) = Cardinality(kept)
  BY <1>2, <1>3, <1>4, RankAll, RankDef DEF LoopInv, Removed
<1>7. /\ vertices[NV] = old.vertices[NV]
      /\ \A u \in 0 .. NV - 1 : vertices[u] = Rank(old.vertices[u])
      /\ vertices \in [0 .. NV -> 0 .. n_edges]
  <2>1. NV \in NV .. NV
    BY VFacts
  <2> QED
    BY <1>1, <1>2, <2>1 DEF LoopInv, LoopType, ReadsOldRows
<1>8. ASSUME NEW u \in 0 .. NV PROVE vertices'[u] = Rank(old.vertices[u])
  <2>1. CASE u = NV
    <3>1. old.n_edges - edges_removed = Cardinality(kept)
      BY <1>3, <1>5
    <3> QED
      BY <1>1, <1>3, <1>6, <1>7, <2>1, <3>1
  <2>2. CASE u # NV
    <3>1. u \in 0 .. NV - 1
      BY <2>2, VFacts
    <3> QED
      BY <1>1, <1>7, <2>2, <3>1
  <2> QED
    BY <2>1, <2>2
<1>9. ASSUME NEW u \in 0 .. NV PROVE vertices'[u] \in 0 .. Cardinality(kept)
  <2>1. old.vertices[u] \in Nat /\ old.vertices[u] <= old.n_edges
    BY <1>2, OldFacts
  <2>2. /\ RankIn(kept, old.vertices[u]) \in 0 .. old.vertices[u]
        /\ RankIn(kept, old.vertices[u]) <= RankIn(kept, old.n_edges)
    BY <1>3, <2>1, RankType, RankMono
  <2> QED
    BY <1>3, <1>6, <1>8, <2>1, <2>2, RankDef
<1>10. vertices' \in [0 .. NV -> 0 .. Cardinality(kept)]
  BY <1>1, <1>7, <1>9
<1>11. Decided(old.n_edges)
  BY <1>2, <1>4 DEF LoopInv
<1> QED
  BY <1>1, <1>2, <1>5, <1>8, <1>10, <1>11

\* The published arrays are the CSR of the kept arcs.
LEMMA PublishPreserves == ASSUME IInv, Publish PROVE IInv'
<1>1. /\ CallInv /\ LoopInv
      /\ phase' = "idle" /\ old' = old /\ kept' = kept /\ op' = op
      /\ n_edges' = Cardinality(kept)
      /\ \A u \in 0 .. NV : vertices'[u] = Rank(old.vertices[u])
      /\ vertices' \in [0 .. NV -> 0 .. Cardinality(kept)]
      /\ edges' = [i \in 0 .. Cardinality(kept) - 1 |-> new_edges[i]]
  BY EndFacts
<1>2. /\ old.n_edges \in Nat /\ kept \in SUBSET (0 .. old.n_edges - 1)
      /\ Cardinality(kept) \in Nat
  BY <1>1, OldFacts
<1>3. \A p : Rank(p)' = Rank(p)
  BY <1>1 DEF Rank
<1>4. CallInv'
  BY <1>1 DEF CallInv, WellFormed
<1>5. \A i \in kept : Rank(i) \in 0 .. Cardinality(kept) - 1
  BY <1>1, KeptRanks, RankDef
<1>6. \A i \in kept : edges'[Rank(i)] = old.edges[i]
  BY <1>1, <1>5 DEF LoopInv, Copied
<1>7. Compacted'
  BY <1>1, <1>3, <1>6 DEF Compacted
<1>8. edges' \in [0 .. Cardinality(kept) - 1 -> V]
  <2> SUFFICES ASSUME NEW k \in 0 .. Cardinality(kept) - 1 PROVE new_edges[k] \in V
    BY <1>1
  <2>1. PICK i \in kept : Rank(i) = k
    BY <1>1 DEF LoopInv, Copied
  <2>2. new_edges[k] = old.edges[i]
    BY <1>1, <2>1 DEF LoopInv, Copied
  <2> QED
    BY <1>1, <1>2, <2>2, OldFacts
<1>9. vertices'[0] = 0 /\ vertices'[NV] = Cardinality(kept)
  <2>1. Rank(0) \in 0 .. 0
    BY <1>2, RankType, RankDef
  <2>2. Rank(old.n_edges) = Cardinality(kept)
    BY <1>1, KeptRanks, RankDef
  <2> QED
    BY <1>1, <2>1, <2>2, VFacts, OldFacts
<1>10. ASSUME NEW v \in V PROVE vertices'[v] <= vertices'[v + 1]
  <2>1. v \in 0 .. NV /\ v + 1 \in 0 .. NV /\ v <= v + 1
    BY VFacts
  <2>2. /\ old.vertices[v] \in Nat /\ old.vertices[v + 1] \in Nat
        /\ old.vertices[v] <= old.vertices[v + 1]
    BY <1>1, <2>1, OldFacts
  <2> QED
    BY <1>1, <1>2, <2>1, <2>2, RankMono, RankDef
<1>11. WellFormed(Current)'
  BY <1>1, <1>2, <1>8, <1>9, <1>10 DEF WellFormed, Current
<1> QED
  BY <1>1, <1>4, <1>7, <1>11 DEF IInv

-----------------------------------------------------------------------------
\* Every step of a caller and of the loops keeps the invariant.
LEMMA NextIInv == IInv /\ [Next]_vars => IInv'
<1> SUFFICES ASSUME IInv, [Next]_vars PROVE IInv'
  OBVIOUS
<1>1. CASE CallerStep
  <2>1. Enter /\ op' \in {"color", "edge"}
    BY <1>1 DEF CallerStep, edge_sparsify, color_sparsify
  <2> QED
    BY <2>1, EnterPreserves
<1>2. CASE LoopStep
  BY <1>2, StartRowPreserves, ScanPreserves, EndRowPreserves, PublishPreserves DEF LoopStep
<1>3. CASE UNCHANGED vars
  <2>1. /\ UNCHANGED <<vertices, edges, n_edges, phase, op, colors, row, e, end>>
        /\ UNCHANGED <<count, edges_removed, last_offset, new_edges, old, kept, passes>>
    BY <1>3 DEF vars, graph, locals, history
  <2>2. \A p : Rank(p)' = Rank(p)
    BY <2>1 DEF Rank
  <2>3. CallInv' /\ (phase' = "idle" => WellFormed(Current)' /\ Compacted')
    BY <2>1, <2>2 DEF IInv, CallInv, WellFormed, Current, Compacted
  <2>4. phase' # "idle" => LoopInv'
    BY <2>1, <2>2 DEF IInv, LoopInv, LoopType, ReadsOldRows, Removed, Copied, Decided, Reached, OldRow
  <2> QED
    BY <2>3, <2>4 DEF IInv
<1> QED
  BY <1>1, <1>2, <1>3 DEF Next

(***************************************************************************)
(* The invariant holds in every reachable state of the sparsifiers.        *)
(***************************************************************************)
THEOREM SparsifyInvariant == Spec => []IInv
BY InitIInv, NextIInv, PTL DEF Spec

(***************************************************************************)
(* Every row is read through the pointers the method was called with,      *)
(* although the loop lowers them while it runs.                            *)
(***************************************************************************)
THEOREM SparsifyReadsOldRows == Spec => []ReadsOldRows
<1>1. IInv => ReadsOldRows
  BY DEF IInv, LoopInv, ReadsOldRows
<1> QED
  BY <1>1, SparsifyInvariant, PTL

(***************************************************************************)
(* When a method returns, the arrays are the CSR of the arcs it kept, in   *)
(* their old order, also when it was called on the result of another.      *)
(***************************************************************************)
THEOREM SparsifyCompacted == Spec => []Compacted
<1>1. IInv => Compacted
  BY DEF IInv, Compacted
<1> QED
  BY <1>1, SparsifyInvariant, PTL

-----------------------------------------------------------------------------
\* What the callers see after the return are the kept arcs of each row.
LEMMA PublishSeen ==
  ASSUME IInv, Publish, op = "color", NEW v \in V
  PROVE  Seen'[v] = {w \in Seen[v] : colors[v] = colors[w]}
<1>1. /\ CallInv /\ LoopInv /\ phase = "row"
      /\ phase' = "idle" /\ old' = old /\ kept' = kept
      /\ \A u \in 0 .. NV : vertices'[u] = Rank(old.vertices[u])
      /\ edges' = [i \in 0 .. Cardinality(kept) - 1 |-> new_edges[i]]
      /\ Decided(old.n_edges)
  BY EndFacts DEF Publish
<1>2. /\ Seen[v] = {old.edges[i] : i \in OldRow(v)}
      /\ Seen'[v] = {edges'[k] : k \in vertices'[v] .. vertices'[v + 1] - 1}
  BY <1>1 DEF Seen, Adj, OldRow
<1>3. /\ v \in 0 .. NV /\ v + 1 \in 0 .. NV
      /\ old.n_edges \in Nat /\ kept \in SUBSET (0 .. old.n_edges - 1)
      /\ old.vertices[v] \in Nat /\ old.vertices[v + 1] \in Nat
      /\ old.vertices[v + 1] <= old.n_edges /\ Cardinality(kept) \in Nat
  <2>1. v \in 0 .. NV /\ v + 1 \in 0 .. NV
    BY VFacts
  <2> QED
    BY <1>1, <2>1, OldFacts
<1>4. vertices'[v] = RankIn(kept, old.vertices[v]) /\ vertices'[v + 1] = RankIn(kept, old.vertices[v + 1])
  BY <1>1, <1>3, RankDef
<1>5. /\ RankIn(kept, old.vertices[v]) \in Nat /\ RankIn(kept, old.vertices[v + 1]) \in Nat
      /\ RankIn(kept, old.vertices[v + 1]) <= Cardinality(kept)
  <2>1. RankIn(kept, old.vertices[v + 1]) <= RankIn(kept, old.n_edges)
    BY <1>1, <1>3, KeptRanks
  <2> QED
    BY <1>1, <1>3, <2>1, KeptRanks
<1>6. ASSUME NEW i \in kept PROVE edges'[RankIn(kept, i)] = old.edges[i]
  <2>1. RankIn(kept, i) \in 0 .. Cardinality(kept) - 1
    BY <1>1, KeptRanks
  <2> QED
    BY <1>1, <2>1, RankDef DEF LoopInv, Copied
<1>7. ASSUME NEW k \in vertices'[v] .. vertices'[v + 1] - 1
      PROVE  \E i \in OldRow(v) : edges'[k] = old.edges[i] /\ colors[v] = colors[old.edges[i]]
  <2>1. k \in 0 .. Cardinality(kept) - 1
    BY <1>3, <1>4, <1>5
  <2>2. PICK i \in kept : RankIn(kept, i) = k
    BY <1>1, <2>1, RankDef DEF LoopInv, Copied
  <2>3. i \in Nat
    BY <1>3
  <2>4. old.vertices[v] <= i
    <3>1. i < old.vertices[v] => RankIn(kept, i) < RankIn(kept, old.vertices[v])
      BY <1>1, <1>3, <2>3, KeptRanks
    <3> QED
      BY <1>3, <1>4, <1>5, <2>2, <2>3, <3>1
  <2>5. i < old.vertices[v + 1]
    <3>1. old.vertices[v + 1] <= i => RankIn(kept, old.vertices[v + 1]) <= RankIn(kept, i)
      BY <1>1, <1>3, <2>3, KeptRanks
    <3> QED
      BY <1>3, <1>4, <1>5, <2>2, <2>3, <3>1
  <2>6. i \in OldRow(v) /\ i < old.n_edges
    BY <1>3, <2>3, <2>4, <2>5 DEF OldRow
  <2>7. colors[v] = colors[old.edges[i]]
    BY <1>1, <2>2, <2>6 DEF Decided
  <2> QED
    BY <1>6, <2>2, <2>6, <2>7
<1>8. ASSUME NEW i \in OldRow(v), colors[v] = colors[old.edges[i]]
      PROVE  \E k \in vertices'[v] .. vertices'[v + 1] - 1 : edges'[k] = old.edges[i]
  <2>1. i \in Nat /\ i < old.n_edges /\ old.vertices[v] <= i /\ i < old.vertices[v + 1]
    BY <1>3 DEF OldRow
  <2>2. i \in kept
    BY <1>1, <1>8, <2>1 DEF Decided
  <2>3. /\ RankIn(kept, old.vertices[v]) <= RankIn(kept, i) /\ RankIn(kept, i) \in Nat
        /\ RankIn(kept, i) < RankIn(kept, old.vertices[v + 1])
    BY <1>1, <1>3, <2>1, <2>2, KeptRanks
  <2>4. RankIn(kept, i) \in vertices'[v] .. vertices'[v + 1] - 1
    BY <1>4, <1>5, <2>1, <2>3
  <2> QED
    BY <1>6, <2>2, <2>4
<1> QED
  BY <1>2, <1>7, <1>8

(***************************************************************************)
(* The colour methods drop an arc only between vertices that they separate *)
(* for good, although they work on the arrays in place.                    *)
(***************************************************************************)
THEOREM SparsifySeparates == Spec => ColorSeparates
<1>1. IInv /\ [Next]_vars => [op = "color" => Reduction!Next]_Seen
  <2> SUFFICES ASSUME IInv, [Next]_vars, Seen' # Seen, op = "color" PROVE Reduction!Next
    OBVIOUS
  <2>1. Publish
    <3>1. CASE CallerStep
      <4>1. phase = "idle" /\ phase' # "idle" /\ old' = Current
        BY <3>1 DEF CallerStep, edge_sparsify, color_sparsify, Enter, Current
      <4> QED
        BY <4>1 DEF Seen, Current
    <3>2. CASE StartRow \/ Scan \/ EndRow
      <4>1. phase # "idle" /\ phase' # "idle" /\ old' = old
        BY <3>2 DEF StartRow, Scan, EndRow, history
      <4> QED
        BY <4>1 DEF Seen, Adj
    <3>3. CASE UNCHANGED vars
      BY <3>3 DEF Seen, Adj, vars, graph, history
    <3> QED
      BY <3>1, <3>2, <3>3 DEF Next, LoopStep
  <2>2. \A v \in V : Seen'[v] = {w \in Seen[v] : colors[v] = colors[w]}
    BY <2>1, PublishSeen
  <2>3. \A v \in V : Seen[v] \in SUBSET V
    <3>1. CallInv /\ phase # "idle"
      BY <2>1 DEF Publish, IInv
    <3>2. \A v \in V : Seen[v] = {old.edges[i] : i \in OldRow(v)}
      BY <3>1 DEF Seen, Adj, OldRow
    <3> QED
      BY <3>1, <3>2, OldFacts
  <2>4. ASSUME NEW v \in V, NEW w \in Seen[v] \ Seen'[v]
        PROVE  \E S \in SUBSET V : v \in S /\ w \notin S /\ Reduction!Separated(Seen', S)
    <3> DEFINE S == {u \in V : colors[u] = colors[v]}
    <3>1. v \in S /\ w \notin S /\ S \in SUBSET V
      BY <2>2, <2>3
    <3>2. ASSUME NEW x \in V, NEW y \in Seen'[x] PROVE x \in S <=> y \in S
      <4>1. y \in V /\ colors[x] = colors[y]
        BY <2>2, <2>3
      <4> QED
        BY <4>1
    <3>3. Reduction!Separated(Seen', S)
      BY <3>2 DEF Reduction!Separated
    <3> QED
      BY <3>1, <3>3
  <2>5. DOMAIN Seen' = V
    BY DEF Seen, Adj
  <2>6. \A v \in V : Seen'[v] \subseteq Seen[v]
    BY <2>2
  <2> QED
    BY <2>4, <2>5, <2>6 DEF Reduction!Next, Reduction!Sparsify
<1> QED
  BY <1>1, SparsifyInvariant, PTL DEF Spec, ColorSeparates

=============================================================================

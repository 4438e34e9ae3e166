-------------------------- MODULE WorkSplitProofs ---------------------------
(***************************************************************************)
(* Proofs about WorkSplit, for every set of input files, number of colours *)
(* and length of the program: which pointers of a Graph can be left to a   *)
(* freed block, that the CSR arrays of the graph stay those of a sorted    *)
(* simple graph through every orientation and sparsification, that the     *)
(* rows fit the buffers, that the edge list holds each kept arc once and   *)
(* in order, that the segments and the partitions of the edge cut lose no  *)
(* arc, why a call stops, that the incoming arcs stay those of the file,   *)
(* that each method of the scheduler hands out every task once, and that   *)
(* least_first balances the work.                                          *)
(***************************************************************************)
EXTENDS WorkSplit, PrefixSumProofs, SequenceTheorems

-----------------------------------------------------------------------------
(* The inductive invariant.                                                *)

\* The pointers to a block that no other pointer of these refers to.
Owned == {"vertices", "edges", "vertices_c", "edges_c", "src_list", "stream"}

Members ==
  Owned \cup {"reverse_vertices", "reverse_edges", "dst_list", "n_vertices",
              "n_edges", "n_edges_c", "nnz", "sizes", "max_degree", "MAX_DEGREE"}

History ==
  {"loaded", "arcs", "sym_break", "ascend", "sized", "counted", "oriented", "inPlace",
   "lostList"}

Shape ==
  /\ heap \in Seq(ToSet(heap))
  /\ DOMAIN g = Members /\ DOMAIN past = History
  /\ past.oriented \in BOOLEAN /\ past.lostList \in BOOLEAN /\ past.inPlace \in BOOLEAN

\* Block p is allocated and not freed.
IsBlock(b) == DOMAIN b = {"live", "data"} /\ b.live = TRUE
Live(p) == p \in DOMAIN heap /\ IsBlock(heap[p])

(***************************************************************************)
(* A pointer of Owned is NULL or has a block of its own, and the two       *)
(* pointers of a pair are NULL together.                                   *)
(***************************************************************************)
Ownership ==
  /\ \A m \in Owned : g[m] # NULL => Live(g[m])
  /\ \A m, k \in Owned : m # k /\ g[m] # NULL => g[m] # g[k]
  /\ g.vertices # NULL /\ g.edges # NULL
  /\ g.vertices_c = NULL <=> g.edges_c = NULL

(***************************************************************************)
(* dst_list may be an edge array that is or was the graph's, but is never  *)
(* an array of row pointers: orientation frees it only as g.edges.         *)
(***************************************************************************)
List ==
  /\ g.src_list = NULL <=> g.dst_list = NULL
  /\ g.dst_list # NULL /\ ~past.lostList => Live(g.dst_list)
  /\ g.dst_list # NULL => /\ g.dst_list \in DOMAIN heap
                          /\ g.dst_list \notin {g.vertices, g.vertices_c}
  /\ past.lostList => past.oriented

\* Nothing but orientation frees the arrays of the incoming arcs; that of the
\* arcs is never used for row pointers.
Incoming ==
  /\ ~past.oriented => Live(g.reverse_vertices) /\ Live(g.reverse_edges)
  /\ g.reverse_edges \in DOMAIN heap /\ g.reverse_edges \notin {g.vertices, g.vertices_c}

Deleted == status \in {"destroyed", "double_free"}

\* A method of Scheduler or PartitionedGraph runs on a graph that is whole.
Undisturbed == phase \notin {"idle", "done"} => status = "ok"

Blamed == status \in {"freed", "double_free"} => past.oriented /\ past.lostList

IInv ==
  /\ Shape /\ Undisturbed /\ Blamed
  /\ ~Deleted => Ownership /\ List /\ Incoming

-----------------------------------------------------------------------------
(* The heap.                                                               *)

\* A sequence is one over its own elements.
LEMMA SelfSeq == \A T, h : h \in Seq(T) => h \in Seq(ToSet(h))
<1> SUFFICES ASSUME NEW T, NEW h \in Seq(T)
             PROVE  h \in Seq(ToSet(h))
  OBVIOUS
<1>1. DOMAIN h = 1 .. Len(h) /\ Len(h) \in Nat
  OBVIOUS
<1>2. \A i \in 1 .. Len(h) : h[i] \in ToSet(h)
  BY <1>1 DEF ToSet
<1>3. h = [i \in 1 .. Len(h) |-> h[i]]
  BY <1>1
<1> QED
  BY <1>1, <1>2, <1>3, SeqDef

\* What appending a sequence of blocks keeps and adds.
LEMMA Appended ==
  ASSUME NEW T, NEW h \in Seq(T), NEW U, NEW t \in Seq(U)
  PROVE  /\ h \o t \in Seq(T \cup U)
         /\ Len(h \o t) = Len(h) + Len(t)
         /\ DOMAIN h = 1 .. Len(h) /\ Len(h) \in Nat
         /\ DOMAIN (h \o t) = 1 .. Len(h) + Len(t)
         /\ \A p \in DOMAIN h : (h \o t)[p] = h[p]
         /\ \A i \in 1 .. Len(t) : (h \o t)[Len(h) + i] = t[i]
<1>1. h \in Seq(T \cup U) /\ t \in Seq(T \cup U)
  OBVIOUS
<1> QED
  BY <1>1

\* Freeing blocks leaves the others as they are.
LEMMA FreedFacts ==
  ASSUME NEW T, heap \in Seq(T), NEW S
  PROVE  /\ Freed(S) \in Seq(ToSet(Freed(S)))
         /\ DOMAIN Freed(S) = DOMAIN heap /\ Len(Freed(S)) = Len(heap)
         /\ \A p \in DOMAIN heap \ S : Freed(S)[p] = heap[p]
<1>1. DOMAIN heap = 1 .. Len(heap) /\ Len(heap) \in Nat
  OBVIOUS
<1>2. Freed(S) = [p \in 1 .. Len(heap) |-> Freed(S)[p]] /\ DOMAIN Freed(S) = 1 .. Len(heap)
  BY <1>1 DEF Freed
<1>3. \A i \in 1 .. Len(heap) : Freed(S)[i] \in ToSet(Freed(S))
  BY <1>2 DEF ToSet
<1>4. Freed(S) \in Seq(ToSet(Freed(S)))
  BY <1>1, <1>2, <1>3, SeqDef
<1>5. Len(Freed(S)) = Len(heap)
  BY <1>1, <1>2, <1>4
<1>6. \A p \in DOMAIN heap \ S : Freed(S)[p] = heap[p]
  BY DEF Freed
<1> QED
  BY <1>1, <1>2, <1>4, <1>5, <1>6

\* What a step that frees the blocks S does to the heap.
Grows(S) ==
  /\ heap' \in Seq(ToSet(heap')) /\ DOMAIN heap \subseteq DOMAIN heap'
  /\ \A p : p \notin S /\ Live(p) => Live(p)'

\* Block p is allocated by the step.
IsNew(p) == p \notin DOMAIN heap /\ p # NULL /\ Live(p)'

\* The blocks of h, the heap after frees and writes, that are still live.
Preserves(h, S) ==
  /\ h \in Seq(ToSet(h)) /\ DOMAIN h = DOMAIN heap /\ Len(h) = Len(heap)
  /\ \A p \in DOMAIN heap \ S :
       IsBlock(heap[p]) => IsBlock(h[p])

LEMMA BlockIsBlock == \A x : IsBlock(Block(x))
BY DEF Block, IsBlock

\* An allocation of one block, and of two.
LEMMA GrowsByOne ==
  ASSUME NEW h, NEW S, Preserves(h, S), NEW x, heap' = h \o <<Block(x)>>
  PROVE  Grows(S) /\ \E a : a = Fresh(1) /\ IsNew(a)
<1>1. PICK a, t : a = Fresh(1) /\ t = <<Block(x)>>
  OBVIOUS
<1>2. h \in Seq(ToSet(h)) /\ DOMAIN h = DOMAIN heap /\ a = Len(h) + 1 /\ heap' = h \o t
  BY <1>1, Zenon DEF Preserves, Fresh
<1>3. t \in Seq({Block(x)}) /\ Len(t) = 1 /\ t[1] = Block(x)
  BY <1>1
<1>4. /\ heap' \in Seq(ToSet(h) \cup {Block(x)})
      /\ DOMAIN h = 1 .. Len(h) /\ Len(h) \in Nat
      /\ DOMAIN heap' = 1 .. Len(h) + 1
      /\ \A p \in DOMAIN h : heap'[p] = h[p]
      /\ heap'[Len(h) + 1] = Block(x)
  BY <1>2, <1>3, Appended
<1>5. /\ a \notin DOMAIN heap /\ a # NULL
      /\ a \in DOMAIN heap' /\ DOMAIN heap \subseteq DOMAIN heap'
  BY <1>2, <1>4 DEF NULL
<1>6. heap' \in Seq(ToSet(heap'))
  BY <1>4, SelfSeq, Zenon
<1>7. IsNew(a)
  BY <1>2, <1>4, <1>5, BlockIsBlock, Zenon DEF IsNew, Live
<1>8. \A p : p \notin S /\ Live(p) => Live(p)'
  BY <1>2, <1>4, <1>5, Zenon DEF Live, Preserves
<1> QED
  BY <1>1, <1>5, <1>6, <1>7, <1>8, Zenon DEF Grows

LEMMA GrowsByTwo ==
  ASSUME NEW h, NEW S, Preserves(h, S), NEW x, NEW y,
         heap' = h \o <<Block(x), Block(y)>>
  PROVE  /\ Grows(S)
         /\ \E a, b : a = Fresh(1) /\ b = Fresh(2) /\ a # b /\ IsNew(a) /\ IsNew(b)
<1>1. PICK a, b, t : a = Fresh(1) /\ b = Fresh(2) /\ t = <<Block(x), Block(y)>>
  OBVIOUS
<1>2. /\ h \in Seq(ToSet(h)) /\ DOMAIN h = DOMAIN heap
      /\ a = Len(h) + 1 /\ b = Len(h) + 2 /\ heap' = h \o t
  BY <1>1, Zenon DEF Preserves, Fresh
<1>3. t \in Seq({Block(x), Block(y)}) /\ Len(t) = 2 /\ t[1] = Block(x) /\ t[2] = Block(y)
  BY <1>1
<1>4. /\ heap' \in Seq(ToSet(h) \cup {Block(x), Block(y)})
      /\ DOMAIN h = 1 .. Len(h) /\ Len(h) \in Nat
      /\ DOMAIN heap' = 1 .. Len(h) + 2
      /\ \A p \in DOMAIN h : heap'[p] = h[p]
      /\ heap'[Len(h) + 1] = Block(x) /\ heap'[Len(h) + 2] = Block(y)
  BY <1>2, <1>3, Appended
<1>5. /\ a \notin DOMAIN heap /\ a # NULL /\ b \notin DOMAIN heap /\ b # NULL /\ a # b
      /\ a \in DOMAIN heap' /\ b \in DOMAIN heap' /\ DOMAIN heap \subseteq DOMAIN heap'
  BY <1>2, <1>4 DEF NULL
<1>6. heap' \in Seq(ToSet(heap'))
  BY <1>4, SelfSeq, Zenon
<1>7. IsNew(a) /\ IsNew(b)
  BY <1>2, <1>4, <1>5, BlockIsBlock, Zenon DEF IsNew, Live
<1>8. \A p : p \notin S /\ Live(p) => Live(p)'
  BY <1>2, <1>4, <1>5, Zenon DEF Live, Preserves
<1> QED
  BY <1>1, <1>5, <1>6, <1>7, <1>8, Zenon DEF Grows

-----------------------------------------------------------------------------
(* The methods of Graph.                                                   *)

\* What the steps of a graph in use start from.
LEMMA InUse == IInv /\ Called => Shape /\ Ownership /\ List /\ Incoming /\ status = "ok"
BY DEF Called, IInv, Deleted

LEMMA OrientationIInv ==
  ASSUME IInv, NEW buffers, Orient(buffers), UNCHANGED phase
  PROVE  IInv'
<1>1. /\ Shape /\ Ownership /\ List /\ Incoming
      /\ status = "ok" /\ status' = "ok"
  BY InUse DEF Orient
<1>2. PICK x, y : heap' = Freed({g.vertices, g.edges}) \o <<Block(x), Block(y)>>
  BY Zenon DEF Orient
<1>3. PICK S : S = {g.vertices, g.edges}
  OBVIOUS
<1>4. Preserves(Freed(S), S)
  BY <1>1, FreedFacts DEF Shape, Preserves
<1>5. Grows(S) /\ \E a, b : a = Fresh(1) /\ b = Fresh(2) /\ a # b /\ IsNew(a) /\ IsNew(b)
  BY <1>2, <1>3, <1>4, GrowsByTwo
<1>6. PICK a, b : a = Fresh(1) /\ b = Fresh(2) /\ a # b /\ IsNew(a) /\ IsNew(b)
  BY <1>5, Zenon
<1>7. /\ DOMAIN g' = Members /\ g'.vertices = a /\ g'.edges = b
      /\ \A m \in Members \ {"vertices", "edges", "n_edges", "max_degree", "MAX_DEGREE"} : g'[m] = g[m]
  BY <1>1, <1>6 DEF Orient, Shape, Members, Owned
<1>8. /\ DOMAIN past' = History /\ past'.oriented = TRUE /\ past'.inPlace = past.inPlace
      /\ past'.lostList = (past.lostList \/ g.dst_list = g.edges)
  BY <1>1 DEF Orient, Shape, History
<1>9. Shape'
  BY <1>1, <1>5, <1>7, <1>8 DEF Shape, Grows
<1>10. Ownership'
  BY <1>1, <1>3, <1>5, <1>6, <1>7 DEF Ownership, Owned, Members, Live, Grows, IsNew
<1>11. List'
  BY <1>1, <1>3, <1>5, <1>6, <1>7, <1>8
  DEF List, Owned, Members, Live, Ownership, Grows, IsNew
<1>12. Incoming'
  BY <1>1, <1>5, <1>6, <1>7, <1>8 DEF Incoming, Owned, Members, Live, Grows, IsNew
<1> QED
  BY <1>1, <1>9, <1>10, <1>11, <1>12 DEF IInv, Undisturbed, Blamed

\* The heap as it is preserves every block.
LEMMA HeapPreserves == Shape => Preserves(heap, {})
BY DEF Shape, Preserves

LEMMA SparsifyFastIInv ==
  ASSUME IInv, NEW c, color_sparsify_fast(c), UNCHANGED phase
  PROVE  IInv'
<1>1. /\ Shape /\ Ownership /\ List /\ Incoming
      /\ status = "ok" /\ status' = "ok" /\ past' = past
  BY InUse DEF color_sparsify_fast
<1>2. PICK new : /\ heap' = heap \o <<Block(new.vertices), Block(new.edges)>>
                 /\ g' = [g EXCEPT !.vertices = Fresh(1), !.edges = Fresh(2),
                                   !.n_edges = new.n_edges]
  BY Zenon DEF color_sparsify_fast
<1>3. Grows({}) /\ \E a, b : a = Fresh(1) /\ b = Fresh(2) /\ a # b /\ IsNew(a) /\ IsNew(b)
  BY <1>1, <1>2, HeapPreserves, GrowsByTwo
<1>4. PICK a, b : a = Fresh(1) /\ b = Fresh(2) /\ a # b /\ IsNew(a) /\ IsNew(b)
  BY <1>3, Zenon
<1>5. /\ DOMAIN g' = Members /\ g'.vertices = a /\ g'.edges = b
      /\ \A m \in Members \ {"vertices", "edges", "n_edges"} : g'[m] = g[m]
  BY <1>1, <1>2, <1>4 DEF Shape, Members, Owned
<1>6. Shape'
  BY <1>1, <1>3, <1>5 DEF Shape, Grows
<1>7. Ownership'
  BY <1>1, <1>3, <1>4, <1>5 DEF Ownership, Owned, Members, Live, Grows, IsNew
<1>8. List'
  BY <1>1, <1>3, <1>4, <1>5 DEF List, Owned, Members, Live, Grows, IsNew
<1>9. Incoming'
  BY <1>1, <1>3, <1>4, <1>5 DEF Incoming, Owned, Members, Live, Grows, IsNew
<1> QED
  BY <1>1, <1>6, <1>7, <1>8, <1>9 DEF IInv, Undisturbed, Blamed

LEMMA SparsifyFastDIInv ==
  ASSUME IInv, NEW c, color_sparsify_fast_d(c), UNCHANGED phase
  PROVE  IInv'
<1>1. /\ Shape /\ Ownership /\ List /\ Incoming
      /\ status = "ok" /\ status' = "ok" /\ past' = past
  BY InUse DEF color_sparsify_fast_d
<1>2. PICK new : /\ heap' = heap \o <<Block(new.vertices), Block(new.edges)>>
                 /\ g' = [g EXCEPT !.vertices_c = Fresh(1), !.edges_c = Fresh(2),
                                   !.n_edges_c = new.n_edges]
  BY Zenon DEF color_sparsify_fast_d
<1>3. Grows({}) /\ \E a, b : a = Fresh(1) /\ b = Fresh(2) /\ a # b /\ IsNew(a) /\ IsNew(b)
  BY <1>1, <1>2, HeapPreserves, GrowsByTwo
<1>4. PICK a, b : a = Fresh(1) /\ b = Fresh(2) /\ a # b /\ IsNew(a) /\ IsNew(b)
  BY <1>3, Zenon
<1>5. /\ DOMAIN g' = Members /\ g'.vertices_c = a /\ g'.edges_c = b
      /\ \A m \in Members \ {"vertices_c", "edges_c", "n_edges_c"} : g'[m] = g[m]
  BY <1>1, <1>2, <1>4 DEF Shape, Members, Owned
<1>6. Shape'
  BY <1>1, <1>3, <1>5 DEF Shape, Grows
<1>7. Ownership'
  BY <1>1, <1>3, <1>4, <1>5 DEF Ownership, Owned, Members, Live, Grows, IsNew
<1>8. List'
  BY <1>1, <1>3, <1>4, <1>5 DEF List, Owned, Members, Live, Grows, IsNew
<1>9. Incoming'
  BY <1>1, <1>3, <1>4, <1>5 DEF Incoming, Owned, Members, Live, Grows, IsNew
<1> QED
  BY <1>1, <1>6, <1>7, <1>8, <1>9 DEF IInv, Undisturbed, Blamed

LEMMA SameObject ==
  ASSUME IInv, status = "ok", phase = "idle", UNCHANGED <<heap, g, past, phase>>,
         status' \in {"ok", "overrun", "uninitialized"}
  PROVE  IInv'
BY DEF IInv, Shape, Ownership, List, Incoming, Live, Undisturbed, Blamed, Deleted

\* A swap, and one without a second CSR, at which the program ends.
Swaps ==
  /\ Called /\ g.vertices_c # NULL /\ UNCHANGED <<heap, status, past>>
  /\ g' = [g EXCEPT !.vertices = g.vertices_c, !.vertices_c = g.vertices,
                    !.edges = g.edges_c, !.edges_c = g.edges,
                    !.n_edges = g.n_edges_c, !.n_edges_c = g.n_edges]

SwapFails ==
  Called /\ status' = "uninitialized" /\ g.vertices_c = NULL /\ UNCHANGED <<heap, g, past>>

LEMMA SwapCases == swap_graph_mode => Swaps \/ SwapFails
BY DEF swap_graph_mode, Swaps, SwapFails

LEMMA SwapIInv ==
  ASSUME IInv, Swaps, UNCHANGED phase
  PROVE  IInv'
<1>1. /\ Shape /\ Ownership /\ List /\ Incoming
      /\ status = "ok" /\ status' = "ok" /\ past' = past /\ heap' = heap
      /\ g.vertices_c # NULL
  BY InUse DEF Swaps
<1>2. /\ DOMAIN g' = Members
      /\ g'.vertices = g.vertices_c /\ g'.vertices_c = g.vertices
      /\ g'.edges = g.edges_c /\ g'.edges_c = g.edges
      /\ \A m \in {"src_list", "dst_list", "stream", "reverse_vertices", "reverse_edges"} :
           g'[m] = g[m]
  BY <1>1 DEF Swaps, Shape, Members, Owned
<1>3. Shape'
  BY <1>1, <1>2 DEF Shape
<1>4. Ownership'
  BY <1>1, <1>2 DEF Ownership, Owned, Live
<1>5. List'
  BY <1>1, <1>2 DEF List, Live
<1>6. Incoming'
  BY <1>1, <1>2 DEF Incoming, Live
<1> QED
  BY <1>1, <1>3, <1>4, <1>5, <1>6 DEF IInv, Undisturbed, Blamed

LEMMA SparsifyIInv ==
  ASSUME IInv, NEW c, color_sparsify(c), UNCHANGED phase
  PROVE  IInv'
<1>1. /\ Shape /\ Ownership /\ List /\ Incoming
      /\ status = "ok" /\ status' = "ok"
      /\ past' = [past EXCEPT !.inPlace = @ \/ g.vertices = g.reverse_vertices]
  BY InUse DEF color_sparsify
<1>2. PICK n, v, e : /\ heap' = [heap EXCEPT ![g.vertices].data = v] \o <<Block(e)>>
                     /\ g' = [g EXCEPT !.edges = Fresh(1), !.n_edges = n]
  BY Zenon DEF color_sparsify
<1>3. PICK h : h = [heap EXCEPT ![g.vertices].data = v]
  OBVIOUS
<1>4. Preserves(h, {})
  <2>1. DOMAIN heap = 1 .. Len(heap) /\ Len(heap) \in Nat
    BY <1>1 DEF Shape
  <2>2. h = [p \in 1 .. Len(heap) |-> h[p]] /\ DOMAIN h = 1 .. Len(heap)
    BY <1>3, <2>1
  <2>3. \A i \in 1 .. Len(heap) : h[i] \in ToSet(h)
    BY <2>2 DEF ToSet
  <2>4. h \in Seq(ToSet(h))
    BY <2>1, <2>2, <2>3, SeqDef
  <2>5. Len(h) = Len(heap)
    BY <2>1, <2>2, <2>4
  <2>6. g.vertices \in DOMAIN heap /\ IsBlock(heap[g.vertices])
    BY <1>1 DEF Ownership, Owned, Live
  <2>7. IsBlock(h[g.vertices])
    <3>1. h[g.vertices] = [heap[g.vertices] EXCEPT !.data = v]
      BY <1>3, <2>6
    <3> QED
      BY <2>6, <3>1 DEF IsBlock
  <2>8. \A p \in DOMAIN heap : p # g.vertices => h[p] = heap[p]
    BY <1>3
  <2> QED
    BY <2>1, <2>2, <2>4, <2>5, <2>7, <2>8, BlockIsBlock, Zenon DEF Preserves
<1>5. Grows({}) /\ \E a : a = Fresh(1) /\ IsNew(a)
  BY <1>2, <1>3, <1>4, GrowsByOne
<1>6. PICK a : a = Fresh(1) /\ IsNew(a)
  BY <1>5, Zenon
<1>7. /\ DOMAIN g' = Members /\ g'.edges = a
      /\ \A m \in Members \ {"edges", "n_edges"} : g'[m] = g[m]
  BY <1>1, <1>2, <1>6 DEF Shape, Members, Owned
<1>8. /\ DOMAIN past' = History /\ past'.inPlace \in BOOLEAN
      /\ past'.oriented = past.oriented /\ past'.lostList = past.lostList
  BY <1>1 DEF Shape, History
<1>9. Shape'
  BY <1>1, <1>5, <1>7, <1>8 DEF Shape, Grows
<1>10. Ownership'
  BY <1>1, <1>5, <1>6, <1>7 DEF Ownership, Owned, Members, Live, Grows, IsNew
<1>11. List'
  BY <1>1, <1>5, <1>6, <1>7, <1>8 DEF List, Owned, Members, Live, Grows, IsNew
<1>12. Incoming'
  BY <1>1, <1>5, <1>6, <1>7, <1>8 DEF Incoming, Owned, Members, Live, Grows, IsNew
<1> QED
  BY <1>1, <1>9, <1>10, <1>11, <1>12 DEF IInv, Undisturbed, Blamed

\* A step that changes no member and no block keeps the invariant.
LEMMA SimpleListIInv ==
  ASSUME IInv, phase = "idle", init_simple_edgelist, UNCHANGED phase
  PROVE  IInv'
<1>1. /\ Shape /\ Ownership /\ List /\ Incoming
      /\ status = "ok" /\ status' = "ok"
  BY InUse DEF init_simple_edgelist
<1>2. CASE g.nnz # 0
  BY <1>1, <1>2, SameObject DEF init_simple_edgelist
<1>3. CASE g.nnz = 0
  <2>1. PICK x, y : /\ heap' = heap \o <<Block(x), Block(y)>>
                    /\ g' = [g EXCEPT !.nnz = g.n_edges,
                                      !.src_list = Fresh(1), !.dst_list = Fresh(2)]
                    /\ past' = Remembered(FALSE, FALSE)
    BY <1>3, Zenon DEF init_simple_edgelist
  <2>2. Grows({}) /\ \E a, b : a = Fresh(1) /\ b = Fresh(2) /\ a # b /\ IsNew(a) /\ IsNew(b)
    BY <1>1, <2>1, HeapPreserves, GrowsByTwo
  <2>3. PICK a, b : a = Fresh(1) /\ b = Fresh(2) /\ a # b /\ IsNew(a) /\ IsNew(b)
    BY <2>2, Zenon
  <2>4. /\ DOMAIN g' = Members /\ g'.src_list = a /\ g'.dst_list = b
        /\ \A m \in Members \ {"src_list", "dst_list", "nnz"} : g'[m] = g[m]
    BY <1>1, <2>1, <2>3 DEF Shape, Members, Owned
  <2>5. /\ DOMAIN past' = History /\ past'.inPlace = past.inPlace
        /\ past'.oriented = past.oriented /\ past'.lostList = FALSE
    BY <1>1, <2>1 DEF Shape, History, Remembered
  <2>6. Shape'
    BY <1>1, <2>2, <2>4, <2>5 DEF Shape, Grows
  <2>7. Ownership'
    <3>1. \A m \in Owned \ {"src_list"} : g'[m] = g[m] /\ (g[m] # NULL => g[m] \in DOMAIN heap)
      BY <1>1, <2>4 DEF Ownership, Owned, Members, Live
    <3>2. (\A m \in Owned : g[m] # NULL => Live(g[m]))'
      BY <1>1, <2>2, <2>3, <2>4, <3>1 DEF Ownership, Owned, Live, Grows, IsNew
    <3>3. \A m, k \in Owned : m # k /\ g'[m] # NULL => g'[m] # g'[k]
      BY <1>1, <2>3, <2>4, <3>1 DEF Ownership, Owned, IsNew
    <3> QED
      BY <1>1, <2>4, <3>1, <3>2, <3>3 DEF Ownership, Owned
  <2>8. List'
    BY <1>1, <2>2, <2>3, <2>4, <2>5 DEF Ownership, List, Owned, Members, Live, Grows, IsNew
  <2>9. Incoming'
    BY <1>1, <2>2, <2>3, <2>4, <2>5 DEF Incoming, Owned, Members, Live, Grows, IsNew
  <2> QED
    BY <1>1, <2>6, <2>7, <2>8, <2>9 DEF IInv, Undisturbed, Blamed
<1> QED
  BY <1>2, <1>3

LEMMA StreamIInv ==
  ASSUME IInv, phase = "idle", create_edge_stream, UNCHANGED phase
  PROVE  IInv'
<1>1. /\ Shape /\ Ownership /\ List /\ Incoming
      /\ status = "ok" /\ status' = "ok" /\ past' = past
  BY InUse DEF create_edge_stream
<1>2. CASE g.nnz # 0
  BY <1>1, <1>2, SameObject DEF create_edge_stream
<1>3. CASE g.nnz = 0
  <2>1. PICK x : /\ heap' = Append(heap, Block(x))
                 /\ g' = [g EXCEPT !.nnz = g.n_edges, !.stream = Fresh(1)]
    BY <1>3, Zenon DEF create_edge_stream
  <2>2. heap' = heap \o <<Block(x)>>
    BY <1>1, <2>1, AppendIsConcat DEF Shape
  <2>3. Grows({}) /\ \E a : a = Fresh(1) /\ IsNew(a)
    BY <1>1, <2>2, HeapPreserves, GrowsByOne
  <2>4. PICK a : a = Fresh(1) /\ IsNew(a)
    BY <2>3, Zenon
  <2>5. /\ DOMAIN g' = Members /\ g'.stream = a
        /\ \A m \in Members \ {"stream", "nnz"} : g'[m] = g[m]
    BY <1>1, <2>1, <2>4 DEF Shape, Members, Owned
  <2>6. Shape'
    BY <1>1, <2>3, <2>5 DEF Shape, Grows
  <2>7. Ownership'
    BY <1>1, <2>3, <2>4, <2>5 DEF Ownership, Owned, Members, Live, Grows, IsNew
  <2>8. List'
    BY <1>1, <2>3, <2>4, <2>5 DEF List, Owned, Members, Live, Grows, IsNew
  <2>9. Incoming'
    BY <1>1, <2>3, <2>4, <2>5 DEF Incoming, Owned, Members, Live, Grows, IsNew
  <2> QED
    BY <1>1, <2>6, <2>7, <2>8, <2>9 DEF IInv, Undisturbed, Blamed
<1> QED
  BY <1>2, <1>3

\* With sym_break both lists are new; without, dst_list is the edge array.
LEMMA MakeListIInv ==
  ASSUME IInv, phase = "idle", status = "ok", NEW sym_break \in BOOLEAN, NEW ascend,
         MakeList(sym_break, ascend), UNCHANGED phase
  PROVE  IInv'
<1>1. Shape /\ Ownership /\ List /\ Incoming
  BY DEF IInv, Deleted
<1> DEFINE list == Listed([v \in V |-> Tasks(v, sym_break, ascend)])
           size == IF sym_break THEN g.n_edges \div 2 ELSE g.n_edges
<1>2. CASE Len(list) > size
  BY <1>2, SameObject DEF MakeList
<1>3. CASE ~ (Len(list) > size)
  <2>1. PICK x, y, n, z, len :
          /\ heap' = heap \o <<Block(x)>> \o (IF sym_break THEN <<Block(y)>> ELSE <<>>)
          /\ g' = [g EXCEPT !.nnz = n, !.src_list = Fresh(1),
                            !.dst_list = IF sym_break THEN Fresh(2) ELSE g.edges,
                            !.sizes = z]
          /\ past' = [Remembered(sym_break, ascend) EXCEPT !.sized = len, !.counted = TRUE]
          /\ status' = status
    <3> DEFINE old == IF g.sizes = <<>> THEN [v \in V |-> 0] ELSE g.sizes
               new_sizes == [v \in V |-> old[v] + Len(Tasks(v, sym_break, ascend))]
    <3>1. /\ heap' = heap \o <<Block(Filled(size, list, 1))>>
                     \o (IF sym_break THEN <<Block(Filled(size, list, 2))>> ELSE <<>>)
          /\ g' = [g EXCEPT !.nnz = size, !.src_list = Fresh(1),
                            !.dst_list = IF sym_break THEN Fresh(2) ELSE g.edges,
                            !.sizes = new_sizes]
          /\ past' = [Remembered(sym_break, ascend) EXCEPT !.sized = past.sized + Len(list), !.counted = TRUE]
          /\ status' = status
      BY <1>3 DEF MakeList
    <3> HIDE DEF list, size, old, new_sizes
    <3> QED
      BY <3>1, Zenon
  <2>2. /\ DOMAIN past' = History /\ past'.inPlace = past.inPlace
        /\ past'.oriented = past.oriented /\ past'.lostList = FALSE
    <3>1. PICK r : r = Remembered(sym_break, ascend)
      OBVIOUS
    <3>2. /\ DOMAIN r = History /\ r.inPlace = past.inPlace
          /\ r.oriented = past.oriented /\ r.lostList = FALSE
      BY <1>1, <3>1 DEF Remembered, Shape, History
    <3> QED
      BY <2>1, <3>1, <3>2 DEF History
  <2>3. \E a : /\ Grows({}) /\ IsNew(a)
               /\ DOMAIN g' = Members /\ g'.src_list = a
               /\ \A m \in Members \ {"src_list", "dst_list", "nnz", "sizes"} : g'[m] = g[m]
               /\ \E d : g'.dst_list = d /\ d # a /\ (d = g.edges \/ IsNew(d))
    <3>1. CASE sym_break
      <4>1. heap' = heap \o <<Block(x), Block(y)>>
        BY <1>1, <2>1, <3>1 DEF Shape
      <4>2. /\ Grows({})
            /\ \E a, b : a = Fresh(1) /\ b = Fresh(2) /\ a # b /\ IsNew(a) /\ IsNew(b)
        BY <1>1, <4>1, HeapPreserves, GrowsByTwo
      <4>3. PICK a, b : a = Fresh(1) /\ b = Fresh(2) /\ a # b /\ IsNew(a) /\ IsNew(b)
        BY <4>2, Zenon
      <4>4. /\ DOMAIN g' = Members /\ g'.src_list = a /\ g'.dst_list = b
            /\ \A m \in Members \ {"src_list", "dst_list", "nnz", "sizes"} : g'[m] = g[m]
        BY <1>1, <2>1, <3>1, <4>3 DEF Shape, Members, Owned
      <4> QED
        BY <4>2, <4>3, <4>4
    <3>2. CASE ~sym_break
      <4>1. heap' = heap \o <<Block(x)>>
        BY <1>1, <2>1, <3>2 DEF Shape
      <4>2. Grows({}) /\ \E a : a = Fresh(1) /\ IsNew(a)
        BY <1>1, <4>1, HeapPreserves, GrowsByOne
      <4>3. PICK a : a = Fresh(1) /\ IsNew(a)
        BY <4>2, Zenon
      <4>4. /\ DOMAIN g' = Members /\ g'.src_list = a /\ g'.dst_list = g.edges
            /\ \A m \in Members \ {"src_list", "dst_list", "nnz", "sizes"} : g'[m] = g[m]
        BY <1>1, <2>1, <3>2, <4>3 DEF Shape, Members, Owned
      <4>5. g.edges # a
        BY <1>1, <4>3 DEF Ownership, Owned, Live, IsNew
      <4> QED
        BY <4>2, <4>3, <4>4, <4>5
    <3> QED
      BY <3>1, <3>2
  <2>4. PICK a, d : /\ Grows({}) /\ IsNew(a)
                    /\ DOMAIN g' = Members /\ g'.src_list = a
                    /\ \A m \in Members \ {"src_list", "dst_list", "nnz", "sizes"} :
                         g'[m] = g[m]
                    /\ g'.dst_list = d /\ d # a /\ (d = g.edges \/ IsNew(d))
    BY <2>3, Zenon
  <2>5. Shape'
    BY <1>1, <2>2, <2>4 DEF Shape, Grows
  <2>6. Ownership'
    BY <1>1, <2>4 DEF Ownership, Owned, Members, Live, Grows, IsNew
  <2>7. List'
    BY <1>1, <2>2, <2>4 DEF Ownership, List, Owned, Members, Live, Grows, IsNew
  <2>8. Incoming'
    BY <1>1, <2>2, <2>4 DEF Incoming, Owned, Members, Live, Grows, IsNew
  <2> QED
    BY <1>1, <2>1, <2>5, <2>6, <2>7, <2>8 DEF IInv, Undisturbed, Blamed
<1> QED
  BY <1>2, <1>3

LEMMA DestroyIInv ==
  ASSUME IInv, phase = "idle", destroy, UNCHANGED phase
  PROVE  IInv'
<1>1. /\ Shape /\ Ownership /\ List /\ Incoming
      /\ status = "ok" /\ g' = g /\ past' = past
  BY InUse DEF destroy
<1>2. PICK S : /\ S = {g.edges, g.vertices} \cup ({g.src_list, g.dst_list} \ {NULL})
               /\ status' = IF \E p \in S : ~heap[p].live THEN "double_free" ELSE "destroyed"
               /\ heap' = Freed(S)
  BY Zenon DEF destroy
<1>3. heap' \in Seq(ToSet(heap'))
  BY <1>1, <1>2, FreedFacts, Zenon DEF Shape
<1>4. Shape'
  BY <1>1, <1>3 DEF Shape
<1>5. status' \in {"double_free", "destroyed"}
  BY <1>2
<1>6. ASSUME ~past.lostList PROVE status' = "destroyed"
  <2>1. \A p \in S : Live(p)
    BY <1>1, <1>2, <1>6 DEF Ownership, Owned, List
  <2>2. \A p \in S : heap[p].live = TRUE
    BY <2>1, Zenon DEF Live, IsBlock
  <2> QED
    BY <1>2, <2>2, Zenon
<1>7. past.lostList => past.oriented
  BY <1>1 DEF List
<1> QED
  BY <1>1, <1>4, <1>5, <1>6, <1>7 DEF IInv, Undisturbed, Blamed, Deleted

\* Every call of a method.
LEMMA CallGraphIInv == IInv /\ CallGraph => IInv'
<1> SUFFICES ASSUME IInv, CallGraph PROVE IInv'
  OBVIOUS
<1>1. phase = "idle" /\ phase' = phase /\ GraphStep
  BY DEF CallGraph, Idle, svars
<1>2. ASSUME NEW buffers, Orient(buffers) PROVE IInv'
  BY <1>1, <1>2, OrientationIInv
<1>3. CASE swap_graph_mode
  <2>1. CASE Swaps
    BY <1>1, <2>1, SwapIInv
  <2>2. CASE SwapFails
    BY <1>1, <2>2, SameObject DEF SwapFails, Called
  <2> QED
    BY <1>3, <2>1, <2>2, SwapCases
<1>4. ASSUME NEW c \in 1 .. MaxColors, color_sparsify_fast(c) PROVE IInv'
  BY <1>1, <1>4, SparsifyFastIInv
<1>5. ASSUME NEW c \in 1 .. MaxColors, color_sparsify_fast_d(c) PROVE IInv'
  BY <1>1, <1>5, SparsifyFastDIInv
<1>6. ASSUME NEW c \in 1 .. MaxColors, color_sparsify(c) PROVE IInv'
  BY <1>1, <1>6, SparsifyIInv
<1>7. CASE init_simple_edgelist
  BY <1>1, <1>7, SimpleListIInv
<1>8. CASE create_edge_stream
  BY <1>1, <1>8, StreamIInv
<1>9. ASSUME NEW s \in BOOLEAN, NEW a \in BOOLEAN, init_edgelist(s, a) PROVE IInv'
  <2>1. status = "ok"
    BY <1>9 DEF init_edgelist, Called
  <2>2. CASE g.nnz # 0
    <3>1. UNCHANGED <<heap, g, status, past>>
      BY <1>9, <2>2 DEF init_edgelist
    <3> QED
      BY <1>1, <2>1, <3>1, SameObject
  <2>3. CASE g.nnz = 0
    BY <1>1, <1>9, <2>1, <2>3, MakeListIInv DEF init_edgelist
  <2> QED
    BY <2>2, <2>3
<1>10. ASSUME NEW s \in BOOLEAN, NEW a \in BOOLEAN, reinit_edgelist(s, a) PROVE IInv'
  BY <1>1, <1>10, MakeListIInv DEF reinit_edgelist, Called
<1>11. CASE destroy
  BY <1>1, <1>11, DestroyIInv
<1> QED
  BY <1>1, <1>2, <1>3, <1>4, <1>5, <1>6, <1>7, <1>8, <1>9, <1>10, <1>11, Zenon
     DEF GraphStep, use_dag, orientation

-----------------------------------------------------------------------------
(* The methods of Scheduler and PartitionedGraph.                          *)

\* A step that only reads the graph.
LEMMA ReadsIInv == ASSUME IInv, status = "ok", UNCHANGED gvars PROVE IInv'
BY DEF IInv, Shape, Ownership, List, Incoming, Live, Undisturbed, Blamed, Deleted, gvars

\* A method that stops finds the list freed only where orientation has.
LEMMA FailsIInv ==
  ASSUME IInv, status = "ok", phase' = "done", UNCHANGED <<heap, g, past>>,
         NEW why \in {"assert", "unset", "sizes", "null", "freed", "past_end", "division", "out_of_bounds"},
         why = "freed" => Unusable = "freed", status' = why
  PROVE  IInv'
<1>1. Shape /\ Ownership /\ List /\ Incoming
  BY DEF IInv, Deleted
<1>2. Shape' /\ Ownership' /\ List' /\ Incoming'
  BY <1>1 DEF Shape, Ownership, List, Incoming, Live
<1>3. ASSUME why = "freed" PROVE past.oriented /\ past.lostList
  <2>1. g.src_list # NULL /\ ~heap[g.dst_list].live
    BY <1>3 DEF Unusable
  <2>2. g.dst_list # NULL
    BY <1>1, <2>1 DEF List
  <2>3. ~Live(g.dst_list)
    BY <2>1, Zenon DEF Live, IsBlock
  <2> QED
    BY <1>1, <2>2, <2>3 DEF List
<1> QED
  BY <1>2, <1>3 DEF IInv, Undisturbed, Blamed

LEMMA UnusableType == Unusable \in {"null", "freed", "past_end", "ok"}
BY DEF Unusable

LEMMA SchedulerIInv == IInv /\ SchedulerStep => IInv'
<1> SUFFICES ASSUME IInv, SchedulerStep PROVE IInv'
  OBVIOUS
<1>1. ASSUME NEW why, Fails(why)
      PROVE  status' = why /\ phase' = "done" /\ UNCHANGED <<heap, g, past>>
  BY <1>1 DEF Fails
<1>2. CASE round_robin
  <2>1. status = "ok"
    BY <1>2 DEF round_robin, IInv, Undisturbed
  <2>2. \/ Fails("assert") \/ (Unusable # "ok" /\ Fails(Unusable)) \/ UNCHANGED gvars
    BY <1>2 DEF round_robin
  <2> QED
    BY <1>1, <2>1, <2>2, UnusableType, FailsIInv, ReadsIInv
<1>3. ASSUME NEW c \in todo, CopyChunk(c) PROVE IInv'
  BY <1>3, ReadsIInv DEF CopyChunk, IInv, Undisturbed
<1>4. CASE CopyRest
  BY <1>4, ReadsIInv DEF CopyRest, IInv, Undisturbed
<1>5. CASE vertex_chunking
  <2>1. status = "ok"
    BY <1>5 DEF vertex_chunking, IInv, Undisturbed
  <2>2. Fails("sizes") \/ UNCHANGED gvars
    BY <1>5 DEF vertex_chunking
  <2> QED
    BY <1>1, <2>1, <2>2, FailsIInv, ReadsIInv
<1>6. CASE AppendTask
  <2>1. status = "ok"
    BY <1>6 DEF AppendTask, IInv, Undisturbed
  <2>2. \/ Fails("unset") \/ (Unusable # "ok" /\ Fails(Unusable)) \/ UNCHANGED gvars
    BY <1>6 DEF AppendTask
  <2> QED
    BY <1>1, <2>1, <2>2, UnusableType, FailsIInv, ReadsIInv
<1>7. CASE AppendEnd
  BY <1>7, ReadsIInv DEF AppendEnd, IInv, Undisturbed
<1>8. CASE least_first
  <2>1. status = "ok"
    BY <1>8 DEF least_first, IInv, Undisturbed
  <2>2. \/ Fails("assert") \/ Fails("unset")
        \/ (Unusable # "ok" /\ Fails(Unusable)) \/ UNCHANGED gvars
    BY <1>8 DEF least_first
  <2> QED
    BY <1>1, <2>1, <2>2, UnusableType, FailsIInv, ReadsIInv
<1>9. CASE NextChunk
  BY <1>9, ReadsIInv DEF NextChunk, IInv, Undisturbed
<1>10. CASE LastChunk
  BY <1>10, ReadsIInv DEF LastChunk, IInv, Undisturbed
<1> QED
  BY <1>2, <1>3, <1>4, <1>5, <1>6, <1>7, <1>8, <1>9, <1>10, Zenon DEF SchedulerStep

LEMMA NextIInv == IInv /\ [Next]_vars => IInv'
<1> SUFFICES ASSUME IInv, [Next]_vars PROVE IInv'
  OBVIOUS
<1>1. CASE CallGraph
  BY <1>1, CallGraphIInv
<1>2. CASE CallScheduler
  BY <1>2, ReadsIInv DEF CallScheduler, Split
<1>3. CASE CallPartition
  <2>1. phase = "idle" /\ phase' = phase /\ Partition
    BY <1>3 DEF CallPartition, Idle, svars
  <2>2. status = "ok" /\ (UNCHANGED gvars \/ (UNCHANGED <<heap, g, past>>
                           /\ status' \in {"division", "out_of_bounds"}))
    <3>1. PICK n : edgecut_induced_partition1D(n) \/ csr_segmenting(n)
      BY <2>1 DEF Partition
    <3> QED
      BY <3>1 DEF edgecut_induced_partition1D, csr_segmenting, gvars
  <2>3. CASE UNCHANGED gvars
    BY <2>2, <2>3, ReadsIInv
  <2>4. CASE UNCHANGED <<heap, g, past>> /\ status' \in {"division", "out_of_bounds"}
    BY <2>1, <2>2, <2>4
    DEF IInv, Shape, Ownership, List, Incoming, Live, Undisturbed, Blamed, Deleted
  <2> QED
    BY <2>2, <2>3, <2>4
<1>4. CASE SchedulerStep
  BY <1>4, SchedulerIInv
<1>5. CASE PartitionStep /\ UNCHANGED svars
  <2>1. UNCHANGED gvars
    BY <1>5 DEF PartitionStep, BuildSubgraph, Mark, SegmentVertex, SegmentEnd
  <2> QED
    BY <1>5, <2>1 DEF IInv, Shape, Ownership, List, Incoming, Live, Undisturbed, Blamed,
                      Deleted, gvars, svars
<1>6. CASE UNCHANGED vars
  BY <1>6 DEF IInv, Shape, Ownership, List, Incoming, Live, Undisturbed, Blamed,
              Deleted, vars, gvars, svars
<1> QED
  BY <1>1, <1>2, <1>3, <1>4, <1>5, <1>6, Zenon DEF Next, Working

\* The constructor gives an undirected graph its own arrays as incoming arcs.
LEMMA InitIInv == SplitInit => IInv
<1> SUFFICES ASSUME SplitInit PROVE IInv
  OBVIOUS
<1>1. PICK f, x, y, z, w, nv, deg :
        /\ f \in Inputs
        /\ heap = <<Block(x), Block(y)>>
                  \o (IF f.directed THEN <<Block(z), Block(w)>> ELSE <<>>)
        /\ g = [n_vertices |-> nv, n_edges |-> f.csr.n_edges,
                vertices |-> 1, edges |-> 2,
                reverse_vertices |-> IF f.directed THEN 3 ELSE 1,
                reverse_edges |-> IF f.directed THEN 4 ELSE 2,
                vertices_c |-> NULL, edges_c |-> NULL, n_edges_c |-> 0,
                src_list |-> NULL, dst_list |-> NULL, stream |-> NULL,
                nnz |-> 0, sizes |-> <<>>, max_degree |-> deg,
                MAX_DEGREE |-> Max({deg, 1})]
        /\ status = "ok"
        /\ past = [loaded |-> f.csr,
                   arcs |-> {}, sym_break |-> FALSE, ascend |-> FALSE,
                   sized |-> 0, counted |-> FALSE, oriented |-> FALSE, inPlace |-> FALSE,
                   lostList |-> FALSE]
  BY Zenon DEF SplitInit, Init
<1>2. f.directed \in BOOLEAN
  BY <1>1, InputsAssumption DEF IsFile
<1>3. /\ DOMAIN g = Members /\ g.vertices = 1 /\ g.edges = 2
      /\ g.reverse_vertices \in {1, 3} /\ g.reverse_edges \in {2, 4}
      /\ ~f.directed => g.reverse_vertices = 1 /\ g.reverse_edges = 2
      /\ g.vertices_c = NULL /\ g.edges_c = NULL
      /\ g.src_list = NULL /\ g.dst_list = NULL /\ g.stream = NULL
  BY <1>1, <1>2 DEF Members, Owned
<1>4. /\ DOMAIN past = History
      /\ past.oriented = FALSE /\ past.lostList = FALSE /\ past.inPlace = FALSE
  BY <1>1 DEF History
<1>5. /\ heap \in Seq(ToSet(heap))
      /\ Live(1) /\ Live(2) /\ (f.directed => Live(3) /\ Live(4))
  <2>1. CASE f.directed
    <3>1. PICK s, t, S, T : /\ s = <<Block(x), Block(y)>> /\ S = {Block(x), Block(y)}
                            /\ t = <<Block(z), Block(w)>> /\ T = {Block(z), Block(w)}
      OBVIOUS
    <3>2. /\ s \in Seq(S) /\ Len(s) = 2 /\ t \in Seq(T) /\ Len(t) = 2
          /\ s[1] = Block(x) /\ s[2] = Block(y) /\ t[1] = Block(z) /\ t[2] = Block(w)
      BY <3>1
    <3>3. /\ heap \in Seq(S \cup T)
          /\ 1 \in DOMAIN heap /\ heap[1] = Block(x) /\ 2 \in DOMAIN heap /\ heap[2] = Block(y)
          /\ 3 \in DOMAIN heap /\ heap[3] = Block(z) /\ 4 \in DOMAIN heap /\ heap[4] = Block(w)
      <4>1. heap = s \o t
        BY <1>1, <2>1, <3>1, Zenon
      <4>2. /\ s \o t \in Seq(S \cup T)
            /\ DOMAIN (s \o t) = 1 .. Len(s) + Len(t) /\ DOMAIN s = 1 .. Len(s)
            /\ \A p \in DOMAIN s : (s \o t)[p] = s[p]
            /\ \A i \in 1 .. Len(t) : (s \o t)[Len(s) + i] = t[i]
        BY <3>2, Appended
      <4>3. 1 \in DOMAIN s /\ 2 \in DOMAIN s /\ 1 \in 1 .. Len(t) /\ 2 \in 1 .. Len(t)
        BY <3>2, <4>2
      <4>4. /\ heap[1] = s[1] /\ heap[2] = s[2]
            /\ heap[Len(s) + 1] = t[1] /\ heap[Len(s) + 2] = t[2]
        BY <4>1, <4>2, <4>3, Zenon
      <4> QED
        BY <3>2, <4>1, <4>2, <4>4
    <3> QED
      BY <3>3, SelfSeq, BlockIsBlock, Zenon DEF Live
  <2>2. CASE ~f.directed
    <3>1. heap = <<Block(x), Block(y)>>
      BY <1>1, <2>2
    <3>2. heap \in Seq({Block(x), Block(y)})
      BY <3>1
    <3>3. 1 \in DOMAIN heap /\ heap[1] = Block(x) /\ 2 \in DOMAIN heap /\ heap[2] = Block(y)
      BY <3>1
    <3> QED
      BY <2>2, <3>2, <3>3, SelfSeq, BlockIsBlock, Zenon DEF Live
  <2> QED
    BY <2>1, <2>2
<1>6. Shape
  BY <1>3, <1>4, <1>5 DEF Shape
<1>7. Ownership
  BY <1>3, <1>5 DEF Ownership, Owned, NULL
<1>8. List
  BY <1>3, <1>4 DEF List
<1>9. Incoming
  BY <1>2, <1>3, <1>5 DEF Incoming, NULL, Live
<1>10. Undisturbed /\ Blamed
  BY <1>1 DEF Undisturbed, Blamed
<1> QED
  BY <1>6, <1>7, <1>8, <1>9, <1>10 DEF IInv

(***************************************************************************)
(* Every state has the invariant, in particular: as long as the object     *)
(* lives, the pointers of Owned are live and no two refer to one block.    *)
(***************************************************************************)
THEOREM SplitInvariant == Spec => []IInv
BY InitIInv, NextIInv, PTL DEF Spec

(***************************************************************************)
(* No sequence of calls of Graph's methods leaves a pointer to a freed     *)
(* block, but for the two cases in which orientation frees an array that   *)
(* has a second owner.                                                     *)
(***************************************************************************)
THEOREM SplitOnlyOrientationDangles == Spec => []OnlyOrientationDangles
<1>1. IInv => OnlyOrientationDangles
  <2> SUFFICES ASSUME IInv, ~Deleted,
                      NEW m \in {"vertices", "edges", "reverse_vertices", "reverse_edges",
                                 "vertices_c", "edges_c", "src_list", "dst_list", "stream"},
                      g[m] # NULL, ~heap[g[m]].live
               PROVE  CASE m \in {"reverse_vertices", "reverse_edges"} -> past.oriented
                        [] m = "dst_list" -> past.lostList
                        [] OTHER -> FALSE
    BY Zenon DEF OnlyOrientationDangles, Deleted
  <2>1. Ownership /\ List /\ Incoming
    BY DEF IInv
  <2>2. ~Live(g[m])
    BY Zenon DEF Live, IsBlock
  <2>3. m \notin Owned
    BY <2>1, <2>2 DEF Ownership
  <2>4. CASE m \in {"reverse_vertices", "reverse_edges"}
    BY <2>1, <2>2, <2>4 DEF Incoming
  <2>5. CASE m = "dst_list"
    BY <2>1, <2>2, <2>5 DEF List
  <2> QED
    BY <2>3, <2>4, <2>5 DEF Owned
<1> QED
  BY <1>1, SplitInvariant, PTL

-----------------------------------------------------------------------------
(***************************************************************************)
(* The arithmetic of round_robin.                                          *)
(***************************************************************************)
\* L tasks are T chunks of s, the last one of l (of s when l is 0); n queues get
\* m each and the first r one more.
Chunking(L, n, s, T, m, r, l) ==
  /\ L \in Nat \ {0} /\ n \in Nat \ {0} /\ s \in Nat \ {0} /\ T \in Nat \ {0}
  /\ m \in Nat /\ r \in 0 .. n - 1 /\ l \in 0 .. s - 1
  /\ T = m * n + r /\ L = (T - 1) * s + IF l = 0 THEN s ELSE l

LEMMA ChunkingFacts ==
  ASSUME NEW L \in Nat \ {0}, NEW n \in Nat \ {0}, NEW s \in Nat \ {0}, NEW T,
         T = (L - 1) \div s + 1
  PROVE  Chunking(L, n, s, T, T \div n, T % n, L % s)
<1>1. PICK x \in 0 .. s - 1 : T - 1 \in Nat /\ L - 1 = (T - 1) * s + x
  <2>1. L - 1 \in Nat
    OBVIOUS
  <2>2. /\ (L - 1) \div s \in Nat /\ (L - 1) % s \in 0 .. s - 1
        /\ L - 1 = ((L - 1) \div s) * s + ((L - 1) % s)
    BY <2>1, Euclid
  <2>3. T - 1 = (L - 1) \div s
    BY <2>2
  <2> QED
    BY <2>2, <2>3
<1>2. T \in Nat \ {0}
  BY <1>1
<1>3. T \div n \in Nat /\ T % n \in 0 .. n - 1 /\ T = (T \div n) * n + (T % n)
  BY <1>2, Euclid
<1>4. L \div s \in Nat /\ L % s \in 0 .. s - 1 /\ L = (L \div s) * s + (L % s)
  BY Euclid
<1>5. CASE x = s - 1
  <2>1. L = T * s + 0
    BY <1>1, <1>2, <1>5
  <2>2. L % s = 0
    BY <1>2, <1>4, <2>1, Digits
  <2>3. L = (T - 1) * s + s
    BY <1>1, <1>2, <1>5
  <2> QED
    BY <1>2, <1>3, <1>4, <2>2, <2>3 DEF Chunking
<1>6. CASE x # s - 1
  <2>1. L = (T - 1) * s + (x + 1) /\ x + 1 \in 0 .. s - 1
    BY <1>1, <1>2, <1>6
  <2>2. L % s = x + 1
    BY <1>2, <1>4, <2>1, Digits
  <2> QED
    BY <1>1, <1>2, <1>3, <1>4, <2>1, <2>2 DEF Chunking
<1> QED
  BY <1>5, <1>6

\* RoundRobinLens for queue q.
QueueLen(n, s, m, r, l, q) ==
  s * m + IF r # 0 THEN IF q + 1 = r THEN IF l = 0 THEN s ELSE l
                        ELSE IF q + 1 < r THEN s ELSE 0
          ELSE IF q = n - 1 THEN l - s ELSE 0

\* Cell c * s + j of queue q is for task j of chunk c * n + q, and a queue ends
\* where the list does (a full last chunk is lost when the queues are equal).
LEMMA CellInQueue ==
  ASSUME NEW L, NEW n, NEW s, NEW T, NEW m, NEW r, NEW l, Chunking(L, n, s, T, m, r, l),
         NEW q \in 0 .. n - 1, NEW c \in Nat, NEW j \in 0 .. s - 1
  PROVE  /\ QueueLen(n, s, m, r, l, q) \in Nat
         /\ c * s + j < QueueLen(n, s, m, r, l, q) <=>
              /\ c * n + q < T
              /\ c * n + q = T - 1 => j < IF r = 0 \/ l # 0 THEN l ELSE s
<1> USE DEF Chunking
<1>1. /\ c * n \in Nat /\ m * n \in Nat /\ c * s \in Nat /\ m * s \in Nat /\ s * m = m * s
      /\ (m - 1) * n = m * n - n /\ (m - 1) * s = m * s - s
  OBVIOUS
<1>2. /\ c < m => c * n + n <= m * n /\ c * s + s <= m * s
      /\ m < c => m * n + n <= c * n /\ m * s + s <= c * s
      /\ c < m - 1 => c * n + n <= m * n - n /\ c * s + s <= m * s - s
  <2>1. c \in Int /\ m \in Int /\ m - 1 \in Int /\ n \in Nat /\ s \in Nat
    OBVIOUS
  <2>2. c < m => c * n + n <= m * n /\ c * s + s <= m * s
    BY <2>1, NextMultiple
  <2>3. m < c => m * n + n <= c * n /\ m * s + s <= c * s
    BY <2>1, NextMultiple
  <2>4. c < m - 1 => c * n + n <= (m - 1) * n /\ c * s + s <= (m - 1) * s
    BY <2>1, NextMultiple
  <2> QED
    BY <1>1, <2>2, <2>3, <2>4
<1>3. r = 0 => m >= 1 /\ m * s >= s
  <2>1. m = 0 => m * n = 0
    OBVIOUS
  <2>2. 0 < m => 0 * s + s <= m * s
    BY NextMultiple
  <2> QED
    BY <2>1, <2>2
<1>4. CASE c < m
  BY <1>1, <1>2, <1>3, <1>4 DEF QueueLen
<1>5. CASE c = m
  BY <1>1, <1>2, <1>3, <1>5 DEF QueueLen
<1>6. CASE c > m
  BY <1>1, <1>2, <1>3, <1>6 DEF QueueLen
<1> QED
  BY <1>4, <1>5, <1>6

\* The task that cell k of queue q is for.
TaskOf(n, s, q, k) == ((k \div s) * n + q) * s + (k % s)

Missing(L, s, r, l) == IF r = 0 /\ l = 0 THEN L - s .. L - 1 ELSE {}

LEMMA TaskDigits ==
  ASSUME NEW n \in Nat \ {0}, NEW s \in Nat \ {0}, NEW q \in 0 .. n - 1, NEW k \in Nat
  PROVE  /\ k \div s \in Nat /\ k % s \in 0 .. s - 1 /\ k = (k \div s) * s + (k % s)
         /\ (k \div s) * n + q \in Nat /\ TaskOf(n, s, q, k) \in Nat
<1>1. k \div s \in Nat /\ k % s \in 0 .. s - 1 /\ k = (k \div s) * s + (k % s)
  BY Euclid
<1>2. (k \div s) * n + q \in Nat
  <2>1. (k \div s) * n \in Nat
    BY <1>1
  <2> QED
    BY <2>1
<1>3. ((k \div s) * n + q) * s \in Nat
  BY <1>2
<1> QED
  BY <1>1, <1>2, <1>3 DEF TaskOf

\* Different cells are for different tasks, in the order of the cells.
LEMMA CellsDiffer ==
  ASSUME NEW n \in Nat \ {0}, NEW s \in Nat \ {0}, NEW q \in 0 .. n - 1, NEW p \in 0 .. n - 1,
         NEW k \in Nat, NEW i \in Nat
  PROVE  /\ TaskOf(n, s, q, k) = TaskOf(n, s, p, i) => q = p /\ k = i
         /\ k < i => TaskOf(n, s, q, k) < TaskOf(n, s, q, i)
<1>1. PICK c \in Nat, a \in 0 .. s - 1 :
        /\ k = c * s + a /\ c * n + q \in Nat /\ TaskOf(n, s, q, k) = (c * n + q) * s + a
  BY TaskDigits DEF TaskOf
<1>2. PICK d \in Nat, b \in 0 .. s - 1 :
        /\ i = d * s + b /\ d * n + p \in Nat /\ d * n + q \in Nat
        /\ TaskOf(n, s, p, i) = (d * n + p) * s + b /\ TaskOf(n, s, q, i) = (d * n + q) * s + b
  BY TaskDigits DEF TaskOf
<1>3. ASSUME TaskOf(n, s, q, k) = TaskOf(n, s, p, i) PROVE q = p /\ k = i
  <2>1. c * n + q = d * n + p /\ a = b
    <3>1. PICK C \in Nat, D \in Nat : C = c * n + q /\ D = d * n + p /\ C * s + a = D * s + b
      BY <1>1, <1>2, <1>3
    <3> QED
      BY <3>1, Digits
  <2>2. c = d /\ q = p
    BY <2>1, Digits
  <2> QED
    BY <1>1, <1>2, <2>1, <2>2
<1>4. ASSUME k < i PROVE TaskOf(n, s, q, k) < TaskOf(n, s, q, i)
  <2>1. c < d \/ (c = d /\ a < b)
    BY <1>1, <1>2, <1>4, Digits
  <2>2. CASE c < d
    <3>1. c * n + n <= d * n
      BY <2>2, NextMultiple
    <3>2. c * n + q < d * n + q
      BY <3>1
    <3>3. (c * n + q) * s + s <= (d * n + q) * s
      BY <1>1, <1>2, <3>2, NextMultiple
    <3>4. (c * n + q) * s \in Nat /\ (d * n + q) * s \in Nat
      BY <1>1, <1>2
    <3> QED
      BY <1>1, <1>2, <3>3, <3>4
  <2>3. CASE c = d /\ a < b
    <3>1. (c * n + q) * s \in Nat
      BY <1>1
    <3> QED
      BY <1>1, <1>2, <2>3, <3>1
  <2> QED
    BY <2>1, <2>2, <2>3
<1> QED
  BY <1>3, <1>4

\* A queue has cells for tasks of the list only.
LEMMA TaskInList ==
  ASSUME NEW L, NEW n, NEW s, NEW T, NEW m, NEW r, NEW l, Chunking(L, n, s, T, m, r, l),
         NEW q \in 0 .. n - 1, NEW k \in Nat, k < QueueLen(n, s, m, r, l, q)
  PROVE  TaskOf(n, s, q, k) \in (0 .. L - 1) \ Missing(L, s, r, l)
<1>0. n \in Nat \ {0} /\ s \in Nat \ {0} /\ T \in Nat \ {0} /\ L \in Nat
  BY DEF Chunking
<1>1. PICK c \in Nat, j \in 0 .. s - 1, C \in Nat :
        /\ k = c * s + j /\ C = c * n + q /\ TaskOf(n, s, q, k) = C * s + j
  BY <1>0, TaskDigits DEF TaskOf
<1>2. C < T /\ (C = T - 1 => j < IF r = 0 \/ l # 0 THEN l ELSE s)
  BY <1>1, CellInQueue
<1>3. C * s \in Nat /\ (T - 1) * s \in Nat /\ L = (T - 1) * s + IF l = 0 THEN s ELSE l
  BY <1>0 DEF Chunking
<1>4. C < T - 1 => C * s + s <= (T - 1) * s
  BY <1>0, NextMultiple
<1>5. l \in 0 .. s - 1
  BY DEF Chunking
<1>6. CASE C = T - 1
  BY <1>0, <1>1, <1>2, <1>3, <1>5, <1>6 DEF Missing
<1>7. CASE C < T - 1
  <2>1. PICK X, Y : X = C * s /\ Y = (T - 1) * s
    OBVIOUS
  <2>2. /\ X \in Nat /\ Y \in Nat /\ X + s <= Y /\ TaskOf(n, s, q, k) = X + j
        /\ L = Y + IF l = 0 THEN s ELSE l
    BY <1>1, <1>3, <1>4, <1>7, <2>1
  <2>3. X + j \in 0 .. Y - 1 /\ Y <= L /\ (l = 0 => L - s = Y)
    BY <1>0, <1>5, <2>2
  <2> QED
    BY <1>0, <2>2, <2>3 DEF Missing
<1> QED
  BY <1>0, <1>2, <1>6, <1>7

\* And one for each of them.
LEMMA TaskHasCell ==
  ASSUME NEW L, NEW n, NEW s, NEW T, NEW m, NEW r, NEW l, Chunking(L, n, s, T, m, r, l),
         NEW e \in (0 .. L - 1) \ Missing(L, s, r, l)
  PROVE  \E q \in 0 .. n - 1 : \E k \in 0 .. QueueLen(n, s, m, r, l, q) - 1 : TaskOf(n, s, q, k) = e
<1>0. n \in Nat \ {0} /\ s \in Nat \ {0} /\ T \in Nat \ {0} /\ L \in Nat /\ e \in Nat
  BY DEF Chunking
<1>1. PICK C \in Nat, j \in 0 .. s - 1 : e = C * s + j
  BY <1>0, Euclid
<1>2. PICK c \in Nat, q \in 0 .. n - 1 : C = c * n + q
  BY <1>0, Euclid
<1>3. C * s \in Nat /\ (T - 1) * s \in Nat /\ L = (T - 1) * s + IF l = 0 THEN s ELSE l
  BY <1>0 DEF Chunking
<1>4. l \in 0 .. s - 1
  BY DEF Chunking
<1>5. T - 1 < C => (T - 1) * s + s <= C * s
  BY <1>0, NextMultiple
<1>6. C < T
  BY <1>0, <1>1, <1>3, <1>4, <1>5
<1>7. C = T - 1 => j < IF r = 0 \/ l # 0 THEN l ELSE s
  BY <1>0, <1>1, <1>3, <1>4 DEF Missing
<1>8. c * s + j < QueueLen(n, s, m, r, l, q) /\ QueueLen(n, s, m, r, l, q) \in Nat
  BY <1>2, <1>6, <1>7, CellInQueue
<1>9. PICK k \in Nat : k = c * s + j
  BY <1>0
<1>10. k \div s = c /\ k % s = j
  BY <1>0, <1>9, DivMod
<1>11. TaskOf(n, s, q, k) = e
  BY <1>1, <1>2, <1>10 DEF TaskOf
<1>12. k \in 0 .. QueueLen(n, s, m, r, l, q) - 1
  BY <1>8, <1>9
<1> QED
  BY <1>11, <1>12

\* A queue of length len has the first size cells of chunk c.
HasOfChunk(s, len, c, size) == \A j \in 0 .. s - 1 : c * s + j < len <=> j < size

\* The array h is f with chunk c filled.
WithChunk(n, s, len, q, c, f, h) ==
  /\ DOMAIN h = 0 .. len - 1
  /\ \A k \in 0 .. len - 1 : h[k] = IF k \div s = c THEN TaskOf(n, s, q, k) ELSE f[k]

\* A copy of all that queue q has of chunk c keeps its length and other chunks.
LEMMA ChunkCopied ==
  ASSUME NEW n \in Nat \ {0}, NEW s \in Nat \ {0}, NEW q \in 0 .. n - 1, NEW c \in Nat,
         NEW size \in 0 .. s, NEW len \in Nat,
         HasOfChunk(s, len, c, size), NEW f, DOMAIN f = 0 .. len - 1
  PROVE  WithChunk(n, s, len, q, c, f, Copied(f, c * s, (c * n + q) * s, size))
<1> DEFINE at == c * s
           from == (c * n + q) * s
           h == Copied(f, at, from, size)
<1>1. at \in Nat /\ from \in Nat
  <2>1. c * n \in Nat /\ c * n + q \in Nat
    OBVIOUS
  <2> QED
    BY <2>1
<1>2. /\ DOMAIN h = (at .. at + size - 1) \cup DOMAIN f
      /\ \A k \in at .. at + size - 1 : h[k] = from + (k - at)
      /\ \A k \in DOMAIN f : k \notin at .. at + size - 1 => h[k] = f[k]
  <2>1. size \in Nat
    OBVIOUS
  <2> HIDE DEF at, from
  <2> QED
    BY <1>1, <2>1 DEF Copied
<1>3. \A k \in 0 .. len - 1 :
        /\ k \div s \in Nat /\ k % s \in 0 .. s - 1 /\ k = (k \div s) * s + (k % s)
  <2> SUFFICES ASSUME NEW k \in 0 .. len - 1
               PROVE  k \div s \in Nat /\ k % s \in 0 .. s - 1 /\ k = (k \div s) * s + (k % s)
    OBVIOUS
  <2>1. k \in Nat
    OBVIOUS
  <2> QED
    BY <2>1, Euclid
<1>4. ASSUME NEW k \in at .. at + size - 1
      PROVE  k \in 0 .. len - 1 /\ k \div s = c /\ h[k] = TaskOf(n, s, q, k)
  <2>1. PICK j \in 0 .. s - 1 : k = c * s + j /\ j < size /\ k - at = j
    <3>1. k - at \in 0 .. s - 1 /\ k = c * s + (k - at)
      BY <1>1
    <3> QED
      BY <1>1, <3>1
  <2>2. k \in 0 .. len - 1
    <3>1. c * s + j < len
      BY <2>1 DEF HasOfChunk
    <3> QED
      BY <1>1, <2>1, <3>1
  <2>3. k \div s = c /\ k % s = j
    <3>1. PICK i \in Nat : i = k
      BY <2>2
    <3>2. i = c * s + j
      BY <2>1, <3>1
    <3>3. i \div s = c /\ i % s = j
      BY <3>2, DivMod
    <3> QED
      BY <3>1, <3>3
  <2>4. h[k] = from + j
    BY <1>2, <2>1
  <2> QED
    BY <2>2, <2>3, <2>4 DEF TaskOf
<1>5. ASSUME NEW k \in 0 .. len - 1, k \div s = c
      PROVE  k \in at .. at + size - 1
  <2>1. PICK j \in 0 .. s - 1 : k = c * s + j
    BY <1>3, <1>5
  <2>2. j < size
    BY <2>1 DEF HasOfChunk
  <2> QED
    BY <1>1, <2>1, <2>2
<1> HIDE DEF at, from, h
<1>6. DOMAIN h = 0 .. len - 1
  BY <1>2, <1>4
<1>7. \A k \in 0 .. len - 1 : h[k] = IF k \div s = c THEN TaskOf(n, s, q, k) ELSE f[k]
  BY <1>2, <1>4, <1>5
<1> QED
  BY <1>6, <1>7 DEF h, at, from, WithChunk

\* What queue q has of a chunk that every queue gets.
LEMMA EqualChunk ==
  ASSUME NEW L, NEW n, NEW s, NEW T, NEW m, NEW r, NEW l, Chunking(L, n, s, T, m, r, l),
         NEW q \in 0 .. n - 1, NEW c \in 0 .. m - 1, NEW j \in 0 .. s - 1
  PROVE  c * s + j < QueueLen(n, s, m, r, l, q) <=>
           j < IF r = 0 /\ c = m - 1 /\ q = n - 1 THEN l ELSE s
<1>0. /\ n \in Nat \ {0} /\ s \in Nat \ {0} /\ m \in Nat /\ r \in 0 .. n - 1 /\ l \in 0 .. s - 1
      /\ T \in Nat /\ T = m * n + r /\ L = (T - 1) * s + IF l = 0 THEN s ELSE l
  BY DEF Chunking
<1>1. /\ c * n \in Nat /\ m * n \in Nat /\ (m - 1) * n = m * n - n
      /\ c < m => c * n + n <= m * n
      /\ c < m - 1 => c * n + n <= m * n - n
  <2>1. c \in Int /\ m \in Int /\ m - 1 \in Int /\ n \in Nat
    BY <1>0
  <2>2. c < m => c * n + n <= m * n
    BY <2>1, NextMultiple
  <2>3. c < m - 1 => c * n + n <= (m - 1) * n
    BY <2>1, NextMultiple
  <2>4. c * n \in Nat /\ m * n \in Nat /\ (m - 1) * n = m * n - n
    BY <1>0
  <2> QED
    BY <2>2, <2>3, <2>4
<1>2. c * n + q < T
  BY <1>0, <1>1
<1>3. c * n + q = T - 1 <=> r = 0 /\ c = m - 1 /\ q = n - 1
  BY <1>0, <1>1
<1>4. c * s + j < QueueLen(n, s, m, r, l, q) <=>
        c * n + q < T /\ (c * n + q = T - 1 => j < IF r = 0 \/ l # 0 THEN l ELSE s)
  <2>1. c \in Nat
    OBVIOUS
  <2> QED
    BY <2>1, CellInQueue
<1> QED
  BY <1>0, <1>2, <1>3, <1>4

\* What queue q has of the chunk that only the first r queues get.
LEMMA RestChunk ==
  ASSUME NEW L, NEW n, NEW s, NEW T, NEW m, NEW r, NEW l, Chunking(L, n, s, T, m, r, l),
         NEW q \in 0 .. n - 1
  PROVE  /\ q + 1 = r => L - (m * n + q) * s \in 0 .. s
         /\ \A j \in 0 .. s - 1 :
              m * s + j < QueueLen(n, s, m, r, l, q) <=>
                IF q + 1 = r THEN j < L - (m * n + q) * s ELSE q + 1 < r
<1>0. /\ n \in Nat \ {0} /\ s \in Nat \ {0} /\ m \in Nat /\ r \in 0 .. n - 1 /\ l \in 0 .. s - 1
      /\ T \in Nat /\ T = m * n + r /\ L = (T - 1) * s + IF l = 0 THEN s ELSE l
  BY DEF Chunking
<1>1. m * n \in Nat /\ m * n + q \in Nat
  BY <1>0
<1>2. q + 1 = r => m * n + q = T - 1
  BY <1>0, <1>1
<1>3. PICK tail \in 0 .. s : tail = IF l = 0 THEN s ELSE l
  BY <1>0
<1>4. q + 1 = r => L - (m * n + q) * s = tail
  <2>1. (T - 1) * s \in Int /\ L = (T - 1) * s + tail
    BY <1>0, <1>3
  <2> QED
    BY <1>2, <1>3, <2>1
<1>5. ASSUME NEW j \in 0 .. s - 1
      PROVE  m * s + j < QueueLen(n, s, m, r, l, q) <=>
               IF q + 1 = r THEN j < tail ELSE q + 1 < r
  <2>1. m * s + j < QueueLen(n, s, m, r, l, q) <=>
          m * n + q < T /\ (m * n + q = T - 1 => j < IF r = 0 \/ l # 0 THEN l ELSE s)
    <3>1. PICK c \in Nat : c = m
      BY <1>0
    <3>2. c * s + j < QueueLen(n, s, m, r, l, q) <=>
            c * n + q < T /\ (c * n + q = T - 1 => j < IF r = 0 \/ l # 0 THEN l ELSE s)
      BY CellInQueue
    <3> QED
      BY <3>1, <3>2
  <2> QED
    BY <1>0, <1>1, <1>3, <2>1
<1> QED
  BY <1>3, <1>4, <1>5

\* There is no later chunk.
LEMMA LastCell ==
  ASSUME NEW L, NEW n, NEW s, NEW T, NEW m, NEW r, NEW l, Chunking(L, n, s, T, m, r, l),
         NEW q \in 0 .. n - 1, NEW k \in 0 .. QueueLen(n, s, m, r, l, q) - 1
  PROVE  k \div s \in 0 .. m
<1>0. n \in Nat \ {0} /\ s \in Nat \ {0} /\ m \in Nat /\ r \in 0 .. n - 1 /\ T = m * n + r
  BY DEF Chunking
<1>1. k \in Nat
  OBVIOUS
<1>2. k \div s \in Nat /\ k % s \in 0 .. s - 1 /\ k = (k \div s) * s + (k % s)
  BY <1>0, <1>1, Euclid
<1>3. PICK c \in Nat, j \in 0 .. s - 1 : c = k \div s /\ k = c * s + j
  BY <1>2
<1>4. /\ QueueLen(n, s, m, r, l, q) \in Nat
      /\ c * s + j < QueueLen(n, s, m, r, l, q) => c * n + q < T
  BY CellInQueue
<1>5. c * n + q < T
  BY <1>3, <1>4
<1>6. m < c => m * n + n <= c * n
  BY <1>0, NextMultiple
<1>7. m * n \in Nat /\ c * n \in Nat
  BY <1>0
<1> QED
  BY <1>0, <1>3, <1>5, <1>6, <1>7

-----------------------------------------------------------------------------
(***************************************************************************)
(* round_robin deals every task once, for every list, number of queues,    *)
(* stride and order of the parallel iterations.  While it runs, the cells  *)
(* of the chunks that are no longer to do hold their tasks.                *)
(***************************************************************************)
Counts == g.nnz \in Nat /\ g.n_edges \in Nat /\ g.n_edges_c \in Nat

Job ==
  /\ phase # "idle" => job.n \in Nat \ {0} /\ job.stride \in Nat \ {0}
  /\ phase \in Methods => job.method = phase
  /\ phase = "chunks" => job.method = "round_robin"
  /\ phase = "append" => job.method = "vertex_chunking"
  /\ phase = "more" => job.method = "least_first"

\* The tasks that least_first estimates, at least one.
LEMMA EstimatedFacts ==
  ASSUME nnz \in Nat \ {0}, job.n \in Nat \ {0}, job.stride \in Nat \ {0}
  PROVE  /\ estimated \in 1 .. nnz
         /\ job.n * job.stride < nnz => estimated = ((nnz - 1) \div job.stride) * job.stride
<1>1. PICK m \in Nat \ {0}, n \in Nat \ {0}, s \in Nat \ {0} :
        m = nnz /\ n = job.n /\ s = job.stride
  OBVIOUS
<1>2. PICK a \in Nat, c \in Nat : a = m - 1 /\ c = a \div s /\ a = c * s + (a % s)
                              /\ (a % s) \in 0 .. s - 1
  <2>1. m - 1 \in Nat
    OBVIOUS
  <2> QED
    BY <2>1, Euclid
<1>3. n * s \in Nat /\ c * s \in Nat
  OBVIOUS
<1>4. CASE n * s >= m
  BY <1>1, <1>3, <1>4 DEF estimated
<1>5. CASE n * s < m
  <2>1. estimated = c * s
    BY <1>1, <1>2, <1>3, <1>5 DEF estimated
  <2>2. c # 0
    <3> SUFFICES ASSUME c = 0 PROVE FALSE
      OBVIOUS
    <3>1. 0 * s + s <= n * s
      BY NextMultiple
    <3> QED
      BY <1>2, <1>3, <1>5, <3>1
  <2>3. 0 * s + s <= c * s
    <3>1. 0 \in Int /\ c \in Int /\ 0 < c /\ s \in Nat
      BY <2>2
    <3> QED
      BY <3>1, NextMultiple
  <2>4. c * s <= m - 1 /\ c * s >= 1
    BY <1>2, <1>3, <2>3
  <2>5. c * s \in 1 .. m
    BY <1>3, <2>4
  <2>6. estimated \in 1 .. m /\ estimated = ((m - 1) \div s) * s
    BY <1>2, <2>1, <2>5, Zenon
  <2> QED
    BY <1>1, <2>6, Zenon
<1> QED
  BY <1>1, <1>3, <1>4, <1>5

Dealt(k) == phase = "done" \/ k \div job.stride \in (0 .. nchunks_per_queue - 1) \ todo

Dealing ==
  job.method = "round_robin" /\ (phase = "chunks" \/ Given) =>
    /\ nnz # 0 /\ lens = RoundRobinLens /\ DOMAIN queues = Q
    /\ phase = "chunks" => todo \subseteq 0 .. nchunks_per_queue - 1
    /\ \A q \in Q : DOMAIN queues[q] = 0 .. lens[q] - 1
    /\ \A q \in Q : \A k \in 0 .. lens[q] - 1 :
         Dealt(k) => queues[q][k] = TaskOf(job.n, job.stride, q, k)

RoundRobinInv == Counts /\ Job /\ Dealing

LEMMA FilteredCount == ASSUME NEW keep PROVE Filtered(keep).n_edges \in Nat
<1>1. \A lists : CSR(lists).n_edges \in Nat
  BY DEF CSR
<1> QED
  BY <1>1, Zenon DEF Filtered

\* The methods of the graph keep the counts natural.
LEMMA CallGraphCounts == IInv /\ Counts /\ CallGraph => Counts'
<1> SUFFICES ASSUME IInv, Counts, CallGraph PROVE Counts'
  OBVIOUS
<1>1. GraphStep /\ DOMAIN g = Members
  BY DEF CallGraph, IInv, Shape
<1>2. "nnz" \in DOMAIN g /\ "n_edges" \in DOMAIN g /\ "n_edges_c" \in DOMAIN g
  BY <1>1 DEF Members
<1>3. ASSUME NEW buffers, Orient(buffers) PROVE Counts'
  <2>1. PICK x, y, z, w : /\ w \in Nat
                          /\ g' = [g EXCEPT !.vertices = x, !.edges = y, !.n_edges = w,
                                            !.max_degree = z, !.MAX_DEGREE = buffers]
    BY <1>3, FilteredCount DEF Orient
  <2> QED
    BY <1>2, <2>1 DEF Counts
<1>4. CASE swap_graph_mode
  BY <1>2, <1>4 DEF swap_graph_mode, Counts
<1>5. ASSUME NEW c, color_sparsify_fast(c) PROVE Counts'
  <2>2. PICK colors : g' = [g EXCEPT !.vertices = Fresh(1), !.edges = Fresh(2), !.n_edges = Monochrome(colors).n_edges]
    BY <1>5, Zenon DEF color_sparsify_fast
  <2>3. Monochrome(colors).n_edges \in Nat
    BY FilteredCount, Zenon DEF Monochrome
  <2>1. PICK x, y, w : w \in Nat /\ g' = [g EXCEPT !.vertices = x, !.edges = y, !.n_edges = w]
    BY <2>2, <2>3, Zenon
  <2> QED
    BY <1>2, <2>1 DEF Counts
<1>6. ASSUME NEW c, color_sparsify_fast_d(c) PROVE Counts'
  <2>2. PICK colors : g' = [g EXCEPT !.vertices_c = Fresh(1), !.edges_c = Fresh(2), !.n_edges_c = Monochrome(colors).n_edges]
    BY <1>6, Zenon DEF color_sparsify_fast_d
  <2>3. Monochrome(colors).n_edges \in Nat
    BY FilteredCount, Zenon DEF Monochrome
  <2>1. PICK x, y, w : w \in Nat /\ g' = [g EXCEPT !.vertices_c = x, !.edges_c = y, !.n_edges_c = w]
    BY <2>2, <2>3, Zenon
  <2> QED
    BY <1>2, <2>1 DEF Counts
<1>7. ASSUME NEW c, color_sparsify(c) PROVE Counts'
  <2>2. PICK colors : g' = [g EXCEPT !.edges = Fresh(1), !.n_edges = Monochrome(colors).n_edges]
    BY <1>7, Zenon DEF color_sparsify
  <2>3. Monochrome(colors).n_edges \in Nat
    BY FilteredCount, Zenon DEF Monochrome
  <2>1. PICK x, w : w \in Nat /\ g' = [g EXCEPT !.edges = x, !.n_edges = w]
    BY <2>2, <2>3, Zenon
  <2> QED
    BY <1>2, <2>1 DEF Counts
<1>8. CASE init_simple_edgelist
  BY <1>2, <1>8 DEF init_simple_edgelist, Counts
<1>9. CASE create_edge_stream
  BY <1>2, <1>9 DEF create_edge_stream, Counts
<1>10. ASSUME NEW s, NEW a, MakeList(s, a) PROVE Counts'
  <2>1. g.n_edges \div 2 \in Nat /\ g.n_edges \in Nat
    BY DEF Counts
  <2> DEFINE list == Listed([v \in V |-> Tasks(v, s, a)])
             size == IF s THEN g.n_edges \div 2 ELSE g.n_edges
             old == IF g.sizes = <<>> THEN [v \in V |-> 0] ELSE g.sizes
             new_sizes == [v \in V |-> old[v] + Len(Tasks(v, s, a))]
             dst == IF s THEN Fresh(2) ELSE g.edges
  <2>2. size \in Nat
    BY <2>1
  <2>3. \/ g' = g
        \/ g' = [g EXCEPT !.nnz = size, !.src_list = Fresh(1), !.dst_list = dst,
                          !.sizes = new_sizes]
    BY <1>10 DEF MakeList
  <2> HIDE DEF list, size, old, new_sizes, dst
  <2> QED
    BY <1>2, <2>2, <2>3 DEF Counts
<1>11. ASSUME NEW s, NEW a, init_edgelist(s, a) PROVE Counts'
  BY <1>10, <1>11 DEF init_edgelist, Counts
<1>12. ASSUME NEW s, NEW a, reinit_edgelist(s, a) PROVE Counts'
  BY <1>10, <1>12 DEF reinit_edgelist
<1>13. CASE destroy
  BY <1>13 DEF destroy, Counts
<1> QED
  BY <1>1, <1>3, <1>4, <1>5, <1>6, <1>7, <1>8, <1>9, <1>11, <1>12, <1>13, Zenon
     DEF GraphStep, use_dag, orientation

\* RoundRobinLens and the numbers it is made of.
LEMMA JobFacts ==
  ASSUME nnz \in Nat \ {0}, job.n \in Nat \ {0}, job.stride \in Nat \ {0}
  PROVE  /\ Chunking(nnz, job.n, job.stride, total_num_chunks, nchunks_per_queue, rest, last_size)
         /\ DOMAIN RoundRobinLens = Q
         /\ \A q \in Q : RoundRobinLens[q] =
              QueueLen(job.n, job.stride, nchunks_per_queue, rest, last_size, q)
<1>1. Chunking(nnz, job.n, job.stride, total_num_chunks, nchunks_per_queue, rest, last_size)
  <2>1. PICK x, n, s, T : x = nnz /\ n = job.n /\ s = job.stride /\ T = total_num_chunks
    OBVIOUS
  <2>2. T = (x - 1) \div s + 1
    BY <2>1 DEF total_num_chunks
  <2>3. Chunking(x, n, s, T, T \div n, T % n, x % s)
    BY <2>1, <2>2, ChunkingFacts
  <2> QED
    BY <2>1, <2>3 DEF nchunks_per_queue, rest, last_size
<1>2. DOMAIN RoundRobinLens = Q
  BY DEF RoundRobinLens
<1>3. ASSUME NEW q \in Q
      PROVE  RoundRobinLens[q] = QueueLen(job.n, job.stride, nchunks_per_queue, rest, last_size, q)
  <2>1. PICK n, s, m, r, l, d : /\ n = job.n /\ s = job.stride /\ m = nchunks_per_queue
                                /\ r = rest /\ l = last_size
                                /\ d = RoundRobinLens[q] - s * m
    OBVIOUS
  <2>2. s \in Nat /\ n \in Nat /\ m \in Nat /\ r \in 0 .. n - 1 /\ l \in 0 .. s - 1 /\ s * m \in Nat
    BY <1>1, <2>1 DEF Chunking
  <2>3. q \in 0 .. n - 1
    BY <2>1 DEF Q
  <2>4. RoundRobinLens[q] = s * m +
          CASE r # 0 /\ q + 1 = r -> IF l = 0 THEN s ELSE l
            [] r # 0 /\ q + 1 < r -> s
            [] r = 0 /\ q = n - 1 -> l - s
            [] OTHER -> 0
    BY <2>1 DEF RoundRobinLens, last_size
  <2>5. RoundRobinLens[q] = QueueLen(n, s, m, r, l, q)
    <3>1. CASE r # 0 /\ q + 1 = r
      BY <2>2, <2>3, <2>4, <3>1 DEF QueueLen
    <3>2. CASE r # 0 /\ q + 1 < r
      BY <2>2, <2>3, <2>4, <3>2 DEF QueueLen
    <3>3. CASE r = 0 /\ q = n - 1
      BY <2>2, <2>3, <2>4, <3>3 DEF QueueLen
    <3>4. CASE (r # 0 /\ q + 1 > r) \/ (r = 0 /\ q # n - 1)
      BY <2>2, <2>3, <2>4, <3>4 DEF QueueLen
    <3> QED
      BY <2>2, <2>3, <3>1, <3>2, <3>3, <3>4
  <2> QED
    BY <2>1, <2>5
<1> QED
  BY <1>1, <1>2, <1>3

\* What the step of a running method leaves as it was.
LEMMA SameJob ==
  ASSUME job' = job, g' = g
  PROVE  /\ nnz' = nnz /\ Q' = Q /\ RoundRobinLens' = RoundRobinLens
         /\ nchunks_per_queue' = nchunks_per_queue
BY DEF nnz, Q, RoundRobinLens, nchunks_per_queue, total_num_chunks, rest, last_size

\* The first step: nothing is dealt yet.
LEMMA StartDealing == ASSUME Counts, Job, Dealing, round_robin, job' = job PROVE (Job /\ Dealing)'
<1>1. job.method = "round_robin" /\ job.n \in Nat \ {0} /\ job.stride \in Nat \ {0}
  BY DEF Job, round_robin, Methods
<1>2. CASE \E why : why # "ok" /\ Fails(why)
  BY <1>1, <1>2 DEF Fails, Job, Dealing, Given, Methods
<1>3. CASE /\ nnz > MinTasks /\ lens' = RoundRobinLens /\ queues' = Allocated(RoundRobinLens)
           /\ todo' = 0 .. nchunks_per_queue - 1 /\ phase' = "chunks" /\ UNCHANGED gvars
  <2>1. g' = g
    BY <1>3 DEF gvars
  <2>2. nnz \in Nat \ {0}
    BY <1>3, MinTasksAssumption DEF nnz, Counts
  <2>3. Job'
    BY <1>1, <1>3 DEF Job, Methods
  <2>4. /\ nnz' = nnz /\ Q' = Q /\ RoundRobinLens' = RoundRobinLens
        /\ nchunks_per_queue' = nchunks_per_queue
    BY <2>1, SameJob
  <2>5. DOMAIN RoundRobinLens = Q
    BY <1>1, <2>2, JobFacts
  <2>6. /\ DOMAIN queues' = Q'
        /\ \A q \in Q' : DOMAIN queues'[q] = 0 .. lens'[q] - 1
    BY <1>3, <2>4, <2>5 DEF Allocated
  <2>7. \A k : ~Dealt(k)'
    BY <1>3, <2>4 DEF Dealt
  <2> QED
    BY <1>3, <2>2, <2>3, <2>4, <2>6, <2>7, Zenon DEF Dealing
<1>4. nnz \in Nat /\ MinTasks \in Nat
  BY MinTasksAssumption DEF nnz, Counts
<1>5. CASE nnz <= MinTasks
  <2>1. Fails("assert")
    BY <1>4, <1>5 DEF round_robin
  <2> QED
    BY <1>2, <2>1
<1>6. CASE nnz > MinTasks /\ Unusable # "ok"
  <2>1. Fails(Unusable)
    BY <1>4, <1>6 DEF round_robin
  <2> QED
    BY <1>2, <1>6, <2>1
<1>7. CASE nnz > MinTasks /\ Unusable = "ok"
  BY <1>3, <1>4, <1>7 DEF round_robin
<1> QED
  BY <1>4, <1>5, <1>6, <1>7

\* The numbers and the queues of a running round_robin.
LEMMA Running ==
  ASSUME Counts, Job, Dealing, phase = "chunks" \/ (Given /\ job.method = "round_robin")
  PROVE  /\ job.method = "round_robin" /\ job.n \in Nat \ {0} /\ job.stride \in Nat \ {0}
         /\ Q = 0 .. job.n - 1
         /\ Chunking(nnz, job.n, job.stride, total_num_chunks, nchunks_per_queue, rest, last_size)
         /\ phase = "chunks" => todo \subseteq 0 .. nchunks_per_queue - 1
         /\ \A q \in Q :
              /\ lens[q] = QueueLen(job.n, job.stride, nchunks_per_queue, rest, last_size, q)
              /\ lens[q] \in Nat /\ DOMAIN queues[q] = 0 .. lens[q] - 1
<1>1. job.method = "round_robin" /\ job.n \in Nat \ {0} /\ job.stride \in Nat \ {0}
  BY DEF Job, Given
<1>2. /\ nnz \in Nat \ {0} /\ lens = RoundRobinLens
      /\ phase = "chunks" => todo \subseteq 0 .. nchunks_per_queue - 1
      /\ \A q \in Q : DOMAIN queues[q] = 0 .. lens[q] - 1
  BY <1>1 DEF Dealing, Counts, nnz
<1>3. /\ Chunking(nnz, job.n, job.stride, total_num_chunks, nchunks_per_queue, rest, last_size)
      /\ \A q \in Q : RoundRobinLens[q] =
           QueueLen(job.n, job.stride, nchunks_per_queue, rest, last_size, q)
  BY <1>1, <1>2, JobFacts
<1>4. Q = 0 .. job.n - 1
  BY DEF Q
<1>5. \A q \in Q : QueueLen(job.n, job.stride, nchunks_per_queue, rest, last_size, q) \in Nat
  <2> SUFFICES ASSUME NEW q \in Q
               PROVE  QueueLen(job.n, job.stride, nchunks_per_queue, rest, last_size, q) \in Nat
    OBVIOUS
  <2>1. PICK L, n, s, T, m, r, l :
          /\ L = nnz /\ n = job.n /\ s = job.stride /\ T = total_num_chunks
          /\ m = nchunks_per_queue /\ r = rest /\ l = last_size
    OBVIOUS
  <2>2. Chunking(L, n, s, T, m, r, l) /\ q \in 0 .. n - 1 /\ 0 \in Nat /\ 0 \in 0 .. s - 1
    BY <1>1, <1>3, <1>4, <2>1
  <2>3. QueueLen(n, s, m, r, l, q) \in Nat
    BY <2>2, CellInQueue
  <2> QED
    BY <2>1, <2>3
<1> QED
  BY <1>1, <1>2, <1>3, <1>4, <1>5

\* An iteration of the parallel loop deals its chunk.
LEMMA ChunkDealing ==
  ASSUME Counts, Job, Dealing, NEW c \in todo, CopyChunk(c), job' = job
  PROVE  (Job /\ Dealing)'
<1>1. phase = "chunks" /\ phase' = "chunks" /\ todo' = todo \ {c} /\ g' = g /\ lens' = lens
  BY DEF CopyChunk, gvars
<1>2. /\ nnz' = nnz /\ Q' = Q /\ RoundRobinLens' = RoundRobinLens
      /\ nchunks_per_queue' = nchunks_per_queue
  BY <1>1, SameJob
<1>3. PICK L, n, s, T, m, r, l :
        /\ L = nnz /\ n = job.n /\ s = job.stride /\ T = total_num_chunks
        /\ m = nchunks_per_queue /\ r = rest /\ l = last_size
  OBVIOUS
<1>4. /\ n \in Nat \ {0} /\ s \in Nat \ {0} /\ Q = 0 .. n - 1 /\ Chunking(L, n, s, T, m, r, l)
      /\ todo \subseteq 0 .. m - 1 /\ job.method = "round_robin"
      /\ \A q \in Q : /\ lens[q] = QueueLen(n, s, m, r, l, q)
                      /\ lens[q] \in Nat /\ DOMAIN queues[q] = 0 .. lens[q] - 1
  BY <1>1, <1>3, Running
<1>5. c \in 0 .. m - 1 /\ c \in Nat /\ l \in 0 .. s - 1
  BY <1>4 DEF Chunking
<1>6. DOMAIN queues' = Q
  BY DEF CopyChunk
<1>7. ASSUME NEW q \in Q
      PROVE  WithChunk(n, s, lens[q], q, c, queues[q], queues'[q])
  <2>1. PICK size \in 0 .. s : size = IF r = 0 /\ c = m - 1 /\ q = n - 1 THEN l ELSE s
    BY <1>4, <1>5
  <2>2. queues'[q] = Copied(queues[q], c * s, (c * n + q) * s, size)
    BY <1>3, <2>1 DEF CopyChunk
  <2>3. PICK len, f : len \in Nat /\ len = lens[q] /\ f = queues[q]
    BY <1>4
  <2>4. HasOfChunk(s, len, c, size)
    <3> SUFFICES ASSUME NEW j \in 0 .. s - 1 PROVE c * s + j < len <=> j < size
      BY DEF HasOfChunk
    <3>1. c * s + j < QueueLen(n, s, m, r, l, q) <=>
            j < IF r = 0 /\ c = m - 1 /\ q = n - 1 THEN l ELSE s
      BY <1>4, <1>5, EqualChunk
    <3> QED
      BY <1>4, <2>1, <2>3, <3>1
  <2>5. /\ DOMAIN f = 0 .. len - 1 /\ q \in 0 .. n - 1 /\ len \in Nat
        /\ n \in Nat \ {0} /\ s \in Nat \ {0} /\ c \in Nat /\ size \in 0 .. s
    BY <1>4, <1>5, <2>1, <2>3
  <2>6. WithChunk(n, s, len, q, c, f, Copied(f, c * s, (c * n + q) * s, size))
    BY <2>4, <2>5, ChunkCopied, Zenon
  <2> QED
    BY <2>2, <2>3, <2>6
<1>8. Job'
  BY <1>1, <1>4 DEF Job, Methods
<1>9. ASSUME NEW q \in Q, NEW k \in 0 .. lens[q] - 1, Dealt(k)'
      PROVE  queues'[q][k] = TaskOf(n, s, q, k)
  <2>1. k \div s \in (0 .. m - 1) \ (todo \ {c})
    BY <1>1, <1>2, <1>3, <1>9 DEF Dealt
  <2>2. CASE k \div s = c
    BY <1>7, <2>2 DEF WithChunk
  <2>3. CASE k \div s # c
    <3>1. Dealt(k)
      BY <1>3, <2>1, <2>3 DEF Dealt
    <3>2. queues[q][k] = TaskOf(n, s, q, k)
      BY <1>1, <1>3, <1>4, <3>1 DEF Dealing
    <3> QED
      BY <1>7, <2>3, <3>2 DEF WithChunk
  <2> QED
    BY <2>2, <2>3
<1>10. nnz # 0 /\ lens = RoundRobinLens
  BY <1>1, <1>4 DEF Dealing
<1>11. todo' \subseteq 0 .. m - 1
  BY <1>1, <1>4
<1> QED
  BY <1>1, <1>2, <1>3, <1>6, <1>7, <1>8, <1>9, <1>10, <1>11, Zenon DEF Dealing, WithChunk

\* The loop after it deals what is left.
LEMMA RestDealing ==
  ASSUME Counts, Job, Dealing, CopyRest, job' = job
  PROVE  (Job /\ Dealing)'
<1>1. phase = "chunks" /\ phase' = "done" /\ todo = {} /\ g' = g /\ lens' = lens
  BY DEF CopyRest, gvars
<1>2. /\ nnz' = nnz /\ Q' = Q /\ RoundRobinLens' = RoundRobinLens
      /\ nchunks_per_queue' = nchunks_per_queue
  BY <1>1, SameJob
<1>3. PICK L, n, s, T, m, r, l :
        /\ L = nnz /\ n = job.n /\ s = job.stride /\ T = total_num_chunks
        /\ m = nchunks_per_queue /\ r = rest /\ l = last_size
  OBVIOUS
<1>4. /\ n \in Nat \ {0} /\ s \in Nat \ {0} /\ Q = 0 .. n - 1 /\ Chunking(L, n, s, T, m, r, l)
      /\ job.method = "round_robin"
      /\ \A q \in Q : /\ lens[q] = QueueLen(n, s, m, r, l, q)
                      /\ lens[q] \in Nat /\ DOMAIN queues[q] = 0 .. lens[q] - 1
  BY <1>1, <1>3, Running
<1>5. m \in Nat /\ r \in 0 .. n - 1 /\ L \in Nat
  BY <1>4 DEF Chunking
<1>6. DOMAIN queues' = Q
  BY DEF CopyRest
<1>7. ASSUME NEW q \in Q
      PROVE  WithChunk(n, s, lens[q], q, m, queues[q], queues'[q])
  <2>1. PICK len, f : len \in Nat /\ len = lens[q] /\ f = queues[q]
    BY <1>4
  <2>2. /\ q + 1 = r => L - (m * n + q) * s \in 0 .. s
        /\ \A j \in 0 .. s - 1 :
             m * s + j < QueueLen(n, s, m, r, l, q) <=>
               IF q + 1 = r THEN j < L - (m * n + q) * s ELSE q + 1 < r
    BY <1>4, RestChunk
  <2>3. /\ DOMAIN f = 0 .. len - 1 /\ q \in 0 .. n - 1 /\ len \in Nat
        /\ n \in Nat \ {0} /\ s \in Nat \ {0} /\ m \in Nat
        /\ len = QueueLen(n, s, m, r, l, q)
    BY <1>4, <1>5, <2>1
  <2>4. ASSUME NEW size \in 0 .. s, HasOfChunk(s, len, m, size)
        PROVE  WithChunk(n, s, len, q, m, f, Copied(f, m * s, (m * n + q) * s, size))
    BY <2>3, <2>4, ChunkCopied, Zenon
  <2>5. CASE q + 1 = r
    <3>1. PICK size \in 0 .. s : size = L - (m * n + q) * s
      BY <2>2, <2>5
    <3>2. queues'[q] = Copied(f, m * s, (m * n + q) * s, size)
      BY <1>3, <1>5, <2>1, <2>3, <2>5, <3>1 DEF CopyRest
    <3>3. HasOfChunk(s, len, m, size)
      BY <2>2, <2>3, <2>5, <3>1 DEF HasOfChunk
    <3> QED
      BY <2>1, <2>4, <3>2, <3>3
  <2>6. CASE q + 1 < r
    <3>1. queues'[q] = Copied(f, m * s, (m * n + q) * s, s)
      BY <1>3, <1>5, <2>1, <2>3, <2>6 DEF CopyRest
    <3>2. HasOfChunk(s, len, m, s) /\ s \in 0 .. s
      <4>1. q + 1 # r /\ s \in 0 .. s
        BY <1>5, <2>3, <2>6
      <4>2. ASSUME NEW j \in 0 .. s - 1 PROVE m * s + j < len /\ j < s
        <5>1. m * s + j < QueueLen(n, s, m, r, l, q)
          BY <2>2, <2>6, <4>1
        <5> QED
          BY <2>3, <5>1
      <4> QED
        BY <4>1, <4>2 DEF HasOfChunk
    <3> QED
      BY <2>1, <2>4, <3>1, <3>2
  <2>7. CASE r < q + 1
    <3>1. queues'[q] = f
      BY <1>3, <1>5, <2>1, <2>3, <2>7 DEF CopyRest
    <3>2. ASSUME NEW k \in 0 .. len - 1 PROVE k \div s # m
      <4>1. k \in Nat
        BY <2>3
      <4>2. k % s \in 0 .. s - 1 /\ k = (k \div s) * s + (k % s)
        BY <2>3, <4>1, Euclid
      <4>3. PICK j \in 0 .. s - 1 : k = (k \div s) * s + j
        BY <4>2
      <4>4. ~ (m * s + j < len)
        BY <1>5, <2>2, <2>3, <2>7
      <4> QED
        BY <2>3, <4>3, <4>4
    <3> QED
      BY <2>1, <2>3, <3>1, <3>2 DEF WithChunk
  <2> QED
    BY <1>5, <2>3, <2>5, <2>6, <2>7
<1>8. Job'
  BY <1>1, <1>4 DEF Job, Methods
<1>9. ASSUME NEW q \in Q, NEW k \in 0 .. lens[q] - 1
      PROVE  queues'[q][k] = TaskOf(n, s, q, k)
  <2>1. k \div s \in 0 .. m
    <3>1. q \in 0 .. n - 1 /\ k \in 0 .. QueueLen(n, s, m, r, l, q) - 1
      BY <1>4
    <3> QED
      BY <1>4, <3>1, LastCell
  <2>2. CASE k \div s = m
    BY <1>7, <2>2 DEF WithChunk
  <2>3. CASE k \div s # m
    <3>1. Dealt(k)
      BY <1>1, <1>3, <1>5, <2>1, <2>3 DEF Dealt
    <3>2. queues[q][k] = TaskOf(n, s, q, k)
      BY <1>1, <1>3, <1>4, <3>1 DEF Dealing
    <3> QED
      BY <1>7, <2>3, <3>2 DEF WithChunk
  <2> QED
    BY <2>2, <2>3
<1>10. nnz # 0 /\ lens = RoundRobinLens
  BY <1>1, <1>4 DEF Dealing
<1>11. ~ (phase' = "chunks")
  BY <1>1
<1> QED
  BY <1>1, <1>2, <1>3, <1>6, <1>7, <1>8, <1>9, <1>10, <1>11, Zenon DEF Dealing, WithChunk

\* A step of one of the other methods.
LEMMA OtherMethod ==
  ASSUME Job, job' = job,
         \/ phase = "vertex_chunking" /\ phase' \in {"append", "done"}
         \/ phase = "append" /\ phase' \in {"append", "done"}
         \/ phase = "least_first" /\ phase' \in {"more", "done"}
         \/ phase = "more" /\ phase' \in {"more", "done"}
  PROVE  (Job /\ Dealing)'
<1>1. /\ job.n \in Nat \ {0} /\ job.stride \in Nat \ {0}
      /\ phase \in {"vertex_chunking", "append"} => job.method = "vertex_chunking"
      /\ phase \in {"least_first", "more"} => job.method = "least_first"
  BY DEF Job, Methods
<1> QED
  BY <1>1 DEF Job, Dealing, Methods

LEMMA SchedulerRoundRobin == RoundRobinInv /\ SchedulerStep => RoundRobinInv'
<1> SUFFICES ASSUME RoundRobinInv, SchedulerStep PROVE RoundRobinInv'
  OBVIOUS
<1>1. Counts /\ Job /\ Dealing
  BY DEF RoundRobinInv
<1>2. job' = job
  BY DEF SchedulerStep
<1>3. \A why : Fails(why) => g' = g /\ phase' = "done"
  BY DEF Fails
<1>4. CASE round_robin
  <2>1. g' = g
    BY <1>3, <1>4 DEF round_robin, gvars
  <2>2. (Job /\ Dealing)'
    BY <1>1, <1>2, <1>4, StartDealing
  <2> QED
    BY <1>1, <2>1, <2>2 DEF RoundRobinInv, Counts
<1>5. CASE CopyRest
  <2>1. g' = g
    BY <1>5 DEF CopyRest, gvars
  <2>2. (Job /\ Dealing)'
    BY <1>1, <1>2, <1>5, RestDealing
  <2> QED
    BY <1>1, <2>1, <2>2 DEF RoundRobinInv, Counts
<1>6. ASSUME NEW c \in todo, CopyChunk(c) PROVE RoundRobinInv'
  <2>1. g' = g
    BY <1>6 DEF CopyChunk, gvars
  <2>2. (Job /\ Dealing)'
    BY <1>1, <1>2, <1>6, ChunkDealing
  <2> QED
    BY <1>1, <2>1, <2>2 DEF RoundRobinInv, Counts
<1>7. ASSUME \/ phase = "vertex_chunking" /\ phase' \in {"append", "done"}
             \/ phase = "append" /\ phase' \in {"append", "done"}
             \/ phase = "least_first" /\ phase' \in {"more", "done"}
             \/ phase = "more" /\ phase' \in {"more", "done"},
             g' = g
      PROVE  RoundRobinInv'
  <2>1. (Job /\ Dealing)'
    BY <1>1, <1>2, <1>7, OtherMethod
  <2> QED
    BY <1>1, <1>7, <2>1 DEF RoundRobinInv, Counts
<1>8. CASE vertex_chunking
  BY <1>3, <1>7, <1>8 DEF vertex_chunking, gvars
<1>9. CASE AppendTask
  <2>1. phase = "append" /\ phase' \in {"append", "done"} /\ g' = g
    BY <1>3, <1>9 DEF AppendTask, gvars
  <2> QED
    BY <1>7, <2>1
<1>10. CASE AppendEnd
  BY <1>7, <1>10 DEF AppendEnd, gvars
<1>11. CASE least_first
  <2>1. phase = "least_first" /\ phase' \in {"more", "done"} /\ g' = g
    BY <1>3, <1>11 DEF least_first, gvars
  <2> QED
    BY <1>7, <2>1
<1>12. CASE NextChunk
  BY <1>7, <1>12 DEF NextChunk, gvars
<1>13. CASE LastChunk
  BY <1>7, <1>13 DEF LastChunk, gvars
<1> QED
  BY <1>4, <1>5, <1>6, <1>8, <1>9, <1>10, <1>11, <1>12, <1>13, Zenon DEF SchedulerStep

LEMMA NextRoundRobin == IInv /\ RoundRobinInv /\ [Next]_vars => RoundRobinInv'
<1> SUFFICES ASSUME IInv, RoundRobinInv, [Next]_vars PROVE RoundRobinInv'
  OBVIOUS
<1>1. Counts /\ Job /\ Dealing
  BY DEF RoundRobinInv
<1>2. ASSUME phase' = "idle", Counts' PROVE RoundRobinInv'
  BY <1>2 DEF RoundRobinInv, Job, Dealing, Given, Methods
<1>3. ASSUME UNCHANGED svars, g' = g, status' = status PROVE RoundRobinInv'
  <2>1. job' = job /\ phase' = phase /\ lens' = lens /\ queues' = queues /\ todo' = todo
    BY <1>3 DEF svars
  <2>2. /\ nnz' = nnz /\ Q' = Q /\ RoundRobinLens' = RoundRobinLens
        /\ nchunks_per_queue' = nchunks_per_queue
    BY <1>3, <2>1, SameJob
  <2>3. Counts' /\ Job'
    BY <1>1, <1>3, <2>1 DEF Counts, Job
  <2>4. Dealing'
    BY <1>1, <1>3, <2>1, <2>2 DEF Dealing, Dealt, Given
  <2> QED
    BY <2>3, <2>4 DEF RoundRobinInv
<1>4. CASE CallGraph
  BY <1>1, <1>2, <1>4, CallGraphCounts DEF CallGraph, Idle, svars
<1>5. CASE CallScheduler
  <2>1. PICK m \in Methods, n \in 1 .. MaxQueues, s \in 1 .. MaxStride : Split(m, n, s)
    BY <1>5 DEF CallScheduler
  <2>2. job' = [method |-> m, n |-> n, stride |-> s] /\ phase' = m /\ g' = g
    BY <2>1 DEF Split, gvars
  <2>3. n \in Nat \ {0} /\ s \in Nat \ {0}
    BY QueueAssumption
  <2>4. Job' /\ Dealing'
    BY <2>2, <2>3 DEF Job, Dealing, Given, Methods
  <2> QED
    BY <1>1, <2>2, <2>4 DEF RoundRobinInv, Counts
<1>6. CASE CallPartition
  <2>1. phase' = "idle"
    BY <1>6 DEF CallPartition, Idle, svars
  <2>2. g' = g
    <3>1. PICK n : edgecut_induced_partition1D(n) \/ csr_segmenting(n)
      BY <1>6 DEF CallPartition, Partition
    <3> QED
      BY <3>1 DEF edgecut_induced_partition1D, csr_segmenting, gvars
  <2> QED
    BY <1>1, <1>2, <2>1, <2>2 DEF Counts
<1>7. CASE SchedulerStep
  BY <1>7, SchedulerRoundRobin
<1>8. CASE PartitionStep /\ UNCHANGED svars
  <2>1. g' = g /\ status' = status
    BY <1>8 DEF PartitionStep, BuildSubgraph, Mark, SegmentVertex, SegmentEnd, gvars
  <2> QED
    BY <1>3, <1>8, <2>1
<1>9. CASE UNCHANGED vars
  BY <1>3, <1>9 DEF vars, gvars
<1> QED
  BY <1>4, <1>5, <1>6, <1>7, <1>8, <1>9, Zenon DEF Next, Working

LEMMA InitRoundRobin == SplitInit => RoundRobinInv
<1> SUFFICES ASSUME SplitInit PROVE RoundRobinInv
  OBVIOUS
<1>1. phase = "idle"
  BY DEF SplitInit, SchedulerInit
<1>2. PICK f, nv, deg, rv, re :
        /\ f \in Inputs
        /\ g = [n_vertices |-> nv, n_edges |-> f.csr.n_edges,
                vertices |-> 1, edges |-> 2,
                reverse_vertices |-> rv, reverse_edges |-> re,
                vertices_c |-> NULL, edges_c |-> NULL, n_edges_c |-> 0,
                src_list |-> NULL, dst_list |-> NULL, stream |-> NULL,
                nnz |-> 0, sizes |-> <<>>, max_degree |-> deg,
                MAX_DEGREE |-> Max({deg, 1})]
  BY Zenon DEF SplitInit, Init
<1>3. f.csr.n_edges \in Nat
  BY <1>2, InputsAssumption DEF IsFile, IsCSR
<1>4. Counts
  BY <1>2, <1>3 DEF Counts
<1> QED
  BY <1>1, <1>4 DEF RoundRobinInv, Job, Dealing, Given, Methods

\* What the lemmas on TaskOf say of the queues when all is dealt.
LEMMA DealtOnce == RoundRobinInv /\ job.method = "round_robin" => TasksOnce
<1> SUFFICES ASSUME RoundRobinInv, job.method = "round_robin", Given PROVE TasksOnce
  BY DEF TasksOnce
<1> DEFINE cells == {c \in Q \X UNION {DOMAIN queues[q] : q \in Q} :
                       c[2] \in DOMAIN queues[c[1]] /\ queues[c[1]][c[2]] # Unset}
           task(c) == queues[c[1]][c[2]]
<1>1. Counts /\ Job /\ Dealing
  BY DEF RoundRobinInv
<1>2. PICK L, n, s, T, m, r, l :
        /\ L = nnz /\ n = job.n /\ s = job.stride /\ T = total_num_chunks
        /\ m = nchunks_per_queue /\ r = rest /\ l = last_size
  OBVIOUS
<1>3. /\ n \in Nat \ {0} /\ s \in Nat \ {0} /\ Q = 0 .. n - 1 /\ Chunking(L, n, s, T, m, r, l)
      /\ \A q \in Q : /\ lens[q] = QueueLen(n, s, m, r, l, q)
                      /\ lens[q] \in Nat /\ DOMAIN queues[q] = 0 .. lens[q] - 1
  BY <1>1, <1>2, Running
<1>4. \A q \in Q : \A k \in 0 .. lens[q] - 1 : queues[q][k] = TaskOf(n, s, q, k)
  BY <1>1, <1>2 DEF Dealing, Dealt, Given
<1>5. \A q \in Q : \A k \in 0 .. lens[q] - 1 :
        TaskOf(n, s, q, k) \in (0 .. L - 1) \ Missing(L, s, r, l)
  <2> SUFFICES ASSUME NEW q \in Q, NEW k \in 0 .. lens[q] - 1
               PROVE  TaskOf(n, s, q, k) \in (0 .. L - 1) \ Missing(L, s, r, l)
    OBVIOUS
  <2>1. q \in 0 .. n - 1 /\ k \in Nat /\ k < QueueLen(n, s, m, r, l, q)
    BY <1>3
  <2> QED
    BY <1>3, <2>1, TaskInList
<1>6. \A q \in Q : \A k \in DOMAIN queues[q] : queues[q][k] # Unset
  <2> SUFFICES ASSUME NEW q \in Q, NEW k \in 0 .. lens[q] - 1 PROVE queues[q][k] # Unset
    BY <1>3
  <2>1. queues[q][k] \in 0 .. L - 1
    BY <1>4, <1>5
  <2> QED
    BY <2>1 DEF Unset
<1>7. ASSUME NEW q \in Q, NEW k \in 0 .. lens[q] - 1
      PROVE  <<q, k>> \in cells /\ task(<<q, k>>) = TaskOf(n, s, q, k)
  BY <1>3, <1>4, <1>6, <1>7
<1>8. ASSUME NEW c \in cells
      PROVE  /\ c[1] \in Q /\ c[2] \in 0 .. lens[c[1]] - 1 /\ c = <<c[1], c[2]>>
             /\ task(c) = TaskOf(n, s, c[1], c[2])
  BY <1>3, <1>4
<1>9. Lost = Missing(L, s, r, l)
  BY <1>2 DEF Lost, Missing
<1> HIDE DEF cells, task
<1>10. {task(c) : c \in cells} = (0 .. nnz - 1) \ Lost
  <2>1. ASSUME NEW c \in cells PROVE task(c) \in (0 .. L - 1) \ Missing(L, s, r, l)
    BY <1>5, <1>8
  <2>2. ASSUME NEW e \in (0 .. L - 1) \ Missing(L, s, r, l) PROVE \E c \in cells : task(c) = e
    <3>1. PICK q \in 0 .. n - 1 : \E k \in 0 .. QueueLen(n, s, m, r, l, q) - 1 :
                                    TaskOf(n, s, q, k) = e
      BY <1>3, TaskHasCell
    <3>2. PICK k \in 0 .. lens[q] - 1 : TaskOf(n, s, q, k) = e
      BY <1>3, <3>1
    <3>3. q \in Q
      BY <1>3
    <3> QED
      BY <1>7, <3>2, <3>3
  <2> QED
    BY <1>2, <1>9, <2>1, <2>2
<1>11. \A c, d \in cells : task(c) = task(d) => c = d
  <2> SUFFICES ASSUME NEW c \in cells, NEW d \in cells, task(c) = task(d) PROVE c = d
    OBVIOUS
  <2>1. PICK q, k, p, i : q = c[1] /\ k = c[2] /\ p = d[1] /\ i = d[2]
    OBVIOUS
  <2>2. q \in 0 .. n - 1 /\ k \in Nat /\ p \in 0 .. n - 1 /\ i \in Nat
    BY <1>3, <1>8, <2>1
  <2>3. TaskOf(n, s, q, k) = TaskOf(n, s, p, i)
    BY <1>8, <2>1
  <2>4. q = p /\ k = i
    BY <1>3, <2>2, <2>3, CellsDiffer
  <2> QED
    BY <1>8, <2>1, <2>4
<1>12. \A c, d \in cells : c[1] = d[1] /\ c[2] < d[2] => task(c) < task(d)
  <2> SUFFICES ASSUME NEW c \in cells, NEW d \in cells, c[1] = d[1], c[2] < d[2]
               PROVE  task(c) < task(d)
    OBVIOUS
  <2>1. PICK q, k, i : q = c[1] /\ k = c[2] /\ i = d[2]
    OBVIOUS
  <2>2. q \in 0 .. n - 1 /\ k \in Nat /\ i \in Nat /\ k < i
    BY <1>3, <1>8, <2>1
  <2>3. TaskOf(n, s, q, k) < TaskOf(n, s, q, i)
    BY <1>3, <2>2, CellsDiffer
  <2> QED
    BY <1>8, <2>1, <2>3
<1>13. \A q \in Q : DOMAIN queues[q] = 0 .. lens[q] - 1
  BY <1>3
<1>14. job.method # "vertex_chunking"
  OBVIOUS
<1> QED
  BY <1>6, <1>10, <1>11, <1>12, <1>13, <1>14, Zenon DEF TasksOnce, cells, task

(***************************************************************************)
(* The queues of a running round_robin hold what has been dealt so far.    *)
(***************************************************************************)
THEOREM SplitRoundRobin == Spec => []RoundRobinInv
BY InitRoundRobin, NextRoundRobin, SplitInvariant, PTL DEF Spec

-----------------------------------------------------------------------------
(***************************************************************************)
(* What stops a call.  A list or a stream is what made nnz nonzero, and    *)
(* sizes is there from the first init_edgelist on.                         *)
(***************************************************************************)
Lists ==
  /\ g.n_vertices \in Nat \ {0}
  /\ g.nnz # 0 /\ g.src_list = NULL => g.stream # NULL
  /\ g.sizes = <<>> => past.sized = 0
  /\ phase = "append" => pos \in Nat

Explained ==
  /\ status = "null" => g.stream # NULL
  /\ status = "sizes" => past.sized = 0
  /\ status = "assert" => nnz <= MinTasks \/ job.n * job.stride >= nnz
  /\ status = "division" => num_subgraphs > g.n_vertices
  /\ status = "uninitialized" => g.vertices_c = NULL

\* A method of the graph ends with a list, a stream or neither.
LEMMA CallGraphLists == IInv /\ Lists /\ CallGraph => Lists' /\ Explained'
<1> SUFFICES ASSUME IInv, Lists, CallGraph PROVE Lists' /\ Explained'
  OBVIOUS
<1>1. GraphStep /\ phase' = "idle"
  BY DEF CallGraph, Idle, svars
<1>2. DOMAIN g = Members /\ DOMAIN past = History
  BY DEF IInv, Shape
<1>3. /\ "nnz" \in DOMAIN g /\ "n_vertices" \in DOMAIN g /\ "src_list" \in DOMAIN g
      /\ "stream" \in DOMAIN g /\ "sizes" \in DOMAIN g /\ "sized" \in DOMAIN past
  BY <1>2 DEF Members, Owned, History
<1>4. Fresh(1) # NULL
  <2>1. Len(heap) \in Nat
    BY LenProperties DEF IInv, Shape
  <2> QED
    BY <2>1 DEF Fresh, NULL
<1>5. ASSUME status' \in {"ok", "overrun", "destroyed", "double_free"} PROVE Explained'
  BY <1>5 DEF Explained
<1>6. ASSUME /\ g'.nnz = g.nnz /\ g'.n_vertices = g.n_vertices /\ g'.src_list = g.src_list
             /\ g'.stream = g.stream /\ g'.sizes = g.sizes /\ past'.sized = past.sized
             /\ status' \in {"ok", "overrun", "destroyed", "double_free"}
      PROVE  Lists' /\ Explained'
  BY <1>1, <1>5, <1>6 DEF Lists
<1>7. ASSUME NEW buffers, Orient(buffers) PROVE Lists' /\ Explained'
  <2>1. PICK x, y, z, w : g' = [g EXCEPT !.vertices = x, !.edges = y, !.n_edges = w,
                                         !.max_degree = z, !.MAX_DEGREE = buffers]
    BY <1>7 DEF Orient
  <2>2. PICK b : past' = [past EXCEPT !.oriented = TRUE, !.lostList = b]
    BY <1>7, Zenon DEF Orient
  <2>3. status' = "ok"
    BY <1>7 DEF Orient, Called
  <2> QED
    BY <1>3, <1>6, <2>1, <2>2, <2>3
<1>8. CASE swap_graph_mode
  <2>1. CASE Swaps
    BY <1>3, <1>6, <2>1 DEF Swaps, Called
  <2>2. CASE SwapFails
    BY <1>1, <2>2 DEF SwapFails, Lists, Explained
  <2> QED
    BY <1>8, <2>1, <2>2, SwapCases
<1>9. ASSUME NEW c, color_sparsify_fast(c) PROVE Lists' /\ Explained'
  <2>1. PICK x, y, w : g' = [g EXCEPT !.vertices = x, !.edges = y, !.n_edges = w]
    BY <1>9 DEF color_sparsify_fast
  <2>2. past' = past /\ status' = "ok"
    BY <1>9 DEF color_sparsify_fast, Called
  <2> QED
    BY <1>3, <1>6, <2>1, <2>2
<1>10. ASSUME NEW c, color_sparsify_fast_d(c) PROVE Lists' /\ Explained'
  <2>1. PICK x, y, w : g' = [g EXCEPT !.vertices_c = x, !.edges_c = y, !.n_edges_c = w]
    BY <1>10 DEF color_sparsify_fast_d
  <2>2. past' = past /\ status' = "ok"
    BY <1>10 DEF color_sparsify_fast_d, Called
  <2> QED
    BY <1>3, <1>6, <2>1, <2>2
<1>11. ASSUME NEW c, color_sparsify(c) PROVE Lists' /\ Explained'
  <2>1. PICK x, w : g' = [g EXCEPT !.edges = x, !.n_edges = w]
    BY <1>11 DEF color_sparsify
  <2>2. PICK b : past' = [past EXCEPT !.inPlace = b]
    BY <1>11, Zenon DEF color_sparsify
  <2>3. status' = "ok"
    BY <1>11 DEF color_sparsify, Called
  <2> QED
    BY <1>3, <1>6, <2>1, <2>2, <2>3
<1>12. ASSUME NEW s, NEW a PROVE Remembered(s, a).sized = past.sized
  BY <1>3 DEF Remembered
<1>13. CASE init_simple_edgelist
  <2>1. status' = "ok"
    BY <1>13 DEF init_simple_edgelist, Called
  <2>2. CASE g.nnz # 0
    BY <1>6, <1>13, <2>1, <2>2 DEF init_simple_edgelist
  <2>3. CASE g.nnz = 0
    <3>1. PICK y : g' = [g EXCEPT !.nnz = g.n_edges, !.src_list = Fresh(1), !.dst_list = y]
      BY <1>13, <2>3 DEF init_simple_edgelist
    <3>2. past'.sized = past.sized
      BY <1>12, <1>13, <2>3 DEF init_simple_edgelist
    <3> QED
      BY <1>1, <1>3, <1>4, <1>5, <2>1, <3>1, <3>2 DEF Lists
  <2> QED
    BY <2>2, <2>3
<1>14. CASE create_edge_stream
  <2>1. status' = "ok" /\ past' = past
    BY <1>14 DEF create_edge_stream, Called
  <2>2. CASE g.nnz # 0
    BY <1>6, <1>14, <2>1, <2>2 DEF create_edge_stream
  <2>3. CASE g.nnz = 0
    <3>1. g' = [g EXCEPT !.nnz = g.n_edges, !.stream = Fresh(1)]
      BY <1>14, <2>3 DEF create_edge_stream
    <3> QED
      BY <1>1, <1>3, <1>4, <1>5, <2>1, <3>1 DEF Lists
  <2> QED
    BY <2>2, <2>3
<1>15. ASSUME NEW s, NEW a, MakeList(s, a), status = "ok" PROVE Lists' /\ Explained'
  <2> DEFINE list == Listed([v \in V |-> Tasks(v, s, a)])
             size == IF s THEN g.n_edges \div 2 ELSE g.n_edges
             old == IF g.sizes = <<>> THEN [v \in V |-> 0] ELSE g.sizes
             new_sizes == [v \in V |-> old[v] + Len(Tasks(v, s, a))]
             dst == IF s THEN Fresh(2) ELSE g.edges
  <2>1. new_sizes # <<>>
    <3>1. 0 \in DOMAIN new_sizes
      BY DEF Lists, V
    <3> QED
      BY <3>1
  <2>2. \/ g' = g /\ past' = past /\ status' = "overrun"
        \/ /\ g' = [g EXCEPT !.nnz = size, !.src_list = Fresh(1), !.dst_list = dst,
                             !.sizes = new_sizes]
           /\ status' = status
    BY <1>15 DEF MakeList
  <2> HIDE DEF list, size, old, new_sizes, dst
  <2>3. CASE g' = g /\ past' = past /\ status' = "overrun"
    BY <1>6, <2>3
  <2>4. CASE /\ g' = [g EXCEPT !.nnz = size, !.src_list = Fresh(1), !.dst_list = dst,
                               !.sizes = new_sizes]
             /\ status' = status
    <3>1. /\ g'.n_vertices = g.n_vertices /\ g'.src_list = Fresh(1) /\ g'.sizes = new_sizes
      BY <1>3, <2>4
    <3> QED
      BY <1>1, <1>4, <1>5, <1>15, <2>1, <2>4, <3>1 DEF Lists
  <2> QED
    BY <2>2, <2>3, <2>4
<1>16. ASSUME NEW s, NEW a, init_edgelist(s, a) PROVE Lists' /\ Explained'
  <2>1. status = "ok" /\ (MakeList(s, a) \/ UNCHANGED <<g, past, status>>)
    BY <1>16 DEF init_edgelist, Called
  <2> QED
    BY <1>6, <1>15, <2>1
<1>17. ASSUME NEW s, NEW a, reinit_edgelist(s, a) PROVE Lists' /\ Explained'
  BY <1>15, <1>17 DEF reinit_edgelist, Called
<1>18. CASE destroy
  BY <1>6, <1>18 DEF destroy
<1> QED
  BY <1>1, <1>7, <1>8, <1>9, <1>10, <1>11, <1>13, <1>14, <1>16, <1>17, <1>18, Zenon
     DEF GraphStep, use_dag, orientation

LEMMA SchedulerLists ==
  ASSUME Undisturbed, Counts, Lists, SchedulerStep, UNCHANGED pvars
  PROVE  Lists' /\ Explained'
<1>1. nnz \in Nat /\ MinTasks \in Nat /\ job' = job
  BY MinTasksAssumption DEF Counts, nnz, SchedulerStep
<1>2. ASSUME NEW why, Fails(why),
             why = "null" => g.stream # NULL,
             why = "sizes" => past.sized = 0,
             why = "assert" => nnz <= MinTasks \/ job.n * job.stride >= nnz,
             why \notin {"division", "uninitialized"}
      PROVE  Lists' /\ Explained'
  <2>1. status' = why /\ phase' = "done" /\ g' = g /\ past' = past
    BY <1>2 DEF Fails
  <2> QED
    BY <1>1, <1>2, <2>1 DEF Lists, Explained, nnz
<1>3. ASSUME UNCHANGED gvars, status = "ok", phase' = "append" => pos' \in Nat
      PROVE  Lists' /\ Explained'
  BY <1>3 DEF Lists, Explained, gvars
<1>4. ASSUME Unusable # "ok", Fails(Unusable), nnz # 0 PROVE Lists' /\ Explained'
  <2>1. Unusable = "null" => g.stream # NULL
    BY <1>4 DEF Unusable, Lists, nnz
  <2> QED
    BY <1>2, <1>4, <2>1, UnusableType
<1>5. CASE round_robin
  <2>1. status = "ok"
    BY <1>5 DEF round_robin, Undisturbed
  <2>2. CASE nnz <= MinTasks
    <3>1. Fails("assert")
      BY <1>1, <1>5, <2>2 DEF round_robin
    <3> QED
      BY <1>2, <2>2, <3>1
  <2>3. CASE nnz > MinTasks
    <3>1. \/ Unusable # "ok" /\ Fails(Unusable)
          \/ UNCHANGED gvars /\ phase' = "chunks"
      BY <1>1, <1>5, <2>3 DEF round_robin
    <3>2. nnz # 0
      BY <1>1, <2>3
    <3> QED
      BY <1>3, <1>4, <2>1, <3>1, <3>2
  <2> QED
    BY <1>1, <2>2, <2>3
<1>6. CASE CopyRest
  BY <1>3, <1>6 DEF CopyRest, Undisturbed
<1>7. ASSUME NEW c \in todo, CopyChunk(c) PROVE Lists' /\ Explained'
  BY <1>3, <1>7 DEF CopyChunk, Undisturbed
<1>8. CASE vertex_chunking
  <2>1. status = "ok"
    BY <1>8 DEF vertex_chunking, Undisturbed
  <2>2. \/ g.sizes = <<>> /\ Fails("sizes")
        \/ UNCHANGED gvars /\ pos' = 0
    BY <1>8 DEF vertex_chunking
  <2>3. CASE g.sizes = <<>> /\ Fails("sizes")
    BY <1>2, <2>3 DEF Lists
  <2>4. CASE UNCHANGED gvars /\ pos' = 0
    BY <1>3, <2>1, <2>4
  <2> QED
    BY <2>2, <2>3, <2>4
<1>9. CASE AppendTask
  <2>1. status = "ok" /\ pos \in Nat /\ pos < nnz
    BY <1>9 DEF AppendTask, Undisturbed, Lists
  <2>2. \/ Unusable # "ok" /\ Fails(Unusable)
        \/ Fails("unset")
        \/ UNCHANGED gvars /\ pos' = pos + 1
    BY <1>9 DEF AppendTask
  <2>3. nnz # 0 /\ pos + 1 \in Nat
    BY <1>1, <2>1
  <2>4. CASE Unusable # "ok" /\ Fails(Unusable)
    BY <1>4, <2>3, <2>4
  <2>5. CASE Fails("unset")
    BY <1>2, <2>5
  <2>6. CASE UNCHANGED gvars /\ pos' = pos + 1
    BY <1>3, <2>1, <2>3, <2>6
  <2> QED
    BY <2>2, <2>4, <2>5, <2>6
<1>10. CASE AppendEnd
  BY <1>3, <1>10 DEF AppendEnd, Undisturbed
<1>11. CASE least_first
  <2>1. status = "ok"
    BY <1>11 DEF least_first, Undisturbed
  <2>2. CASE nnz <= MinTasks
    <3>1. Fails("assert")
      BY <1>1, <1>11, <2>2 DEF least_first
    <3> QED
      BY <1>2, <2>2, <3>1
  <2>3. CASE nnz > MinTasks
    <3>1. nnz # 0
      BY <1>1, <2>3
    <3>2. \/ Unusable # "ok" /\ Fails(Unusable)
          \/ Fails("unset")
          \/ job.n * job.stride >= nnz /\ Fails("assert")
          \/ UNCHANGED gvars /\ phase' = "more"
      BY <1>1, <1>11, <2>3 DEF least_first
    <3>3. CASE Unusable # "ok" /\ Fails(Unusable)
      BY <1>4, <3>1, <3>3
    <3>4. CASE Fails("unset")
      BY <1>2, <3>4
    <3>5. CASE job.n * job.stride >= nnz /\ Fails("assert")
      BY <1>2, <3>5
    <3>6. CASE UNCHANGED gvars /\ phase' = "more"
      BY <1>3, <2>1, <3>6
    <3> QED
      BY <3>2, <3>3, <3>4, <3>5, <3>6
  <2> QED
    BY <1>1, <2>2, <2>3
<1>12. CASE NextChunk
  BY <1>3, <1>12 DEF NextChunk, Undisturbed
<1>13. CASE LastChunk
  BY <1>3, <1>13 DEF LastChunk, Undisturbed
<1> QED
  BY <1>5, <1>6, <1>7, <1>8, <1>9, <1>10, <1>11, <1>12, <1>13, Zenon DEF SchedulerStep

LEMMA PartitionLists ==
  ASSUME Lists, phase = "idle", phase' = "idle", Partition
  PROVE  Lists' /\ Explained'
<1>1. PICK n \in 2 .. MaxSubgraphs : edgecut_induced_partition1D(n) \/ csr_segmenting(n)
  BY DEF Partition
<1>2. n \in Nat \ {0} /\ g.n_vertices \in Nat
  BY DEF Lists
<1>3. g' = g /\ past' = past /\ num_subgraphs' = n
  BY <1>1 DEF edgecut_induced_partition1D, csr_segmenting, gvars
<1>4. \/ status' = "ok" \/ status' = "out_of_bounds"
      \/ status' = "division" /\ g.n_vertices \div n = 0
  BY <1>1 DEF edgecut_induced_partition1D, csr_segmenting, gvars
<1>5. g.n_vertices \div n = 0 => n > g.n_vertices
  <2>1. PICK a, b : a \in Nat /\ a = g.n_vertices /\ b \in Nat \ {0} /\ b = n
    BY <1>2
  <2>2. a \div b \in Nat /\ a % b \in 0 .. b - 1 /\ a = (a \div b) * b + (a % b)
    BY <2>1, Euclid
  <2>3. PICK x, y : x = a \div b /\ y = a % b
    OBVIOUS
  <2>4. y \in 0 .. b - 1 /\ a = x * b + y
    BY <2>2, <2>3
  <2>5. x = 0 => b > a
    <3> SUFFICES ASSUME x = 0 PROVE b > a
      OBVIOUS
    <3>1. x * b = 0
      BY <2>1
    <3> QED
      BY <2>1, <2>4, <3>1
  <2> QED
    BY <2>1, <2>3, <2>5
<1> QED
  BY <1>3, <1>4, <1>5 DEF Lists, Explained

LEMMA NextLists ==
  IInv /\ Counts /\ Lists /\ Explained /\ [Next]_vars => Lists' /\ Explained'
<1> SUFFICES ASSUME IInv, Counts, Lists, Explained, [Next]_vars PROVE Lists' /\ Explained'
  OBVIOUS
<1>1. CASE CallGraph
  BY <1>1, CallGraphLists
<1>2. CASE CallScheduler
  <2>1. UNCHANGED gvars /\ status = "ok" /\ phase' \in Methods
    BY <1>2 DEF CallScheduler, Split
  <2> QED
    BY <2>1 DEF Lists, Explained, Methods, gvars
<1>3. CASE CallPartition
  BY <1>3, PartitionLists DEF CallPartition, Idle, svars
<1>4. CASE SchedulerStep /\ UNCHANGED pvars
  BY <1>4, SchedulerLists DEF IInv
<1>5. CASE PartitionStep /\ UNCHANGED svars
  <2>1. UNCHANGED gvars /\ num_subgraphs' = num_subgraphs
    BY <1>5 DEF PartitionStep, BuildSubgraph, Mark, SegmentVertex, SegmentEnd
  <2> QED
    BY <1>5, <2>1 DEF Lists, Explained, nnz, gvars, svars
<1>6. CASE UNCHANGED vars
  BY <1>6 DEF Lists, Explained, nnz, vars, gvars, svars, pvars
<1> QED
  BY <1>1, <1>2, <1>3, <1>4, <1>5, <1>6, Zenon DEF Next, Working

LEMMA InitLists == SplitInit => Lists /\ Explained
<1> SUFFICES ASSUME SplitInit PROVE Lists /\ Explained
  OBVIOUS
<1>1. phase = "idle" /\ status = "ok"
  BY DEF SplitInit, SchedulerInit, Init
<1>2. PICK f, deg, rv, re :
        /\ f \in Inputs
        /\ g = [n_vertices |-> Cardinality(DOMAIN f.csr.vertices) - 1, n_edges |-> f.csr.n_edges,
                vertices |-> 1, edges |-> 2,
                reverse_vertices |-> rv, reverse_edges |-> re,
                vertices_c |-> NULL, edges_c |-> NULL, n_edges_c |-> 0,
                src_list |-> NULL, dst_list |-> NULL, stream |-> NULL,
                nnz |-> 0, sizes |-> <<>>, max_degree |-> deg,
                MAX_DEGREE |-> Max({deg, 1})]
        /\ past = [loaded |-> f.csr,
                   arcs |-> {}, sym_break |-> FALSE, ascend |-> FALSE,
                   sized |-> 0, counted |-> FALSE, oriented |-> FALSE, inPlace |-> FALSE,
                   lostList |-> FALSE]
  BY Zenon DEF SplitInit, Init
<1>3. g.n_vertices \in Nat \ {0} /\ g.nnz = 0 /\ past.sized = 0
  BY <1>2, InputsAssumption DEF IsFile
<1> QED
  BY <1>1, <1>3 DEF Lists, Explained

(***************************************************************************)
(* Seven of the faults have the reason that is given, for every graph and  *)
(* any number of calls: a missing list was replaced by a stream; a swap    *)
(* found no second CSR; a freed list is read, or a block freed twice in    *)
(* ~Graph, only after orientation has freed the edge array that a list     *)
(* without sym_break has as dst_list (the destructor's test that dst_list  *)
(* is not the edge array of now misses the edge array of then, and nothing *)
(* else); sizes is missing while no task has been counted in it; the       *)
(* asserts want more tasks; and the division is by zero when there are     *)
(* more segments than vertices.                                            *)
(***************************************************************************)
LEMMA SplitFirstFaults ==
  Spec => [](status \notin {"overrun", "unset", "past_end", "out_of_bounds"} => StatusExplained)
<1>1. IInv /\ Explained => (status \notin {"overrun", "unset", "past_end", "out_of_bounds"} => StatusExplained)
  <2> SUFFICES ASSUME IInv, Explained, status \notin {"overrun", "unset", "past_end", "out_of_bounds"}
               PROVE  StatusExplained
    OBVIOUS
  <2>1. status \in {"freed", "double_free"} => past.oriented /\ past.lostList
    BY DEF IInv, Blamed
  <2> QED
    BY <2>1 DEF Explained, StatusExplained
<1>2. Spec => [](Lists /\ Explained)
  <2>1. SplitInit => Lists /\ Explained
    BY InitLists
  <2>2. RoundRobinInv => Counts
    BY DEF RoundRobinInv
  <2> QED
    BY <2>1, <2>2, NextLists, SplitInvariant, SplitRoundRobin, PTL DEF Spec
<1> QED
  BY <1>1, <1>2, SplitInvariant, PTL
-----------------------------------------------------------------------------
(***************************************************************************)
(* Arrays.  CSR concatenates lists by FlattenSeq, a recursion over the     *)
(* number of the lists: a function with that recursion exists and is       *)
(* unique, shown by the least number for which it would fail.              *)
(***************************************************************************)

\* The recursion of FlattenSeq, up to the n-th of the lists.
Flattens(s, n, F) == F = [i \in 1 .. n |-> IF i = 1 THEN s[i] ELSE F[i - 1] \o s[i]]

Unfolded(s, n, F) ==
  /\ DOMAIN F = 1 .. n
  /\ n # 0 => F[1] = s[1]
  /\ \A i \in 1 .. n - 1 : F[i + 1] = F[i] \o s[i + 1]

LEMMA FlattensFacts ==
  ASSUME NEW s, NEW n \in Nat, NEW F, Flattens(s, n, F) PROVE Unfolded(s, n, F)
<1>1. DOMAIN F = 1 .. n /\ \A i \in 1 .. n : F[i] = IF i = 1 THEN s[i] ELSE F[i - 1] \o s[i]
  BY DEF Flattens
<1>2. ASSUME NEW i \in 1 .. n - 1 PROVE F[i + 1] = F[i] \o s[i + 1]
  <2>1. i + 1 \in 1 .. n /\ i + 1 # 1 /\ (i + 1) - 1 = i
    OBVIOUS
  <2> QED
    BY <1>1, <2>1
<1>3. n # 0 => F[1] = s[1]
  <2>1. n # 0 => 1 \in 1 .. n
    OBVIOUS
  <2> QED
    BY <1>1, <2>1
<1> QED
  BY <1>1, <1>2, <1>3 DEF Unfolded

LEMMA FlattensExists == ASSUME NEW s, NEW m \in Nat \ {0} PROVE \E F : Flattens(s, m, F)
<1> DEFINE T == {n \in Nat \ {0} : \E F : Flattens(s, n, F)}
<1>1. 1 \in T
  <2>1. Flattens(s, 1, [i \in 1 .. 1 |-> s[i]])
    BY DEF Flattens
  <2> QED
    BY <2>1
<1>2. ASSUME NEW n \in Nat \ {0}, n \in T PROVE n + 1 \in T
  <2>1. PICK F : Flattens(s, n, F)
    BY <1>2
  <2>2. DOMAIN F = 1 .. n /\ \A i \in 1 .. n : F[i] = IF i = 1 THEN s[i] ELSE F[i - 1] \o s[i]
    BY <2>1 DEF Flattens
  <2>3. PICK x : x = F[n] \o s[n + 1]
    OBVIOUS
  <2>4. PICK G : G = [i \in 1 .. n + 1 |-> IF i = n + 1 THEN x ELSE F[i]]
    OBVIOUS
  <2>5. DOMAIN G = 1 .. n + 1 /\ G[n + 1] = x /\ \A i \in 1 .. n : G[i] = F[i]
    BY <2>4
  <2>6. ASSUME NEW i \in 1 .. n + 1 PROVE G[i] = IF i = 1 THEN s[i] ELSE G[i - 1] \o s[i]
    <3>1. CASE i = n + 1
      <4>1. i # 1 /\ i - 1 = n /\ n \in 1 .. n
        BY <3>1
      <4> QED
        BY <2>3, <2>5, <3>1, <4>1
    <3>2. CASE i = 1
      <4>1. 1 \in 1 .. n
        OBVIOUS
      <4> QED
        BY <2>2, <2>5, <3>2, <4>1
    <3>3. CASE i # 1 /\ i # n + 1
      <4>1. i \in 1 .. n /\ i - 1 \in 1 .. n
        BY <3>3
      <4> QED
        BY <2>2, <2>5, <3>3, <4>1
    <3> QED
      BY <3>1, <3>2, <3>3
  <2>7. Flattens(s, n + 1, G)
    <3>1. G = [i \in 1 .. n + 1 |-> G[i]]
      BY <2>4
    <3> QED
      BY <2>6, <3>1 DEF Flattens
  <2> QED
    BY <2>7
<1> HIDE DEF T
<1>3. m \in T
  BY <1>1, <1>2, Upwards
<1> QED
  BY <1>3 DEF T

\* FlattenSeq is the last value of a function with this recursion.
LEMMA FlattenLast ==
  ASSUME NEW s, Len(s) \in Nat \ {0}
  PROVE  \E F : Flattens(s, Len(s), F) /\ FlattenSeq(s) = F[Len(s)]
<1>1. \E F : Flattens(s, Len(s), F)
  BY FlattensExists
<1>2. PICK F : F = CHOOSE G : Flattens(s, Len(s), G)
  OBVIOUS
<1>3. Flattens(s, Len(s), F)
  BY <1>1, <1>2, Zenon
<1>4. FlattenSeq(s) = F[Len(s)]
  BY <1>2, Zenon DEF FlattenSeq, Flattens
<1> QED
  BY <1>3, <1>4

Agree(s, t, m) == \A i \in 1 .. m : t[i] = s[i]

\* Two functions with the recursion agree as far as both go.
LEMMA FlattensUnique ==
  ASSUME NEW s, NEW t, NEW m \in Nat \ {0}, NEW n \in Nat, m <= n, NEW F, NEW G,
         Flattens(s, n, F), Flattens(t, m, G), Agree(s, t, m)
  PROVE  G[m] = F[m]
<1> DEFINE T == {k \in Nat \ {0} : k <= m => G[k] = F[k]}
<1>1. /\ F[1] = s[1] /\ \A i \in 1 .. n - 1 : F[i + 1] = F[i] \o s[i + 1]
      /\ G[1] = t[1] /\ \A i \in 1 .. m - 1 : G[i + 1] = G[i] \o t[i + 1]
  <2>1. n # 0 /\ m # 0 /\ m \in Nat
    OBVIOUS
  <2>2. Unfolded(s, n, F) /\ Unfolded(t, m, G)
    BY <2>1, FlattensFacts, Zenon
  <2> QED
    BY <2>1, <2>2 DEF Unfolded
<1>2. 1 \in T
  BY <1>1 DEF Agree
<1>3. ASSUME NEW k \in Nat \ {0}, k \in T PROVE k + 1 \in T
  <2> SUFFICES ASSUME k + 1 <= m PROVE G[k + 1] = F[k + 1]
    OBVIOUS
  <2>1. k \in 1 .. m - 1 /\ k \in 1 .. n - 1 /\ k + 1 \in 1 .. m /\ G[k] = F[k]
    BY <1>3
  <2> QED
    BY <1>1, <2>1 DEF Agree
<1> HIDE DEF T
<1>4. m \in T
  BY <1>2, <1>3, Upwards
<1> QED
  BY <1>4 DEF T

\* The values are sequences, each a prefix of the later ones.
LEMMA FlattensGrows ==
  ASSUME NEW S, NEW s \in Seq(Seq(S)), NEW F, Flattens(s, Len(s), F),
         NEW v \in 1 .. Len(s), NEW m \in v .. Len(s)
  PROVE  /\ F[v] \in Seq(S) /\ F[m] \in Seq(S) /\ Len(F[v]) <= Len(F[m])
         /\ \A i \in 1 .. Len(F[v]) : F[m][i] = F[v][i]
<1>0. Len(s) \in Nat /\ Len(s) # 0 /\ v \in Nat \ {0} /\ m \in Nat \ {0}
  OBVIOUS
<1>1. F[1] = s[1] /\ \A i \in 1 .. Len(s) - 1 : F[i + 1] = F[i] \o s[i + 1]
  <2>1. Unfolded(s, Len(s), F)
    BY <1>0, FlattensFacts, Zenon
  <2> QED
    BY <1>0, <2>1 DEF Unfolded
<1>2. \A i \in 1 .. Len(s) : s[i] \in Seq(S)
  OBVIOUS
<1> DEFINE T == {k \in Nat \ {0} : k <= Len(s) => F[k] \in Seq(S)}
           U == {k \in Nat \ {0} : v <= k /\ k <= Len(s) =>
                   Len(F[v]) <= Len(F[k]) /\ \A i \in 1 .. Len(F[v]) : F[k][i] = F[v][i]}
<1>3. \A k \in Nat \ {0} : k \in T
  <2>1. 1 \in T
    BY <1>0, <1>1, <1>2
  <2>2. ASSUME NEW k \in Nat \ {0}, k \in T PROVE k + 1 \in T
    <3> SUFFICES ASSUME k + 1 <= Len(s) PROVE F[k + 1] \in Seq(S)
      OBVIOUS
    <3>1. k \in 1 .. Len(s) - 1 /\ F[k] \in Seq(S) /\ s[k + 1] \in Seq(S)
      BY <1>0, <1>2, <2>2
    <3>2. F[k + 1] = F[k] \o s[k + 1]
      BY <1>1, <3>1
    <3> QED
      BY <3>1, <3>2
  <2> HIDE DEF T
  <2> QED
    BY <2>1, <2>2, Upwards
<1>4. \A k \in 1 .. Len(s) : F[k] \in Seq(S)
  BY <1>0, <1>3
<1>5. \A k \in Nat \ {0} : k \in U
  <2>1. 1 \in U
    <3>1. v <= 1 => v = 1
      BY <1>0
    <3> QED
      BY <1>0, <1>4, <3>1
  <2>2. ASSUME NEW k \in Nat \ {0}, k \in U PROVE k + 1 \in U
    <3> SUFFICES ASSUME v <= k + 1, k + 1 <= Len(s)
                 PROVE  /\ Len(F[v]) <= Len(F[k + 1])
                        /\ \A i \in 1 .. Len(F[v]) : F[k + 1][i] = F[v][i]
      OBVIOUS
    <3>1. CASE v = k + 1
      <4>1. F[v] \in Seq(S)
        BY <1>4
      <4> QED
        BY <3>1, <4>1
    <3>2. CASE v # k + 1
      <4>1. v <= k /\ k <= Len(s) /\ k \in 1 .. Len(s) - 1
        BY <1>0, <3>2
      <4>2. PICK a, b, c : a = F[v] /\ b = F[k] /\ c = s[k + 1]
        OBVIOUS
      <4>3. a \in Seq(S) /\ b \in Seq(S) /\ c \in Seq(S)
        BY <1>0, <1>2, <1>4, <4>1, <4>2
      <4>4. Len(a) <= Len(b) /\ \A i \in 1 .. Len(a) : b[i] = a[i]
        BY <2>2, <4>1, <4>2
      <4>5. F[k + 1] = b \o c
        BY <1>1, <4>1, <4>2
      <4>6. Len(b \o c) = Len(b) + Len(c) /\ \A i \in 1 .. Len(b) : (b \o c)[i] = b[i]
        BY <4>3
      <4>7. Len(a) \in Nat /\ Len(b) \in Nat /\ Len(c) \in Nat
        BY <4>3
      <4>8. Len(a) <= Len(b \o c)
        BY <4>4, <4>6, <4>7
      <4>9. \A i \in 1 .. Len(a) : (b \o c)[i] = a[i]
        BY <4>4, <4>6, <4>7
      <4> QED
        BY <4>2, <4>5, <4>8, <4>9
    <3> QED
      BY <3>1, <3>2
  <2> HIDE DEF U
  <2> QED
    BY <2>1, <2>2, Upwards
<1>6. m \in U
  BY <1>0, <1>5
<1> QED
  BY <1>0, <1>4, <1>6

(***************************************************************************)
(* The CSR arrays represent the lists that they are made from: row v, as   *)
(* Graph::N reads it, is the list of v, as long as its degree.             *)
(***************************************************************************)
LEMMA RowOfCSR ==
  ASSUME NEW S, NEW lists \in Seq(Seq(S)), Len(lists) # 0
  PROVE  /\ CSR(lists).vertices \in [0 .. Len(lists) -> Nat]
         /\ CSR(lists).vertices[0] = 0 /\ CSR(lists).vertices[Len(lists)] = CSR(lists).n_edges
         /\ CSR(lists).n_edges \in Nat /\ CSR(lists).n_edges = Len(FlattenSeq(lists))
         /\ CSR(lists).edges = [e \in 0 .. CSR(lists).n_edges - 1 |-> FlattenSeq(lists)[e + 1]]
         /\ \A v \in 0 .. Len(lists) - 1 :
              /\ CSR(lists).vertices[v + 1] - CSR(lists).vertices[v] = Len(lists[v + 1])
              /\ Row(v, CSR(lists).vertices, CSR(lists).edges) = lists[v + 1]
<1> DEFINE n == Len(lists)
           flat == FlattenSeq(lists)
           begin(v) == Len(FlattenSeq(SubSeq(lists, 1, v)))
<1>1. n \in Nat \ {0}
  OBVIOUS
<1>2. PICK F : Flattens(lists, n, F) /\ flat = F[n]
  BY <1>1, FlattenLast
<1>3. \A v \in 1 .. n : lists[v] \in Seq(S)
  OBVIOUS
<1>4. /\ F[1] = lists[1] /\ \A i \in 1 .. n - 1 : F[i + 1] = F[i] \o lists[i + 1]
  <2>1. n \in Nat
    BY <1>1
  <2> HIDE DEF n
  <2>2. Unfolded(lists, n, F)
    BY <1>2, <2>1, FlattensFacts, Zenon
  <2> QED
    BY <1>1, <2>2 DEF Unfolded
<1>5. ASSUME NEW v \in 1 .. n, NEW m \in v .. n
      PROVE  /\ F[v] \in Seq(S) /\ F[m] \in Seq(S) /\ Len(F[v]) <= Len(F[m])
             /\ \A i \in 1 .. Len(F[v]) : F[m][i] = F[v][i]
  BY <1>2, FlattensGrows
<1>6. begin(0) = 0
  <2>1. SubSeq(lists, 1, 0) = <<>>
    OBVIOUS
  <2>2. FlattenSeq(<<>>) = <<>>
    BY DEF FlattenSeq
  <2>3. Len(<<>>) = 0
    OBVIOUS
  <2> QED
    BY <2>1, <2>2, <2>3, Zenon
<1>7. ASSUME NEW v \in 1 .. n PROVE begin(v) = Len(F[v])
  <2>1. PICK t : t = SubSeq(lists, 1, v)
    OBVIOUS
  <2>2. Len(t) = v /\ \A i \in 1 .. v : t[i] = lists[i]
    BY <1>1, <2>1
  <2>3. v \in Nat \ {0} /\ v <= n
    BY <1>1
  <2>4. PICK G : Flattens(t, v, G) /\ FlattenSeq(t) = G[v]
    <3>1. Len(t) \in Nat \ {0}
      BY <2>2, <2>3
    <3>2. \E G : Flattens(t, Len(t), G) /\ FlattenSeq(t) = G[Len(t)]
      BY <3>1, FlattenLast
    <3> QED
      BY <2>2, <3>2
  <2>5. G[v] = F[v]
    <3>1. PICK k \in Nat : k = n
      BY <1>1
    <3>2. v <= k /\ Flattens(lists, k, F) /\ v \in Nat \ {0} /\ Agree(lists, t, v)
      BY <1>2, <2>2, <2>3, <3>1 DEF Agree
    <3> QED
      <4>1. \A s, r, H, K : \A m \in Nat \ {0}, j \in Nat :
              m <= j /\ Flattens(s, j, H) /\ Flattens(r, m, K) /\ Agree(s, r, m) => K[m] = H[m]
        BY FlattensUnique
      <4> QED
        BY <2>4, <3>1, <3>2, <4>1
  <2> QED
    BY <2>1, <2>4, <2>5
<1>8. \A v \in 0 .. n : begin(v) \in Nat
  <2>1. \A v \in 1 .. n : F[v] \in Seq(S)
    <3> SUFFICES ASSUME NEW v \in 1 .. n PROVE F[v] \in Seq(S)
      OBVIOUS
    <3>1. v \in v .. n
      BY <1>1
    <3> QED
      BY <1>5, <3>1
  <2> QED
    BY <1>6, <1>7, <2>1
<1>9. ASSUME NEW v \in 0 .. n - 1
      PROVE  /\ begin(v + 1) = begin(v) + Len(lists[v + 1])
             /\ \A k \in 1 .. Len(lists[v + 1]) :
                  begin(v) + k \in 1 .. Len(flat) /\ flat[begin(v) + k] = lists[v + 1][k]
  <2>1. PICK w, x, y, z : w = v + 1 /\ x = lists[w] /\ y = F[w] /\ z = flat
    OBVIOUS
  <2>2. /\ w \in 1 .. n /\ x \in Seq(S) /\ y \in Seq(S) /\ z \in Seq(S) /\ Len(y) <= Len(z)
        /\ \A i \in 1 .. Len(y) : z[i] = y[i]
    <3>1. w \in 1 .. n /\ n \in w .. n /\ x \in Seq(S)
      BY <1>1, <1>3, <2>1
    <3>2. F[w] \in Seq(S) /\ F[n] \in Seq(S) /\ Len(F[w]) <= Len(F[n])
      BY <1>5, <3>1
    <3>3. \A i \in 1 .. Len(F[w]) : F[n][i] = F[w][i]
      BY <1>5, <3>1
    <3> QED
      BY <1>2, <2>1, <3>1, <3>2, <3>3
  <2>3. /\ begin(v) \in Nat /\ Len(y) = begin(v) + Len(x)
        /\ \A k \in 1 .. Len(x) : y[begin(v) + k] = x[k]
    <3>1. CASE v = 0
      <4>1. y = x
        BY <1>4, <2>1, <3>1
      <4> QED
        BY <1>6, <2>2, <3>1, <4>1
    <3>2. CASE v # 0
      <4>1. v \in 1 .. n - 1 /\ v \in 1 .. n /\ v \in v .. n
        BY <1>1, <3>2
      <4>2. PICK u : u = F[v]
        OBVIOUS
      <4>3. u \in Seq(S) /\ y = u \o x /\ begin(v) = Len(u)
        BY <1>4, <1>5, <1>7, <2>1, <4>1, <4>2
      <4>4. Len(u) \in Nat /\ Len(u \o x) = Len(u) + Len(x) /\ \A k \in 1 .. Len(x) : (u \o x)[Len(u) + k] = x[k]
        BY <2>2, <4>3
      <4> QED
        BY <4>3, <4>4
    <3> QED
      BY <3>1, <3>2
  <2>4. begin(v + 1) = Len(y)
    BY <1>7, <2>1, <2>2
  <2> HIDE DEF begin, flat
  <2>5. PICK b : b = begin(v) /\ b \in Nat
    BY <2>3
  <2>6. Len(x) \in Nat /\ Len(z) \in Nat /\ Len(y) = b + Len(x)
    BY <2>2, <2>3, <2>5
  <2>7. ASSUME NEW k \in 1 .. Len(x) PROVE b + k \in 1 .. Len(z) /\ z[b + k] = x[k]
    <3>1. b + k \in 1 .. Len(y) /\ b + k \in 1 .. Len(z)
      BY <2>2, <2>5, <2>6
    <3> QED
      BY <2>2, <2>3, <2>5, <3>1
  <2> QED
    BY <2>1, <2>3, <2>4, <2>5, <2>7
<1>10. /\ CSR(lists).vertices = [v \in 0 .. n |-> begin(v)]
       /\ CSR(lists).edges = [e \in 0 .. Len(flat) - 1 |-> flat[e + 1]]
  BY DEF CSR
<1>11. Len(flat) \in Nat
  <2>1. n \in 1 .. n /\ n \in n .. n
    BY <1>1
  <2>2. F[n] \in Seq(S)
    BY <1>5, <2>1
  <2> QED
    BY <1>2, <2>2
<1>15. begin(n) = Len(flat)
  BY <1>1, <1>2, <1>7
<1>16. CSR(lists).n_edges = Len(flat)
  BY DEF CSR
<1> HIDE DEF begin, flat, n
<1>17. /\ CSR(lists).vertices[0] = 0 /\ CSR(lists).vertices[n] = CSR(lists).n_edges
       /\ CSR(lists).n_edges \in Nat /\ CSR(lists).n_edges = Len(flat)
       /\ CSR(lists).edges = [e \in 0 .. CSR(lists).n_edges - 1 |-> flat[e + 1]]
  <2>1. 0 \in 0 .. n /\ n \in 0 .. n
    BY <1>1
  <2> QED
    BY <1>6, <1>10, <1>11, <1>15, <1>16, <2>1
<1>12. PICK vertices, edges : vertices = CSR(lists).vertices /\ edges = CSR(lists).edges
  OBVIOUS
<1>13. vertices \in [0 .. n -> Nat]
  BY <1>8, <1>10, <1>12
<1>14. ASSUME NEW v \in 0 .. n - 1
       PROVE  /\ vertices[v + 1] - vertices[v] = Len(lists[v + 1])
              /\ Row(v, vertices, edges) = lists[v + 1]
  <2>1. PICK b, x : b = begin(v) /\ x = lists[v + 1]
    OBVIOUS
  <2>2. b \in Nat /\ vertices[v] = b /\ vertices[v + 1] = b + Len(x)
    BY <1>1, <1>8, <1>9, <1>10, <1>12, <2>1
  <2>3. x \in Seq(S)
    BY <1>1, <1>3, <2>1
  <2>4. ASSUME NEW k \in 1 .. Len(x) PROVE edges[b + k - 1] = x[k]
    <3>1. b + k \in 1 .. Len(flat) /\ flat[b + k] = x[k]
      BY <1>9, <2>1
    <3>2. b + k - 1 \in 0 .. Len(flat) - 1 /\ (b + k - 1) + 1 = b + k
      BY <1>11, <2>2, <2>3, <3>1
    <3> QED
      BY <1>10, <1>12, <3>1, <3>2
  <2>5. Row(v, vertices, edges) = [k \in 1 .. Len(x) |-> x[k]]
    BY <2>2, <2>3, <2>4 DEF Row
  <2>6. x = [k \in 1 .. Len(x) |-> x[k]]
    BY <2>3
  <2>7. (b + Len(x)) - b = Len(x)
    BY <2>2, <2>3
  <2> QED
    BY <2>1, <2>2, <2>5, <2>6, <2>7
<1> QED
  BY <1>12, <1>13, <1>14, <1>17 DEF n, flat

\* Ascending lists the elements of a finite set of numbers, each in one place.
LEMMA AscendingFacts ==
  ASSUME NEW S, IsFiniteSet(S), S \subseteq Nat
  PROVE  Ascending(S) \in Seq(S) /\ Len(Ascending(S)) = Cardinality(S) /\ Cardinality(S) \in Nat
<1> DEFINE R == {p \in S \X S : p[1] < p[2]}
           n == Cardinality(S)
           rank(x) == Cardinality({y \in S : y < x})
<1>1. IsOrder(R, S)
  BY DEF IsOrder
<1>2. \A x \in S : Earlier(R, S, x) = {y \in S : y < x}
  BY DEF Earlier
<1>3. n \in Nat /\ \A i \in 1 .. n : \E x \in S : rank(x) = i - 1
  <2> HIDE DEF R
  <2>1. /\ n \in Nat
        /\ \A i \in 1 .. n : \E x \in S : Cardinality(Earlier(R, S, x)) = i - 1
        /\ \A x \in S : Cardinality(Earlier(R, S, x)) \in 0 .. n - 1
        /\ \A x, y \in S :
             Cardinality(Earlier(R, S, x)) = Cardinality(Earlier(R, S, y)) => x = y
    BY <1>1, RankOnto, Zenon
  <2> QED
    BY <1>2, <2>1, Zenon
<1>4. Ascending(S) = [i \in 1 .. n |-> CHOOSE x \in S : rank(x) = i - 1]
  BY DEF Ascending
<1> HIDE DEF rank, n, R
<1>5. Ascending(S) \in [1 .. n -> S]
  BY <1>3, <1>4
<1> QED
  BY <1>3, <1>5 DEF n

\* Kept is no longer than the list that it is taken from.
LEMMA KeptFacts ==
  ASSUME NEW T, NEW s \in Seq(T), NEW K
  PROVE  Kept(s, K) \in Seq(K) /\ Len(Kept(s, K)) \in 0 .. Len(s)
<1>1. PICK D, at : D = {i \in DOMAIN s : s[i] \in K} /\ at = Ascending(D)
  OBVIOUS
<1>2. PICK m \in Nat : m = Len(s) /\ DOMAIN s = 1 .. m
  OBVIOUS
<1>3. D \in SUBSET (1 .. m) /\ D \subseteq Nat
  BY <1>1, <1>2
<1>4. IsFiniteSet(1 .. m) /\ Cardinality(1 .. m) = m
  BY FS_Interval
<1>5. IsFiniteSet(D) /\ Cardinality(D) <= m
  BY <1>3, <1>4, FS_Subset
<1>6. at \in Seq(D) /\ Len(at) = Cardinality(D) /\ Cardinality(D) \in Nat
  BY <1>1, <1>3, <1>5, AscendingFacts
<1>7. PICK n \in Nat : n = Cardinality(D) /\ DOMAIN at = 1 .. n /\ \A j \in 1 .. n : at[j] \in D
  BY <1>6
<1>8. Kept(s, K) = [j \in 1 .. n |-> s[at[j]]]
  BY <1>1, <1>7 DEF Kept
<1>9. \A j \in 1 .. n : s[at[j]] \in K
  BY <1>1, <1>7
<1>10. Kept(s, K) \in [1 .. n -> K]
  BY <1>8, <1>9
<1>11. Kept(s, K) \in Seq(K) /\ Len(Kept(s, K)) = n
  BY <1>10
<1> QED
  BY <1>2, <1>5, <1>7, <1>11

\* Max is the largest of a finite set of numbers.
LEMMA MaxFacts ==
  ASSUME NEW S, IsFiniteSet(S), S \subseteq Nat, S # {}
  PROVE  Max(S) \in S /\ \A x \in S : x <= Max(S)
<1>1. PICK m \in S : \A x \in S : x <= m
  BY LargestNatural
<1>2. m \in S /\ \A x \in S : m >= x
  BY <1>1
<1>3. Max(S) \in S /\ \A x \in S : Max(S) >= x
  BY <1>2 DEF Max
<1> QED
  BY <1>3

\* The degrees that the row pointers of n rows give are at most most.
Degrees(n, vertices, most) ==
  \A v \in 0 .. n - 1 : vertices[v + 1] - vertices[v] \in 0 .. most

\* The largest row, where there is a bound and so finitely many lengths.
LEMMA MaxRowFacts ==
  ASSUME NEW n \in Nat \ {0}, NEW vertices, NEW most \in Nat, Degrees(n, vertices, most)
  PROVE  /\ MaxRow(n, vertices) \in 0 .. most
         /\ Degrees(n, vertices, MaxRow(n, vertices))
<1> DEFINE S == {vertices[v + 1] - vertices[v] : v \in 0 .. n - 1}
<1>1. S \subseteq 0 .. most /\ S \subseteq Nat
  BY DEF Degrees
<1>2. 0 \in 0 .. n - 1
  OBVIOUS
<1>3. S # {}
  BY <1>2
<1>4. IsFiniteSet(0 .. most)
  BY FS_Interval
<1>5. IsFiniteSet(S)
  BY <1>1, <1>4, FS_Subset
<1>6. \A v \in 0 .. n - 1 : vertices[v + 1] - vertices[v] \in S
  OBVIOUS
<1>7. MaxRow(n, vertices) = Max(S)
  BY DEF MaxRow
<1> HIDE DEF S
<1>8. Max(S) \in S /\ \A x \in S : x <= Max(S)
  BY <1>1, <1>3, <1>5, MaxFacts
<1>9. PICK m \in S : m = Max(S)
  BY <1>8
<1>10. m \in Nat /\ \A x \in S : x \in 0 .. m
  BY <1>1, <1>8, <1>9
<1>11. Degrees(n, vertices, m)
  BY <1>6, <1>10 DEF Degrees
<1> QED
  BY <1>1, <1>7, <1>9, <1>11

\* A row of a reduced graph is at most as long as the row that it is of.
LEMMA FilteredDegrees ==
  ASSUME NEW keep, g.n_vertices \in Nat \ {0}, NEW most \in Nat,
         Degrees(g.n_vertices, Array(g.vertices), most)
  PROVE  Degrees(g.n_vertices, Filtered(keep).vertices, most)
<1>1. PICK n \in Nat \ {0} : n = g.n_vertices
  OBVIOUS
<1>2. PICK W : W = V
  OBVIOUS
<1>3. PICK lists : lists = [i \in 1 .. n |-> Kept(N(i - 1), {u \in V : <<i - 1, u>> \in keep})]
  OBVIOUS
<1>4. ASSUME NEW i \in 1 .. n
      PROVE  lists[i] \in Seq(W) /\ Len(lists[i]) \in 0 .. most
  <2>1. PICK s, K : s = N(i - 1) /\ K = {u \in V : <<i - 1, u>> \in keep}
    OBVIOUS
  <2>2. i - 1 \in 0 .. n - 1
    OBVIOUS
  <2>3. PICK d \in 0 .. most : d = Array(g.vertices)[(i - 1) + 1] - Array(g.vertices)[i - 1]
    BY <1>1, <2>2 DEF Degrees
  <2>4. PICK a, b : a = Array(g.vertices)[i - 1] /\ b = Array(g.edges)
    OBVIOUS
  <2>5. s = [k \in 1 .. d |-> b[a + k - 1]]
    BY <2>1, <2>3, <2>4, Zenon DEF N, Row
  <2>6. PICK T : T = {b[a + k - 1] : k \in 1 .. d}
    OBVIOUS
  <2>7. s \in Seq(T) /\ Len(s) = d
    BY <2>3, <2>5, <2>6
  <2>8. Kept(s, K) \in Seq(K) /\ Len(Kept(s, K)) \in 0 .. Len(s)
    BY <2>7, KeptFacts
  <2>9. K \subseteq W
    BY <1>2, <2>1
  <2>10. lists[i] = Kept(s, K)
    BY <1>3, <2>1, Zenon
  <2> QED
    BY <2>3, <2>7, <2>8, <2>9, <2>10
<1>5. lists \in Seq(Seq(W)) /\ Len(lists) = n
  <2>1. lists \in [1 .. n -> Seq(W)]
    <3>1. DOMAIN lists = 1 .. n /\ lists = [i \in 1 .. n |-> lists[i]]
      BY <1>3
    <3> QED
      BY <1>4, <3>1
  <2> QED
    BY <2>1
<1>6. Filtered(keep) = CSR(lists)
  BY <1>1, <1>3, Zenon DEF Filtered
<1>7. \A v \in 0 .. Len(lists) - 1 :
        CSR(lists).vertices[v + 1] - CSR(lists).vertices[v] = Len(lists[v + 1])
  BY <1>5, RowOfCSR
<1>8. PICK x : x = CSR(lists).vertices
  OBVIOUS
<1>9. \A v \in 0 .. n - 1 : x[v + 1] - x[v] = Len(lists[v + 1])
  BY <1>5, <1>7, <1>8
<1>10. Degrees(n, x, most)
  <2>1. ASSUME NEW v \in 0 .. n - 1 PROVE x[v + 1] - x[v] \in 0 .. most
    <3>1. v + 1 \in 1 .. n
      OBVIOUS
    <3> QED
      BY <1>4, <1>9, <3>1
  <2> QED
    BY <2>1 DEF Degrees
<1> QED
  BY <1>1, <1>6, <1>8, <1>10

-----------------------------------------------------------------------------
(* The rows of the graph's arrays.                                         *)

(***************************************************************************)
(* The rows of both CSRs fit MAX_DEGREE, and max_degree where no           *)
(* orientation has lowered it below the rows of arrays from before.        *)
(***************************************************************************)
Rows ==
  LET fits(m, most) == Degrees(g.n_vertices, Array(g[m]), most) IN
    /\ g.n_vertices \in Nat \ {0} /\ g.max_degree \in Nat /\ g.MAX_DEGREE \in Nat
    /\ fits("vertices", g.MAX_DEGREE)
    /\ g.vertices_c # NULL => fits("vertices_c", g.MAX_DEGREE)
    /\ ~(past.oriented /\ g.vertices_c # NULL) => fits("vertices", g.max_degree)
    /\ ~past.oriented /\ g.vertices_c # NULL => fits("vertices_c", g.max_degree)

\* The incoming rows are those of the file, which no reduction rebuilds.
LoadedReverse ==
  ~past.oriented /\ ~past.inPlace /\ status = "ok" =>
    \A v \in V :
      Row(v, Array(g.reverse_vertices), Array(g.reverse_edges)) =
        Ascending({u \in V : v \in ToSet(Row(u, past.loaded.vertices, past.loaded.edges))})

RowsInv == Rows /\ LoadedReverse

\* What an allocation leaves in the heap: h, and the new arrays.
LEMMA NewArrays ==
  ASSUME NEW h, NEW S, Preserves(h, S), NEW x, NEW y,
         heap' = h \o <<Block(x), Block(y)>>
  PROVE  /\ \A p \in DOMAIN heap : heap'[p] = h[p]
         /\ heap'[Fresh(1)].data = x /\ heap'[Fresh(2)].data = y
<1>1. PICK t, a, b : t = <<Block(x), Block(y)>> /\ a = Fresh(1) /\ b = Fresh(2)
  OBVIOUS
<1>2. /\ h \in Seq(ToSet(h)) /\ DOMAIN h = DOMAIN heap
      /\ a = Len(h) + 1 /\ b = Len(h) + 2 /\ heap' = h \o t
  BY <1>1, Zenon DEF Preserves, Fresh
<1>3. t \in Seq({Block(x), Block(y)}) /\ Len(t) = 2 /\ t[1] = Block(x) /\ t[2] = Block(y)
  BY <1>1
<1>4. /\ \A p \in DOMAIN h : (h \o t)[p] = h[p]
      /\ \A i \in 1 .. Len(t) : (h \o t)[Len(h) + i] = t[i]
  BY <1>2, <1>3, Appended
<1>5. 1 \in 1 .. Len(t) /\ 2 \in 1 .. Len(t)
  BY <1>3
<1>6. heap'[a] = Block(x) /\ heap'[b] = Block(y)
  BY <1>2, <1>3, <1>4, <1>5, Zenon
<1> QED
  BY <1>1, <1>2, <1>4, <1>6 DEF Block

\* The pointers to row pointers are to different blocks that are allocated.
LEMMA Pointers ==
  ASSUME Ownership
  PROVE  /\ g.vertices \in DOMAIN heap /\ IsBlock(heap[g.vertices])
         /\ g.vertices_c # NULL => /\ g.vertices_c \in DOMAIN heap
                                   /\ IsBlock(heap[g.vertices_c])
                                   /\ g.vertices_c \notin {g.vertices, g.edges}
BY DEF Ownership, Owned, Live

\* The members that the two invariants are about.
Used ==
  {"vertices", "vertices_c", "reverse_vertices", "reverse_edges",
   "n_vertices", "max_degree", "MAX_DEGREE"}

\* The incoming arcs stay where they are.
LEMMA SameReverse ==
  ASSUME Incoming, LoadedReverse, status = "ok",
         \A m \in {"reverse_vertices", "reverse_edges", "n_vertices"} : g'[m] = g[m],
         past'.loaded = past.loaded,
         ~past'.oriented => ~past.oriented, ~past'.inPlace => ~past.inPlace,
         ~past'.oriented /\ ~past'.inPlace =>
           \A p \in DOMAIN heap \cap {g.reverse_vertices, g.reverse_edges} : heap'[p] = heap[p]
  PROVE  LoadedReverse'
<1> SUFFICES ASSUME ~past'.oriented, ~past'.inPlace, status' = "ok"
             PROVE  \A v \in V' :
                      Row(v, heap'[g'.reverse_vertices].data, heap'[g'.reverse_edges].data) =
                        Ascending({u \in V' :
                          v \in ToSet(Row(u, past'.loaded.vertices, past'.loaded.edges))})
  BY DEF LoadedReverse, Array
<1>1. g.reverse_vertices \in DOMAIN heap /\ g.reverse_edges \in DOMAIN heap
  BY DEF Incoming, Live
<1>2. /\ heap'[g'.reverse_vertices] = heap[g.reverse_vertices]
      /\ heap'[g'.reverse_edges] = heap[g.reverse_edges]
  BY <1>1
<1>3. V' = V
  BY DEF V
<1>4. \A v \in V :
        Row(v, heap[g.reverse_vertices].data, heap[g.reverse_edges].data) =
          Ascending({u \in V : v \in ToSet(Row(u, past.loaded.vertices, past.loaded.edges))})
  BY DEF LoadedReverse, Array
<1> QED
  BY <1>2, <1>3, <1>4, Zenon

\* A step that changes no array and none of the members.
LEMMA SameRows ==
  ASSUME IInv, RowsInv, status = "ok", \A p \in DOMAIN heap : heap'[p] = heap[p],
         \A m \in Used : g'[m] = g[m],
         past'.loaded = past.loaded, past'.oriented = past.oriented, past'.inPlace = past.inPlace
  PROVE  RowsInv'
<1>1. Ownership /\ Incoming /\ Rows /\ LoadedReverse
  BY DEF IInv, Deleted, RowsInv
<1>2. /\ g.vertices \in DOMAIN heap
      /\ g.vertices_c # NULL => g.vertices_c \in DOMAIN heap
  BY <1>1, Pointers
<1>3. Rows'
  BY <1>1, <1>2 DEF Rows, Used, Array
<1>4. LoadedReverse'
  BY <1>1, SameReverse DEF Used
<1> QED
  BY <1>3, <1>4 DEF RowsInv

\* What the buffers are after an orientation: as they were, or, where there is
\* no second CSR, as large as the rows of the DAG.
FitsRows(buffers) ==
  \/ buffers = g.MAX_DEGREE
  \/ g.vertices_c = NULL /\ buffers = Max({new_max_degree, 1})

LEMMA OrientationRows ==
  ASSUME IInv, RowsInv, NEW buffers, Orient(buffers), FitsRows(buffers)
  PROVE  RowsInv'
<1>1. /\ Shape /\ Ownership /\ Incoming /\ Rows /\ status = "ok"
  BY InUse DEF Orient, RowsInv
<1>2. PICK x, y, S : /\ x = Filtered(Before).vertices /\ S = {g.vertices, g.edges}
                     /\ heap' = Freed(S) \o <<Block(x), Block(y)>>
  BY Zenon DEF Orient
<1>3. Preserves(Freed(S), S)
  BY <1>1, FreedFacts DEF Shape, Preserves
<1>4. /\ \A p \in DOMAIN heap : heap'[p] = Freed(S)[p]
      /\ heap'[Fresh(1)].data = x
  BY <1>2, <1>3, NewArrays
<1>5. \A p \in DOMAIN heap \ S : heap'[p] = heap[p]
  BY <1>4 DEF Freed
<1>6. PICK n \in Nat \ {0} : n = g.n_vertices
  BY <1>1 DEF Rows
<1>7. PICK most \in Nat : most = g.MAX_DEGREE
  BY <1>1 DEF Rows
<1>8. Degrees(n, x, most)
  BY <1>1, <1>2, <1>6, <1>7, FilteredDegrees DEF Rows
<1>9. PICK deg : deg = MaxRow(n, x)
  OBVIOUS
<1>10. deg \in Nat /\ Degrees(n, x, deg)
  BY <1>8, <1>9, MaxRowFacts
<1>11. new_max_degree = deg
  BY <1>2, <1>6, <1>9, Zenon DEF new_max_degree
<1>12. /\ buffers \in Nat /\ Degrees(n, x, buffers)
       /\ buffers = most \/ g.vertices_c = NULL
  <2>1. CASE buffers = g.MAX_DEGREE
    BY <1>7, <1>8, <2>1
  <2>2. CASE g.vertices_c = NULL /\ buffers = Max({new_max_degree, 1})
    <3>1. IsFiniteSet({deg, 1})
      <4>1. IsFiniteSet({deg}) /\ IsFiniteSet({1})
        BY FS_Singleton
      <4>2. {deg, 1} = {deg} \cup {1}
        OBVIOUS
      <4> QED
        BY <4>1, <4>2, FS_Union
    <3>2. {deg, 1} \subseteq Nat /\ {deg, 1} # {} /\ deg \in {deg, 1}
      BY <1>10
    <3>3. Max({deg, 1}) \in {deg, 1} /\ \A z \in {deg, 1} : z <= Max({deg, 1})
      BY <3>1, <3>2, MaxFacts
    <3>4. buffers \in Nat /\ deg <= buffers
      BY <1>10, <1>11, <2>2, <3>2, <3>3
    <3> QED
      BY <1>6, <1>10, <2>2, <3>4 DEF Degrees
  <2> QED
    BY <2>1, <2>2 DEF FitsRows
<1>13. PICK a : a = Fresh(1)
  OBVIOUS
<1>14. /\ g'.vertices = a /\ g'.max_degree = deg
       /\ g'.vertices_c = g.vertices_c /\ g'.n_vertices = n /\ g'.MAX_DEGREE = buffers
  <2>1. g' = [g EXCEPT !.vertices = a, !.edges = Fresh(2),
                       !.n_edges = Filtered(Before).n_edges, !.max_degree = deg,
                       !.MAX_DEGREE = buffers]
    BY <1>2, <1>6, <1>9, <1>13, Zenon DEF Orient, new_max_degree
  <2> QED
    BY <1>1, <1>6, <1>7, <2>1 DEF Shape, Members, Owned
<1>15. past'.oriented = TRUE
  BY <1>1 DEF Orient, Shape, History
<1>16. ASSUME g.vertices_c # NULL PROVE heap'[g.vertices_c] = heap[g.vertices_c]
  BY <1>1, <1>2, <1>5, <1>16, Pointers
<1>17. Rows'
  BY <1>1, <1>4, <1>6, <1>7, <1>10, <1>13, <1>14, <1>15, <1>16, <1>12 DEF Rows, Array
<1>18. LoadedReverse'
  BY <1>15 DEF LoadedReverse
<1> QED
  BY <1>17, <1>18 DEF RowsInv

\* A reduction of the current graph fits wherever that graph does.
LEMMA ReducedRows ==
  ASSUME Rows, NEW keep, NEW x, x = Filtered(keep).vertices
  PROVE  /\ Degrees(g.n_vertices, x, g.MAX_DEGREE)
         /\ ~(past.oriented /\ g.vertices_c # NULL) => Degrees(g.n_vertices, x, g.max_degree)
BY FilteredDegrees DEF Rows

LEMMA SparsifyFastRows ==
  ASSUME IInv, RowsInv, NEW c, color_sparsify_fast(c)
  PROVE  RowsInv'
<1>1. /\ Shape /\ Ownership /\ Incoming /\ Rows /\ LoadedReverse
      /\ status = "ok" /\ past' = past
  BY InUse DEF color_sparsify_fast, RowsInv
<1>2. PICK keep, new : /\ new = Filtered(keep)
                       /\ heap' = heap \o <<Block(new.vertices), Block(new.edges)>>
                       /\ g' = [g EXCEPT !.vertices = Fresh(1), !.edges = Fresh(2),
                                         !.n_edges = new.n_edges]
  BY Zenon DEF color_sparsify_fast, Monochrome
<1>3. PICK a, x : a = Fresh(1) /\ x = new.vertices
  OBVIOUS
<1>4. (\A p \in DOMAIN heap : heap'[p] = heap[p]) /\ heap'[a].data = x
  BY <1>1, <1>2, <1>3, HeapPreserves, NewArrays
<1>5. g'.vertices = a /\ \A m \in Used \ {"vertices"} : g'[m] = g[m]
  BY <1>1, <1>2, <1>3 DEF Shape, Members, Owned, Used
<1>6. /\ Degrees(g.n_vertices, x, g.MAX_DEGREE)
      /\ ~(past.oriented /\ g.vertices_c # NULL) => Degrees(g.n_vertices, x, g.max_degree)
  BY <1>1, <1>2, <1>3, ReducedRows
<1>7. Rows'
  BY <1>1, <1>4, <1>5, <1>6, Pointers DEF Rows, Array, Used
<1>8. LoadedReverse'
  BY <1>1, <1>4, <1>5, SameReverse DEF Used
<1> QED
  BY <1>7, <1>8 DEF RowsInv

LEMMA SparsifyFastDRows ==
  ASSUME IInv, RowsInv, NEW c, color_sparsify_fast_d(c)
  PROVE  RowsInv'
<1>1. /\ Shape /\ Ownership /\ Incoming /\ Rows /\ LoadedReverse
      /\ status = "ok" /\ past' = past
  BY InUse DEF color_sparsify_fast_d, RowsInv
<1>2. PICK keep, new : /\ new = Filtered(keep)
                       /\ heap' = heap \o <<Block(new.vertices), Block(new.edges)>>
                       /\ g' = [g EXCEPT !.vertices_c = Fresh(1), !.edges_c = Fresh(2),
                                         !.n_edges_c = new.n_edges]
  BY Zenon DEF color_sparsify_fast_d, Monochrome
<1>3. PICK a, x : a = Fresh(1) /\ x = new.vertices
  OBVIOUS
<1>4. (\A p \in DOMAIN heap : heap'[p] = heap[p]) /\ heap'[a].data = x
  BY <1>1, <1>2, <1>3, HeapPreserves, NewArrays
<1>5. g'.vertices_c = a /\ \A m \in Used \ {"vertices_c"} : g'[m] = g[m]
  BY <1>1, <1>2, <1>3 DEF Shape, Members, Owned, Used
<1>6. /\ Degrees(g.n_vertices, x, g.MAX_DEGREE)
      /\ ~past.oriented => Degrees(g.n_vertices, x, g.max_degree)
  BY <1>1, <1>2, <1>3, ReducedRows
<1>7. a # NULL
  <2>1. Len(heap) \in Nat /\ a = Len(heap) + 1
    BY <1>1, <1>3 DEF Shape, Fresh
  <2> QED
    BY <2>1 DEF NULL
<1>8. Rows'
  BY <1>1, <1>4, <1>5, <1>6, <1>7, Pointers DEF Rows, Array, Used
<1>9. LoadedReverse'
  BY <1>1, <1>4, <1>5, SameReverse DEF Used
<1> QED
  BY <1>8, <1>9 DEF RowsInv

LEMMA SwapRows ==
  ASSUME IInv, RowsInv, Swaps
  PROVE  RowsInv'
<1>1. /\ Shape /\ Ownership /\ Incoming /\ Rows /\ LoadedReverse
      /\ status = "ok" /\ past' = past /\ heap' = heap /\ g.vertices_c # NULL
  BY InUse DEF Swaps, RowsInv
<1>2. /\ g'.vertices = g.vertices_c /\ g'.vertices_c = g.vertices
      /\ \A m \in Used \ {"vertices", "vertices_c"} : g'[m] = g[m]
  BY <1>1 DEF Swaps, Shape, Members, Owned, Used
<1>3. g.vertices # NULL
  BY <1>1 DEF Ownership
<1>4. Rows'
  BY <1>1, <1>2, <1>3 DEF Rows, Array, Used
<1>5. LoadedReverse'
  BY <1>1, <1>2, SameReverse DEF Used
<1> QED
  BY <1>4, <1>5 DEF RowsInv

\* In place: the row pointers may be those of the incoming arcs, too.
LEMMA SparsifyRows ==
  ASSUME IInv, RowsInv, NEW c, color_sparsify(c)
  PROVE  RowsInv'
<1>1. /\ Shape /\ Ownership /\ Incoming /\ Rows /\ LoadedReverse /\ status = "ok"
      /\ past' = [past EXCEPT !.inPlace = @ \/ g.vertices = g.reverse_vertices]
  BY InUse DEF color_sparsify, RowsInv
<1>2. PICK keep, n, x, e : /\ x = Filtered(keep).vertices
                           /\ heap' = [heap EXCEPT ![g.vertices].data = x] \o <<Block(e)>>
                           /\ g' = [g EXCEPT !.edges = Fresh(1), !.n_edges = n]
  BY Zenon DEF color_sparsify, Monochrome
<1>3. PICK h : h = [heap EXCEPT ![g.vertices].data = x]
  OBVIOUS
<1>4. /\ g.vertices \in DOMAIN heap /\ IsBlock(heap[g.vertices])
      /\ g.vertices_c # NULL => g.vertices_c \in DOMAIN heap /\ g.vertices_c # g.vertices
  BY <1>1, Pointers
<1>5. /\ \A p \in DOMAIN heap : p # g.vertices => h[p] = heap[p]
      /\ h[g.vertices].data = x /\ DOMAIN h = DOMAIN heap
  <2>1. h[g.vertices] = [heap[g.vertices] EXCEPT !.data = x]
    BY <1>3, <1>4
  <2>2. h[g.vertices].data = x
    BY <1>4, <2>1 DEF IsBlock
  <2> QED
    BY <1>3, <2>2
<1>6. \A p \in DOMAIN heap : heap'[p] = h[p]
  <2>1. PICK t : t = <<Block(e)>>
    OBVIOUS
  <2>2. DOMAIN heap = 1 .. Len(heap) /\ Len(heap) \in Nat
    BY <1>1 DEF Shape
  <2>3. h = [p \in 1 .. Len(heap) |-> h[p]] /\ DOMAIN h = 1 .. Len(heap)
    BY <1>3, <2>2
  <2>4. \A i \in 1 .. Len(heap) : h[i] \in ToSet(h)
    BY <2>3 DEF ToSet
  <2>5. h \in Seq(ToSet(h))
    BY <2>2, <2>3, <2>4, SeqDef
  <2>6. t \in Seq({Block(e)}) /\ heap' = h \o t
    BY <1>2, <1>3, <2>1
  <2>7. \A p \in DOMAIN h : (h \o t)[p] = h[p]
    BY <2>5, <2>6, Appended
  <2> QED
    BY <1>5, <2>6, <2>7
<1>7. \A m \in Used : g'[m] = g[m]
  BY <1>1, <1>2 DEF Shape, Members, Owned, Used
<1>8. /\ Degrees(g.n_vertices, x, g.MAX_DEGREE)
      /\ ~(past.oriented /\ g.vertices_c # NULL) => Degrees(g.n_vertices, x, g.max_degree)
  BY <1>1, <1>2, ReducedRows
<1>9. /\ past'.loaded = past.loaded /\ past'.oriented = past.oriented
      /\ past'.inPlace = (past.inPlace \/ g.vertices = g.reverse_vertices)
  BY <1>1 DEF Shape, History
<1>10. Rows'
  <2>1. heap'[g'.vertices].data = x
    BY <1>4, <1>5, <1>6, <1>7 DEF Used
  <2>2. g.vertices_c # NULL => heap'[g'.vertices_c] = heap[g.vertices_c]
    BY <1>4, <1>5, <1>6, <1>7 DEF Used
  <2> QED
    BY <1>1, <1>7, <1>8, <1>9, <2>1, <2>2 DEF Rows, Array, Used
<1>11. LoadedReverse'
  <2>1. ASSUME ~past'.inPlace, NEW p \in DOMAIN heap \cap {g.reverse_vertices, g.reverse_edges}
        PROVE  heap'[p] = heap[p]
    <3>1. p # g.vertices
      BY <1>1, <1>9, <2>1 DEF Incoming
    <3> QED
      BY <1>5, <1>6, <3>1
  <2> QED
    BY <1>1, <1>7, <1>9, <2>1, SameReverse DEF Used
<1> QED
  BY <1>10, <1>11 DEF RowsInv

\* A list or a stream is added to the heap.
LEMMA ListRows ==
  ASSUME IInv, RowsInv, status = "ok", NEW T, NEW t \in Seq(T), heap' = heap \o t,
         \A m \in Used : g'[m] = g[m],
         past'.loaded = past.loaded, past'.oriented = past.oriented, past'.inPlace = past.inPlace
  PROVE  RowsInv'
<1>1. heap \in Seq(ToSet(heap))
  BY DEF IInv, Shape
<1>2. \A p \in DOMAIN heap : heap'[p] = heap[p]
  BY <1>1, Appended
<1> QED
  BY <1>2, SameRows

LEMMA SimpleListRows == ASSUME IInv, RowsInv, init_simple_edgelist PROVE RowsInv'
<1>1. Shape /\ status = "ok"
  BY InUse DEF init_simple_edgelist
<1>2. CASE g.nnz # 0
  BY <1>1, <1>2, SameRows DEF init_simple_edgelist, Used
<1>3. CASE g.nnz = 0
  <2>1. PICK x, y, a, b, n : /\ heap' = heap \o <<Block(x), Block(y)>>
                             /\ g' = [g EXCEPT !.nnz = n, !.src_list = a, !.dst_list = b]
                             /\ past' = Remembered(FALSE, FALSE)
    BY <1>3, Zenon DEF init_simple_edgelist
  <2>2. /\ past'.loaded = past.loaded
        /\ past'.oriented = past.oriented /\ past'.inPlace = past.inPlace
    BY <1>1, <2>1 DEF Shape, History, Remembered
  <2>3. \A m \in Used : g'[m] = g[m]
    BY <1>1, <2>1 DEF Shape, Members, Owned, Used
  <2>4. <<Block(x), Block(y)>> \in Seq({Block(x), Block(y)})
    OBVIOUS
  <2> QED
    BY <1>1, <2>1, <2>2, <2>3, <2>4, ListRows
<1> QED
  BY <1>2, <1>3

LEMMA StreamRows == ASSUME IInv, RowsInv, create_edge_stream PROVE RowsInv'
<1>1. Shape /\ status = "ok" /\ past' = past
  BY InUse DEF create_edge_stream
<1>2. CASE g.nnz # 0
  BY <1>1, <1>2, SameRows DEF create_edge_stream, Used
<1>3. CASE g.nnz = 0
  <2>1. PICK x, a : /\ heap' = Append(heap, Block(x))
                    /\ g' = [g EXCEPT !.nnz = g.n_edges, !.stream = a]
    BY <1>3, Zenon DEF create_edge_stream
  <2>2. heap' = heap \o <<Block(x)>>
    BY <1>1, <2>1, AppendIsConcat DEF Shape
  <2>3. \A m \in Used : g'[m] = g[m]
    BY <1>1, <2>1 DEF Shape, Members, Owned, Used
  <2>4. <<Block(x)>> \in Seq({Block(x)})
    OBVIOUS
  <2> QED
    BY <1>1, <2>2, <2>3, <2>4, ListRows
<1> QED
  BY <1>2, <1>3

LEMMA MakeListRows ==
  ASSUME IInv, RowsInv, status = "ok", NEW sym_break, NEW ascend, MakeList(sym_break, ascend)
  PROVE  RowsInv'
<1>1. Shape
  BY DEF IInv
<1> DEFINE list == Listed([v \in V |-> Tasks(v, sym_break, ascend)])
           size == IF sym_break THEN g.n_edges \div 2 ELSE g.n_edges
           old == IF g.sizes = <<>> THEN [v \in V |-> 0] ELSE g.sizes
           new_sizes == [v \in V |-> old[v] + Len(Tasks(v, sym_break, ascend))]
           dst == IF sym_break THEN Fresh(2) ELSE g.edges
           more == IF sym_break THEN <<Block(Filled(size, list, 2))>> ELSE <<>>
<1>2. \/ UNCHANGED <<heap, g, past>>
      \/ /\ heap' = heap \o <<Block(Filled(size, list, 1))>> \o more
         /\ g' = [g EXCEPT !.nnz = size, !.src_list = Fresh(1), !.dst_list = dst,
                           !.sizes = new_sizes]
         /\ past' = [Remembered(sym_break, ascend) EXCEPT !.sized = past.sized + Len(list), !.counted = TRUE]
  BY DEF MakeList
<1>3. CASE UNCHANGED <<heap, g, past>>
  BY <1>3, SameRows DEF Used
<1>4. CASE /\ heap' = heap \o <<Block(Filled(size, list, 1))>> \o more
           /\ g' = [g EXCEPT !.nnz = size, !.src_list = Fresh(1), !.dst_list = dst,
                             !.sizes = new_sizes]
           /\ past' = [Remembered(sym_break, ascend) EXCEPT !.sized = past.sized + Len(list), !.counted = TRUE]
  <2>1. PICK y, z : y = Block(Filled(size, list, 1)) /\ z = Block(Filled(size, list, 2))
    OBVIOUS
  <2>2. more \in Seq({y, z})
    <3>1. more = IF sym_break THEN <<z>> ELSE <<>>
      BY <2>1
    <3>2. <<z>> \in Seq({y, z}) /\ <<>> \in Seq({y, z})
      OBVIOUS
    <3> QED
      BY <3>1, <3>2, Zenon
  <2> HIDE DEF list, size, old, new_sizes, dst, more
  <2>3. PICK t : t = <<y>> \o more
    OBVIOUS
  <2>4. t \in Seq({y, z}) /\ heap' = heap \o t
    <3>1. heap \in Seq(ToSet(heap)) /\ <<y>> \in Seq({y, z})
      BY <1>1 DEF Shape
    <3>2. heap' = heap \o <<y>> \o more
      BY <1>4, <2>1, Zenon
    <3> QED
      BY <2>2, <2>3, <3>1, <3>2
  <2>5. \A m \in Used : g'[m] = g[m]
    BY <1>1, <1>4 DEF Shape, Members, Owned, Used
  <2>6. /\ past'.loaded = past.loaded
        /\ past'.oriented = past.oriented /\ past'.inPlace = past.inPlace
    <3>1. PICK r : r = Remembered(sym_break, ascend)
      OBVIOUS
    <3>2. /\ DOMAIN r = History /\ r.inPlace = past.inPlace
          /\ r.oriented = past.oriented /\ r.loaded = past.loaded
      BY <1>1, <3>1 DEF Remembered, Shape, History
    <3> QED
      BY <1>4, <3>1, <3>2 DEF History
  <2> QED
    BY <2>4, <2>5, <2>6, ListRows
<1> QED
  BY <1>2, <1>3, <1>4

\* The destructor frees the arrays but does not write to them.
LEMMA DestroyRows == ASSUME IInv, RowsInv, destroy PROVE RowsInv'
<1>1. Shape /\ Ownership /\ Rows /\ g' = g /\ past' = past
  BY InUse DEF destroy, RowsInv
<1>2. PICK S : heap' = Freed(S)
  BY Zenon DEF destroy
<1>3. ASSUME NEW p \in DOMAIN heap, IsBlock(heap[p]) PROVE heap'[p].data = heap[p].data
  BY <1>2, <1>3 DEF Freed, IsBlock
<1>4. Rows'
  BY <1>1, <1>3, Pointers DEF Rows, Array
<1>5. status' # "ok"
  BY DEF destroy
<1> QED
  BY <1>4, <1>5 DEF RowsInv, LoadedReverse

LEMMA CallGraphRows == IInv /\ RowsInv /\ CallGraph => RowsInv'
<1> SUFFICES ASSUME IInv, RowsInv, GraphStep PROVE RowsInv'
  BY DEF CallGraph
<1>1. ASSUME NEW s \in BOOLEAN, NEW a \in BOOLEAN, init_edgelist(s, a) PROVE RowsInv'
  <2>1. status = "ok" /\ (MakeList(s, a) \/ UNCHANGED <<heap, g, past>>)
    BY <1>1 DEF init_edgelist, Called
  <2>2. CASE UNCHANGED <<heap, g, past>>
    BY <2>1, <2>2, SameRows DEF Used
  <2> QED
    BY <2>1, <2>2, MakeListRows
<1>2. ASSUME NEW s \in BOOLEAN, NEW a \in BOOLEAN, reinit_edgelist(s, a) PROVE RowsInv'
  BY <1>2, MakeListRows DEF reinit_edgelist, Called
<1>3. ASSUME use_dag \/ orientation PROVE RowsInv'
  <2>1. PICK buffers : Orient(buffers) /\ FitsRows(buffers)
    BY <1>3 DEF use_dag, orientation, FitsRows
  <2> QED
    BY <2>1, OrientationRows
<1>4. CASE swap_graph_mode
  <2>1. CASE SwapFails
    BY <2>1, SameRows DEF SwapFails, Called, Used
  <2> QED
    BY <1>4, <2>1, SwapCases, SwapRows
<1> QED
  BY <1>1, <1>2, <1>3, <1>4, SparsifyFastRows, SparsifyFastDRows, SparsifyRows,
     SimpleListRows, StreamRows, DestroyRows, Zenon DEF GraphStep

\* The methods of Scheduler and PartitionedGraph write to no array of the graph.
LEMMA NextRows == IInv /\ RowsInv /\ [Next]_vars => RowsInv'
<1> SUFFICES ASSUME IInv, RowsInv, [Next]_vars PROVE RowsInv'
  OBVIOUS
<1>1. CASE CallGraph
  BY <1>1, CallGraphRows
<1>2. ASSUME UNCHANGED <<heap, g, past>>, status' = "ok" => status = "ok" PROVE RowsInv'
  BY <1>2 DEF RowsInv, Rows, Array, LoadedReverse, V
<1>3. CASE CallScheduler
  BY <1>2, <1>3 DEF CallScheduler, Split, gvars
<1>4. CASE CallPartition
  <2>1. PICK n : edgecut_induced_partition1D(n) \/ csr_segmenting(n)
    BY <1>4 DEF CallPartition, Partition
  <2>2. UNCHANGED <<heap, g, past>> /\ status = "ok"
    BY <2>1 DEF edgecut_induced_partition1D, csr_segmenting, gvars
  <2> QED
    BY <1>2, <2>2
<1>5. CASE SchedulerStep
  <2>1. ASSUME NEW why, Fails(why), why # "ok" PROVE RowsInv'
    BY <1>2, <2>1 DEF Fails
  <2>2. ASSUME UNCHANGED gvars PROVE RowsInv'
    BY <1>2, <2>2 DEF gvars
  <2>3. \/ UNCHANGED gvars \/ Fails("assert") \/ Fails("sizes") \/ Fails("unset")
        \/ Unusable # "ok" /\ Fails(Unusable)
    BY <1>5 DEF SchedulerStep, round_robin, CopyRest, CopyChunk, vertex_chunking, AppendTask,
                AppendEnd, least_first, NextChunk, LastChunk
  <2> QED
    BY <2>1, <2>2, <2>3
<1>6. CASE PartitionStep
  <2>1. UNCHANGED gvars
    BY <1>6 DEF PartitionStep, BuildSubgraph, Mark, SegmentVertex, SegmentEnd
  <2> QED
    BY <1>2, <2>1 DEF gvars
<1>7. CASE UNCHANGED vars
  BY <1>2, <1>7 DEF vars, gvars
<1> QED
  BY <1>1, <1>3, <1>4, <1>5, <1>6, <1>7, Zenon DEF Next, Working

\* The arrays of build_reverse_graph list for every vertex those that list it.
LEMMA ReverseFacts ==
  ASSUME NEW csr, NEW n \in Nat \ {0}, n = Cardinality(DOMAIN csr.vertices) - 1,
         NEW v \in 0 .. n - 1
  PROVE  Row(v, build_reverse_graph(csr).vertices, build_reverse_graph(csr).edges) =
           Ascending({u \in 0 .. n - 1 : v \in ToSet(Row(u, csr.vertices, csr.edges))})
<1> DEFINE into(u) == {w \in 0 .. n - 1 : u \in ToSet(Row(w, csr.vertices, csr.edges))}
<1>1. PICK lists : lists = [i \in 1 .. n |-> Ascending(into(i - 1))]
  OBVIOUS
<1>2. build_reverse_graph(csr) = CSR(lists)
  BY <1>1 DEF build_reverse_graph
<1>3. PICK W : W = 0 .. n - 1
  OBVIOUS
<1>4. IsFiniteSet(W) /\ W \subseteq Nat
  BY <1>3, FS_Interval
<1>5. ASSUME NEW i \in 1 .. n PROVE lists[i] \in Seq(W) /\ lists[i] = Ascending(into(i - 1))
  <2>1. PICK D : D = into(i - 1)
    OBVIOUS
  <2>2. D \in SUBSET W
    BY <1>3, <2>1
  <2>3. IsFiniteSet(D) /\ D \subseteq Nat
    BY <1>4, <2>2, FS_Subset
  <2>4. Ascending(D) \in Seq(D)
    BY <2>3, AscendingFacts
  <2>5. lists[i] = Ascending(D)
    BY <1>1, <2>1
  <2> QED
    BY <2>1, <2>2, <2>4, <2>5
<1>6. lists \in Seq(Seq(W)) /\ Len(lists) = n
  <2>1. DOMAIN lists = 1 .. n /\ lists = [i \in 1 .. n |-> lists[i]]
    BY <1>1
  <2>2. lists \in [1 .. n -> Seq(W)]
    BY <1>5, <2>1
  <2> QED
    BY <2>2
<1>7. \A u \in 0 .. n - 1 : Row(u, CSR(lists).vertices, CSR(lists).edges) = lists[u + 1]
  BY <1>6, RowOfCSR
<1>8. v + 1 \in 1 .. n /\ (v + 1) - 1 = v
  OBVIOUS
<1>9. lists[v + 1] = Ascending(into(v))
  <2>1. PICK i \in 1 .. n : i = v + 1 /\ i - 1 = v
    BY <1>8
  <2> HIDE DEF into
  <2> QED
    BY <1>5, <2>1
<1> QED
  BY <1>2, <1>7, <1>9

LEMMA InitRows == SplitInit => RowsInv
<1> SUFFICES ASSUME SplitInit PROVE RowsInv
  OBVIOUS
<1>1. PICK f, nv, rev, deg :
        /\ f \in Inputs /\ nv = Cardinality(DOMAIN f.csr.vertices) - 1
        /\ rev = build_reverse_graph(f.csr) /\ deg = MaxRow(nv, f.csr.vertices)
        /\ heap = <<Block(f.csr.vertices), Block(f.csr.edges)>>
                  \o (IF f.directed THEN <<Block(rev.vertices), Block(rev.edges)>> ELSE <<>>)
        /\ g = [n_vertices |-> nv, n_edges |-> f.csr.n_edges,
                vertices |-> 1, edges |-> 2,
                reverse_vertices |-> IF f.directed THEN 3 ELSE 1,
                reverse_edges |-> IF f.directed THEN 4 ELSE 2,
                vertices_c |-> NULL, edges_c |-> NULL, n_edges_c |-> 0,
                src_list |-> NULL, dst_list |-> NULL, stream |-> NULL,
                nnz |-> 0, sizes |-> <<>>, max_degree |-> deg,
                MAX_DEGREE |-> Max({deg, 1})]
        /\ past = [loaded |-> f.csr,
                   arcs |-> {}, sym_break |-> FALSE, ascend |-> FALSE,
                   sized |-> 0, counted |-> FALSE, oriented |-> FALSE, inPlace |-> FALSE,
                   lostList |-> FALSE]
  BY Zenon DEF SplitInit, Init
<1>2. PICK x, y : x = f.csr.vertices /\ y = f.csr.edges
  OBVIOUS
<1>3. PICK m : m = f.csr.n_edges
  OBVIOUS
<1>4. /\ f.directed \in BOOLEAN /\ m \in Nat /\ nv \in Nat \ {0}
      /\ x \in [0 .. nv -> 0 .. m]
      /\ \A v \in 0 .. nv - 1 : x[v] <= x[v + 1]
      /\ ~f.directed => \A v \in 0 .. nv - 1 :
           Row(v, x, y) = Ascending({u \in 0 .. nv - 1 : v \in ToSet(Row(u, x, y))})
  <2>1. IsFile(f)
    BY <1>1, InputsAssumption, Zenon
  <2> QED
    BY <1>1, <1>2, <1>3, <2>1, Zenon DEF IsFile, IsCSR
<1>5. Degrees(nv, x, m)
  <2>1. ASSUME NEW v \in 0 .. nv - 1 PROVE x[v + 1] - x[v] \in 0 .. m
    <3>1. x[v] \in 0 .. m /\ x[v + 1] \in 0 .. m /\ x[v] <= x[v + 1]
      BY <1>4
    <3> QED
      BY <1>4, <3>1
  <2> QED
    BY <2>1 DEF Degrees
<1>6. deg \in Nat /\ Degrees(nv, x, deg)
  <2>1. MaxRow(nv, x) \in 0 .. m /\ Degrees(nv, x, MaxRow(nv, x))
    BY <1>4, <1>5, MaxRowFacts
  <2>2. deg = MaxRow(nv, x)
    BY <1>1, <1>2, Zenon
  <2> QED
    BY <2>1, <2>2
<1>7. PICK most : most = Max({deg, 1})
  OBVIOUS
<1>8. most \in Nat /\ deg <= most
  <2>1. {deg, 1} \subseteq Nat /\ {deg, 1} # {} /\ IsFiniteSet({deg, 1})
    <3>1. IsFiniteSet({1})
      BY FS_Singleton
    <3>2. IsFiniteSet({1} \cup {deg})
      BY <3>1, FS_AddElement
    <3>3. {1} \cup {deg} = {deg, 1}
      OBVIOUS
    <3> QED
      BY <1>6, <3>2, <3>3
  <2>2. PICK S : S = {deg, 1}
    OBVIOUS
  <2>3. Max(S) \in S /\ \A z \in S : z <= Max(S)
    BY <2>1, <2>2, MaxFacts
  <2> QED
    BY <1>6, <1>7, <2>2, <2>3
<1>9. Degrees(nv, x, most)
  BY <1>6, <1>8 DEF Degrees
<1>10. /\ g.n_vertices = nv /\ g.vertices = 1 /\ g.vertices_c = NULL
       /\ g.max_degree = deg /\ g.MAX_DEGREE = most
       /\ g.reverse_vertices = (IF f.directed THEN 3 ELSE 1)
       /\ g.reverse_edges = (IF f.directed THEN 4 ELSE 2)
       /\ past.oriented = FALSE /\ past.loaded.vertices = x /\ past.loaded.edges = y
  BY <1>1, <1>2, <1>7
<1>11. /\ Array(1) = x /\ Array(2) = y
       /\ f.directed => Array(3) = rev.vertices /\ Array(4) = rev.edges
  <2>1. CASE f.directed
    <3>1. heap = <<Block(x), Block(y)>> \o <<Block(rev.vertices), Block(rev.edges)>>
      BY <1>1, <1>2, <2>1
    <3>2. PICK a, b, c, d : /\ a = Block(x) /\ b = Block(y)
                            /\ c = Block(rev.vertices) /\ d = Block(rev.edges)
      OBVIOUS
    <3>3. PICK s, t : s = <<a, b>> /\ t = <<c, d>>
      OBVIOUS
    <3>4. heap[1] = a /\ heap[2] = b /\ heap[3] = c /\ heap[4] = d
      <4>1. heap = s \o t
        BY <3>1, <3>2, <3>3, Zenon
      <4>2. /\ s \in Seq({a, b}) /\ Len(s) = 2 /\ s[1] = a /\ s[2] = b
            /\ t \in Seq({c, d}) /\ Len(t) = 2 /\ t[1] = c /\ t[2] = d
        BY <3>3
      <4>3. /\ \A p \in DOMAIN s : (s \o t)[p] = s[p] /\ DOMAIN s = 1 .. Len(s)
            /\ \A i \in 1 .. Len(t) : (s \o t)[Len(s) + i] = t[i]
        BY <4>2, Appended
      <4>4. 1 \in DOMAIN s /\ 2 \in DOMAIN s /\ 1 \in 1 .. Len(t) /\ 2 \in 1 .. Len(t)
        BY <4>2
      <4>5. /\ heap[1] = s[1] /\ heap[2] = s[2]
            /\ heap[Len(s) + 1] = t[1] /\ heap[Len(s) + 2] = t[2]
        BY <4>1, <4>3, <4>4, Zenon
      <4> QED
        BY <4>2, <4>5
    <3> QED
      BY <3>2, <3>4 DEF Array, Block
  <2>2. CASE ~f.directed
    <3>1. heap = <<Block(x), Block(y)>> \o <<>>
      BY <1>1, <1>2, <2>2
    <3>2. heap[1] = Block(x) /\ heap[2] = Block(y)
      BY <3>1
    <3> QED
      BY <2>2, <3>2 DEF Array, Block
  <2> QED
    BY <2>1, <2>2
<1>12. Rows
  BY <1>4, <1>6, <1>8, <1>9, <1>10, <1>11 DEF Rows
<1>13. ASSUME NEW v \in 0 .. nv - 1
       PROVE  Row(v, Array(g.reverse_vertices), Array(g.reverse_edges)) =
                Ascending({u \in 0 .. nv - 1 : v \in ToSet(Row(u, x, y))})
  <2>1. CASE f.directed
    <3>1. Row(v, rev.vertices, rev.edges) =
            Ascending({u \in 0 .. nv - 1 : v \in ToSet(Row(u, x, y))})
      <4>1. PICK csr : csr = f.csr
        OBVIOUS
      <4>2. nv = Cardinality(DOMAIN csr.vertices) - 1
        BY <1>1, <4>1, Zenon
      <4>3. Row(v, build_reverse_graph(csr).vertices, build_reverse_graph(csr).edges) =
              Ascending({u \in 0 .. nv - 1 : v \in ToSet(Row(u, csr.vertices, csr.edges))})
        BY <1>4, <4>2, ReverseFacts
      <4> QED
        BY <1>1, <1>2, <4>1, <4>3, Zenon
    <3> QED
      BY <1>10, <1>11, <2>1, <3>1
  <2>2. CASE ~f.directed
    BY <1>4, <1>10, <1>11, <2>2
  <2> QED
    BY <2>1, <2>2
<1>14. LoadedReverse
  BY <1>10, <1>13 DEF LoadedReverse, V
<1> QED
  BY <1>12, <1>14 DEF RowsInv

\* The invariant of the rows, from the ownership of the blocks.
THEOREM SplitRows == Spec => []RowsInv
<1>1. SplitInit => RowsInv
  BY InitRows
<1> QED
  BY <1>1, NextRows, SplitInvariant, PTL DEF Spec

(***************************************************************************)
(* The incoming rows are the transposed current ones whenever the current  *)
(* graph is the one that was loaded, for every file and any number of      *)
(* calls, but for the two methods that write to or free their arrays:      *)
(* build_reverse_graph made them so, or the file is undirected.            *)
(***************************************************************************)
THEOREM SplitReverseExact == Spec => []ReverseExact
<1>1. RowsInv => ReverseExact
  <2> SUFFICES ASSUME LoadedReverse, ~past.oriented, ~past.inPlace, status = "ok",
                      Arcs = LoadedArcs, NEW v \in V
               PROVE  Row(v, Array(g.reverse_vertices), Array(g.reverse_edges)) =
                        Ascending({u \in V : <<u, v>> \in Arcs})
    BY DEF RowsInv, ReverseExact
  <2>1. ASSUME NEW u \in V
        PROVE  <<u, v>> \in LoadedArcs
                 <=> v \in ToSet(Row(u, past.loaded.vertices, past.loaded.edges))
    BY DEF LoadedArcs
  <2>2. {u \in V : <<u, v>> \in Arcs} =
          {u \in V : v \in ToSet(Row(u, past.loaded.vertices, past.loaded.edges))}
    BY <2>1
  <2> QED
    BY <2>2, Zenon DEF LoadedReverse
<1> QED
  BY <1>1, SplitRows, PTL

(***************************************************************************)
(* A row of either CSR fits a buffer of MAX_DEGREE vertices, whatever the  *)
(* reductions and swaps, and max_degree bounds the rows of the current one *)
(* unless there is a second CSR and orientation has run.                   *)
(***************************************************************************)
THEOREM SplitRowsFit == Spec => []RowsFit
<1>1. RowsInv => RowsFit
  <2> SUFFICES ASSUME Rows PROVE RowsFit
    BY DEF RowsInv
  <2>1. ASSUME NEW v \in V
        PROVE  /\ Array(g.vertices)[v + 1] - Array(g.vertices)[v] <= g.MAX_DEGREE
               /\ g.vertices_c # NULL =>
                    Array(g.vertices_c)[v + 1] - Array(g.vertices_c)[v] <= g.MAX_DEGREE
               /\ ~(past.oriented /\ g.vertices_c # NULL) => get_degree(v) <= g.max_degree
    BY DEF Rows, Degrees, V, get_degree
  <2> QED
    BY <2>1 DEF RowsFit
<1> QED
  BY <1>1, SplitRows, PTL

-----------------------------------------------------------------------------
(* Sorted lists and the rows of CSR arrays.                                *)

-----------------------------------------------------------------------------
(* Lists in ascending order.                                               *)

\* A one-to-one map between finite sets.
LEMMA SameSize ==
  ASSUME NEW A, IsFiniteSet(A), NEW B, NEW f \in [A -> B],
         \A a, b \in A : f[a] = f[b] => a = b, \A b \in B : \E a \in A : f[a] = b
  PROVE  IsFiniteSet(B) /\ Cardinality(B) = Cardinality(A)
<1>1. f \in Bijection(A, B)
  BY Zenon DEF Bijection, Injection, IsInjective, Surjection
<1>2. ExistsBijection(A, B)
  BY <1>1 DEF ExistsBijection
<1> QED
  BY <1>2, FS_Bijection

Strict(s) == \A j \in 1 .. Len(s) : \A i \in 1 .. j - 1 : s[i] < s[j]

\* The number of elements below x.
Rank(S, x) == Cardinality({y \in S : y < x})

\* Ascending lists a finite set of numbers in order, every one.
LEMMA AscendingSorted ==
  ASSUME NEW S, IsFiniteSet(S), S \subseteq Nat
  PROVE  /\ Strict(Ascending(S)) /\ ToSet(Ascending(S)) = S
         /\ \A i \in 1 .. Cardinality(S) :
              Ascending(S)[i] \in S /\ Rank(S, Ascending(S)[i]) = i - 1
         /\ \A x \in S : \A i \in 1 .. Cardinality(S) :
              Rank(S, x) = i - 1 => x = Ascending(S)[i]
<1> DEFINE R == {p \in S \X S : p[1] < p[2]}
           rank(x) == Cardinality({y \in S : y < x})
<1>0. PICK n \in Nat : n = Cardinality(S)
  BY FS_CardinalityType
<1>1. IsOrder(R, S)
  BY DEF IsOrder
<1>2. \A x \in S : Earlier(R, S, x) = {y \in S : y < x}
  BY DEF Earlier
<1>3. /\ \A i \in 1 .. n : \E x \in S : rank(x) = i - 1
      /\ \A x \in S : rank(x) \in 0 .. n - 1
      /\ \A x, y \in S : rank(x) = rank(y) => x = y
  <2> HIDE DEF R
  <2>1. /\ \A i \in 1 .. n : \E x \in S : Cardinality(Earlier(R, S, x)) = i - 1
        /\ \A x \in S : Cardinality(Earlier(R, S, x)) \in 0 .. n - 1
        /\ \A x, y \in S :
             Cardinality(Earlier(R, S, x)) = Cardinality(Earlier(R, S, y)) => x = y
    <3>1. /\ Cardinality(S) \in Nat
          /\ \A i \in 1 .. Cardinality(S) : \E x \in S : Cardinality(Earlier(R, S, x)) = i - 1
          /\ \A x \in S : Cardinality(Earlier(R, S, x)) \in 0 .. Cardinality(S) - 1
          /\ \A x, y \in S :
               Cardinality(Earlier(R, S, x)) = Cardinality(Earlier(R, S, y)) => x = y
      BY <1>1, RankOnto, Zenon
    <3> QED
      BY <1>0, <3>1, Zenon
  <2> QED
    BY <1>2, <2>1, Zenon
<1>4. \A x, y \in S : x < y => rank(x) < rank(y)
  <2> SUFFICES ASSUME NEW x \in S, NEW y \in S, x < y PROVE rank(x) < rank(y)
    OBVIOUS
  <2>1. <<x, y>> \in R
    OBVIOUS
  <2> HIDE DEF R
  <2>2. Cardinality(Earlier(R, S, x)) < Cardinality(Earlier(R, S, y))
    BY <1>1, <2>1, RankStep
  <2> QED
    BY <1>2, <2>2
<1>5. Ascending(S) = [i \in 1 .. n |-> CHOOSE x \in S : rank(x) = i - 1]
  BY <1>0 DEF Ascending
<1> HIDE DEF rank, R
<1>6. PICK A : A = Ascending(S)
  OBVIOUS
<1>7. A \in [1 .. n -> S] /\ \A i \in 1 .. n : A[i] \in S /\ rank(A[i]) = i - 1
  BY <1>3, <1>5, <1>6
<1>8. Len(A) = n /\ DOMAIN A = 1 .. n
  BY <1>7
<1>9. ASSUME NEW j \in 1 .. n, NEW i \in 1 .. j - 1 PROVE A[i] < A[j]
  <2>1. i \in 1 .. n
    OBVIOUS
  <2>2. A[i] \in S /\ A[j] \in S /\ rank(A[i]) = i - 1 /\ rank(A[j]) = j - 1
    BY <1>7, <2>1
  <2>3. A[i] # A[j] /\ ~(rank(A[j]) < rank(A[i]))
    BY <2>1, <2>2
  <2>4. ~(A[j] < A[i])
    BY <1>4, <2>2, <2>3
  <2>5. A[i] \in Nat /\ A[j] \in Nat
    BY <2>2
  <2> QED
    BY <2>3, <2>4, <2>5
<1>10. ASSUME NEW x \in S PROVE \E i \in 1 .. n : A[i] = x
  <2>1. PICK i : i = rank(x) + 1
    OBVIOUS
  <2>2. rank(x) \in 0 .. n - 1
    BY <1>3
  <2>3. i \in 1 .. n /\ rank(x) = i - 1
    BY <2>1, <2>2
  <2>4. A[i] = x
    BY <1>3, <1>7, <2>3
  <2> QED
    BY <2>3, <2>4
<1>11. Strict(A)
  BY <1>8, <1>9 DEF Strict
<1>12. ToSet(A) = S
  BY <1>7, <1>8, <1>10 DEF ToSet
<1>13. \A x \in S : \A i \in 1 .. n : rank(x) = i - 1 => x = A[i]
  BY <1>3, <1>7
<1> QED
  BY <1>0, <1>6, <1>7, <1>11, <1>12, <1>13 DEF rank, Rank

\* A list in ascending order is that of its elements.
LEMMA StrictIsAscending ==
  ASSUME NEW s \in Seq(Nat), Strict(s)
  PROVE  /\ IsFiniteSet(ToSet(s)) /\ ToSet(s) \subseteq Nat /\ Cardinality(ToSet(s)) = Len(s)
         /\ s = Ascending(ToSet(s))
<1>1. PICK n \in Nat : n = Len(s) /\ DOMAIN s = 1 .. n
  OBVIOUS
<1>2. PICK S : S = ToSet(s)
  OBVIOUS
<1>3. S = {s[i] : i \in 1 .. n} /\ S \subseteq Nat /\ \A i \in 1 .. n : s[i] \in S /\ s[i] \in Nat
  BY <1>1, <1>2 DEF ToSet
<1>4. \A i, j \in 1 .. n : i < j => s[i] < s[j]
  <2> SUFFICES ASSUME NEW i \in 1 .. n, NEW j \in 1 .. n, i < j PROVE s[i] < s[j]
    OBVIOUS
  <2>1. i \in 1 .. j - 1
    OBVIOUS
  <2> QED
    BY <1>1, <2>1 DEF Strict
<1>5. \A i, j \in 1 .. n : s[i] = s[j] => i = j
  <2> SUFFICES ASSUME NEW i \in 1 .. n, NEW j \in 1 .. n, s[i] = s[j], i # j PROVE FALSE
    OBVIOUS
  <2>1. i < j \/ j < i
    OBVIOUS
  <2>2. s[i] \in Nat /\ s[j] \in Nat
    BY <1>3
  <2> QED
    BY <1>4, <2>1, <2>2
<1>6. ASSUME NEW m \in 0 .. n
      PROVE  /\ IsFiniteSet({s[i] : i \in 1 .. m})
             /\ Cardinality({s[i] : i \in 1 .. m}) = m
  <2>1. PICK B, f : B = {s[i] : i \in 1 .. m} /\ f = [i \in 1 .. m |-> s[i]]
    OBVIOUS
  <2>2. f \in [1 .. m -> B] /\ \A b \in B : \E a \in 1 .. m : f[a] = b
    BY <2>1
  <2>3. \A a, b \in 1 .. m : f[a] = f[b] => a = b
    BY <1>5, <2>1
  <2>4. IsFiniteSet(1 .. m) /\ Cardinality(1 .. m) = m
    BY FS_Interval
  <2>5. IsFiniteSet(B) /\ Cardinality(B) = Cardinality(1 .. m)
    BY <2>2, <2>3, <2>4, SameSize
  <2> QED
    BY <2>1, <2>4, <2>5
<1>7. IsFiniteSet(S) /\ Cardinality(S) = n
  <2>1. n \in 0 .. n
    OBVIOUS
  <2> QED
    BY <1>3, <1>6, <2>1
<1>8. ASSUME NEW i \in 1 .. n PROVE Rank(S, s[i]) = i - 1
  <2>1. PICK m \in 0 .. n : m = i - 1
    OBVIOUS
  <2>2. {y \in S : y < s[i]} = {s[j] : j \in 1 .. m}
    <3>1. ASSUME NEW j \in 1 .. n PROVE s[j] < s[i] <=> j <= m
      <4>1. s[j] \in Nat /\ s[i] \in Nat
        BY <1>3
      <4>2. CASE j < i
        BY <1>4, <2>1, <4>2
      <4>3. CASE j = i
        BY <2>1, <4>1, <4>3
      <4>4. CASE i < j
        <5>1. s[i] < s[j]
          BY <1>4, <4>4
        <5> QED
          BY <2>1, <4>1, <4>4, <5>1
      <4> QED
        BY <4>2, <4>3, <4>4
    <3>2. \A j \in 1 .. m : j \in 1 .. n
      BY <2>1
    <3>3. {y \in S : y < s[i]} \subseteq {s[j] : j \in 1 .. m}
      <4> SUFFICES ASSUME NEW y \in S, y < s[i] PROVE \E j \in 1 .. m : y = s[j]
        OBVIOUS
      <4>1. PICK j \in 1 .. n : y = s[j]
        BY <1>3
      <4>2. j \in 1 .. m
        BY <3>1, <4>1
      <4> QED
        BY <4>1, <4>2
    <3>4. {s[j] : j \in 1 .. m} \subseteq {y \in S : y < s[i]}
      BY <1>3, <3>1, <3>2
    <3> QED
      BY <3>3, <3>4
  <2> QED
    BY <1>6, <2>1, <2>2 DEF Rank
<1>9. PICK A : A = Ascending(S)
  OBVIOUS
<1>10. A \in Seq(S) /\ Len(A) = n
  BY <1>3, <1>7, <1>9, AscendingFacts
<1>11. \A i \in 1 .. n : s[i] = A[i]
  <2>1. \A x \in S : \A i \in 1 .. n :
          Rank(S, x) = i - 1 => x = A[i]
    BY <1>3, <1>7, <1>9, AscendingSorted
  <2> QED
    BY <1>3, <1>8, <2>1
<1>12. s = A
  <2>1. s = [i \in 1 .. n |-> s[i]] /\ A = [i \in 1 .. n |-> A[i]]
    BY <1>1, <1>10
  <2> QED
    BY <1>11, <2>1
<1> QED
  BY <1>1, <1>2, <1>3, <1>7, <1>9, <1>12

\* What is kept of a list in ascending order: the elements in K, in order.
LEMMA KeptSorted ==
  ASSUME NEW s \in Seq(Nat), Strict(s), NEW K
  PROVE  /\ Kept(s, K) \in Seq(Nat) /\ Strict(Kept(s, K))
         /\ ToSet(Kept(s, K)) = ToSet(s) \cap K
         /\ Kept(s, K) = Ascending(ToSet(s) \cap K)
<1>1. PICK m \in Nat : m = Len(s) /\ DOMAIN s = 1 .. m
  OBVIOUS
<1>2. PICK D, at, t : D = {i \in DOMAIN s : s[i] \in K} /\ at = Ascending(D) /\ t = Kept(s, K)
  OBVIOUS
<1>3. D \in SUBSET (1 .. m) /\ D \subseteq Nat
  BY <1>1, <1>2
<1>4. IsFiniteSet(D)
  <2>1. IsFiniteSet(1 .. m)
    BY FS_Interval
  <2> QED
    BY <1>3, <2>1, FS_Subset
<1>5. at \in Seq(D) /\ Len(at) = Cardinality(D) /\ Cardinality(D) \in Nat
  BY <1>2, <1>3, <1>4, AscendingFacts
<1>6. Strict(at) /\ ToSet(at) = D
  BY <1>2, <1>3, <1>4, AscendingSorted
<1>7. PICK n \in Nat : n = Len(at) /\ DOMAIN at = 1 .. n /\ \A j \in 1 .. n : at[j] \in D
  BY <1>5
<1>8. t = [j \in 1 .. n |-> s[at[j]]]
  BY <1>2, <1>7 DEF Kept
<1>9. \A j \in 1 .. n : at[j] \in 1 .. m /\ s[at[j]] \in Nat
  <2>1. \A i \in 1 .. m : s[i] \in Nat
    BY <1>1
  <2> QED
    BY <1>3, <1>7, <2>1
<1>10. t \in [1 .. n -> Nat]
  BY <1>8, <1>9
<1>11. t \in Seq(Nat) /\ Len(t) = n /\ DOMAIN t = 1 .. n
  BY <1>10
<1>12. Strict(t)
  <2> SUFFICES ASSUME NEW j \in 1 .. n, NEW i \in 1 .. j - 1 PROVE t[i] < t[j]
    BY <1>11 DEF Strict
  <2>1. i \in 1 .. n
    OBVIOUS
  <2>2. at[i] < at[j]
    BY <1>6, <1>7 DEF Strict
  <2>3. at[i] \in 1 .. m /\ at[j] \in 1 .. m
    BY <1>9, <2>1
  <2>4. at[i] \in 1 .. at[j] - 1
    BY <2>2, <2>3
  <2>5. s[at[i]] < s[at[j]]
    BY <1>1, <2>3, <2>4 DEF Strict
  <2> QED
    BY <1>8, <2>1, <2>5
<1>13. ToSet(t) = ToSet(s) \cap K
  <2>1. \A x : x \in ToSet(t) <=> \E j \in 1 .. n : x = s[at[j]]
    BY <1>8, <1>11 DEF ToSet
  <2>2. \A x : (\E j \in 1 .. n : x = s[at[j]]) <=> \E i \in D : x = s[i]
    BY <1>6, <1>7 DEF ToSet
  <2>3. \A x : (\E i \in D : x = s[i]) <=> x \in ToSet(s) \cap K
    BY <1>2 DEF ToSet
  <2> QED
    BY <2>1, <2>2, <2>3
<1>14. t = Ascending(ToSet(t))
  BY <1>11, <1>12, StrictIsAscending
<1> QED
  BY <1>2, <1>11, <1>12, <1>13, <1>14

-----------------------------------------------------------------------------
(* CSR arrays.                                                             *)

\* What the rows of CSR arrays are.
LEMMA RowFacts ==
  ASSUME NEW n \in Nat \ {0}, NEW x, NEW y, NEW m, IsCSR(n, x, y, m), NEW v \in 0 .. n - 1
  PROVE  /\ x[v] \in Nat /\ x[v + 1] \in Nat /\ x[v] <= x[v + 1] /\ x[v + 1] <= m
         /\ Row(v, x, y) \in Seq((0 .. n - 1) \ {v}) /\ Row(v, x, y) \in Seq(Nat)
         /\ Len(Row(v, x, y)) = x[v + 1] - x[v] /\ Strict(Row(v, x, y))
<1>1. /\ m \in Nat /\ x \in [0 .. n -> 0 .. m] /\ x[v] <= x[v + 1]
      /\ \A e \in x[v] .. x[v + 1] - 1 :
            /\ y[e] \in (0 .. n - 1) \ {v}
            /\ \A d \in x[v] .. e - 1 : y[d] < y[e]
  BY DEF IsCSR
<1>2. x[v] \in 0 .. m /\ x[v + 1] \in 0 .. m
  BY <1>1
<1>3. PICK b, d \in Nat : b = x[v] /\ d = x[v + 1] - x[v]
  BY <1>1, <1>2
<1>4. PICK r : r = Row(v, x, y)
  OBVIOUS
<1>5. r = [k \in 1 .. d |-> y[b + k - 1]]
  BY <1>3, <1>4 DEF Row
<1>6. ASSUME NEW k \in 1 .. d
      PROVE  /\ y[b + k - 1] \in (0 .. n - 1) \ {v}
             /\ \A i \in 1 .. k - 1 : y[b + i - 1] < y[b + k - 1]
  <2>1. b + k - 1 \in x[v] .. x[v + 1] - 1
    BY <1>2, <1>3
  <2>2. \A i \in 1 .. k - 1 : b + i - 1 \in x[v] .. (b + k - 1) - 1
    BY <1>2, <1>3
  <2> QED
    BY <1>1, <2>1, <2>2
<1>7. r \in [1 .. d -> (0 .. n - 1) \ {v}]
  BY <1>5, <1>6
<1>8. r \in Seq((0 .. n - 1) \ {v}) /\ r \in Seq(Nat) /\ Len(r) = d
  BY <1>7
<1>9. Strict(r)
  <2> SUFFICES ASSUME NEW j \in 1 .. d, NEW i \in 1 .. j - 1 PROVE r[i] < r[j]
    BY <1>8 DEF Strict
  <2>1. i \in 1 .. d
    OBVIOUS
  <2> QED
    BY <1>5, <1>6, <2>1
<1> QED
  BY <1>1, <1>2, <1>3, <1>4, <1>5, <1>8, <1>9

\* Lists in ascending order make CSR arrays.
LEMMA CSRWell ==
  ASSUME NEW n \in Nat \ {0}, NEW lists \in [1 .. n -> Seq(Nat)],
         \A i \in 1 .. n : Strict(lists[i]) /\ ToSet(lists[i]) \subseteq (0 .. n - 1) \ {i - 1}
  PROVE  /\ IsCSR(n, CSR(lists).vertices, CSR(lists).edges, CSR(lists).n_edges)
         /\ DOMAIN CSR(lists).edges = 0 .. CSR(lists).n_edges - 1
         /\ \A v \in 0 .. n - 1 :
              Row(v, CSR(lists).vertices, CSR(lists).edges) = lists[v + 1]
<1>1. lists \in Seq(Seq(Nat)) /\ Len(lists) = n
  OBVIOUS
<1>2. PICK x, y, m : x = CSR(lists).vertices /\ y = CSR(lists).edges /\ m = CSR(lists).n_edges
  OBVIOUS
<1>3. /\ x \in [0 .. n -> Nat] /\ x[0] = 0 /\ x[n] = m /\ m \in Nat
      /\ \A v \in 0 .. n - 1 : /\ x[v + 1] - x[v] = Len(lists[v + 1])
                               /\ Row(v, x, y) = lists[v + 1]
  BY <1>1, <1>2, RowOfCSR
<1>4. DOMAIN y = 0 .. m - 1
  <2>1. CSR(lists).edges = [e \in 0 .. CSR(lists).n_edges - 1 |-> FlattenSeq(lists)[e + 1]]
    BY <1>1, RowOfCSR
  <2> QED
    BY <1>2, <2>1
<1>5. \A v \in 0 .. n - 1 : v + 1 \in 1 .. n /\ lists[v + 1] \in Seq(Nat) /\ Len(lists[v + 1]) \in Nat
  OBVIOUS
<1>6. \A v \in 0 .. n - 1 : x[v] \in Nat /\ x[v + 1] \in Nat /\ x[v] <= x[v + 1]
  <2> SUFFICES ASSUME NEW v \in 0 .. n - 1
               PROVE  x[v] \in Nat /\ x[v + 1] \in Nat /\ x[v] <= x[v + 1]
    OBVIOUS
  <2>1. x[v] \in Nat /\ x[v + 1] \in Nat
    BY <1>3
  <2>2. x[v + 1] - x[v] \in Nat
    BY <1>3, <1>5
  <2> QED
    BY <2>1, <2>2
<1>7. \A v \in 0 .. n : x[v] \in 0 .. m
  <2>1. \A v, w \in 0 .. n : v <= w => x[v] <= x[w]
    BY <1>3, <1>6, Climbs
  <2>2. n \in 0 .. n /\ \A v \in 0 .. n : v <= n
    OBVIOUS
  <2> QED
    BY <1>3, <2>1, <2>2
<1>8. x \in [0 .. n -> 0 .. m]
  BY <1>3, <1>7
<1>9. ASSUME NEW v \in 0 .. n - 1, NEW e \in x[v] .. x[v + 1] - 1
      PROVE  y[e] \in (0 .. n - 1) \ {v} /\ \A d \in x[v] .. e - 1 : y[d] < y[e]
  <2>1. PICK b, s, c : b = x[v] /\ s = lists[v + 1] /\ c = Len(s)
    OBVIOUS
  <2>2. b \in Nat /\ c \in Nat /\ x[v + 1] = b + c /\ s \in Seq(Nat) /\ Strict(s)
        /\ ToSet(s) \subseteq (0 .. n - 1) \ {v}
    <3>1. v + 1 \in 1 .. n /\ (v + 1) - 1 = v
      OBVIOUS
    <3> QED
      BY <1>3, <1>5, <1>6, <2>1, <3>1
  <2>3. \A k \in 1 .. c : y[b + k - 1] = s[k]
    <3>1. Row(v, x, y) = s
      BY <1>3, <2>1
    <3>2. (b + c) - b = c
      BY <2>2
    <3>3. Row(v, x, y) = [k \in 1 .. c |-> y[b + k - 1]]
      BY <2>1, <2>2, <3>2 DEF Row
    <3> QED
      BY <3>1, <3>3
  <2>4. ASSUME NEW d \in b .. e PROVE \E k \in 1 .. c : k = d - b + 1 /\ b + k - 1 = d
    <3>1. e \in Nat /\ d \in Nat /\ b <= d /\ d <= e /\ e < b + c
      BY <2>1, <2>2
    <3>2. PICK k : k = d - b + 1
      OBVIOUS
    <3>3. k \in 1 .. c /\ b + k - 1 = d
      BY <2>2, <3>1, <3>2
    <3> QED
      BY <3>2, <3>3
  <2>5. PICK k \in 1 .. c : k = e - b + 1 /\ b + k - 1 = e
    <3>1. e \in b .. e
      BY <2>1, <2>2
    <3> QED
      BY <2>4, <3>1
  <2>6. y[e] = s[k] /\ s[k] \in ToSet(s)
    <3>1. DOMAIN s = 1 .. c
      BY <2>1, <2>2
    <3> QED
      BY <2>3, <2>5, <3>1 DEF ToSet
  <2>7. ASSUME NEW d \in b .. e - 1 PROVE y[d] < y[e]
    <3>1. PICK j \in 1 .. c : j = d - b + 1 /\ b + j - 1 = d
      <4>1. d \in b .. e
        BY <2>2
      <4> QED
        BY <2>4, <4>1
    <3>2. y[d] = s[j] /\ j \in 1 .. k - 1
      BY <2>2, <2>3, <2>5, <3>1
    <3> QED
      BY <2>1, <2>2, <2>6, <3>2 DEF Strict
  <2> QED
    BY <2>1, <2>2, <2>6, <2>7
<1>10. IsCSR(n, x, y, m)
  BY <1>3, <1>6, <1>8, <1>9 DEF IsCSR
<1> QED
  BY <1>2, <1>3, <1>4, <1>10

-----------------------------------------------------------------------------
(* What the current arrays hold: CSR arrays, after every method of Graph.  *)

\* Both CSRs of the object are such arrays, whatever the calls so far.
Data ==
  /\ g.n_vertices \in Nat \ {0}
  /\ IsCSR(g.n_vertices, Array(g.vertices), Array(g.edges), g.n_edges)
  /\ g.vertices_c # NULL =>
       IsCSR(g.n_vertices, Array(g.vertices_c), Array(g.edges_c), g.n_edges_c)

\* The rows of the current graph.
LEMMA NFacts ==
  ASSUME Data, NEW v \in V
  PROVE  /\ N(v) \in Seq(V \ {v}) /\ N(v) \in Seq(Nat) /\ Strict(N(v))
         /\ Len(N(v)) = get_degree(v) /\ get_degree(v) \in Nat
<1>1. PICK x, y : x = Array(g.vertices) /\ y = Array(g.edges)
  OBVIOUS
<1>2. PICK n \in Nat \ {0} : n = g.n_vertices
  BY DEF Data
<1>3. PICK m : IsCSR(n, x, y, m) /\ v \in 0 .. n - 1
  BY <1>1, <1>2 DEF Data, V
<1>4. /\ x[v] \in Nat /\ x[v + 1] \in Nat /\ x[v] <= x[v + 1]
      /\ Row(v, x, y) \in Seq((0 .. n - 1) \ {v}) /\ Row(v, x, y) \in Seq(Nat)
      /\ Len(Row(v, x, y)) = x[v + 1] - x[v] /\ Strict(Row(v, x, y))
  BY <1>3, RowFacts
<1>5. x[v + 1] - x[v] \in Nat
  BY <1>4
<1> QED
  BY <1>1, <1>2, <1>4, <1>5 DEF V, N, get_degree

\* A reduction of the graph: its arrays, its rows, and no more arcs.
LEMMA FilteredCSR ==
  ASSUME Data, NEW keep, NEW new, new = Filtered(keep)
  PROVE  /\ IsCSR(g.n_vertices, new.vertices, new.edges, new.n_edges)
         /\ new.n_edges <= g.n_edges
<1>1. PICK n \in Nat \ {0} : n = g.n_vertices
  BY DEF Data
<1>2. PICK lists : lists = [i \in 1 .. n |-> Kept(N(i - 1), {u \in V : <<i - 1, u>> \in keep})]
  OBVIOUS
<1>3. ASSUME NEW i \in 1 .. n
      PROVE  /\ lists[i] \in Seq(Nat) /\ Strict(lists[i])
             /\ ToSet(lists[i]) \subseteq (0 .. n - 1) \ {i - 1}
             /\ Len(lists[i]) <= get_degree(i - 1)
  <2>1. PICK v, s, K : v = i - 1 /\ s = N(v) /\ K = {u \in V : <<v, u>> \in keep}
    OBVIOUS
  <2>2. v \in V
    BY <1>1, <2>1 DEF V
  <2>3. s \in Seq(V \ {v}) /\ s \in Seq(Nat) /\ Strict(s) /\ Len(s) = get_degree(v)
    BY <2>1, <2>2, NFacts
  <2>4. Kept(s, K) \in Seq(Nat) /\ Strict(Kept(s, K)) /\ ToSet(Kept(s, K)) = ToSet(s) \cap K
    BY <2>3, KeptSorted
  <2>5. Len(Kept(s, K)) \in 0 .. Len(s)
    BY <2>3, KeptFacts
  <2>6. ToSet(s) \subseteq V \ {v}
    BY <2>3 DEF ToSet
  <2>7. lists[i] = Kept(s, K)
    BY <1>2, <2>1, Zenon
  <2>8. V \ {v} = (0 .. n - 1) \ {i - 1}
    BY <1>1, <2>1 DEF V
  <2>9. Len(Kept(s, K)) <= Len(s)
    BY <2>3, <2>5
  <2> QED
    BY <2>1, <2>3, <2>4, <2>6, <2>7, <2>8, <2>9
<1>4. lists \in [1 .. n -> Seq(Nat)] /\ new = CSR(lists)
  <2>1. DOMAIN lists = 1 .. n /\ lists = [i \in 1 .. n |-> lists[i]]
    BY <1>2
  <2>2. new = CSR(lists)
    BY <1>1, <1>2, Zenon DEF Filtered
  <2> QED
    BY <1>3, <2>1, <2>2
<1>5. PICK x, y, m : x = new.vertices /\ y = new.edges /\ m = new.n_edges
  OBVIOUS
<1>6. IsCSR(n, x, y, m) /\ \A v \in 0 .. n - 1 : Row(v, x, y) = lists[v + 1]
  BY <1>3, <1>4, <1>5, CSRWell
<1>7. PICK z, k : z = Array(g.vertices) /\ k = g.n_edges
  OBVIOUS
<1>8. /\ k \in Nat /\ z \in [0 .. n -> 0 .. k] /\ z[0] = 0 /\ z[n] = k
      /\ m \in Nat /\ x \in [0 .. n -> 0 .. m] /\ x[0] = 0 /\ x[n] = m
  BY <1>1, <1>6, <1>7 DEF Data, IsCSR
<1>9. ASSUME NEW v \in 0 .. n - 1 PROVE x[v + 1] - x[v] <= z[v + 1] - z[v]
  <2>1. Len(Row(v, x, y)) = x[v + 1] - x[v]
    <3>1. n \in Nat \ {0} /\ IsCSR(n, x, y, m)
      BY <1>1, <1>6, Zenon
    <3> QED
      BY <3>1, RowFacts, Zenon
  <2>2. PICK i \in 1 .. n : i = v + 1 /\ i - 1 = v
    OBVIOUS
  <2>3. Len(lists[i]) <= get_degree(v)
    BY <1>3, <2>2
  <2> QED
    BY <1>6, <1>7, <2>1, <2>2, <2>3 DEF get_degree
<1>10. m <= k
  <2>1. x \in [0 .. n -> Nat] /\ z \in [0 .. n -> Nat] /\ x[0] <= z[0]
    BY <1>8
  <2>2. x[n] <= z[n]
    BY <1>9, <2>1, GrowsSlower
  <2> QED
    BY <1>8, <2>2
<1> QED
  BY <1>1, <1>5, <1>6, <1>7, <1>10

\* The pointers to the arrays are to blocks that are allocated.
LEMMA ArrayPointers ==
  ASSUME Ownership
  PROVE  /\ \A m \in {"vertices", "edges"} : g[m] \in DOMAIN heap /\ IsBlock(heap[g[m]])
         /\ g.vertices_c # NULL => 
              \A m \in {"vertices_c", "edges_c"} : g[m] \in DOMAIN heap /\ IsBlock(heap[g[m]])
         /\ g.vertices # g.edges
         /\ g.vertices_c # NULL => g.vertices \notin {g.vertices_c, g.edges_c}
BY DEF Ownership, Owned, Live

\* The step replaces the current arrays by others.
LEMMA NewCurrent ==
  ASSUME Data, Ownership, NEW x, NEW y, NEW m, IsCSR(g.n_vertices, x, y, m),
         heap'[g'.vertices].data = x, heap'[g'.edges].data = y, g'.n_edges = m,
         \A k \in {"n_vertices", "vertices_c", "edges_c", "n_edges_c"} : g'[k] = g[k],
         g.vertices_c # NULL => /\ heap'[g.vertices_c].data = heap[g.vertices_c].data
                                /\ heap'[g.edges_c].data = heap[g.edges_c].data
  PROVE  Data'
BY DEF Data, Array

\* The step leaves the arrays as they are.
LEMMA SameData ==
  ASSUME Data, Ownership, \A p \in DOMAIN heap : IsBlock(heap[p]) => heap'[p].data = heap[p].data,
         \A k \in {"n_vertices", "n_edges", "vertices", "edges",
                   "vertices_c", "edges_c", "n_edges_c"} : g'[k] = g[k]
  PROVE  Data'
<1>1. PICK p, q, r, s : p = g.vertices /\ q = g.edges /\ r = g.vertices_c /\ s = g.edges_c
  OBVIOUS
<1>2. /\ heap'[p].data = heap[p].data /\ heap'[q].data = heap[q].data
      /\ r # NULL => heap'[r].data = heap[r].data /\ heap'[s].data = heap[s].data
  BY <1>1, ArrayPointers
<1> QED
  BY <1>1, <1>2 DEF Data, Array

LEMMA OrientationData == ASSUME IInv, Data, NEW buffers, Orient(buffers) PROVE Data'
<1>1. Shape /\ Ownership /\ status = "ok"
  BY InUse DEF Orient
<1>2. PICK new, S : /\ new = Filtered(Before) /\ S = {g.vertices, g.edges}
                    /\ heap' = Freed(S) \o <<Block(new.vertices), Block(new.edges)>>
  BY Zenon DEF Orient
<1>3. Preserves(Freed(S), S)
  BY <1>1, FreedFacts DEF Shape, Preserves
<1>4. PICK x, y, a, b : x = new.vertices /\ y = new.edges /\ a = Fresh(1) /\ b = Fresh(2)
  OBVIOUS
<1>5. /\ \A p \in DOMAIN heap : heap'[p] = Freed(S)[p]
      /\ heap'[a].data = x /\ heap'[b].data = y
  <2>1. PICK h : h = Freed(S) /\ Preserves(h, S) /\ heap' = h \o <<Block(x), Block(y)>>
    BY <1>2, <1>3, <1>4, Zenon
  <2>2. /\ \A p \in DOMAIN heap : heap'[p] = h[p]
        /\ heap'[Fresh(1)].data = x /\ heap'[Fresh(2)].data = y
    BY <2>1, NewArrays, ZenonT(30)
  <2> QED
    BY <1>4, <2>1, <2>2, Zenon
<1>6. \A p \in DOMAIN heap : IsBlock(heap[p]) => heap'[p].data = heap[p].data
  BY <1>5 DEF Freed, IsBlock
<1>7. IsCSR(g.n_vertices, x, y, new.n_edges)
  BY <1>2, <1>4, FilteredCSR
<1>8. /\ g'.vertices = a /\ g'.edges = b /\ g'.n_edges = new.n_edges
      /\ \A k \in {"n_vertices", "vertices_c", "edges_c", "n_edges_c"} : g'[k] = g[k]
  <2>1. g' = [g EXCEPT !.vertices = a, !.edges = b,
                       !.n_edges = new.n_edges, !.max_degree = new_max_degree,
                       !.MAX_DEGREE = buffers]
    BY <1>2, <1>4, Zenon DEF Orient
  <2> QED
    BY <1>1, <2>1 DEF Shape, Members, Owned
<1>9. g.vertices_c # NULL => /\ heap'[g.vertices_c].data = heap[g.vertices_c].data
                             /\ heap'[g.edges_c].data = heap[g.edges_c].data
  BY <1>1, <1>6, ArrayPointers
<1> QED
  BY <1>1, <1>5, <1>7, <1>8, <1>9, NewCurrent

LEMMA SparsifyFastData ==
  ASSUME IInv, Data, NEW c, color_sparsify_fast(c)
  PROVE  Data'
<1>1. Shape /\ Ownership /\ status = "ok"
  BY InUse DEF color_sparsify_fast
<1>2. PICK keep, new : /\ new = Filtered(keep)
                       /\ heap' = heap \o <<Block(new.vertices), Block(new.edges)>>
                       /\ g' = [g EXCEPT !.vertices = Fresh(1), !.edges = Fresh(2),
                                         !.n_edges = new.n_edges]
  BY Zenon DEF color_sparsify_fast, Monochrome
<1>3. PICK x, y, a, b : x = new.vertices /\ y = new.edges /\ a = Fresh(1) /\ b = Fresh(2)
  OBVIOUS
<1>4. /\ \A p \in DOMAIN heap : heap'[p] = heap[p]
      /\ heap'[a].data = x /\ heap'[b].data = y
  BY <1>1, <1>2, <1>3, HeapPreserves, NewArrays
<1>5. IsCSR(g.n_vertices, x, y, new.n_edges)
  BY <1>2, <1>3, FilteredCSR
<1>6. /\ g'.vertices = a /\ g'.edges = b /\ g'.n_edges = new.n_edges
      /\ \A k \in {"n_vertices", "vertices_c", "edges_c", "n_edges_c"} : g'[k] = g[k]
  BY <1>1, <1>2, <1>3 DEF Shape, Members, Owned
<1>7. g.vertices_c # NULL => /\ heap'[g.vertices_c].data = heap[g.vertices_c].data
                             /\ heap'[g.edges_c].data = heap[g.edges_c].data
  BY <1>1, <1>4, ArrayPointers
<1> QED
  BY <1>1, <1>4, <1>5, <1>6, <1>7, NewCurrent

LEMMA SparsifyFastDData ==
  ASSUME IInv, Data, NEW c, color_sparsify_fast_d(c)
  PROVE  Data'
<1>1. Shape /\ Ownership /\ status = "ok"
  BY InUse DEF color_sparsify_fast_d
<1>2. PICK keep, new : /\ new = Filtered(keep)
                       /\ heap' = heap \o <<Block(new.vertices), Block(new.edges)>>
                       /\ g' = [g EXCEPT !.vertices_c = Fresh(1), !.edges_c = Fresh(2),
                                         !.n_edges_c = new.n_edges]
  BY Zenon DEF color_sparsify_fast_d, Monochrome
<1>3. PICK x, y, a, b : x = new.vertices /\ y = new.edges /\ a = Fresh(1) /\ b = Fresh(2)
  OBVIOUS
<1>4. /\ \A p \in DOMAIN heap : heap'[p] = heap[p]
      /\ heap'[a].data = x /\ heap'[b].data = y
  BY <1>1, <1>2, <1>3, HeapPreserves, NewArrays
<1>5. IsCSR(g.n_vertices, x, y, new.n_edges)
  BY <1>2, <1>3, FilteredCSR
<1>6. /\ g'.vertices_c = a /\ g'.edges_c = b /\ g'.n_edges_c = new.n_edges
      /\ \A k \in {"n_vertices", "vertices", "edges", "n_edges"} : g'[k] = g[k]
  BY <1>1, <1>2, <1>3 DEF Shape, Members, Owned
<1>7. /\ heap'[g.vertices].data = heap[g.vertices].data
      /\ heap'[g.edges].data = heap[g.edges].data
  BY <1>1, <1>4, ArrayPointers
<1> QED
  BY <1>4, <1>5, <1>6, <1>7 DEF Data, Array

LEMMA SwapData ==
  ASSUME IInv, Data, Swaps
  PROVE  Data'
<1>1. Shape /\ heap' = heap /\ g.vertices_c # NULL
  BY InUse DEF Swaps
<1>2. /\ g'.vertices = g.vertices_c /\ g'.vertices_c = g.vertices
      /\ g'.edges = g.edges_c /\ g'.edges_c = g.edges
      /\ g'.n_edges = g.n_edges_c /\ g'.n_edges_c = g.n_edges /\ g'.n_vertices = g.n_vertices
  BY <1>1 DEF Swaps, Shape, Members, Owned
<1> QED
  BY <1>1, <1>2 DEF Data, Array

\* color_sparsify leaves cells unset behind the last arc.
LEMMA SparsifyData ==
  ASSUME IInv, Data, NEW c, color_sparsify(c)
  PROVE  Data'
<1>1. Shape /\ Ownership /\ status = "ok"
  BY InUse DEF color_sparsify
<1>2. PICK keep, new, x, y :
        /\ new = Filtered(keep) /\ x = new.vertices
        /\ y = [i \in 0 .. g.n_edges - 1 |-> IF i < new.n_edges THEN new.edges[i] ELSE Unset]
        /\ heap' = [heap EXCEPT ![g.vertices].data = x] \o <<Block(y)>>
        /\ g' = [g EXCEPT !.edges = Fresh(1), !.n_edges = new.n_edges]
  BY Zenon DEF color_sparsify, Monochrome
<1>3. PICK h, a, z, m : /\ h = [heap EXCEPT ![g.vertices].data = x] /\ a = Fresh(1)
                        /\ z = new.edges /\ m = new.n_edges
  OBVIOUS
<1>4. /\ g.vertices \in DOMAIN heap /\ IsBlock(heap[g.vertices])
      /\ g.vertices_c # NULL =>
           \A k \in {"vertices_c", "edges_c"} : g[k] \in DOMAIN heap /\ g[k] # g.vertices
  BY <1>1, ArrayPointers
<1>5. /\ \A p \in DOMAIN heap : p # g.vertices => h[p] = heap[p]
      /\ h[g.vertices].data = x /\ DOMAIN h = DOMAIN heap
  <2>1. h[g.vertices] = [heap[g.vertices] EXCEPT !.data = x]
    BY <1>3, <1>4
  <2>2. h[g.vertices].data = x
    BY <1>4, <2>1 DEF IsBlock
  <2> QED
    BY <1>3, <2>2
<1>6. (\A p \in DOMAIN heap : heap'[p] = h[p]) /\ heap'[a].data = y
  <2>1. PICK t : t = <<Block(y)>>
    OBVIOUS
  <2>2. DOMAIN heap = 1 .. Len(heap) /\ Len(heap) \in Nat
    BY <1>1 DEF Shape
  <2>3. h = [p \in 1 .. Len(heap) |-> h[p]] /\ DOMAIN h = 1 .. Len(heap)
    BY <1>3, <2>2
  <2>4. \A i \in 1 .. Len(heap) : h[i] \in ToSet(h)
    BY <2>3 DEF ToSet
  <2>5. h \in Seq(ToSet(h))
    BY <2>2, <2>3, <2>4, SeqDef
  <2>6. t \in Seq({Block(y)}) /\ heap' = h \o t /\ Len(t) = 1 /\ t[1] = Block(y)
    BY <1>2, <1>3, <2>1
  <2>7. /\ \A p \in DOMAIN h : (h \o t)[p] = h[p]
        /\ \A i \in 1 .. Len(t) : (h \o t)[Len(h) + i] = t[i]
    BY <2>5, <2>6, Appended
  <2>8. Len(h) = Len(heap) /\ 1 \in 1 .. Len(t)
    BY <2>2, <2>3, <2>5, <2>6
  <2>9. heap'[a] = Block(y)
    BY <1>3, <2>6, <2>7, <2>8 DEF Fresh
  <2> QED
    BY <1>5, <2>6, <2>7, <2>9 DEF Block
<1>7. IsCSR(g.n_vertices, x, z, m) /\ m <= g.n_edges
  BY <1>2, <1>3, FilteredCSR
<1>8. IsCSR(g.n_vertices, x, y, m)
  <2>1. PICK n \in Nat \ {0} : n = g.n_vertices
    BY DEF Data
  <2>2. g.n_edges \in Nat /\ m \in Nat /\ x \in [0 .. n -> 0 .. m]
    BY <1>7, <2>1 DEF Data, IsCSR
  <2>3. \A e \in 0 .. m - 1 : y[e] = z[e]
    BY <1>2, <1>3, <1>7, <2>2
  <2>4. ASSUME NEW v \in 0 .. n - 1, NEW e \in x[v] .. x[v + 1] - 1
        PROVE  e \in 0 .. m - 1 /\ \A d \in x[v] .. e - 1 : d \in 0 .. m - 1
    <3>1. x[v] \in 0 .. m /\ x[v + 1] \in 0 .. m
      BY <2>2
    <3> QED
      BY <2>2, <3>1
  <2> QED
    BY <1>7, <2>1, <2>3, <2>4 DEF IsCSR
<1>9. /\ g'.vertices = g.vertices /\ g'.edges = a /\ g'.n_edges = m
      /\ \A k \in {"n_vertices", "vertices_c", "edges_c", "n_edges_c"} : g'[k] = g[k]
  BY <1>1, <1>2, <1>3 DEF Shape, Members, Owned
<1>10. heap'[g'.vertices].data = x
  BY <1>4, <1>5, <1>6, <1>9
<1>11. g.vertices_c # NULL => /\ heap'[g.vertices_c].data = heap[g.vertices_c].data
                              /\ heap'[g.edges_c].data = heap[g.edges_c].data
  BY <1>4, <1>5, <1>6
<1> QED
  BY <1>1, <1>6, <1>8, <1>9, <1>10, <1>11, NewCurrent

\* The members that Data is about.
Stored == {"n_vertices", "n_edges", "vertices", "edges", "vertices_c", "edges_c", "n_edges_c"}

\* A list or a stream is added to the heap.
LEMMA ListData ==
  ASSUME Shape, Ownership, Data, NEW T, NEW t \in Seq(T), heap' = heap \o t,
         \A m \in Stored : g'[m] = g[m]
  PROVE  Data'
<1>1. heap \in Seq(ToSet(heap))
  BY DEF Shape
<1>2. \A p \in DOMAIN heap : heap'[p] = heap[p]
  BY <1>1, Appended
<1> QED
  BY <1>2, SameData DEF Stored

LEMMA SimpleListData == ASSUME IInv, Data, init_simple_edgelist PROVE Data'
<1>1. Shape /\ Ownership
  BY InUse DEF init_simple_edgelist
<1>2. CASE g.nnz # 0
  BY <1>1, <1>2, SameData DEF init_simple_edgelist
<1>3. CASE g.nnz = 0
  <2>1. PICK x, y, a, b, n : /\ heap' = heap \o <<Block(x), Block(y)>>
                             /\ g' = [g EXCEPT !.nnz = n, !.src_list = a, !.dst_list = b]
                             /\ past' = Remembered(FALSE, FALSE)
    BY <1>3, Zenon DEF init_simple_edgelist
  <2>2. \A m \in Stored : g'[m] = g[m]
    BY <1>1, <2>1 DEF Shape, Members, Owned, Stored
  <2>3. <<Block(x), Block(y)>> \in Seq({Block(x), Block(y)})
    OBVIOUS
  <2> QED
    BY <1>1, <2>1, <2>2, <2>3, ListData
<1> QED
  BY <1>2, <1>3

LEMMA StreamData == ASSUME IInv, Data, create_edge_stream PROVE Data'
<1>1. Shape /\ Ownership
  BY InUse DEF create_edge_stream
<1>2. CASE g.nnz # 0
  BY <1>1, <1>2, SameData DEF create_edge_stream
<1>3. CASE g.nnz = 0
  <2>1. PICK x, a : /\ heap' = Append(heap, Block(x))
                    /\ g' = [g EXCEPT !.nnz = g.n_edges, !.stream = a]
    BY <1>3, Zenon DEF create_edge_stream
  <2>2. heap' = heap \o <<Block(x)>>
    BY <1>1, <2>1, AppendIsConcat DEF Shape
  <2>3. \A m \in Stored : g'[m] = g[m]
    BY <1>1, <2>1 DEF Shape, Members, Owned, Stored
  <2>4. <<Block(x)>> \in Seq({Block(x)})
    OBVIOUS
  <2> QED
    BY <1>1, <2>2, <2>3, <2>4, ListData
<1> QED
  BY <1>2, <1>3

\* What MakeList does to the object, when it does not overrun its arrays.
LEMMA ListMade ==
  ASSUME Shape, NEW sym_break, NEW ascend, MakeList(sym_break, ascend)
  PROVE  \/ UNCHANGED <<heap, g, past>>
         \/ /\ \E y, z : \E t \in Seq({y, z}) : heap' = heap \o t
            /\ \A m \in Members \ {"nnz", "src_list", "dst_list", "sizes"} : g'[m] = g[m]
<1> DEFINE list == Listed([v \in V |-> Tasks(v, sym_break, ascend)])
           size == IF sym_break THEN g.n_edges \div 2 ELSE g.n_edges
           old == IF g.sizes = <<>> THEN [v \in V |-> 0] ELSE g.sizes
           new_sizes == [v \in V |-> old[v] + Len(Tasks(v, sym_break, ascend))]
           dst == IF sym_break THEN Fresh(2) ELSE g.edges
           more == IF sym_break THEN <<Block(Filled(size, list, 2))>> ELSE <<>>
<1>1. \/ UNCHANGED <<heap, g, past>>
      \/ /\ heap' = heap \o <<Block(Filled(size, list, 1))>> \o more
         /\ g' = [g EXCEPT !.nnz = size, !.src_list = Fresh(1), !.dst_list = dst,
                           !.sizes = new_sizes]
  BY DEF MakeList
<1>2. PICK y, z : y = Block(Filled(size, list, 1)) /\ z = Block(Filled(size, list, 2))
  OBVIOUS
<1>3. more \in Seq({y, z})
  <2>1. more = IF sym_break THEN <<z>> ELSE <<>>
    BY <1>2
  <2>2. <<z>> \in Seq({y, z}) /\ <<>> \in Seq({y, z})
    OBVIOUS
  <2> QED
    BY <2>1, <2>2, Zenon
<1> HIDE DEF list, size, old, new_sizes, dst, more
<1> SUFFICES ASSUME heap' = heap \o <<Block(Filled(size, list, 1))>> \o more,
                    g' = [g EXCEPT !.nnz = size, !.src_list = Fresh(1), !.dst_list = dst,
                                   !.sizes = new_sizes]
             PROVE  /\ \E t \in Seq({y, z}) : heap' = heap \o t
                    /\ \A m \in Members \ {"nnz", "src_list", "dst_list", "sizes"} : g'[m] = g[m]
  BY <1>1, Zenon
<1>4. PICK t : t = <<y>> \o more
  OBVIOUS
<1>5. t \in Seq({y, z}) /\ heap' = heap \o t
  <2>1. heap \in Seq(ToSet(heap)) /\ <<y>> \in Seq({y, z})
    BY DEF Shape
  <2>2. heap' = heap \o <<y>> \o more
    BY <1>2, Zenon
  <2>3. t \in Seq({y, z})
    BY <1>3, <1>4, <2>1
  <2>4. (heap \o <<y>>) \o more = heap \o (<<y>> \o more)
    BY <1>3, <2>1
  <2> QED
    BY <1>4, <2>2, <2>3, <2>4, Zenon
<1>6. \A m \in Members \ {"nnz", "src_list", "dst_list", "sizes"} : g'[m] = g[m]
  BY DEF Shape, Members, Owned
<1> QED
  BY <1>5, <1>6

LEMMA MakeListData ==
  ASSUME IInv, Data, status = "ok", NEW sym_break, NEW ascend, MakeList(sym_break, ascend)
  PROVE  Data'
<1>1. Shape /\ Ownership
  BY DEF IInv, Deleted
<1>2. CASE UNCHANGED <<heap, g, past>>
  BY <1>1, <1>2, SameData
<1>3. CASE ~UNCHANGED <<heap, g, past>>
  <2>1. /\ \E y, z : \E t \in Seq({y, z}) : heap' = heap \o t
        /\ \A m \in Members \ {"nnz", "src_list", "dst_list", "sizes"} : g'[m] = g[m]
    BY <1>1, <1>3, ListMade, Zenon
  <2>2. PICK y, z : \E t \in Seq({y, z}) : heap' = heap \o t
    BY <2>1
  <2>3. PICK t \in Seq({y, z}) : heap' = heap \o t
    BY <2>2
  <2>4. \A m \in Stored : g'[m] = g[m]
    BY <2>1 DEF Members, Owned, Stored
  <2> QED
    BY <1>1, <2>3, <2>4, ListData
<1> QED
  BY <1>2, <1>3

LEMMA DestroyData == ASSUME IInv, Data, destroy PROVE Data'
<1>1. Shape /\ Ownership /\ g' = g
  BY InUse DEF destroy
<1>2. PICK S : heap' = Freed(S)
  BY Zenon DEF destroy
<1>3. ASSUME NEW p \in DOMAIN heap, IsBlock(heap[p]) PROVE heap'[p].data = heap[p].data
  BY <1>2, <1>3 DEF Freed, IsBlock
<1> QED
  BY <1>1, <1>3, SameData

LEMMA CallGraphData == IInv /\ Data /\ CallGraph => Data'
<1> SUFFICES ASSUME IInv, Data, GraphStep PROVE Data'
  BY DEF CallGraph
<1>1. ASSUME NEW s \in BOOLEAN, NEW a \in BOOLEAN, init_edgelist(s, a) PROVE Data'
  <2>1. status = "ok" /\ (MakeList(s, a) \/ UNCHANGED <<heap, g>>)
    BY <1>1 DEF init_edgelist, Called
  <2>2. CASE UNCHANGED <<heap, g>>
    BY <2>2 DEF Data, Array
  <2> QED
    BY <2>1, <2>2, MakeListData
<1>2. ASSUME NEW s \in BOOLEAN, NEW a \in BOOLEAN, reinit_edgelist(s, a) PROVE Data'
  BY <1>2, MakeListData DEF reinit_edgelist, Called
<1>3. CASE swap_graph_mode
  <2>1. CASE SwapFails
    BY <2>1 DEF SwapFails, Data, Array
  <2> QED
    BY <1>3, <2>1, SwapCases, SwapData
<1> QED
  BY <1>1, <1>2, <1>3, OrientationData, SparsifyFastData, SparsifyFastDData, SparsifyData,
     SimpleListData, StreamData, DestroyData, Zenon DEF GraphStep, use_dag, orientation

LEMMA SchedulerKeeps == SchedulerStep => UNCHANGED <<heap, g, past, calls>>
<1> SUFFICES ASSUME SchedulerStep PROVE UNCHANGED <<heap, g, past, calls>>
  OBVIOUS
<1>1. \/ UNCHANGED gvars \/ Fails("assert") \/ Fails("sizes") \/ Fails("unset")
      \/ Fails(Unusable)
  BY DEF SchedulerStep, round_robin, CopyRest, CopyChunk, vertex_chunking, AppendTask,
         AppendEnd, least_first, NextChunk, LastChunk
<1> QED
  BY <1>1 DEF Fails, gvars

\* Only the methods of Graph write to an array or a member.
LEMMA ObjectKept == [Next]_vars => CallGraph \/ UNCHANGED <<heap, g, past>>
<1> SUFFICES ASSUME [Next]_vars PROVE CallGraph \/ UNCHANGED <<heap, g, past>>
  OBVIOUS
<1>1. CASE CallScheduler
  BY <1>1 DEF CallScheduler, Split, gvars
<1>2. CASE CallPartition
  <2>1. PICK n : edgecut_induced_partition1D(n) \/ csr_segmenting(n)
    BY <1>2 DEF CallPartition, Partition
  <2> QED
    BY <2>1 DEF edgecut_induced_partition1D, csr_segmenting, gvars
<1>3. CASE SchedulerStep
  BY <1>3, SchedulerKeeps
<1>4. CASE PartitionStep
  BY <1>4 DEF PartitionStep, BuildSubgraph, Mark, SegmentVertex, SegmentEnd, gvars
<1>5. CASE UNCHANGED vars
  BY <1>5 DEF vars, gvars
<1> QED
  BY <1>1, <1>2, <1>3, <1>4, <1>5, Zenon DEF Next, Working

LEMMA NextData == IInv /\ Data /\ [Next]_vars => Data'
<1> SUFFICES ASSUME IInv, Data, [Next]_vars PROVE Data'
  OBVIOUS
<1>1. CASE UNCHANGED <<heap, g, past>>
  BY <1>1 DEF Data, Array
<1> QED
  BY <1>1, ObjectKept, CallGraphData

LEMMA InitData == SplitInit => Data
<1> SUFFICES ASSUME SplitInit PROVE Data
  OBVIOUS
<1>1. PICK f, nv, more, rv, re, deg :
        /\ f \in Inputs /\ nv = Cardinality(DOMAIN f.csr.vertices) - 1
        /\ more = (IF f.directed THEN <<Block(build_reverse_graph(f.csr).vertices),
                                        Block(build_reverse_graph(f.csr).edges)>> ELSE <<>>)
        /\ heap = <<Block(f.csr.vertices), Block(f.csr.edges)>> \o more
        /\ g = [n_vertices |-> nv, n_edges |-> f.csr.n_edges,
                vertices |-> 1, edges |-> 2, reverse_vertices |-> rv, reverse_edges |-> re,
                vertices_c |-> NULL, edges_c |-> NULL, n_edges_c |-> 0,
                src_list |-> NULL, dst_list |-> NULL, stream |-> NULL,
                nnz |-> 0, sizes |-> <<>>, max_degree |-> deg,
                MAX_DEGREE |-> Max({deg, 1})]
  BY ZenonT(60) DEF SplitInit, Init
<1>2. PICK x, y, m : x = f.csr.vertices /\ y = f.csr.edges /\ m = f.csr.n_edges
  OBVIOUS
<1>3. nv \in Nat \ {0} /\ IsCSR(nv, x, y, m)
  <2>1. IsFile(f)
    BY <1>1, InputsAssumption, Zenon
  <2> QED
    BY <1>1, <1>2, <2>1, Zenon DEF IsFile
<1>4. PICK a, b, c, d, s : /\ a = Block(x) /\ b = Block(y)
                           /\ c = Block(build_reverse_graph(f.csr).vertices)
                           /\ d = Block(build_reverse_graph(f.csr).edges)
                           /\ s = <<a, b>>
  OBVIOUS
<1>5. heap = s \o more /\ more \in Seq({c, d}) /\ s \in Seq({a, b}) /\ s[1] = a /\ s[2] = b
      /\ DOMAIN s = 1 .. 2
  <2>1. more = IF f.directed THEN <<c, d>> ELSE <<>>
    BY <1>1, <1>4, Zenon
  <2>2. <<c, d>> \in Seq({c, d}) /\ <<>> \in Seq({c, d})
    OBVIOUS
  <2>3. more \in Seq({c, d})
    BY <2>1, <2>2, Zenon
  <2>4. heap = s \o more
    BY <1>1, <1>2, <1>4, Zenon
  <2> QED
    BY <1>4, <2>3, <2>4
<1>6. \A p \in DOMAIN s : (s \o more)[p] = s[p]
  <2>1. s \in Seq({a, b}) /\ more \in Seq({c, d})
    BY <1>5
  <2>2. PICK T, U : T = {a, b} /\ U = {c, d} /\ s \in Seq(T) /\ more \in Seq(U)
    BY <2>1, Zenon
  <2> QED
    BY <2>2, Appended
<1>7. Array(1) = x /\ Array(2) = y
  BY <1>4, <1>5, <1>6 DEF Array, Block
<1>8. /\ g.n_vertices = nv /\ g.n_edges = m
      /\ g.vertices = 1 /\ g.edges = 2 /\ g.vertices_c = NULL
  BY <1>1, <1>2
<1> QED
  BY <1>3, <1>7, <1>8 DEF Data

(***************************************************************************)
(* The current arrays of a Graph, and those of its second CSR if there is  *)
(* one, are CSR arrays after any calls: the row pointers ascend from 0 to  *)
(* the number of arcs, and a row lists other vertices in the order of      *)
(* their ids.  This is what the loops over rows in graph.cc,               *)
(* scheduler.cc and graph_partition.cc take for granted, and what the      *)
(* next theorems start from.                                               *)
(***************************************************************************)
THEOREM SplitData == Spec => []Data
<1>1. SplitInit => Data
  BY InitData
<1> QED
  BY <1>1, NextData, SplitInvariant, PTL DEF Spec

-----------------------------------------------------------------------------
(* csr_segmenting: the segments hold every arc once.                       *)

-----------------------------------------------------------------------------
(* csr_segmenting.                                                         *)

LEMMA SeqOfMore ==
  ASSUME NEW S, NEW T, S \subseteq T, NEW s \in Seq(S)
  PROVE  s \in Seq(T) /\ Len(s) \in Nat /\ DOMAIN s = 1 .. Len(s)
<1>1. Len(s) \in Nat /\ DOMAIN s = 1 .. Len(s) /\ s = [i \in 1 .. Len(s) |-> s[i]]
  OBVIOUS
<1>2. \A i \in 1 .. Len(s) : s[i] \in T
  OBVIOUS
<1>3. s \in [1 .. Len(s) -> T]
  BY <1>1, <1>2
<1> QED
  BY <1>1, <1>3, SeqDef

\* A larger number goes to the end.
LEMMA AscendingAdd ==
  ASSUME NEW T, IsFiniteSet(T), T \subseteq Nat, NEW c \in Nat, \A x \in T : x < c
  PROVE  Ascending(T \cup {c}) = Append(Ascending(T), c)
<1>1. PICK A, s : A = Ascending(T) /\ s = Append(A, c)
  OBVIOUS
<1>2. A \in Seq(T) /\ Len(A) = Cardinality(T) /\ Cardinality(T) \in Nat
  BY <1>1, AscendingFacts
<1>3. Strict(A) /\ ToSet(A) = T
  BY <1>1, AscendingSorted
<1>0. PICK n \in Nat : n = Len(A) /\ A \in Seq(Nat)
  <2>1. Len(A) \in Nat /\ DOMAIN A = 1 .. Len(A) /\ \A i \in 1 .. Len(A) : A[i] \in T
    BY <1>2
  <2>2. A \in Seq(Nat)
    BY <1>2, SeqOfMore
  <2> QED
    BY <2>1, <2>2
<1>4. /\ s \in Seq(Nat) /\ Len(s) = n + 1 /\ DOMAIN s = 1 .. n + 1 /\ DOMAIN A = 1 .. n
      /\ s[n + 1] = c /\ \A i \in 1 .. n : s[i] = A[i]
  BY <1>0, <1>1, <1>2
<1>5. Strict(s)
  <2> SUFFICES ASSUME NEW j \in 1 .. n + 1, NEW i \in 1 .. j - 1 PROVE s[i] < s[j]
    BY <1>4 DEF Strict
  <2>1. i \in 1 .. n /\ s[i] = A[i] /\ A[i] \in T
    BY <1>0, <1>2, <1>4
  <2>2. CASE j = n + 1
    BY <1>4, <2>1, <2>2
  <2>3. CASE j # n + 1
    <3>1. j \in 1 .. n
      BY <2>3
    <3> QED
      BY <1>0, <1>3, <1>4, <2>1, <3>1 DEF Strict
  <2> QED
    BY <2>2, <2>3
<1>6. ToSet(s) = T \cup {c}
  <2>1. ToSet(s) = {s[i] : i \in 1 .. n + 1} /\ T = {A[i] : i \in 1 .. n}
    BY <1>3, <1>4 DEF ToSet
  <2>2. \A i \in 1 .. n + 1 : i \in 1 .. n \/ i = n + 1
    OBVIOUS
  <2>3. \A i \in 1 .. n : i \in 1 .. n + 1
    OBVIOUS
  <2>4. n + 1 \in 1 .. n + 1
    OBVIOUS
  <2> QED
    BY <1>4, <2>1, <2>2, <2>3, <2>4
<1>7. s = Ascending(ToSet(s))
  BY <1>4, <1>5, StrictIsAscending
<1> QED
  BY <1>1, <1>6, <1>7

LEMMA FlattenNone == FlattenSeq(<<>>) = <<>>
<1>1. Len(<<>>) = 0
  OBVIOUS
<1> QED
  BY <1>1 DEF FlattenSeq

\* One more list at the end.
LEMMA FlattenAppend ==
  ASSUME NEW S, NEW rows \in Seq(Seq(S)), NEW r \in Seq(S)
  PROVE  FlattenSeq(rows) \in Seq(S) /\ FlattenSeq(Append(rows, r)) = FlattenSeq(rows) \o r
<1>1. PICK R : R = Seq(S)
  OBVIOUS
<1>2. rows \in Seq(R) /\ r \in R
  BY <1>1
<1>3. PICK m \in Nat : m = Len(rows) /\ (m = 0 => rows = <<>>)
  BY <1>2
<1>4. PICK more : more = Append(rows, r)
  OBVIOUS
<1>5. /\ more \in Seq(R) /\ Len(more) = m + 1 /\ more[m + 1] = r
      /\ \A i \in 1 .. m : more[i] = rows[i]
  BY <1>2, <1>3, <1>4
<1>6. m + 1 \in Nat /\ m + 1 \in Nat \ {0}
  BY <1>3
<1>7. PICK G : Flattens(more, m + 1, G) /\ FlattenSeq(more) = G[m + 1]
  BY <1>5, <1>6, FlattenLast
<1>8. Unfolded(more, m + 1, G)
  BY <1>6, <1>7, FlattensFacts
<1>9. <<>> \o r = r /\ <<>> \in Seq(S)
  OBVIOUS
<1>10. CASE m = 0
  <2>1. FlattenSeq(rows) = <<>>
    BY <1>3, <1>10, FlattenNone
  <2>2. G[1] = more[1]
    BY <1>8, <1>10 DEF Unfolded
  <2> QED
    BY <1>4, <1>5, <1>7, <1>9, <1>10, <2>1, <2>2
<1>11. CASE m # 0
  <2>1. m \in Nat \ {0} /\ m <= m + 1 /\ m \in 1 .. (m + 1) - 1 /\ m \in 1 .. m /\ m \in m .. m
    BY <1>3, <1>11
  <2>2. PICK F : Flattens(rows, m, F) /\ FlattenSeq(rows) = F[m]
    BY <1>3, <2>1, FlattenLast
  <2>3. Agree(more, rows, m)
    BY <1>5 DEF Agree
  <2>4. F[m] = G[m]
    BY <1>6, <1>7, <2>1, <2>2, <2>3, FlattensUnique
  <2>5. G[m + 1] = G[m] \o more[m + 1]
    BY <1>8, <2>1 DEF Unfolded
  <2>6. F[m] \in Seq(S)
    BY <1>3, <2>1, <2>2, FlattensGrows
  <2> QED
    BY <1>4, <1>5, <1>7, <2>2, <2>4, <2>5, <2>6
<1> QED
  BY <1>10, <1>11

(***************************************************************************)
(* The segment s has the rows of the vertices T, in their order, and       *)
(* nothing else.                                                           *)
(***************************************************************************)
Holds(s, T, row) ==
  /\ s.idx_map = Ascending(T)
  /\ s.edges = FlattenSeq([k \in DOMAIN s.idx_map |-> row[s.idx_map[k]]])

\* One more row.
LEMMA SegmentRow ==
  ASSUME NEW T, IsFiniteSet(T), T \subseteq Nat, NEW c \in Nat, \A x \in T : x < c,
         NEW row, \A x \in T \cup {c} : row[x] \in Seq(Nat), NEW s, Holds(s, T, row),
         NEW s2, s2.idx_map = Append(s.idx_map, c), s2.edges = s.edges \o row[c]
  PROVE  Holds(s2, T \cup {c}, row)
<1>1. PICK map, rows : map = s.idx_map /\ rows = [k \in DOMAIN map |-> row[map[k]]]
  OBVIOUS
<1>2. map = Ascending(T) /\ map \in Seq(T)
  <2>1. map = Ascending(T)
    BY <1>1 DEF Holds
  <2> QED
    BY <2>1, AscendingFacts
<1>3. PICK n \in Nat : n = Len(map) /\ DOMAIN map = 1 .. n
  BY <1>2
<1>4. rows \in Seq(Seq(Nat)) /\ Len(rows) = n /\ rows = [k \in 1 .. n |-> row[map[k]]]
  <2>1. rows = [k \in 1 .. n |-> row[map[k]]]
    BY <1>1, <1>3
  <2>2. ASSUME NEW k \in 1 .. n PROVE row[map[k]] \in Seq(Nat)
    <3>1. map[k] \in T
      BY <1>2, <1>3
    <3> QED
      BY <3>1
  <2> QED
    BY <2>1, <2>2
<1>5. PICK r \in Seq(Nat) : r = row[c]
  OBVIOUS
<1>6. FlattenSeq(Append(rows, r)) = FlattenSeq(rows) \o r
  BY <1>4, <1>5, FlattenAppend
<1>7. PICK map2 : map2 = Append(map, c) /\ map2 = s2.idx_map
  BY <1>1
<1>8. map2 = Ascending(T \cup {c})
  BY <1>2, <1>7, AscendingAdd
<1>9. /\ DOMAIN map2 = 1 .. n + 1 /\ map2[n + 1] = c
      /\ \A k \in 1 .. n : map2[k] = map[k]
  <2>1. map \in Seq(T \cup {c}) /\ c \in T \cup {c}
    BY <1>2
  <2>2. PICK all : all = T \cup {c}
    OBVIOUS
  <2>3. map \in Seq(all) /\ c \in all
    BY <2>1, <2>2
  <2>4. /\ Len(Append(map, c)) = Len(map) + 1 /\ Append(map, c) \in Seq(all)
        /\ \A k \in 1 .. Len(map) : Append(map, c)[k] = map[k]
        /\ Append(map, c)[Len(map) + 1] = c
    BY <2>3, AppendProperties
  <2>5. DOMAIN Append(map, c) = 1 .. Len(Append(map, c))
    BY <2>4
  <2> QED
    BY <1>3, <1>7, <2>4, <2>5, Zenon
<1>10. [k \in 1 .. n + 1 |-> row[map2[k]]] = Append(rows, r)
  <2>1. Append(rows, r) = [k \in 1 .. n + 1 |-> IF k = n + 1 THEN r ELSE rows[k]]
    <3>1. /\ DOMAIN Append(rows, r) = 1 .. n + 1 /\ Append(rows, r)[n + 1] = r
          /\ \A k \in 1 .. n : Append(rows, r)[k] = rows[k]
      BY <1>4
    <3>2. Append(rows, r) \in Seq(Seq(Nat))
      BY <1>4
    <3>3. Append(rows, r) = [k \in 1 .. n + 1 |-> Append(rows, r)[k]]
      <4>1. PICK t, R : t = Append(rows, r) /\ R = Seq(Nat)
        OBVIOUS
      <4>2. t \in Seq(R) /\ DOMAIN t = 1 .. n + 1
        BY <3>1, <3>2, <4>1
      <4>3. t = [k \in DOMAIN t |-> t[k]]
        BY <4>2
      <4> QED
        BY <4>1, <4>2, <4>3
    <3>4. \A k \in 1 .. n + 1 : k = n + 1 \/ k \in 1 .. n
      OBVIOUS
    <3> QED
      BY <3>1, <3>3, <3>4
  <2>2. \A k \in 1 .. n + 1 : row[map2[k]] = IF k = n + 1 THEN r ELSE rows[k]
    BY <1>4, <1>5, <1>9
  <2> QED
    BY <2>1, <2>2
<1>11. s2.edges = FlattenSeq(rows) \o r
  BY <1>1, <1>5, Zenon DEF Holds
<1> QED
  BY <1>6, <1>7, <1>8, <1>9, <1>10, <1>11, Zenon DEF Holds

\* The vertices below c that have an arc into segment i.
TailsBelow(i, c) == {v \in 0 .. c - 1 : Into(v, i) # <<>>}

\* After cur vertices each segment has the rows of those with an arc into it, and
\* room for one row pointer more than it will have rows.
Segments ==
  /\ stage \in {"segment", "segmented", "stray"} =>
       /\ cur \in 0 .. g.n_vertices /\ (stage = "segmented" => cur = g.n_vertices)
       /\ DOMAIN subgraphs = 1 .. num_subgraphs
       /\ \A i \in 1 .. num_subgraphs :
            /\ Holds(subgraphs[i], TailsBelow(i - 1, cur), [v \in V |-> Into(v, i - 1)])
            /\ DOMAIN subgraphs[i].vertices = 0 .. Cardinality(Tails(i - 1))
  /\ StrayExplained

LEMMA SameInto ==
  ASSUME UNCHANGED <<heap, g, num_subgraphs>>
  PROVE  V' = V /\ \A v, i : Into(v, i)' = Into(v, i)
BY DEF V, Into, N, Heads, bcol, Array

\* What a step that leaves the graph leaves of the segments' definitions.
LEMMA SameTails ==
  ASSUME UNCHANGED <<heap, g, num_subgraphs>>
  PROVE  /\ \A i, c : TailsBelow(i, c)' = TailsBelow(i, c)
         /\ \A i : Tails(i)' = Tails(i)
         /\ \A i : [v \in V |-> Into(v, i)]' = [v \in V |-> Into(v, i)]
<1>1. V' = V /\ \A v, i : Into(v, i)' = Into(v, i)
  BY SameInto
<1> QED
  BY <1>1 DEF TailsBelow, Tails

LEMMA SameSegments ==
  ASSUME Segments, UNCHANGED <<heap, g, pvars>> PROVE Segments'
<1>1. /\ \A i, c : TailsBelow(i, c)' = TailsBelow(i, c)
      /\ \A i : Tails(i)' = Tails(i)
      /\ \A i : [v \in V |-> Into(v, i)]' = [v \in V |-> Into(v, i)]
  BY SameTails DEF pvars
<1> QED
  BY <1>1 DEF Segments, StrayExplained, pvars

\* A part of a row is a row, empty where it has none of the row's heads.
LEMMA PartOfRow ==
  ASSUME Data, NEW v \in V, NEW K
  PROVE  Kept(N(v), K) \in Seq(Nat) /\ (Kept(N(v), K) # <<>> <=> \E u \in Heads(v) : u \in K)
<1>1. N(v) \in Seq(Nat) /\ Strict(N(v))
  BY NFacts
<1>2. PICK t : t = Kept(N(v), K)
  OBVIOUS
<1>3. t \in Seq(Nat) /\ ToSet(t) = Heads(v) \cap K
  BY <1>1, <1>2, KeptSorted DEF Heads
<1>4. t # <<>> <=> ToSet(t) # {}
  <2>1. CASE t = <<>>
    BY <2>1 DEF ToSet
  <2>2. CASE t # <<>>
    <3>1. 1 \in DOMAIN t
      BY <1>3, <2>2
    <3> QED
      BY <2>2, <3>1 DEF ToSet
  <2> QED
    BY <2>1, <2>2
<1> QED
  BY <1>2, <1>3, <1>4

LEMMA TailsFacts ==
  ASSUME NEW i, NEW c \in Nat
  PROVE  /\ IsFiniteSet(TailsBelow(i, c)) /\ TailsBelow(i, c) \subseteq Nat /\ \A x \in TailsBelow(i, c) : x < c
         /\ TailsBelow(i, c + 1) = TailsBelow(i, c) \cup (IF Into(c, i) = <<>> THEN {} ELSE {c})
         /\ TailsBelow(i, 0) = {}
<1>1. TailsBelow(i, c) \in SUBSET (0 .. c - 1)
  BY DEF TailsBelow
<1>2. IsFiniteSet(0 .. c - 1)
  BY FS_Interval
<1>3. IsFiniteSet(TailsBelow(i, c))
  BY <1>1, <1>2, FS_Subset
<1>4. 0 .. (c + 1) - 1 = (0 .. c - 1) \cup {c}
  OBVIOUS
<1>5. TailsBelow(i, c + 1) = TailsBelow(i, c) \cup (IF Into(c, i) = <<>> THEN {} ELSE {c})
  BY <1>4 DEF TailsBelow
<1>6. TailsBelow(i, 0) = {}
  BY DEF TailsBelow
<1> QED
  BY <1>1, <1>3, <1>5, <1>6

LEMMA AscendingEmpty == Ascending({}) = <<>>
<1>1. Cardinality({}) = 0
  BY FS_EmptySet
<1> QED
  BY <1>1 DEF Ascending

LEMMA StartSegments == ASSUME Data, NEW n \in Nat, csr_segmenting(n) PROVE Segments'
<1>0. UNCHANGED <<heap, g>> /\ num_subgraphs' = n /\ cur' = 0 /\ stage' # "stray"
  BY DEF csr_segmenting
<1>1. CASE stage' = "failed"
  BY <1>1 DEF Segments, StrayExplained
<1>2. CASE stage' # "failed"
  <2>1. PICK size, rows :
          /\ size = g.n_vertices \div n
          /\ rows = [i \in Int |->
                       Cardinality({v \in V : \E u \in Heads(v) : u \div size = i})]
    OBVIOUS
  <2>2. /\ stage' = "segment"
        /\ subgraphs' = [i \in 1 .. n |->
             [idx_map |-> <<>>, edges |-> <<>>, vertices |->
                [x \in 0 .. Cardinality({v \in V : \E u \in Heads(v) : u \div size = i - 1}) |->
                   IF x = 0 THEN 0 ELSE Unset]]]
    BY <1>2, <2>1 DEF csr_segmenting
  <2>3. V' = V /\ \A v, i : Into(v, i)' = Kept(N(v), {u \in Heads(v) : u \div size = i})
    BY <1>0, <2>1 DEF V, Into, bcol, Heads, N, Array
  <2>4. ASSUME NEW i \in Int PROVE Cardinality(Tails(i))' = rows[i]
    <3>1. ASSUME NEW v \in V
          PROVE  Into(v, i)' # <<>> <=> \E u \in Heads(v) : u \div size = i
      <4>1. PICK K : K = {u \in Heads(v) : u \div size = i}
        OBVIOUS
      <4>2. Kept(N(v), K) # <<>> <=> \E u \in Heads(v) : u \in K
        BY PartOfRow
      <4> QED
        BY <2>3, <4>1, <4>2
    <3>2. Tails(i)' = {v \in V : \E u \in Heads(v) : u \div size = i}
      BY <2>3, <3>1 DEF Tails
    <3> QED
      BY <2>1, <3>2
  <2>5. ASSUME NEW i \in 1 .. n, NEW row
        PROVE  Holds(subgraphs'[i], {}, row) /\ DOMAIN subgraphs'[i].vertices = 0 .. rows[i - 1]
    <3>1. PICK s : s = subgraphs'[i]
      OBVIOUS
    <3>2. i - 1 \in Int
      OBVIOUS
    <3>3. rows[i - 1] = Cardinality({v \in V : \E u \in Heads(v) : u \div size = i - 1})
      BY <2>1, <3>2
    <3>4. s.idx_map = <<>> /\ s.edges = <<>> /\ DOMAIN s.vertices = 0 .. rows[i - 1]
      BY <2>2, <3>1, <3>3
    <3>5. [k \in DOMAIN <<>> |-> row[<<>>[k]]] = <<>>
      OBVIOUS
    <3> QED
      BY <3>1, <3>4, <3>5, AscendingEmpty, FlattenNone, Zenon DEF Holds
  <2>6. \A i : TailsBelow(i, 0)' = {}
    BY DEF TailsBelow
  <2>7. 0 \in 0 .. g.n_vertices
    BY DEF Data
  <2>8. ASSUME NEW i \in 1 .. n
        PROVE  /\ Holds(subgraphs[i], TailsBelow(i - 1, cur), [v \in V |-> Into(v, i - 1)])'
               /\ DOMAIN subgraphs'[i].vertices = 0 .. Cardinality(Tails(i - 1))'
    <3>1. i - 1 \in Int
      OBVIOUS
    <3>2. PICK row : row = [v \in V |-> Into(v, i - 1)]'
      OBVIOUS
    <3>3. Cardinality(Tails(i - 1))' = rows[i - 1]
      BY <2>4, <3>1
    <3> QED
      BY <1>0, <2>5, <2>6, <3>2, <3>3
  <2> QED
    <3>1. DOMAIN subgraphs' = 1 .. n
      BY <2>2
    <3> QED
      BY <1>0, <2>2, <2>7, <2>8, <3>1 DEF Segments, StrayExplained
<1> QED
  BY <1>1, <1>2

\* The row that is stored past the pointers of a segment is its last one.
LEMMA LastRow ==
  ASSUME NEW T, NEW all, IsFiniteSet(all), NEW c, c \notin T, T \cup {c} \subseteq all,
         Cardinality(T) + 2 \notin 0 .. Cardinality(all)
  PROVE  T \cup {c} = all
<1>1. IsFiniteSet(T) /\ IsFiniteSet(T \cup {c})
  BY FS_Subset
<1>2. Cardinality(T) \in Nat /\ Cardinality(T \cup {c}) = Cardinality(T) + 1
  BY <1>1, FS_CardinalityType, FS_AddElement
<1>3. Cardinality(all) \in Nat /\ Cardinality(T \cup {c}) <= Cardinality(all)
  BY FS_CardinalityType, FS_Subset
<1>4. Cardinality(all) = Cardinality(T \cup {c})
  BY <1>2, <1>3
<1> QED
  BY <1>4, FS_Subset

LEMMA StepSegments == ASSUME Data, Segments, SegmentVertex PROVE Segments'
<1>1. /\ stage = "segment" /\ cur < g.n_vertices /\ cur' = cur + 1
      /\ UNCHANGED <<heap, g, num_subgraphs>> /\ (stage' = "segment" \/ (stage' = "stray" /\ Strays))
  BY DEF SegmentVertex, gvars
<1>2. PICK c \in Nat : c = cur /\ c \in V
  <2>1. g.n_vertices \in Nat /\ cur \in 0 .. g.n_vertices
    BY <1>1 DEF Segments, Data
  <2> QED
    BY <1>1, <2>1 DEF V
<1>3. /\ \A i, d : TailsBelow(i, d)' = TailsBelow(i, d)
      /\ \A i : Tails(i)' = Tails(i)
      /\ \A i : [v \in V |-> Into(v, i)]' = [v \in V |-> Into(v, i)]
  BY <1>1, SameTails
<1>4. ASSUME NEW i \in 1 .. num_subgraphs
      PROVE  /\ Holds(subgraphs'[i], TailsBelow(i - 1, c + 1), [v \in V |-> Into(v, i - 1)])
             /\ DOMAIN subgraphs'[i].vertices = 0 .. Cardinality(Tails(i - 1))
  <2>1. PICK j, s, row, T : /\ j = i - 1 /\ s = subgraphs[i] /\ T = TailsBelow(j, c)
                            /\ row = [v \in V |-> Into(v, j)]
    OBVIOUS
  <2>2. Holds(s, T, row) /\ DOMAIN s.vertices = 0 .. Cardinality(Tails(j))
    BY <1>1, <1>2, <2>1 DEF Segments
  <2>3. row[c] = Into(c, j) /\ \A x \in V : row[x] \in Seq(Nat)
    BY <1>2, <2>1, PartOfRow DEF Into
  <2>4. PICK s2 : s2 = [idx_map |-> Append(s.idx_map, c), edges |-> s.edges \o row[c],
                        vertices |-> fixEndEdge(s.vertices, Len(s.idx_map) + 1,
                                                Len(s.edges \o row[c]))]
    OBVIOUS
  <2>5. subgraphs'[i] = IF row[c] = <<>> THEN s ELSE s2
    BY <1>2, <2>1, <2>3, <2>4 DEF SegmentVertex
  <2>6. /\ IsFiniteSet(T) /\ T \subseteq Nat /\ \A x \in T : x < c
        /\ TailsBelow(j, c + 1) = T \cup (IF row[c] = <<>> THEN {} ELSE {c})
    BY <2>1, <2>3, TailsFacts
  <2>7. CASE row[c] = <<>>
    <3>1. T \cup {} = T
      OBVIOUS
    <3>2. TailsBelow(j, c + 1) = T /\ subgraphs'[i] = s
      BY <2>5, <2>6, <2>7, <3>1, Zenon
    <3> QED
      BY <2>1, <2>2, <3>2
  <2>8. CASE row[c] # <<>>
    <3>1. /\ s2.idx_map = Append(s.idx_map, c) /\ s2.edges = s.edges \o row[c]
          /\ DOMAIN s2.vertices = DOMAIN s.vertices
      BY <2>4 DEF fixEndEdge
    <3>2. T \cup {c} \subseteq V
      <4>1. T \subseteq 0 .. c - 1
        BY <2>1 DEF TailsBelow
      <4> QED
        BY <1>2, <4>1 DEF V, Data
    <3>3. \A x \in T \cup {c} : row[x] \in Seq(Nat)
      BY <2>3, <3>2
    <3>4. Holds(s2, T \cup {c}, row)
      BY <2>2, <2>6, <3>1, <3>3, SegmentRow
    <3>5. TailsBelow(j, c + 1) = T \cup {c} /\ subgraphs'[i] = s2
      BY <2>5, <2>6, <2>8, Zenon
    <3> QED
      BY <2>1, <2>2, <3>1, <3>4, <3>5, Zenon
  <2> QED
    BY <2>7, <2>8
<1>5. DOMAIN subgraphs' = 1 .. num_subgraphs
  BY DEF SegmentVertex
<1>6. c + 1 \in 0 .. g.n_vertices
  BY <1>1, <1>2 DEF Data
<1>7. ASSUME stage' = "stray"
      PROVE  \E i \in 1 .. num_subgraphs :
               Tails(i - 1) # {} /\ subgraphs'[i].idx_map = Ascending(Tails(i - 1))
  <2>1. PICK i \in 1 .. num_subgraphs :
          /\ Into(c, i - 1) # <<>>
          /\ Len(subgraphs[i].idx_map) + 2 \notin DOMAIN subgraphs[i].vertices
    BY <1>1, <1>2, <1>7 DEF Strays
  <2>2. PICK j, T : j = i - 1 /\ T = TailsBelow(j, c)
    OBVIOUS
  <2>3. /\ IsFiniteSet(T) /\ T \subseteq Nat /\ \A x \in T : x < c
        /\ TailsBelow(j, c + 1) = T \cup (IF Into(c, j) = <<>> THEN {} ELSE {c})
    BY <2>2, TailsFacts
  <2>4. c \notin T /\ TailsBelow(j, c + 1) = T \cup {c}
    BY <2>1, <2>2, <2>3
  <2>5. T \cup {c} \subseteq Tails(j) /\ Tails(j) \subseteq V
    <3>1. 0 .. c - 1 \subseteq V
      BY <1>2 DEF V, Data
    <3> QED
      BY <1>2, <2>1, <2>2, <3>1 DEF TailsBelow, Tails
  <2>6. IsFiniteSet(Tails(j))
    <3>1. IsFiniteSet(V)
      BY FS_Interval DEF V, Data
    <3> QED
      BY <2>5, <3>1, FS_Subset
  <2>7. Len(subgraphs[i].idx_map) = Cardinality(T) /\ DOMAIN subgraphs[i].vertices = 0 .. Cardinality(Tails(j))
    <3>1. subgraphs[i].idx_map = Ascending(T) /\ DOMAIN subgraphs[i].vertices = 0 .. Cardinality(Tails(j))
      BY <1>1, <1>2, <2>2 DEF Segments, Holds
    <3> QED
      BY <2>3, <3>1, AscendingFacts
  <2>8. T \cup {c} = Tails(j)
    BY <2>1, <2>4, <2>5, <2>6, <2>7, LastRow
  <2>9. subgraphs'[i].idx_map = Ascending(Tails(j))
    BY <1>4, <2>2, <2>4, <2>8 DEF Holds
  <2> QED
    BY <2>2, <2>8, <2>9
<1> QED
  BY <1>1, <1>2, <1>3, <1>4, <1>5, <1>6, <1>7 DEF Segments, StrayExplained

LEMMA NextSegments == Data /\ Segments /\ [Next]_vars => Segments'
<1> SUFFICES ASSUME Data, Segments, [Next]_vars PROVE Segments'
  OBVIOUS
<1>1. CASE CallGraph
  BY <1>1 DEF CallGraph, Idle, pvars, Segments, StrayExplained
<1>2. CASE CallScheduler
  BY <1>2, SameSegments DEF CallScheduler, Split, gvars
<1>3. CASE CallPartition
  <2>1. PICK n \in 2 .. MaxSubgraphs : edgecut_induced_partition1D(n) \/ csr_segmenting(n)
    BY <1>3 DEF CallPartition, Partition
  <2>2. CASE edgecut_induced_partition1D(n)
    BY <2>2 DEF edgecut_induced_partition1D, Segments, StrayExplained
  <2>3. CASE csr_segmenting(n)
    BY <2>3, StartSegments
  <2> QED
    BY <2>1, <2>2, <2>3
<1>4. CASE SchedulerStep /\ UNCHANGED pvars
  BY <1>4, SchedulerKeeps, SameSegments
<1>5. CASE PartitionStep
  <2>1. CASE SegmentVertex
    BY <2>1, StepSegments
  <2>2. CASE SegmentEnd
    <3>1. UNCHANGED <<heap, g, num_subgraphs, cur, subgraphs>> /\ stage = "segment" /\ cur = g.n_vertices
      BY <2>2 DEF SegmentEnd, gvars
    <3>2. /\ \A i, c : TailsBelow(i, c)' = TailsBelow(i, c)
          /\ \A i : Tails(i)' = Tails(i)
          /\ \A i : [v \in V |-> Into(v, i)]' = [v \in V |-> Into(v, i)]
      BY <3>1, SameTails
    <3>3. stage' = "segmented"
      BY <2>2 DEF SegmentEnd
    <3> QED
      BY <3>1, <3>2, <3>3 DEF Segments, StrayExplained
  <2>3. CASE BuildSubgraph
    BY <2>3 DEF BuildSubgraph, Segments, StrayExplained
  <2>4. ASSUME NEW v, Mark(v) PROVE Segments'
    BY <2>4 DEF Mark, Segments, StrayExplained
  <2> QED
    BY <1>5, <2>1, <2>2, <2>3, <2>4 DEF PartitionStep
<1>6. CASE UNCHANGED vars
  BY <1>6, SameSegments DEF vars, gvars
<1> QED
  BY <1>1, <1>2, <1>3, <1>4, <1>5, <1>6, Zenon DEF Next, Working

(***************************************************************************)
(* While csr_segmenting fills the segments (graph_partition.cc) each has   *)
(* the rows of the vertices passed so far, for every graph and every       *)
(* number of segments; a store past its row pointers is at its last row.   *)
(***************************************************************************)
THEOREM SplitSegments == Spec => []Segments
<1>1. SplitInit => Segments
  BY DEF SplitInit, PartitionInit, Segments, StrayExplained
<1> QED
  BY <1>1, NextSegments, SplitData, PTL DEF Spec

(***************************************************************************)
(* Every arc is in the segment of its head, once and in the order of the   *)
(* graph, and idx_map maps the segment's rows to the arcs' tails, for      *)
(* every graph and every number of segments (graph_partition.cc:132-195).  *)
(***************************************************************************)
THEOREM SplitSegmentsExact == Spec => []SegmentsExact
<1>1. Data /\ Segments => SegmentsExact
  <2> SUFFICES ASSUME Data, Segments, stage = "segmented", NEW i \in 1 .. num_subgraphs,
                      NEW s, s = subgraphs[i]
               PROVE  /\ s.idx_map = Ascending(Tails(i - 1))
                      /\ s.edges =
                           FlattenSeq([k \in DOMAIN s.idx_map |-> Into(s.idx_map[k], i - 1)])
    BY DEF SegmentsExact
  <2>1. PICK j, T, row : j = i - 1 /\ T = Tails(j) /\ row = [v \in V |-> Into(v, j)]
    OBVIOUS
  <2>2. T = TailsBelow(j, cur) /\ T \subseteq V /\ V \subseteq Nat
    BY <2>1 DEF Segments, Data, V, Tails, TailsBelow
  <2>3. Holds(s, T, row)
    BY <2>1, <2>2 DEF Segments
  <2>4. IsFiniteSet(T)
    <3>1. IsFiniteSet(V)
      BY FS_Interval DEF V, Data
    <3> QED
      BY <2>2, <3>1, FS_Subset
  <2>5. PICK map : map = s.idx_map
    OBVIOUS
  <2>6. map = Ascending(T) /\ s.edges = FlattenSeq([k \in DOMAIN map |-> row[map[k]]])
    BY <2>3, <2>5 DEF Holds
  <2>7. map \in Seq(T)
    BY <2>2, <2>4, <2>6, AscendingFacts
  <2>8. \A k \in DOMAIN map : map[k] \in V
    BY <2>2, <2>7
  <2>9. [k \in DOMAIN map |-> row[map[k]]] = [k \in DOMAIN map |-> Into(map[k], j)]
    BY <2>1, <2>8
  <2> QED
    BY <2>1, <2>5, <2>6, <2>9, Zenon
<1> QED
  BY <1>1, SplitSegments, SplitData, PTL

-----------------------------------------------------------------------------
(* edgecut_induced_partition1D.                                            *)

LEMMA OwnFacts ==
  ASSUME Data, NEW n \in Nat \ {0}
  PROVE  /\ \A i \in Nat : /\ Own(i, n) \subseteq V
                           /\ begin_vid(i, n) \in Nat /\ end_vid(i, n) \in Nat
         /\ \A v \in V : \A i \in Nat : v \in Own(i, n) <=> i = v \div subgraph_size(n)
         /\ \A v \in V : v \div subgraph_size(n) \in 0 .. n - 1
<1> PICK N0 \in Nat \ {0} : N0 = g.n_vertices
  BY DEF Data
<1>1. PICK s : N0 = g.n_vertices /\ s = subgraph_size(n)
  OBVIOUS
<1>2. s \in Nat \ {0} /\ N0 <= s * n
  BY <1>1, RoundedUp DEF subgraph_size
<1>3. V = 0 .. N0 - 1
  BY <1>1 DEF V
<1>4. ASSUME NEW i \in Nat
      PROVE  /\ s * i \in Nat /\ begin_vid(i, n) = s * i /\ end_vid(i, n) \in Nat
             /\ Own(i, n) \subseteq V
             /\ \A v \in V : v \in Own(i, n) <=> s * i <= v /\ v < s * i + s
  <2>1. PICK b : b = s * i /\ b = begin_vid(i, n)
    BY <1>1 DEF begin_vid
  <2>2. b \in Nat
    BY <1>2, <2>1
  <2>3. PICK e : e = end_vid(i, n) /\ e = IF b + s < N0 THEN b + s ELSE N0
    BY <1>1, <2>1 DEF end_vid, Least
  <2>4. e \in Nat /\ e <= N0 /\ \A v \in 0 .. N0 - 1 : v < e <=> v < b + s
    BY <1>2, <2>2, <2>3
  <2>5. Own(i, n) = b .. e - 1
    BY <2>1, <2>3 DEF Own
  <2> QED
    BY <1>3, <2>1, <2>2, <2>3, <2>4, <2>5
<1>5. ASSUME NEW v \in V
      PROVE  /\ v \div s \in 0 .. n - 1
             /\ \A j \in Nat : (s * j <= v /\ v < s * j + s) <=> j = v \div s
  BY <1>2, <1>3, RangeOf
<1> QED
  BY <1>1, <1>4, <1>5

\* The vertices of subgraph i: those of its range and their neighbours.
MembersOf(i) ==
  Own(i, num_subgraphs) \cup UNION {ToSet(N(v)) : v \in Own(i, num_subgraphs)}

\* What EdgeCutExact says of one subgraph.
Induced(s, i) ==
  /\ s.idx_map = Ascending(MembersOf(i))
  /\ {s.idx_map[k + 1] : k \in s.local_begin .. s.local_end - 1} = Own(i, num_subgraphs)
  /\ \A k \in DOMAIN s.idx_map : Mapped(s, k) = Kept(N(s.idx_map[k]), MembersOf(i))

(***************************************************************************)
(* The subgraphs before cur are complete, and the masks are those of the   *)
(* iterations of the parallel loop that have run, in whatever order.       *)
(***************************************************************************)
Cut ==
  /\ stage = "idle" => vertex_masks = {} /\ subgraphs = <<>>
  /\ stage \in {"mark", "cut"} =>
       /\ num_subgraphs \in Nat \ {0} /\ cur \in 0 .. num_subgraphs
       /\ stage = "mark" => cur < num_subgraphs
       /\ stage = "cut" => cur = num_subgraphs
       /\ subgraphs \in Seq(ToSet(subgraphs)) /\ Len(subgraphs) = cur
       /\ \A i \in 1 .. cur : Induced(subgraphs[i], i - 1)
  /\ stage = "mark" =>
       /\ unmarked \subseteq Own(cur, num_subgraphs)
       /\ vertex_masks = LET marked == Own(cur, num_subgraphs) \ unmarked
                         IN  marked \cup UNION {ToSet(N(v)) : v \in marked}
\* The list a has every number of M once, in order.
Enumerates(a, M) ==
  /\ a \in Seq(M) /\ a \in Seq(Nat) /\ DOMAIN a = 1 .. Len(a) /\ Len(a) \in Nat
  /\ \A v \in M : \E k \in 1 .. Len(a) : a[k] = v
  /\ \A i, j \in 1 .. Len(a) : i <= j <=> a[i] <= a[j]

LEMMA AscendingEnumerates ==
  ASSUME NEW M, IsFiniteSet(M), M \subseteq Nat
  PROVE  Enumerates(Ascending(M), M)
<1>0. PICK a : a = Ascending(M)
  OBVIOUS
<1>1. a \in Seq(M)
  BY <1>0, AscendingFacts
<1>2. a \in Seq(Nat) /\ Len(a) \in Nat /\ DOMAIN a = 1 .. Len(a)
  BY <1>1, SeqOfMore
<1>3. Strict(a) /\ ToSet(a) = M
  BY <1>0, AscendingSorted
<1>4. \A v \in M : \E k \in 1 .. Len(a) : a[k] = v
  BY <1>2, <1>3 DEF ToSet
<1>5. PICK n \in Nat : n = Len(a)
  BY <1>2
<1>6. \A i, j \in 1 .. n : i < j => a[i] < a[j]
  BY <1>3, <1>5 DEF Strict
<1>7. \A i \in 1 .. n : a[i] \in Nat
  BY <1>2, <1>5
<1>8. \A i, j \in 1 .. n : i <= j <=> a[i] <= a[j]
  BY <1>6, <1>7
<1> QED
  BY <1>0, <1>1, <1>2, <1>4, <1>5, <1>8 DEF Enumerates

Between(a, p, q) == {a[k + 1] : k \in p - 1 .. q - 1}

\* A range of numbers lies between its ends in an ascending list.
LEMMA RangeIn ==
  ASSUME NEW a, NEW M, Enumerates(a, M), NEW b \in Nat, NEW e \in Nat, b <= e, b .. e \subseteq M,
         NEW p \in 1 .. Len(a), NEW q \in 1 .. Len(a), a[p] = b, a[q] = e
  PROVE  Between(a, p, q) = b .. e
<1>0. PICK n \in Nat : n = Len(a)
  BY DEF Enumerates
<1>1. \A i \in 1 .. n : a[i] \in Nat
  BY <1>0 DEF Enumerates
<1>2. /\ p \in 1 .. n /\ q \in 1 .. n /\ \A i, j \in 1 .. n : i <= j <=> a[i] <= a[j]
      /\ \A v \in b .. e : \E k \in 1 .. n : a[k] = v
  BY <1>0 DEF Enumerates
<1>3. ASSUME NEW k \in p - 1 .. q - 1 PROVE a[k + 1] \in b .. e
  <2>1. k + 1 \in 1 .. n /\ p <= k + 1 /\ k + 1 <= q
    BY <1>2
  <2>2. b <= a[k + 1] /\ a[k + 1] <= e
    BY <1>2, <2>1
  <2> QED
    BY <1>1, <2>1, <2>2
<1>4. ASSUME NEW v \in b .. e PROVE \E k \in p - 1 .. q - 1 : a[k + 1] = v
  <2>1. PICK i \in 1 .. n : a[i] = v
    BY <1>2
  <2>2. p <= i /\ i <= q
    BY <1>2, <2>1
  <2>3. i - 1 \in p - 1 .. q - 1 /\ (i - 1) + 1 = i
    BY <1>2, <2>2
  <2> QED
    BY <2>1, <2>3
<1> QED
  BY <1>3, <1>4 DEF Between

\* The rows of arrays made from lists of positions, under the ids.
Renamed(a, n, marked, lists) ==
  /\ marked \in [1 .. n -> Seq(Nat)] /\ lists \in [1 .. n -> Seq(Nat)]
  /\ \A k \in 1 .. n : Len(lists[k]) = Len(marked[k])
  /\ \A k \in 1 .. n : \A j \in 1 .. Len(marked[k]) : a[lists[k][j] + 1] = marked[k][j]

LEMMA MappedRows ==
  ASSUME NEW a, NEW n \in Nat \ {0}, NEW marked, NEW lists, Renamed(a, n, marked, lists),
         NEW s, s.idx_map = a, s.csr = CSR(lists)
  PROVE  \A k \in 1 .. n : Mapped(s, k) = marked[k]
<1> SUFFICES ASSUME NEW k \in 1 .. n PROVE Mapped(s, k) = marked[k]
  OBVIOUS
<1> USE DEF Renamed
<1>3. lists \in Seq(Seq(Nat)) /\ Len(lists) = n
  OBVIOUS
<1>4. PICK x, y : x = CSR(lists).vertices /\ y = CSR(lists).edges
  OBVIOUS
<1>5. \A v \in 0 .. n - 1 : x[v + 1] - x[v] = Len(lists[v + 1]) /\ Row(v, x, y) = lists[v + 1]
  BY <1>3, <1>4, RowOfCSR
<1>6. PICK v \in 0 .. n - 1 : v = k - 1 /\ v + 1 = k
  OBVIOUS
<1>7. PICK l, m : l = lists[k] /\ m = marked[k]
  OBVIOUS
<1>8. /\ l \in Seq(Nat) /\ m \in Seq(Nat) /\ Len(l) = Len(m)
      /\ \A j \in 1 .. Len(m) : a[l[j] + 1] = m[j]
  BY <1>7
<1>9. PICK d \in Nat : d = Len(m) /\ x[k] - x[v] = d
  BY <1>5, <1>6, <1>7, <1>8
<1>10. [j \in 1 .. d |-> y[x[v] + j - 1]] = l
  <2>1. Row(v, x, y) = l /\ x[v + 1] - x[v] = d
    BY <1>5, <1>6, <1>7, <1>9
  <2>2. Row(v, x, y) = [j \in 1 .. x[v + 1] - x[v] |-> y[x[v] + j - 1]]
    BY DEF Row
  <2> QED
    BY <2>1, <2>2
<1>11. \A j \in 1 .. d : y[x[v] + j - 1] = l[j]
  BY <1>10
<1>12. Mapped(s, k) = [j \in 1 .. d |-> a[y[x[v] + j - 1] + 1]]
  BY <1>4, <1>6, <1>9 DEF Mapped
<1>13. Mapped(s, k) = [j \in 1 .. d |-> m[j]]
  <2>1. \A j \in 1 .. d : a[y[x[v] + j - 1] + 1] = m[j]
    BY <1>8, <1>9, <1>11
  <2> QED
    BY <1>12, <2>1
<1> QED
  BY <1>7, <1>8, <1>9, <1>13

LEMMA MembersFacts ==
  ASSUME Data, NEW i \in Nat, num_subgraphs \in Nat \ {0}
  PROVE  /\ MembersOf(i) \subseteq V /\ MembersOf(i) \subseteq Nat /\ IsFiniteSet(MembersOf(i))
         /\ Own(i, num_subgraphs) \subseteq MembersOf(i)
<1>1. Own(i, num_subgraphs) \subseteq V
  BY OwnFacts
<1>2. \A v \in V : ToSet(N(v)) \subseteq V
  <2> SUFFICES ASSUME NEW v \in V PROVE ToSet(N(v)) \subseteq V
    OBVIOUS
  <2>1. N(v) \in Seq(V \ {v})
    BY NFacts
  <2> QED
    BY <2>1 DEF ToSet
<1>3. MembersOf(i) \subseteq V /\ Own(i, num_subgraphs) \subseteq MembersOf(i)
  BY <1>1, <1>2 DEF MembersOf
<1>4. IsFiniteSet(V) /\ V \subseteq Nat
  <2>1. g.n_vertices - 1 \in Int
    BY DEF Data
  <2>2. IsFiniteSet(0 .. g.n_vertices - 1)
    BY <2>1, FS_Interval
  <2> QED
    BY <2>1, <2>2 DEF V
<1>5. IsFiniteSet(MembersOf(i))
  BY <1>3, <1>4, FS_Subset
<1> QED
  BY <1>3, <1>4, <1>5

\* What generate_induced_subgraph builds from complete masks.
LEMMA InducedSubgraph ==
  ASSUME Data, NEW i \in Nat, num_subgraphs \in Nat \ {0}, vertex_masks = MembersOf(i)
  PROVE  Induced(generate_induced_subgraph(i), i)
<1>1. PICK M, a, own : M = MembersOf(i) /\ a = Ascending(M) /\ own = Own(i, num_subgraphs)
  OBVIOUS
<1>2. M \subseteq V /\ M \subseteq Nat /\ IsFiniteSet(M) /\ own \subseteq M /\ vertex_masks = M
  BY <1>1, MembersFacts
<1>0. Enumerates(a, M)
  BY <1>1, <1>2, AscendingEnumerates
<1>3. /\ a \in Seq(M) /\ a \in Seq(Nat) /\ DOMAIN a = 1 .. Len(a) /\ Len(a) \in Nat
      /\ \A v \in M : \E k \in 1 .. Len(a) : a[k] = v
  BY <1>0 DEF Enumerates
<1>4. PICK n \in Nat : n = Len(a)
  BY <1>3
<1> DEFINE map == Ascending(vertex_masks)
           id(v) == CHOOSE k \in DOMAIN map : map[k] = v
           marked(k) == Kept(N(map[k]), vertex_masks)
           row(k) == [j \in DOMAIN marked(k) |-> id(marked(k)[j]) - 1]
           local(v, off) == IF v \in vertex_masks THEN id(v) - 1 + off ELSE 0
<1>11. map = a /\ vertex_masks = M
  BY <1>1, <1>2
<1>5. ASSUME NEW v \in M PROVE id(v) \in 1 .. n /\ a[id(v)] = v
  <2> HIDE DEF map
  <2> QED
    BY <1>3, <1>4, <1>11
<1>6. PICK lists, lb, le :
        /\ lists = [k \in DOMAIN map |-> row(k)]
        /\ lb = local(begin_vid(i, num_subgraphs), 0)
        /\ le = local(end_vid(i, num_subgraphs) - 1, 1)
  <2> HIDE DEF row, local
  <2> QED
    OBVIOUS
<1>7. PICK s : s = generate_induced_subgraph(i) /\ s.idx_map = a /\ s.csr = CSR(lists)
               /\ s.local_begin = lb /\ s.local_end = le
  <2>1. generate_induced_subgraph(i) =
          [idx_map |-> map, csr |-> CSR([k \in DOMAIN map |-> row(k)]),
           local_begin |-> local(begin_vid(i, num_subgraphs), 0),
           local_end |-> local(end_vid(i, num_subgraphs) - 1, 1)]
    BY Zenon DEF generate_induced_subgraph
  <2> HIDE DEF map, row, local
  <2>2. generate_induced_subgraph(i) = [idx_map |-> a, csr |-> CSR(lists), local_begin |-> lb,
                                        local_end |-> le]
    BY <1>6, <1>11, <2>1, Zenon
  <2> QED
    BY <2>2
<1>8. ASSUME NEW k \in 1 .. n
      PROVE  /\ marked(k) \in Seq(Nat) /\ row(k) \in Seq(Nat) /\ Len(row(k)) = Len(marked(k))
             /\ \A j \in 1 .. Len(marked(k)) : a[row(k)[j] + 1] = marked(k)[j]
  <2>1. PICK v, t : v = a[k] /\ t = marked(k)
    OBVIOUS
  <2>2. v \in V
    BY <1>2, <1>3, <1>4, <2>1
  <2>3. N(v) \in Seq(Nat) /\ Strict(N(v))
    BY <2>2, NFacts
  <2>4. t = Kept(N(v), M)
    BY <1>11, <2>1
  <2>5. t \in Seq(Nat) /\ ToSet(t) = ToSet(N(v)) \cap M
    BY <2>3, <2>4, KeptSorted
  <2>6. PICK d \in Nat : d = Len(t) /\ DOMAIN t = 1 .. d /\ \A j \in 1 .. d : t[j] \in ToSet(t)
    <3>1. Len(t) \in Nat /\ DOMAIN t = 1 .. Len(t)
      BY <2>5
    <3> QED
      BY <3>1 DEF ToSet
  <2>7. ASSUME NEW j \in 1 .. d PROVE id(t[j]) \in 1 .. n /\ a[id(t[j])] = t[j]
    <3>1. t[j] \in M
      BY <2>5, <2>6
    <3> HIDE DEF id
    <3> QED
      BY <1>5, <3>1
  <2> HIDE DEF id
  <2>8. row(k) = [j \in 1 .. d |-> id(t[j]) - 1]
    BY <2>1, <2>6
  <2>9. \A j \in 1 .. d : id(t[j]) - 1 \in Nat /\ (id(t[j]) - 1) + 1 = id(t[j])
    BY <2>7
  <2>10. row(k) \in [1 .. d -> Nat] /\ \A j \in 1 .. d : row(k)[j] + 1 = id(t[j])
    BY <2>8, <2>9
  <2>11. row(k) \in Seq(Nat) /\ Len(row(k)) = d
    BY <2>10
  <2> QED
    BY <2>1, <2>5, <2>6, <2>7, <2>10, <2>11
<1>9. \A k \in 1 .. n : Mapped(s, k) = marked(k)
  <2>1. CASE n = 0
    BY <2>1
  <2>2. CASE n # 0
    <3>1. PICK m : m = [k \in 1 .. n |-> marked(k)]
      OBVIOUS
    <3>2. lists = [k \in 1 .. n |-> row(k)]
      <4> HIDE DEF map, row
      <4> QED
        BY <1>3, <1>4, <1>6, <1>11
    <3> HIDE DEF marked, row
    <3>3. /\ m \in [1 .. n -> Seq(Nat)] /\ lists \in [1 .. n -> Seq(Nat)]
          /\ \A k \in 1 .. n : m[k] = marked(k) /\ lists[k] = row(k)
      BY <1>8, <3>1, <3>2
    <3>4. Renamed(a, n, m, lists)
      BY <1>8, <3>3 DEF Renamed
    <3>5. n \in Nat \ {0}
      BY <2>2
    <3>6. \A k \in 1 .. n : Mapped(s, k) = m[k]
      BY <1>7, <3>4, <3>5, MappedRows
    <3> QED
      BY <3>3, <3>6
  <2> QED
    BY <2>1, <2>2
<1>10. {a[k + 1] : k \in lb .. le - 1} = own
  <2>1. PICK b, e \in Nat : b = begin_vid(i, num_subgraphs) /\ e = end_vid(i, num_subgraphs)
    BY OwnFacts
  <2>2. own = b .. e - 1
    BY <1>1, <2>1 DEF Own
  <2>3. CASE own = {}
    <3>1. M = {}
      BY <1>1, <2>3 DEF MembersOf
    <3>2. lb = 0 /\ le = 0
      BY <1>6, <1>11, <3>1
    <3> QED
      BY <2>3, <3>2
  <2>4. CASE own # {}
    <3>1. b <= e - 1 /\ e - 1 \in Nat
      BY <2>2, <2>4
    <3>2. b \in M /\ e - 1 \in M
      BY <1>2, <2>2, <3>1
    <3>3. PICK p, q \in 1 .. n : p = id(b) /\ q = id(e - 1) /\ a[p] = b /\ a[q] = e - 1
      <4> HIDE DEF id
      <4> QED
        BY <1>5, <3>2
    <3>4. lb = p - 1 /\ le = q
      <4>1. lb = id(b) - 1 + 0 /\ le = id(e - 1) - 1 + 1
        BY <1>6, <1>11, <2>1, <3>2
      <4> HIDE DEF id
      <4> QED
        BY <3>3, <4>1
    <3>5. PICK z \in Nat : z = e - 1 /\ b <= z /\ own = b .. z
      BY <2>2, <3>1
    <3>6. b .. z \subseteq M /\ p \in 1 .. Len(a) /\ q \in 1 .. Len(a) /\ a[q] = z
      BY <1>2, <1>4, <3>3, <3>5
    <3>7. Between(a, p, q) = b .. z
      BY <1>0, <3>3, <3>5, <3>6, RangeIn
    <3> QED
      BY <3>4, <3>5, <3>7 DEF Between
  <2> QED
    BY <2>3, <2>4
<1>12. \A k \in 1 .. n : Mapped(s, k) = Kept(N(a[k]), M)
  BY <1>9, <1>11
<1> QED
  BY <1>1, <1>3, <1>4, <1>7, <1>10, <1>12 DEF Induced

LEMMA SameRanges ==
  ASSUME UNCHANGED <<heap, g>>
  PROVE  /\ V' = V /\ \A v : N(v)' = N(v)
         /\ \A i, n : Own(i, n)' = Own(i, n)
BY DEF V, N, Array, Own, begin_vid, end_vid, subgraph_size

LEMMA SameInduced ==
  ASSUME UNCHANGED <<heap, g, num_subgraphs>>
  PROVE  \A s, i : MembersOf(i)' = MembersOf(i) /\ (Induced(s, i)' <=> Induced(s, i))
<1>1. /\ \A v : N(v)' = N(v)
      /\ \A i, n : Own(i, n)' = Own(i, n)
  BY SameRanges
<1>2. \A i : MembersOf(i)' = MembersOf(i)
  BY <1>1 DEF MembersOf
<1> QED
  BY <1>1, <1>2 DEF Induced

LEMMA SameCut == ASSUME Cut, UNCHANGED <<heap, g, pvars>> PROVE Cut'
<1>1. \A v : N(v)' = N(v)
  BY SameRanges
<1>2. \A i, n : Own(i, n)' = Own(i, n)
  BY SameRanges
<1>3. \A s, i : Induced(s, i)' <=> Induced(s, i)
  BY SameInduced DEF pvars
<1> QED
  BY <1>1, <1>2, <1>3 DEF Cut, pvars

LEMMA StartCut ==
  ASSUME Data, Cut, NEW n \in Nat \ {0}, edgecut_induced_partition1D(n) PROVE Cut'
<1>1. /\ stage = "idle" /\ stage' = "mark" /\ num_subgraphs' = n /\ cur' = 0
      /\ unmarked' = Own(0, n) /\ vertex_masks' = {} /\ subgraphs' = <<>>
      /\ UNCHANGED <<heap, g>>
  BY DEF edgecut_induced_partition1D, gvars, Cut
<1>2. unmarked' = Own(cur, num_subgraphs)'
  BY <1>1, SameRanges
<1>3. <<>> \in Seq(ToSet(<<>>)) /\ Len(<<>>) = 0 /\ 1 .. 0 = {}
  OBVIOUS
<1> QED
  BY <1>1, <1>2, <1>3 DEF Cut

LEMMA MarkCut == ASSUME Data, Cut, NEW v, Mark(v) PROVE Cut'
<1>1. /\ stage = "mark" /\ v \in unmarked
      /\ vertex_masks' = vertex_masks \cup {v} \cup ToSet(N(v))
      /\ unmarked' = unmarked \ {v}
      /\ UNCHANGED <<heap, g, stage, num_subgraphs, cur, subgraphs>>
  BY DEF Mark, gvars
<1>2. \A u : N(u)' = N(u)
  BY <1>1, SameRanges
<1>3. \A i, n : Own(i, n)' = Own(i, n)
  BY <1>1, SameRanges
<1>4. \A s, i : Induced(s, i)' <=> Induced(s, i)
  BY <1>1, SameInduced
<1>5. PICK own : own = Own(cur, num_subgraphs) /\ unmarked \subseteq own
  BY <1>1 DEF Cut
<1>6. vertex_masks = (own \ unmarked) \cup UNION {ToSet(N(u)) : u \in own \ unmarked}
  BY <1>1, <1>5 DEF Cut
<1>7. own \ (unmarked \ {v}) = (own \ unmarked) \cup {v}
  BY <1>1, <1>5
<1>8. vertex_masks' = (own \ unmarked') \cup UNION {ToSet(N(u)) : u \in own \ unmarked'}
  BY <1>1, <1>6, <1>7
<1> QED
  BY <1>1, <1>2, <1>3, <1>4, <1>5, <1>8 DEF Cut

LEMMA BuildCut == ASSUME Data, Cut, BuildSubgraph PROVE Cut'
<1>1. /\ stage = "mark" /\ unmarked = {}
      /\ vertex_masks' = {} /\ cur' = cur + 1
      /\ unmarked' = IF cur' < num_subgraphs THEN Own(cur', num_subgraphs) ELSE {}
      /\ stage' = IF cur' < num_subgraphs THEN "mark" ELSE "cut"
      /\ UNCHANGED <<heap, g, num_subgraphs>>
  BY DEF BuildSubgraph, gvars
<1>2. PICK new : new = generate_induced_subgraph(cur) /\ subgraphs' = Append(subgraphs, new)
  BY DEF BuildSubgraph
<1>3. PICK n \in Nat \ {0}, c \in Nat :
        /\ n = num_subgraphs /\ c = cur /\ c < n
        /\ subgraphs \in Seq(ToSet(subgraphs)) /\ Len(subgraphs) = c
        /\ \A i \in 1 .. c : Induced(subgraphs[i], i - 1)
  BY <1>1 DEF Cut
<1>4. vertex_masks = MembersOf(c)
  BY <1>1, <1>3 DEF Cut, MembersOf
<1>5. Induced(new, c)
  BY <1>2, <1>3, <1>4, InducedSubgraph
<1>6. PICK s, t : s = subgraphs /\ t = subgraphs'
  OBVIOUS
<1>7. /\ t \in Seq(ToSet(s) \cup {new}) /\ Len(t) = c + 1 /\ t[c + 1] = new
      /\ \A i \in 1 .. c : t[i] = s[i]
  <2>1. s \in Seq(ToSet(s) \cup {new})
    BY <1>3, <1>6, SeqOfMore
  <2> QED
    BY <1>2, <1>3, <1>6, <2>1
<1>8. t \in Seq(ToSet(t))
  BY <1>7, SelfSeq
<1>9. ASSUME NEW i \in 1 .. c + 1 PROVE Induced(t[i], i - 1)
  <2>1. CASE i \in 1 .. c
    BY <1>3, <1>6, <1>7, <2>1
  <2>2. CASE i = c + 1
    <3>1. i - 1 = c
      BY <2>2
    <3> QED
      BY <1>5, <1>7, <2>2, <3>1
  <2> QED
    BY <2>1, <2>2
<1>10. \A x, i : Induced(x, i)' <=> Induced(x, i)
  BY <1>1, SameInduced
<1>11. \A i, m : Own(i, m)' = Own(i, m)
  BY <1>1, SameRanges
<1>12. /\ num_subgraphs' \in Nat \ {0} /\ cur' \in 0 .. num_subgraphs'
       /\ stage' = "mark" => cur' < num_subgraphs'
       /\ stage' = "cut" => cur' = num_subgraphs'
       /\ subgraphs' \in Seq(ToSet(subgraphs')) /\ Len(subgraphs') = cur'
       /\ stage' \in {"mark", "cut"}
  BY <1>1, <1>3, <1>6, <1>7, <1>8
<1>13. \A i \in 1 .. cur' : Induced(subgraphs[i], i - 1)'
  BY <1>1, <1>3, <1>6, <1>9, <1>10
<1>14. stage' = "mark" =>
         /\ unmarked' = Own(cur, num_subgraphs)'
         /\ vertex_masks' = {} /\ Own(cur, num_subgraphs)' \ unmarked' = {}
  BY <1>1, <1>11
<1> QED
  BY <1>12, <1>13, <1>14 DEF Cut

LEMMA NextCut == Data /\ Cut /\ [Next]_vars => Cut'
<1> SUFFICES ASSUME Data, Cut, [Next]_vars PROVE Cut'
  OBVIOUS
<1>1. CASE CallGraph
  BY <1>1 DEF CallGraph, Idle, pvars, Cut
<1>2. CASE CallScheduler
  BY <1>2, SameCut DEF CallScheduler, Split, gvars
<1>3. CASE CallPartition
  <2>1. PICK n \in 2 .. MaxSubgraphs : edgecut_induced_partition1D(n) \/ csr_segmenting(n)
    BY <1>3 DEF CallPartition, Partition
  <2>2. n \in Nat \ {0}
    BY SubgraphsAssumption
  <2>3. CASE edgecut_induced_partition1D(n)
    BY <2>2, <2>3, StartCut
  <2>4. CASE csr_segmenting(n)
    BY <2>4 DEF csr_segmenting, Cut
  <2> QED
    BY <2>1, <2>3, <2>4
<1>4. CASE SchedulerStep /\ UNCHANGED pvars
  BY <1>4, SchedulerKeeps, SameCut
<1>5. CASE PartitionStep
  <2>1. CASE SegmentVertex
    BY <2>1 DEF SegmentVertex, Cut
  <2>2. CASE SegmentEnd
    BY <2>2 DEF SegmentEnd, Cut
  <2>3. CASE BuildSubgraph
    BY <2>3, BuildCut
  <2>4. ASSUME NEW v, Mark(v) PROVE Cut'
    BY <2>4, MarkCut
  <2> QED
    BY <1>5, <2>1, <2>2, <2>3, <2>4 DEF PartitionStep
<1>6. CASE UNCHANGED vars
  BY <1>6, SameCut DEF vars, gvars
<1> QED
  BY <1>1, <1>2, <1>3, <1>4, <1>5, <1>6, Zenon DEF Next, Working

(***************************************************************************)
(* The ranges cover every vertex once and each subgraph is the one induced *)
(* by its range and the neighbours of that, for every graph, every number  *)
(* of subgraphs and every order of the parallel marking.                   *)
(***************************************************************************)
THEOREM SplitEdgeCutExact == Spec => []EdgeCutExact
<1>1. Data /\ Cut => EdgeCutExact
  <2> SUFFICES ASSUME Data, Cut, stage = "cut"
               PROVE  /\ \A v \in V : Cardinality({i \in 1 .. num_subgraphs :
                                                     v \in Own(i - 1, num_subgraphs)}) = 1
                      /\ \A i \in 1 .. num_subgraphs : Induced(subgraphs[i], i - 1)
    BY Zenon DEF EdgeCutExact, Induced, MembersOf
  <2>1. PICK n \in Nat \ {0} : n = num_subgraphs
    BY DEF Cut
  <2>2. ASSUME NEW v \in V
        PROVE  Cardinality({i \in 1 .. n : v \in Own(i - 1, n)}) = 1
    <3>0. /\ \A i \in Nat : v \in Own(i, n) <=> i = v \div subgraph_size(n)
          /\ v \div subgraph_size(n) \in 0 .. n - 1
      BY OwnFacts, Zenon
    <3>1. PICK q \in 0 .. n - 1 : \A i \in Nat : v \in Own(i, n) <=> i = q
      BY <3>0, Zenon
    <3>2. \A i \in 1 .. n : i - 1 \in Nat /\ (i - 1 = q <=> i = q + 1)
      OBVIOUS
    <3>3. {i \in 1 .. n : v \in Own(i - 1, n)} = {q + 1}
      <4>1. q + 1 \in 1 .. n
        OBVIOUS
      <4> QED
        BY <3>1, <3>2, <4>1
    <3> QED
      BY <3>3, FS_Singleton
  <2> QED
    BY <2>1, <2>2 DEF Cut
<1>2. SplitInit => Cut
  BY DEF SplitInit, PartitionInit, Cut
<1> QED
  BY <1>1, <1>2, NextCut, SplitData, PTL DEF Spec

-----------------------------------------------------------------------------
(* Lists of pairs, row by row.                                             *)

-----------------------------------------------------------------------------
(* The lists of arcs.                                                      *)

\* Every place of the arcs lies in a row.
LEMMA SomeRow ==
  ASSUME NEW n \in Nat, NEW x \in [0 .. n -> Nat], x[0] = 0, NEW e \in 0 .. x[n] - 1
  PROVE  \E v \in 0 .. n - 1 : x[v] <= e /\ e < x[v + 1]
<1> SUFFICES ASSUME \A v \in 0 .. n - 1 : ~(x[v] <= e /\ e < x[v + 1]) PROVE FALSE
  OBVIOUS
<1> DEFINE T == {k \in Nat \ {0} : k - 1 <= n => x[k - 1] <= e}
<1>1. 1 \in T
  BY SMT
<1>2. ASSUME NEW k \in Nat \ {0}, k \in T PROVE k + 1 \in T
  <2> SUFFICES ASSUME (k + 1) - 1 <= n PROVE x[(k + 1) - 1] <= e
    OBVIOUS
  <2>1. PICK v \in 0 .. n - 1 : v = k - 1 /\ v + 1 = (k + 1) - 1
    OBVIOUS
  <2>2. x[v] <= e
    BY <1>2, <2>1
  <2>3. x[v + 1] \in Nat
    OBVIOUS
  <2> QED
    BY <2>1, <2>2, <2>3
<1> HIDE DEF T
<1>3. \A k \in Nat \ {0} : k \in T
  BY <1>1, <1>2, Upwards
<1>4. n + 1 \in T /\ (n + 1) - 1 = n
  BY <1>3
<1>5. x[n] <= e
  BY <1>4 DEF T
<1>6. x[n] \in Nat
  OBVIOUS
<1> QED
  BY <1>5, <1>6

\* Row pointers are determined by the lengths of the rows.
LEMMA SamePointers ==
  ASSUME NEW n \in Nat, NEW x \in [0 .. n -> Nat], NEW y \in [0 .. n -> Nat], x[0] = y[0],
         \A v \in 0 .. n - 1 : x[v + 1] - x[v] = y[v + 1] - y[v]
  PROVE  \A v \in 0 .. n : x[v] = y[v]
<1> DEFINE T == {k \in Nat \ {0} : k - 1 <= n => x[k - 1] = y[k - 1]}
<1>1. 1 \in T
  OBVIOUS
<1>2. ASSUME NEW k \in Nat \ {0}, k \in T PROVE k + 1 \in T
  <2> SUFFICES ASSUME (k + 1) - 1 <= n PROVE x[(k + 1) - 1] = y[(k + 1) - 1]
    OBVIOUS
  <2>1. PICK v \in 0 .. n - 1 : v = k - 1 /\ v + 1 = (k + 1) - 1
    OBVIOUS
  <2>2. x[v] = y[v] /\ x[v + 1] - x[v] = y[v + 1] - y[v]
    BY <1>2, <2>1
  <2>3. x[v] \in Nat /\ y[v] \in Nat /\ x[v + 1] \in Nat /\ y[v + 1] \in Nat
    OBVIOUS
  <2>4. x[v + 1] = y[v + 1]
    BY <2>2, <2>3
  <2> QED
    BY <2>1, <2>4
<1> HIDE DEF T
<1>3. \A k \in Nat \ {0} : k \in T
  BY <1>1, <1>2, Upwards
<1> SUFFICES ASSUME NEW v \in 0 .. n PROVE x[v] = y[v]
  OBVIOUS
<1>4. v + 1 \in T /\ (v + 1) - 1 = v
  BY <1>3
<1> QED
  BY <1>4 DEF T

\* The arcs of rows.
PairsOf(n, rows) == UNION {{<<v, u>> : u \in ToSet(rows[v])} : v \in 0 .. n - 1}

Sorted(n, rows) == \A v \in 0 .. n - 1 : rows[v] \in Seq(Nat) /\ Strict(rows[v])

\* The list has row v from place x[v] on.
LaidOut(n, rows, x, list) ==
  /\ x \in [0 .. n -> Nat] /\ x[0] = 0 /\ x[n] = Len(list) /\ list \in Seq(Nat \X Nat)
  /\ \A v \in 0 .. n - 1 :
       /\ x[v + 1] - x[v] = Len(rows[v])
       /\ \A k \in 1 .. Len(rows[v]) : list[x[v] + k] = <<v, rows[v][k]>>

LEMMA ListedLaidOut ==
  ASSUME NEW n \in Nat \ {0}, n = g.n_vertices, NEW rows, Sorted(n, rows)
  PROVE  \E x : LaidOut(n, rows, x, Listed(rows))
<1>1. PICK lists, list : /\ lists = [i \in 1 .. n |-> [k \in DOMAIN rows[i - 1] |-> <<i - 1, rows[i - 1][k]>>]]
                         /\ list = FlattenSeq(lists)
  OBVIOUS
<1>2. list = Listed(rows)
  BY <1>1 DEF Listed
<1>3. ASSUME NEW v \in 0 .. n - 1
      PROVE  /\ lists[v + 1] \in Seq(Nat \X Nat) /\ Len(lists[v + 1]) = Len(rows[v])
             /\ \A k \in 1 .. Len(rows[v]) : lists[v + 1][k] = <<v, rows[v][k]>>
  <2>1. PICK r, d : r = rows[v] /\ d = Len(r)
    OBVIOUS
  <2>2. r \in Seq(Nat) /\ d \in Nat /\ DOMAIN r = 1 .. d /\ \A k \in 1 .. d : r[k] \in Nat
    BY <2>1 DEF Sorted
  <2>3. v + 1 \in 1 .. n /\ (v + 1) - 1 = v /\ v \in Nat
    OBVIOUS
  <2>4. lists[v + 1] = [k \in 1 .. d |-> <<v, r[k]>>]
    BY <1>1, <2>1, <2>2, <2>3
  <2>5. lists[v + 1] \in [1 .. d -> Nat \X Nat]
    BY <2>2, <2>3, <2>4
  <2>6. lists[v + 1] \in Seq(Nat \X Nat) /\ Len(lists[v + 1]) = d
    BY <2>2, <2>5
  <2> QED
    BY <2>1, <2>2, <2>4, <2>6
<1>4. lists \in Seq(Seq(Nat \X Nat)) /\ Len(lists) = n
  <2>1. \A i \in 1 .. n : lists[i] \in Seq(Nat \X Nat)
    <3> SUFFICES ASSUME NEW i \in 1 .. n PROVE lists[i] \in Seq(Nat \X Nat)
      OBVIOUS
    <3>1. i - 1 \in 0 .. n - 1 /\ (i - 1) + 1 = i
      OBVIOUS
    <3> QED
      BY <1>3, <3>1
  <2>2. lists \in [1 .. n -> Seq(Nat \X Nat)]
    BY <1>1, <2>1
  <2> QED
    BY <2>2
<1>5. PICK x, y, m : x = CSR(lists).vertices /\ y = CSR(lists).edges /\ m = CSR(lists).n_edges
  OBVIOUS
<1>0. PICK S : S = Nat \X Nat /\ lists \in Seq(Seq(S)) /\ Len(lists) = n /\ n # 0
  BY <1>4
<1>6. /\ x \in [0 .. n -> Nat] /\ x[0] = 0 /\ x[n] = m /\ m \in Nat
      /\ \A v \in 0 .. n - 1 : /\ x[v + 1] - x[v] = Len(lists[v + 1])
                               /\ Row(v, x, y) = lists[v + 1]
  BY <1>0, <1>5, RowOfCSR
<1>10. m = Len(list) /\ y = [e \in 0 .. m - 1 |-> list[e + 1]]
  <2>1. /\ CSR(lists).edges = [e \in 0 .. CSR(lists).n_edges - 1 |-> FlattenSeq(lists)[e + 1]]
        /\ CSR(lists).n_edges = Len(FlattenSeq(lists))
    BY <1>0, RowOfCSR
  <2> QED
    BY <1>1, <1>5, <2>1
<1>7. list \in Seq(Nat \X Nat)
  <2>1. PICK F : Flattens(lists, n, F) /\ list = F[n]
    BY <1>0, <1>1, FlattenLast
  <2>2. n \in 1 .. Len(lists) /\ n \in n .. Len(lists) /\ Flattens(lists, Len(lists), F)
    BY <1>0, <2>1
  <2>3. F[n] \in Seq(S)
    BY <1>0, <2>2, FlattensGrows
  <2> QED
    BY <1>0, <2>1, <2>3
<1>11. \A v \in 0 .. n : x[v] \in Nat
  BY <1>6
<1>8. ASSUME NEW v \in 0 .. n - 1
      PROVE  /\ x[v + 1] - x[v] = Len(rows[v])
             /\ \A k \in 1 .. Len(rows[v]) : list[x[v] + k] = <<v, rows[v][k]>>
  <2>1. PICK d \in Nat, b \in Nat, c \in Nat : d = Len(rows[v]) /\ b = x[v] /\ c = x[v + 1]
    <3>1. Len(rows[v]) \in Nat /\ x[v] \in Nat /\ x[v + 1] \in Nat
      BY <1>11 DEF Sorted
    <3> QED
      BY <3>1
  <2>2. c - b = d
    BY <1>3, <1>6, <2>1
  <2>3. c <= m
    <3>1. \A w \in 0 .. n - 1 : x[w] <= x[w + 1]
      <4> SUFFICES ASSUME NEW w \in 0 .. n - 1 PROVE x[w] <= x[w + 1]
        OBVIOUS
      <4>1. x[w + 1] - x[w] = Len(lists[w + 1]) /\ Len(lists[w + 1]) \in Nat
        BY <1>3, <1>6
      <4>2. x[w] \in Nat /\ x[w + 1] \in Nat
        BY <1>11
      <4> QED
        BY <4>1, <4>2
    <3>2. \A a, w \in 0 .. n : a <= w => x[a] <= x[w]
      BY <1>6, <3>1, Climbs
    <3>3. v + 1 \in 0 .. n /\ n \in 0 .. n /\ v + 1 <= n
      OBVIOUS
    <3> QED
      BY <1>6, <2>1, <3>2, <3>3
  <2>4. Row(v, x, y) = [k \in 1 .. d |-> y[b + k - 1]]
    BY <2>1, <2>2 DEF Row
  <2>5. ASSUME NEW k \in 1 .. d PROVE list[b + k] = <<v, rows[v][k]>>
    <3>1. lists[v + 1][k] = y[b + k - 1]
      BY <1>6, <2>4
    <3>2. b + k - 1 \in 0 .. m - 1 /\ (b + k - 1) + 1 = b + k
      BY <1>6, <2>2, <2>3
    <3>3. y[b + k - 1] = list[b + k]
      BY <1>10, <3>2
    <3> QED
      BY <1>3, <2>1, <3>1, <3>3
  <2> QED
    BY <2>1, <2>2, <2>5
<1>9. LaidOut(n, rows, x, list)
  BY <1>6, <1>7, <1>8, <1>10 DEF LaidOut
<1> QED
  BY <1>2, <1>9

\* Place i of the list is in row v.
InRow(rows, x, list, i, v) ==
  \E k \in 1 .. Len(rows[v]) :
    i = x[v] + k /\ list[i] = <<v, rows[v][k]>> /\ rows[v][k] \in Nat

LEMMA PlaceOf ==
  ASSUME NEW n \in Nat \ {0}, NEW rows, Sorted(n, rows), NEW x, NEW list,
         LaidOut(n, rows, x, list), NEW i \in 1 .. Len(list)
  PROVE  \E v \in 0 .. n - 1 : InRow(rows, x, list, i, v)
<1>1. x \in [0 .. n -> Nat] /\ x[0] = 0 /\ x[n] = Len(list) /\ Len(list) \in Nat
  BY DEF LaidOut
<1>2. i - 1 \in 0 .. x[n] - 1
  BY <1>1
<1>3. PICK v \in 0 .. n - 1 : x[v] <= i - 1 /\ i - 1 < x[v + 1]
  BY <1>1, <1>2, SomeRow
<1>4. PICK b, c \in Nat : b = x[v] /\ c = x[v + 1]
  BY <1>1
<1>5. c - b = Len(rows[v])
  BY <1>4 DEF LaidOut
<1>6. PICK k \in 1 .. Len(rows[v]) : i = b + k
  <2>1. i - b \in 1 .. Len(rows[v]) /\ i = b + (i - b)
    BY <1>3, <1>4, <1>5
  <2> QED
    BY <2>1
<1>7. list[i] = <<v, rows[v][k]>>
  BY <1>4, <1>6 DEF LaidOut
<1>8. rows[v][k] \in Nat
  BY <1>6 DEF Sorted
<1> QED
  BY <1>4, <1>6, <1>7, <1>8 DEF InRow

\* The list has every arc of W once.
Enlists(list, W) ==
  /\ list \in Seq(W) /\ ToSet(list) = W /\ W \subseteq Nat \X Nat
  /\ Len(list) \in Nat /\ Len(list) = Cardinality(W)

LEMMA LaidOutPairs ==
  ASSUME NEW n \in Nat \ {0}, NEW rows, Sorted(n, rows), NEW x, NEW list,
         LaidOut(n, rows, x, list), NEW A, A = PairsOf(n, rows)
  PROVE  Enlists(list, A) /\ IsFiniteSet(A)
<1>1. PICK m \in Nat : m = Len(list) /\ DOMAIN list = 1 .. m /\ list \in Seq(Nat \X Nat)
  BY DEF LaidOut
<1>2. \A v \in 0 .. n - 1 : \A k \in 1 .. Len(rows[v]) : <<v, rows[v][k]>> \in A
  <2> SUFFICES ASSUME NEW v \in 0 .. n - 1, NEW k \in 1 .. Len(rows[v]) PROVE <<v, rows[v][k]>> \in A
    OBVIOUS
  <2>1. DOMAIN rows[v] = 1 .. Len(rows[v])
    BY DEF Sorted
  <2> QED
    BY <2>1 DEF PairsOf, ToSet
<1>3. ASSUME NEW i \in 1 .. m PROVE list[i] \in A
  <2>1. PICK v \in 0 .. n - 1 : InRow(rows, x, list, i, v)
    BY <1>1, PlaceOf
  <2> QED
    BY <1>2, <2>1 DEF InRow
<1>4. ASSUME NEW a \in A PROVE \E i \in 1 .. m : list[i] = a
  <2>1. PICK v \in 0 .. n - 1 : \E u \in ToSet(rows[v]) : a = <<v, u>>
    BY DEF PairsOf
  <2>2. PICK k \in DOMAIN rows[v] : a = <<v, rows[v][k]>>
    BY <2>1 DEF ToSet
  <2>3. PICK d \in Nat : d = Len(rows[v]) /\ DOMAIN rows[v] = 1 .. d
    BY DEF Sorted
  <2>4. x[v + 1] - x[v] = d /\ list[x[v] + k] = a
    BY <2>2, <2>3 DEF LaidOut
  <2>5. x[v] \in Nat /\ x[v + 1] \in Nat /\ x \in [0 .. n -> Nat] /\ x[n] = m
    <3>1. x \in [0 .. n -> Nat] /\ x[n] = m
      BY <1>1, Zenon DEF LaidOut
    <3>2. v \in 0 .. n /\ v + 1 \in 0 .. n
      OBVIOUS
    <3> QED
      BY <3>1, <3>2
  <2>6. x[v + 1] <= m
    <3>1. \A w \in 0 .. n - 1 : x[w] <= x[w + 1]
      <4> SUFFICES ASSUME NEW w \in 0 .. n - 1 PROVE x[w] <= x[w + 1]
        OBVIOUS
      <4>1. x[w + 1] - x[w] = Len(rows[w]) /\ Len(rows[w]) \in Nat
        <5>1. x[w + 1] - x[w] = Len(rows[w])
          BY Zenon DEF LaidOut
        <5>2. rows[w] \in Seq(Nat)
          BY Zenon DEF Sorted
        <5> QED
          BY <5>1, <5>2
      <4>2. x[w] \in Nat /\ x[w + 1] \in Nat
        BY <2>5
      <4> QED
        BY <4>1, <4>2
    <3>2. \A z, w \in 0 .. n : z <= w => x[z] <= x[w]
      BY <2>5, <3>1, Climbs
    <3>3. v + 1 \in 0 .. n /\ n \in 0 .. n /\ v + 1 <= n
      OBVIOUS
    <3> QED
      BY <2>5, <3>2, <3>3
  <2>7. x[v] + k \in 1 .. m
    <3>1. PICK b, e \in Nat : b = x[v] /\ e = x[v + 1]
      BY <2>5
    <3>2. e - b = d /\ e <= m /\ k \in 1 .. d
      BY <2>2, <2>3, <2>4, <2>6, <3>1
    <3>3. b + k \in 1 .. m
      BY <3>2
    <3> QED
      BY <3>1, <3>3
  <2> QED
    BY <2>4, <2>7
<1>5. ASSUME NEW i \in 1 .. m, NEW j \in 1 .. m, list[i] = list[j] PROVE i = j
  <2>1. PICK v \in 0 .. n - 1 : InRow(rows, x, list, i, v)
    BY <1>1, PlaceOf
  <2>2. PICK k \in 1 .. Len(rows[v]) :
          i = x[v] + k /\ list[i] = <<v, rows[v][k]>> /\ rows[v][k] \in Nat
    BY <2>1 DEF InRow
  <2>3. PICK w \in 0 .. n - 1 : InRow(rows, x, list, j, w)
    BY <1>1, PlaceOf
  <2>4. PICK l \in 1 .. Len(rows[w]) :
          j = x[w] + l /\ list[j] = <<w, rows[w][l]>> /\ rows[w][l] \in Nat
    BY <2>3 DEF InRow
  <2>5. v = w /\ rows[v][k] = rows[w][l]
    BY <1>5, <2>2, <2>4
  <2>6. PICK d \in Nat : d = Len(rows[v])
    BY DEF Sorted
  <2>7. k \in 1 .. d /\ l \in 1 .. d
    BY <2>5, <2>6
  <2>8. \A a \in 1 .. d : \A b \in 1 .. a - 1 : rows[v][b] < rows[v][a]
    BY <2>6 DEF Sorted, Strict
  <2>9. k = l
    BY <2>2, <2>5, <2>7, <2>8
  <2> QED
    BY <2>2, <2>4, <2>5, <2>9
<1>6. A \subseteq Nat \X Nat
  BY <1>1, <1>4
<1>7. list \in [1 .. m -> A]
  BY <1>1, <1>3
<1>8. IsFiniteSet(1 .. m) /\ Cardinality(1 .. m) = m
  BY FS_Interval
<1>9. IsFiniteSet(A) /\ Cardinality(A) = m
  BY <1>4, <1>5, <1>7, <1>8, SameSize
<1>10. list \in Seq(A)
  BY <1>7
<1>11. ToSet(list) = A
  <2>1. ToSet(list) = {list[i] : i \in 1 .. m}
    BY <1>1 DEF ToSet
  <2> QED
    BY <1>3, <1>4, <2>1
<1> QED
  BY <1>1, <1>6, <1>9, <1>10, <1>11 DEF Enlists

\* The arcs in one direction are half of the arcs of a symmetric graph.
LEMMA Halves ==
  ASSUME NEW A, A \subseteq Nat \X Nat, IsFiniteSet(A), Symmetric(A), \A a \in A : a[1] # a[2],
         NEW up, up = {a \in A : a[1] < a[2]}, NEW down, down = {a \in A : a[1] > a[2]}
  PROVE  /\ Cardinality(up) \in Nat /\ Cardinality(down) = Cardinality(up)
         /\ Cardinality(A) = 2 * Cardinality(up)
<1>1. IsFiniteSet(up) /\ IsFiniteSet(down)
  BY FS_Subset
<1>2. PICK f : f = [a \in up |-> <<a[2], a[1]>>]
  OBVIOUS
<1>0. \A a \in Nat \X Nat : a[1] \in Nat /\ a[2] \in Nat /\ a = <<a[1], a[2]>>
  OBVIOUS
<1>3. \A a \in A : <<a[2], a[1]>> \in A /\ a[1] \in Nat /\ a[2] \in Nat /\ a = <<a[1], a[2]>>
  BY <1>0, Zenon DEF Symmetric
<1>4. f \in [up -> down]
  BY <1>2, <1>3
<1>5. \A a, b \in up : f[a] = f[b] => a = b
  <2> SUFFICES ASSUME NEW a \in up, NEW b \in up, f[a] = f[b] PROVE a = b
    OBVIOUS
  <2>1. <<a[2], a[1]>> = <<b[2], b[1]>>
    BY <1>2
  <2>2. a[1] = b[1] /\ a[2] = b[2]
    BY <2>1
  <2> QED
    BY <1>3, <2>2
<1>6. \A b \in down : \E a \in up : f[a] = b
  <2> SUFFICES ASSUME NEW b \in down PROVE \E a \in up : f[a] = b
    OBVIOUS
  <2>1. PICK a : a = <<b[2], b[1]>>
    OBVIOUS
  <2>2. a \in up /\ <<a[2], a[1]>> = b
    BY <1>3, <2>1
  <2> QED
    BY <1>2, <2>2
<1>7. Cardinality(down) = Cardinality(up)
  BY <1>1, <1>4, <1>5, <1>6, SameSize
<1>8. A = up \cup down /\ up \cap down = {}
  BY <1>3
<1>9. Cardinality(A) = Cardinality(up) + Cardinality(down) - Cardinality(up \cap down)
  BY <1>1, <1>8, FS_Union
<1>10. Cardinality(up) \in Nat /\ Cardinality(up \cap down) = 0
  BY <1>1, <1>8, FS_CardinalityType, FS_EmptySet
<1> QED
  BY <1>7, <1>9, <1>10

-----------------------------------------------------------------------------
(* The tasks of init_edgelist.                                             *)

\* A list in order up to its first element above v.
LEMMA PrefixUpTo ==
  ASSUME NEW s \in Seq(Nat), Strict(s), NEW v \in Nat, NEW k \in 1 .. Len(s),
         s[k] > v, \A j \in 1 .. Len(s) : s[j] > v => k <= j
  PROVE  /\ SubSeq(s, 1, k - 1) \in Seq(Nat) /\ Strict(SubSeq(s, 1, k - 1))
         /\ ToSet(SubSeq(s, 1, k - 1)) = {u \in ToSet(s) : u <= v}
<1>1. PICK m \in Nat : m = Len(s) /\ DOMAIN s = 1 .. m /\ \A j \in 1 .. m : s[j] \in Nat
  BY DEF Strict
<1>2. PICK t : t = SubSeq(s, 1, k - 1)
  OBVIOUS
<1>3. /\ t \in Seq(Nat) /\ Len(t) = k - 1 /\ DOMAIN t = 1 .. k - 1
      /\ \A j \in 1 .. k - 1 : t[j] = s[j]
  BY <1>1, <1>2
<1>4. \A j \in 1 .. m : \A i \in 1 .. j - 1 : s[i] < s[j]
  BY <1>1 DEF Strict
<1>5. Strict(t)
  <2> SUFFICES ASSUME NEW j \in 1 .. k - 1, NEW i \in 1 .. j - 1 PROVE t[i] < t[j]
    BY <1>3 DEF Strict
  <2>1. j \in 1 .. m /\ i \in 1 .. k - 1
    BY <1>1
  <2> QED
    BY <1>3, <1>4, <2>1
<1>6. ASSUME NEW j \in 1 .. m PROVE s[j] <= v <=> j < k
  <2>1. k \in 1 .. m /\ s[k] \in Nat /\ s[j] \in Nat
    BY <1>1
  <2>2. j < k => s[j] <= v
    BY <1>1, <2>1
  <2>3. k < j => s[k] < s[j]
    BY <1>4, <2>1
  <2> QED
    BY <2>1, <2>2, <2>3
<1>7. ToSet(t) = {t[j] : j \in 1 .. k - 1} /\ ToSet(s) = {s[j] : j \in 1 .. m}
  BY <1>1, <1>3 DEF ToSet
<1>8. ToSet(t) = {u \in ToSet(s) : u <= v}
  <2>1. \A j \in 1 .. k - 1 : j \in 1 .. m /\ j < k
    BY <1>1
  <2>2. \A j \in 1 .. m : j < k => j \in 1 .. k - 1
    BY <1>1
  <2> QED
    BY <1>3, <1>6, <1>7, <2>1, <2>2
<1> QED
  BY <1>2, <1>3, <1>5, <1>8

\* The tasks of v that a list is asked to hold.
Asked(v, u, sym_break, ascend) == sym_break => IF ascend THEN v < u ELSE v > u

LEMMA TasksFacts ==
  ASSUME Data, NEW v \in V, NEW sym_break \in BOOLEAN, NEW ascend \in BOOLEAN
  PROVE  /\ Tasks(v, sym_break, ascend) \in Seq(Nat) /\ Strict(Tasks(v, sym_break, ascend))
         /\ ToSet(Tasks(v, sym_break, ascend)) =
              {u \in ToSet(N(v)) : Asked(v, u, sym_break, ascend)}
<1>1. PICK s : s = N(v)
  OBVIOUS
<1>2. s \in Seq(V \ {v}) /\ s \in Seq(Nat) /\ Strict(s)
  BY <1>1, NFacts
<1>3. v \in Nat /\ V \subseteq Nat
  BY DEF V, Data
<1>4. ToSet(s) \subseteq V \ {v}
  BY <1>2 DEF ToSet
<1>5. CASE ~sym_break
  <2>1. Tasks(v, sym_break, ascend) = s
    BY <1>1, <1>5 DEF Tasks
  <2>2. {u \in ToSet(s) : Asked(v, u, sym_break, ascend)} = ToSet(s)
    BY <1>5 DEF Asked
  <2> QED
    BY <1>1, <1>2, <2>1, <2>2
<1>6. CASE sym_break /\ ascend
  <2>1. PICK K, t : K = {u \in V : u > v} /\ t = Kept(s, K)
    OBVIOUS
  <2>2. Tasks(v, sym_break, ascend) = t
    BY <1>1, <1>6, <2>1 DEF Tasks
  <2>3. t \in Seq(Nat) /\ Strict(t) /\ ToSet(t) = ToSet(s) \cap K
    BY <1>2, <2>1, KeptSorted
  <2>4. {u \in ToSet(s) : Asked(v, u, sym_break, ascend)} = ToSet(s) \cap K
    BY <1>3, <1>4, <1>6, <2>1 DEF Asked
  <2> QED
    BY <1>1, <2>2, <2>3, <2>4
<1>7. CASE sym_break /\ ~ascend
  <2>1. Tasks(v, sym_break, ascend) = UpTo(v)
    BY <1>7 DEF Tasks
  <2>2. {u \in ToSet(s) : Asked(v, u, sym_break, ascend)} = {u \in ToSet(s) : u <= v}
    <3>1. \A u \in ToSet(s) : u \in Nat /\ u # v
      BY <1>3, <1>4
    <3>2. \A u \in ToSet(s) : Asked(v, u, sym_break, ascend) <=> u <= v
      BY <1>3, <1>7, <3>1 DEF Asked
    <3> QED
      BY <3>2
  <2>3. PICK stop : stop = {k \in DOMAIN s : s[k] > v}
    OBVIOUS
  <2>4. PICK m \in Nat : m = Len(s) /\ DOMAIN s = 1 .. m
    BY <1>2
  <2>5. CASE stop = {}
    <3>1. UpTo(v) = s
      BY <1>1, <2>3, <2>5 DEF UpTo
    <3>2. \A u \in ToSet(s) : u <= v
      <4>1. \A k \in DOMAIN s : s[k] \in Nat /\ ~(s[k] > v)
        BY <1>2, <2>3, <2>5
      <4>2. \A k \in DOMAIN s : s[k] <= v
        BY <1>3, <4>1
      <4> QED
        BY <4>2 DEF ToSet
    <3> QED
      BY <1>1, <1>2, <2>1, <2>2, <3>1, <3>2
  <2>6. CASE stop # {}
    <3>1. PICK k : k = CHOOSE i \in stop : \A j \in stop : i <= j
      OBVIOUS
    <3>2. stop \in SUBSET Nat
      BY <2>3, <2>4
    <3>3. k \in stop /\ \A j \in stop : k <= j
      <4>1. \E c \in stop : \A j \in stop : c <= j
        BY <2>6, <3>2, LeastNatural
      <4> QED
        BY <3>1, <4>1, Zenon
    <3>4. k \in 1 .. Len(s) /\ s[k] > v /\ \A j \in 1 .. Len(s) : s[j] > v => k <= j
      BY <2>3, <2>4, <3>3
    <3>5. UpTo(v) = SubSeq(s, 1, k - 1)
      BY <1>1, <2>3, <2>6, <3>1, Zenon DEF UpTo
    <3>6. PICK t : t = SubSeq(s, 1, k - 1)
      OBVIOUS
    <3>7. t \in Seq(Nat) /\ Strict(t) /\ ToSet(t) = {u \in ToSet(s) : u <= v}
      BY <1>2, <1>3, <3>4, <3>6, PrefixUpTo
    <3> QED
      BY <1>1, <2>1, <2>2, <3>5, <3>6, <3>7
  <2> QED
    BY <2>5, <2>6
<1> QED
  BY <1>5, <1>6, <1>7

\* The rows of the graph are laid out as the edge array has them.
Current(n, rows, list) ==
  /\ n \in Nat \ {0} /\ Sorted(n, rows) /\ g.n_edges \in Nat
  /\ LaidOut(n, rows, Array(g.vertices), list) /\ Len(list) = g.n_edges
  /\ \A e \in 0 .. Len(list) - 1 : Array(g.edges)[e] = list[e + 1][2]
  /\ Arcs = PairsOf(n, rows) /\ \A a \in Arcs : a[1] # a[2]

LEMMA CurrentList ==
  ASSUME Data, NEW n, n = g.n_vertices, NEW rows, rows = [v \in V |-> N(v)],
         NEW list, list = Listed(rows)
  PROVE  Current(n, rows, list)
<1>1. n \in Nat \ {0} /\ V = 0 .. n - 1
  BY DEF Data, V
<1>2. \A v \in 0 .. n - 1 : rows[v] = N(v) /\ rows[v] \in Seq(Nat) /\ Strict(rows[v])
  BY <1>1, NFacts
<1>3. Sorted(n, rows)
  BY <1>2 DEF Sorted
<1>4. PICK X, Y, m : X = Array(g.vertices) /\ Y = Array(g.edges) /\ m = g.n_edges
  OBVIOUS
<1>5. m \in Nat /\ X \in [0 .. n -> 0 .. m] /\ X[0] = 0 /\ X[n] = m
  BY <1>4 DEF Data, IsCSR
<1>6. X \in [0 .. n -> Nat]
  BY <1>5
<1>7. PICK x : LaidOut(n, rows, x, list)
  BY <1>1, <1>3, ListedLaidOut
<1>8. x \in [0 .. n -> Nat] /\ x[0] = 0
  BY <1>7 DEF LaidOut
<1>9. ASSUME NEW v \in 0 .. n - 1 PROVE x[v + 1] - x[v] = X[v + 1] - X[v]
  <2>1. Len(N(v)) = get_degree(v)
    BY <1>1, NFacts
  <2>2. x[v + 1] - x[v] = Len(rows[v])
    BY <1>7 DEF LaidOut
  <2> QED
    BY <1>2, <1>4, <2>1, <2>2 DEF get_degree
<1>10. \A v \in 0 .. n : x[v] = X[v]
  <2>1. n \in Nat /\ X[0] = x[0]
    BY <1>1, <1>5, <1>8
  <2>2. \A v \in 0 .. n - 1 : x[v + 1] - x[v] = X[v + 1] - X[v]
    BY <1>9
  <2> QED
    BY <1>6, <1>8, <2>1, <2>2, SamePointers, Zenon
<1>11. x = X
  BY <1>1, <1>6, <1>8, <1>10
<1>12. LaidOut(n, rows, X, list) /\ Len(list) = m
  BY <1>5, <1>7, <1>11 DEF LaidOut
<1>13. ASSUME NEW e \in 0 .. Len(list) - 1 PROVE Y[e] = list[e + 1][2]
  <2>1. e + 1 \in 1 .. Len(list)
    BY <1>5, <1>12
  <2>2. PICK v \in 0 .. n - 1 : InRow(rows, X, list, e + 1, v)
    BY <1>1, <1>3, <1>12, <2>1, PlaceOf
  <2>3. PICK k \in 1 .. Len(rows[v]) : e + 1 = X[v] + k /\ list[e + 1] = <<v, rows[v][k]>>
    BY <2>2 DEF InRow
  <2>4. rows[v] = [j \in 1 .. X[v + 1] - X[v] |-> Y[X[v] + j - 1]]
    BY <1>2, <1>4 DEF N, Row
  <2>5. Len(rows[v]) = X[v + 1] - X[v]
    BY <1>7, <1>9 DEF LaidOut
  <2>6. rows[v][k] = Y[X[v] + k - 1]
    BY <2>4, <2>5
  <2>7. X[v] \in Nat /\ k \in Int
    <3>1. v \in 0 .. n
      BY <1>1
    <3> QED
      BY <1>6, <3>1
  <2>8. X[v] + k - 1 = e
    BY <2>3, <2>7
  <2> QED
    BY <2>3, <2>6, <2>8
<1>14. Arcs = PairsOf(n, rows)
  BY <1>1, <1>2 DEF Arcs, PairsOf
<1>15. ASSUME NEW a \in Arcs PROVE a[1] # a[2]
  <2>1. PICK v \in V : \E u \in ToSet(N(v)) : a = <<v, u>>
    BY DEF Arcs
  <2>2. N(v) \in Seq(V \ {v})
    BY NFacts
  <2>3. \A u \in ToSet(N(v)) : u # v
    BY <2>2 DEF ToSet
  <2> QED
    BY <2>1, <2>3
<1> QED
  BY <1>1, <1>3, <1>4, <1>5, <1>12, <1>13, <1>14, <1>15 DEF Current

-----------------------------------------------------------------------------
(* The list of a graph.                                                    *)

\* The room in the arrays of a list.
Room(sym_break) == IF sym_break THEN g.n_edges \div 2 ELSE g.n_edges

\* What the loops of init_edgelist list.
LEMMA TasksListed ==
  ASSUME Data, NEW sym_break \in BOOLEAN, NEW ascend \in BOOLEAN,
         NEW list, list = Listed([v \in V |-> Tasks(v, sym_break, ascend)]),
         NEW W, W = {a \in Arcs : sym_break => IF ascend THEN a[1] < a[2] ELSE a[1] > a[2]}
  PROVE  /\ Enlists(list, W) /\ Room(sym_break) \in Nat
         /\ (sym_break => Symmetric(Arcs)) => Len(list) = Room(sym_break)
         /\ ~sym_break => \A e \in 0 .. Len(list) - 1 : Array(g.edges)[e] = list[e + 1][2]
<1>1. PICK n, rows, all : n = g.n_vertices /\ rows = [v \in V |-> N(v)] /\ all = Listed(rows)
  OBVIOUS
<1>2. /\ n \in Nat \ {0} /\ Sorted(n, rows) /\ g.n_edges \in Nat
      /\ LaidOut(n, rows, Array(g.vertices), all) /\ Len(all) = g.n_edges
      /\ \A e \in 0 .. Len(all) - 1 : Array(g.edges)[e] = all[e + 1][2]
      /\ Arcs = PairsOf(n, rows) /\ \A a \in Arcs : a[1] # a[2]
  <2>1. Current(n, rows, all)
    BY <1>1, CurrentList
  <2> QED
    BY <2>1, Zenon DEF Current
<1>3. V = 0 .. n - 1
  BY <1>1 DEF V
<1>4. PICK A : A = Arcs
  OBVIOUS
<1>5. A \subseteq Nat \X Nat /\ IsFiniteSet(A) /\ Cardinality(A) = g.n_edges
  <2>1. Enlists(all, A) /\ IsFiniteSet(A)
    BY <1>2, <1>4, LaidOutPairs
  <2> QED
    BY <1>2, <2>1 DEF Enlists
<1>6. PICK tasks : tasks = [v \in V |-> Tasks(v, sym_break, ascend)]
  OBVIOUS
<1>7. ASSUME NEW v \in 0 .. n - 1
      PROVE  /\ tasks[v] \in Seq(Nat) /\ Strict(tasks[v])
             /\ ToSet(tasks[v]) = {u \in ToSet(rows[v]) : Asked(v, u, sym_break, ascend)}
  <2>1. v \in V /\ tasks[v] = Tasks(v, sym_break, ascend) /\ rows[v] = N(v)
    BY <1>1, <1>3, <1>6
  <2> QED
    BY <2>1, TasksFacts
<1>8. Sorted(n, tasks)
  BY <1>7 DEF Sorted
<1>9. PICK x : LaidOut(n, tasks, x, list)
  BY <1>1, <1>2, <1>6, <1>8, ListedLaidOut
<1>10. W = PairsOf(n, tasks)
  <2>1. ASSUME NEW v \in 0 .. n - 1, NEW u
        PROVE  u \in ToSet(tasks[v]) <=> u \in ToSet(rows[v]) /\ Asked(v, u, sym_break, ascend)
    BY <1>7
  <2>2. ASSUME NEW a
        PROVE  a \in PairsOf(n, tasks) <=>
                 \E v \in 0 .. n - 1 : \E u \in ToSet(rows[v]) :
                   a = <<v, u>> /\ Asked(v, u, sym_break, ascend)
    BY <2>1 DEF PairsOf
  <2>3. ASSUME NEW a
        PROVE  a \in PairsOf(n, rows) <=> \E v \in 0 .. n - 1 : \E u \in ToSet(rows[v]) : a = <<v, u>>
    BY DEF PairsOf
  <2>4. ASSUME NEW v, NEW u, NEW a, a = <<v, u>>
        PROVE  Asked(v, u, sym_break, ascend) <=>
                 (sym_break => IF ascend THEN a[1] < a[2] ELSE a[1] > a[2])
    BY <2>4 DEF Asked
  <2>5. ASSUME NEW a PROVE a \in W <=> a \in PairsOf(n, tasks)
    BY <1>2, <2>2, <2>3, <2>4
  <2> QED
    BY <2>5
<1>12. Enlists(list, W)
  BY <1>2, <1>8, <1>9, <1>10, LaidOutPairs
<1>11. Cardinality(W) = Len(list)
  BY <1>12 DEF Enlists
<1>13. Room(sym_break) \in Nat
  <2>1. g.n_edges \div 2 \in Nat
    <3>1. PICK k \in Nat : k = g.n_edges
      BY <1>2
    <3>2. k \div 2 \in Nat
      OBVIOUS
    <3> QED
      BY <3>1, <3>2
  <2> QED
    BY <1>2, <2>1 DEF Room
<1>14. CASE ~sym_break
  <2>1. tasks = rows
    <3>1. \A v \in V : Tasks(v, sym_break, ascend) = N(v)
      BY <1>14 DEF Tasks
    <3> QED
      BY <1>1, <1>6, <3>1
  <2>2. list = all
    BY <1>1, <1>6, <2>1
  <2> QED
    BY <1>2, <1>12, <1>13, <1>14, <2>2 DEF Room
<1>15. CASE sym_break
  <2>1. ASSUME Symmetric(Arcs) PROVE Len(list) = Room(sym_break)
    <3>1. PICK up, down : up = {a \in A : a[1] < a[2]} /\ down = {a \in A : a[1] > a[2]}
      OBVIOUS
    <3>2. /\ Cardinality(up) \in Nat /\ Cardinality(down) = Cardinality(up)
          /\ Cardinality(A) = 2 * Cardinality(up)
      <4>1. A \subseteq Nat \X Nat /\ IsFiniteSet(A) /\ Symmetric(A) /\ \A a \in A : a[1] # a[2]
        BY <1>2, <1>4, <1>5, <2>1, Zenon
      <4> QED
        BY <3>1, <4>1, Halves, ZenonT(30)
    <3>3. W = up \/ W = down
      BY <1>4, <1>15, <3>1
    <3>4. PICK c \in Nat : c = Cardinality(up) /\ Len(list) = c /\ g.n_edges = 2 * c
      BY <1>5, <1>11, <3>2, <3>3
    <3>5. g.n_edges \div 2 = c
      BY <3>4
    <3> QED
      BY <1>15, <3>4, <3>5 DEF Room
  <2> QED
    BY <1>12, <1>13, <1>15, <2>1
<1> QED
  BY <1>14, <1>15

(***************************************************************************)
(* The arrays of the list hold the arcs that it was asked to hold, in the  *)
(* room that there is for them; nnz is that room, or the length of a       *)
(* stream that was made after an empty list.                               *)
(***************************************************************************)
Made(list, room) ==
  /\ Enlists(list, Wanted) /\ room \in Nat /\ Len(list) <= room
  /\ Array(g.src_list) = Filled(room, list, 1)
  /\ ~past.lostList => \A e \in 0 .. Len(list) - 1 : Array(g.dst_list)[e] = list[e + 1][2]
  /\ (past.sym_break => Symmetric(past.arcs)) => Len(list) = room
  /\ nnz = room \/ (Wanted = {} /\ g.stream # NULL)

ListInv == g.src_list # NULL => \E list, room : Made(list, room)

\* What the cells of the list are.
LEMMA MadeFacts ==
  ASSUME NEW list, NEW room, Made(list, room)
  PROVE  /\ DOMAIN Array(g.src_list) = 0 .. room - 1
         /\ Cardinality(DOMAIN Array(g.src_list)) = room
         /\ \A e \in 0 .. Len(list) - 1 :
              /\ Src(e) = list[e + 1][1] /\ Src(e) \in Nat /\ list[e + 1] \in Wanted
              /\ list[e + 1] = <<list[e + 1][1], list[e + 1][2]>>
<1>1. PICK l \in Nat, r \in Nat : l = Len(list) /\ r = room /\ l <= r
  BY DEF Made, Enlists
<1>2. PICK s : s = Array(g.src_list) /\ s = [i \in 0 .. r - 1 |-> IF i < l THEN list[i + 1][1] ELSE Unset]
  BY <1>1 DEF Made, Filled
<1>3. DOMAIN s = 0 .. r - 1
  BY <1>2
<1>4. Cardinality(0 .. r - 1) = r
  <2>1. 0 \in Int /\ r - 1 \in Int
    OBVIOUS
  <2>2. Cardinality(0 .. r - 1) = IF 0 > r - 1 THEN 0 ELSE (r - 1) - 0 + 1
    BY <2>1, FS_Interval
  <2> QED
    BY <2>2
<1>5. ASSUME NEW e \in 0 .. l - 1
      PROVE  /\ s[e] = list[e + 1][1] /\ s[e] \in Nat /\ list[e + 1] \in Wanted
             /\ list[e + 1] = <<list[e + 1][1], list[e + 1][2]>>
  <2>1. e \in 0 .. r - 1 /\ e < l /\ e + 1 \in 1 .. l
    BY <1>1
  <2>2. s[e] = list[e + 1][1]
    BY <1>2, <2>1
  <2>3. list \in Seq(Wanted) /\ Wanted \subseteq Nat \X Nat
    BY DEF Made, Enlists
  <2>4. list[e + 1] \in Wanted
    BY <1>1, <2>1, <2>3
  <2>5. \A a \in Nat \X Nat : a[1] \in Nat /\ a[2] \in Nat /\ a = <<a[1], a[2]>>
    OBVIOUS
  <2> QED
    BY <2>2, <2>3, <2>4, <2>5, Zenon
<1> QED
  BY <1>1, <1>2, <1>3, <1>4, <1>5 DEF Src

-----------------------------------------------------------------------------
(* The methods of Graph keep the list.                                     *)

\* The history of the list and the members that it is in.
SameListMembers ==
  /\ \A m \in {"src_list", "dst_list"} : g'[m] = g[m]
  /\ \A m \in {"arcs", "sym_break", "ascend"} : past'[m] = past[m]
  /\ ~past'.lostList => ~past.lostList

\* A step that writes to no array but the row pointers keeps the list.
LEMMA KeepsArrays ==
  ASSUME Ownership, List, g.src_list # NULL, SameListMembers,
         \A p \in DOMAIN heap \ {g.vertices} : IsBlock(heap[p]) => heap'[p].data = heap[p].data
  PROVE  /\ heap'[g'.src_list].data = heap[g.src_list].data
         /\ ~past'.lostList => heap'[g'.dst_list].data = heap[g.dst_list].data
<1>1. /\ g.src_list \in DOMAIN heap /\ IsBlock(heap[g.src_list]) /\ g.src_list # g.vertices
  BY DEF Ownership, Owned, Live
<1>2. ~past.lostList => /\ g.dst_list \in DOMAIN heap /\ IsBlock(heap[g.dst_list])
                        /\ g.dst_list # g.vertices
  BY DEF List, Live
<1> QED
  BY <1>1, <1>2 DEF SameListMembers

LEMMA KeepsList ==
  ASSUME Ownership, List, ListInv, SameListMembers, g'.nnz = g.nnz, g'.stream = g.stream,
         \A p \in DOMAIN heap \ {g.vertices} : IsBlock(heap[p]) => heap'[p].data = heap[p].data
  PROVE  ListInv'
<1> SUFFICES ASSUME g.src_list # NULL PROVE \E list, room : Made(list, room)'
  BY DEF ListInv, SameListMembers
<1>1. PICK list, room : Made(list, room)
  BY DEF ListInv
<1>2. /\ heap'[g'.src_list].data = heap[g.src_list].data
      /\ ~past'.lostList => heap'[g'.dst_list].data = heap[g.dst_list].data
  BY KeepsArrays
<1>3. Wanted' = Wanted /\ past'.sym_break = past.sym_break /\ past'.arcs = past.arcs
      /\ (~past'.lostList => ~past.lostList)
  BY DEF Wanted, SameListMembers
<1>4. Made(list, room)'
  BY <1>1, <1>2, <1>3 DEF Made, Array, nnz
<1> QED
  BY <1>4

LEMMA OrientationKeepsList == ASSUME IInv, ListInv, NEW buffers, Orient(buffers) PROVE ListInv'
<1>1. Shape /\ Ownership /\ List /\ status = "ok"
  BY InUse DEF Orient
<1>2. PICK new, S : /\ S = {g.vertices, g.edges}
                    /\ heap' = Freed(S) \o <<Block(new.vertices), Block(new.edges)>>
  BY Zenon DEF Orient
<1>3. Preserves(Freed(S), S)
  BY <1>1, FreedFacts DEF Shape, Preserves
<1>4. PICK x, y : x = new.vertices /\ y = new.edges
  OBVIOUS
<1>5. \A p \in DOMAIN heap : heap'[p] = Freed(S)[p]
  BY <1>2, <1>3, <1>4, NewArrays
<1>6. \A p \in DOMAIN heap : IsBlock(heap[p]) => heap'[p].data = heap[p].data
  BY <1>5 DEF Freed, IsBlock
<1>7. SameListMembers /\ g'.nnz = g.nnz /\ g'.stream = g.stream
  <2>1. PICK a, b, c, d : g' = [g EXCEPT !.vertices = a, !.edges = b, !.n_edges = c,
                                         !.max_degree = d, !.MAX_DEGREE = buffers]
    BY Zenon DEF Orient
  <2>2. past' = [past EXCEPT !.oriented = TRUE, !.lostList = @ \/ g.dst_list = g.edges]
    BY DEF Orient
  <2> QED
    BY <1>1, <2>1, <2>2 DEF SameListMembers, Shape, Members, Owned, History
<1> QED
  BY <1>1, <1>6, <1>7, KeepsList

LEMMA SparsifyFastKeepsList == ASSUME IInv, ListInv, NEW c, color_sparsify_fast(c) PROVE ListInv'
<1>1. Shape /\ Ownership /\ List /\ status = "ok" /\ past' = past
  BY InUse DEF color_sparsify_fast
<1>0. PICK keep, new : /\ new = Filtered(keep)
                       /\ heap' = heap \o <<Block(new.vertices), Block(new.edges)>>
                       /\ g' = [g EXCEPT !.vertices = Fresh(1), !.edges = Fresh(2),
                                         !.n_edges = new.n_edges]
  BY Zenon DEF color_sparsify_fast, Monochrome
<1>2. PICK x, y, a, b, n : /\ heap' = heap \o <<Block(x), Block(y)>>
                           /\ g' = [g EXCEPT !.vertices = a, !.edges = b, !.n_edges = n]
  BY <1>0, Zenon
<1>3. \A p \in DOMAIN heap : heap'[p] = heap[p]
  BY <1>1, <1>2, HeapPreserves, NewArrays
<1>4. SameListMembers /\ g'.nnz = g.nnz /\ g'.stream = g.stream
  BY <1>1, <1>2 DEF SameListMembers, Shape, Members, Owned
<1> QED
  BY <1>1, <1>3, <1>4, KeepsList

LEMMA SparsifyFastDKeepsList ==
  ASSUME IInv, ListInv, NEW c, color_sparsify_fast_d(c) PROVE ListInv'
<1>1. Shape /\ Ownership /\ List /\ status = "ok" /\ past' = past
  BY InUse DEF color_sparsify_fast_d
<1>0. PICK keep, new : /\ new = Filtered(keep)
                       /\ heap' = heap \o <<Block(new.vertices), Block(new.edges)>>
                       /\ g' = [g EXCEPT !.vertices_c = Fresh(1), !.edges_c = Fresh(2),
                                         !.n_edges_c = new.n_edges]
  BY Zenon DEF color_sparsify_fast_d, Monochrome
<1>2. PICK x, y, a, b, n : /\ heap' = heap \o <<Block(x), Block(y)>>
                           /\ g' = [g EXCEPT !.vertices_c = a, !.edges_c = b, !.n_edges_c = n]
  BY <1>0, Zenon
<1>3. \A p \in DOMAIN heap : heap'[p] = heap[p]
  BY <1>1, <1>2, HeapPreserves, NewArrays
<1>4. SameListMembers /\ g'.nnz = g.nnz /\ g'.stream = g.stream
  BY <1>1, <1>2 DEF SameListMembers, Shape, Members, Owned
<1> QED
  BY <1>1, <1>3, <1>4, KeepsList

LEMMA SwapKeepsList == ASSUME IInv, ListInv, Swaps PROVE ListInv'
<1>1. Shape /\ Ownership /\ List /\ heap' = heap /\ past' = past
  BY InUse DEF Swaps
<1>2. SameListMembers /\ g'.nnz = g.nnz /\ g'.stream = g.stream
  BY <1>1 DEF Swaps, SameListMembers, Shape, Members, Owned
<1> QED
  BY <1>1, <1>2, KeepsList

LEMMA SparsifyKeepsList == ASSUME IInv, ListInv, NEW c, color_sparsify(c) PROVE ListInv'
<1>1. Shape /\ Ownership /\ List /\ status = "ok"
  BY InUse DEF color_sparsify
<1>0. PICK keep, new, x, y :
        /\ new = Filtered(keep) /\ x = new.vertices
        /\ y = [i \in 0 .. g.n_edges - 1 |-> IF i < new.n_edges THEN new.edges[i] ELSE Unset]
        /\ heap' = [heap EXCEPT ![g.vertices].data = x] \o <<Block(y)>>
        /\ g' = [g EXCEPT !.edges = Fresh(1), !.n_edges = new.n_edges]
  BY Zenon DEF color_sparsify, Monochrome
<1>2. PICK a, n : /\ heap' = [heap EXCEPT ![g.vertices].data = x] \o <<Block(y)>>
                  /\ g' = [g EXCEPT !.edges = a, !.n_edges = n]
  BY <1>0, Zenon
<1>3. PICK h, t : h = [heap EXCEPT ![g.vertices].data = x] /\ t = <<Block(y)>>
  OBVIOUS
<1>4. DOMAIN heap = 1 .. Len(heap) /\ Len(heap) \in Nat
  BY <1>1 DEF Shape
<1>5. h \in Seq(ToSet(h)) /\ DOMAIN h = DOMAIN heap
  <2>1. h = [p \in 1 .. Len(heap) |-> h[p]] /\ DOMAIN h = 1 .. Len(heap)
    BY <1>3, <1>4
  <2>2. \A i \in 1 .. Len(heap) : h[i] \in ToSet(h)
    BY <2>1 DEF ToSet
  <2> QED
    BY <1>4, <2>1, <2>2, SeqDef
<1>6. t \in Seq({Block(y)}) /\ heap' = h \o t
  BY <1>2, <1>3
<1>7. \A p \in DOMAIN h : (h \o t)[p] = h[p]
  BY <1>5, <1>6, Appended
<1>8. \A p \in DOMAIN heap \ {g.vertices} : heap'[p] = heap[p]
  BY <1>3, <1>5, <1>6, <1>7
<1>9. SameListMembers /\ g'.nnz = g.nnz /\ g'.stream = g.stream
  <2>1. PICK b : past' = [past EXCEPT !.inPlace = b]
    BY Zenon DEF color_sparsify
  <2> QED
    BY <1>1, <1>2, <2>1 DEF SameListMembers, Shape, Members, Owned, History
<1> QED
  BY <1>1, <1>8, <1>9, KeepsList

LEMMA DestroyKeepsList == ASSUME IInv, ListInv, destroy PROVE ListInv'
<1>1. Shape /\ Ownership /\ List /\ g' = g /\ past' = past
  BY InUse DEF destroy
<1>2. PICK S : heap' = Freed(S)
  BY Zenon DEF destroy
<1>3. ASSUME NEW p \in DOMAIN heap, IsBlock(heap[p]) PROVE heap'[p].data = heap[p].data
  BY <1>2, <1>3 DEF Freed, IsBlock
<1>4. SameListMembers
  BY <1>1 DEF SameListMembers
<1> QED
  BY <1>1, <1>3, <1>4, KeepsList

\* The stream takes nnz over from an empty list.
LEMMA StreamKeepsList == ASSUME IInv, ListInv, create_edge_stream PROVE ListInv'
<1>1. Shape /\ Ownership /\ List /\ past' = past
  BY InUse DEF create_edge_stream
<1>2. CASE g.nnz # 0
  <2>1. heap' = heap /\ g' = g
    BY <1>2 DEF create_edge_stream
  <2>2. SameListMembers
    BY <1>1, <2>1 DEF SameListMembers
  <2> QED
    BY <1>1, <2>1, <2>2, KeepsList
<1>3. CASE g.nnz = 0
  <2>1. PICK x, a : /\ heap' = Append(heap, Block(x)) /\ a = Fresh(1)
                    /\ g' = [g EXCEPT !.nnz = g.n_edges, !.stream = a]
    BY <1>3, Zenon DEF create_edge_stream
  <2>2. heap \in Seq(ToSet(heap)) /\ Len(heap) \in Nat /\ DOMAIN heap = 1 .. Len(heap)
    BY <1>1 DEF Shape
  <2>3. \A p \in DOMAIN heap : heap'[p] = heap[p]
    BY <2>1, <2>2
  <2>4. SameListMembers /\ g'.stream # NULL
    BY <1>1, <2>1, <2>2 DEF SameListMembers, Shape, Members, Owned, Fresh, NULL
  <2> SUFFICES ASSUME g.src_list # NULL PROVE \E list, room : Made(list, room)'
    BY <2>4 DEF ListInv, SameListMembers
  <2>5. PICK list, room : Made(list, room)
    BY DEF ListInv
  <2>6. /\ heap'[g'.src_list].data = heap[g.src_list].data
        /\ ~past'.lostList => heap'[g'.dst_list].data = heap[g.dst_list].data
    BY <1>1, <2>3, <2>4, KeepsArrays
  <2>7. Wanted' = Wanted
    BY <1>1 DEF Wanted
  <2>8. Wanted = {}
    <3>1. CASE nnz = room
      <4>1. Len(list) = 0 /\ list \in Seq(Wanted) /\ ToSet(list) = Wanted
        BY <1>3, <2>5, <3>1 DEF Made, Enlists, nnz
      <4> QED
        BY <4>1 DEF ToSet
    <3> QED
      BY <2>5, <3>1 DEF Made
  <2>9. Made(list, room)'
    BY <1>1, <2>4, <2>5, <2>6, <2>7, <2>8 DEF Made, Array
  <2> QED
    BY <2>9
<1> QED
  BY <1>2, <1>3

\* A list that was just made.
LEMMA MadeNew ==
  ASSUME Data, NEW sym_break \in BOOLEAN, NEW ascend \in BOOLEAN, NEW list, NEW room,
         list = Listed([v \in V |-> Tasks(v, sym_break, ascend)]), room = Room(sym_break),
         Len(list) <= room, g'.nnz = room, heap'[g'.src_list].data = Filled(room, list, 1),
         \A e \in 0 .. Len(list) - 1 : heap'[g'.dst_list].data[e] = list[e + 1][2],
         past'.arcs = Arcs, past'.sym_break = sym_break, past'.ascend = ascend
  PROVE  ListInv'
<1>1. PICK W : W = {a \in Arcs : sym_break => IF ascend THEN a[1] < a[2] ELSE a[1] > a[2]}
  OBVIOUS
<1>2. /\ Enlists(list, W) /\ Room(sym_break) \in Nat
      /\ (sym_break => Symmetric(Arcs)) => Len(list) = Room(sym_break)
      /\ ~sym_break => \A e \in 0 .. Len(list) - 1 : Array(g.edges)[e] = list[e + 1][2]
  BY <1>1, TasksListed, ZenonT(60)
<1>3. Wanted' = W
  BY <1>1 DEF Wanted
<1>4. PICK A : A = Arcs /\ past'.arcs = A
  OBVIOUS
<1>5. Symmetric(past.arcs)' <=> Symmetric(A)
  BY <1>4 DEF Symmetric
<1>6. Made(list, room)'
  BY <1>2, <1>3, <1>4, <1>5 DEF Made, Array, nnz
<1> QED
  BY <1>6 DEF ListInv

-----------------------------------------------------------------------------
(* A new list.                                                             *)

\* What past says of a list that has just been made.
Recalls(p, s, a) ==
  p.arcs = Arcs /\ p.sym_break = s /\ p.ascend = a /\ p.lostList = FALSE /\ DOMAIN p = History

LEMMA RememberedFacts ==
  ASSUME Shape, NEW s, NEW a
  PROVE  Recalls(Remembered(s, a), s, a)
<1>1. PICK A : A = Arcs
  OBVIOUS
<1>2. PICK p : p = Remembered(s, a)
  OBVIOUS
<1>3. p = [past EXCEPT !.arcs = A, !.sym_break = s, !.ascend = a,
                       !.counted = FALSE, !.lostList = FALSE]
  BY <1>1, <1>2, Zenon DEF Remembered
<1>4. DOMAIN past = History
  BY DEF Shape
<1>5. p.arcs = A /\ p.sym_break = s /\ p.ascend = a /\ p.lostList = FALSE /\ DOMAIN p = History
  BY <1>3, <1>4 DEF History
<1> QED
  BY <1>1, <1>2, <1>5, Zenon DEF Recalls

\* One more block.
LEMMA OneBlock ==
  ASSUME NEW T, NEW h \in Seq(T), NEW b
  PROVE  /\ h \o <<b>> \in Seq(T \cup {b}) /\ Len(h \o <<b>>) = Len(h) + 1
         /\ DOMAIN h = 1 .. Len(h) /\ Len(h) \in Nat
         /\ \A p \in DOMAIN h : (h \o <<b>>)[p] = h[p]
         /\ (h \o <<b>>)[Len(h) + 1] = b
<1>1. PICK t : t = <<b>>
  OBVIOUS
<1>2. t \in Seq({b}) /\ Len(t) = 1 /\ t[1] = b /\ 1 \in 1 .. Len(t)
  BY <1>1
<1>3. /\ h \o t \in Seq(T \cup {b}) /\ Len(h \o t) = Len(h) + Len(t)
      /\ DOMAIN h = 1 .. Len(h) /\ Len(h) \in Nat
      /\ \A p \in DOMAIN h : (h \o t)[p] = h[p]
      /\ \A i \in 1 .. Len(t) : (h \o t)[Len(h) + i] = t[i]
  BY <1>2, Appended
<1>4. (h \o t)[Len(h) + 1] = b
  BY <1>2, <1>3, Zenon
<1>5. Len(h \o t) = Len(h) + 1
  BY <1>2, <1>3, Zenon
<1> QED
  BY <1>1, <1>3, <1>4, <1>5, Zenon

\* A filled array.
LEMMA FilledFacts ==
  ASSUME NEW n \in Nat, NEW list, Len(list) \in Nat, Len(list) <= n, NEW side
  PROVE  \A e \in 0 .. Len(list) - 1 : Filled(n, list, side)[e] = list[e + 1][side]
BY DEF Filled

LEMMA SimpleListMade == ASSUME IInv, Data, ListInv, init_simple_edgelist PROVE ListInv'
<1>1. Shape /\ Ownership /\ List
  BY InUse DEF init_simple_edgelist
<1>2. CASE g.nnz # 0
  <2>1. UNCHANGED <<heap, g, past>>
    BY <1>2 DEF init_simple_edgelist
  <2> QED
    BY <1>1, <2>1, KeepsList DEF SameListMembers
<1>3. CASE g.nnz = 0
  <2>1. PICK list, x, y, a, b :
          /\ list = Listed([v \in V |-> N(v)])
          /\ x = Filled(g.n_edges, list, 1) /\ y = Filled(g.n_edges, list, 2)
          /\ a = Fresh(1) /\ b = Fresh(2)
    OBVIOUS
  <2>2. /\ heap' = heap \o <<Block(x), Block(y)>>
        /\ g' = [g EXCEPT !.nnz = g.n_edges, !.src_list = a, !.dst_list = b]
        /\ past' = Remembered(FALSE, FALSE)
    BY <1>3, <2>1, Zenon DEF init_simple_edgelist
  <2>3. heap'[a].data = x /\ heap'[b].data = y
    BY <1>1, <2>1, <2>2, HeapPreserves, NewArrays
  <2>4. g'.nnz = g.n_edges /\ g'.src_list = a /\ g'.dst_list = b
    BY <1>1, <2>2 DEF Shape, Members, Owned
  <2>5. past'.arcs = Arcs /\ past'.sym_break = FALSE /\ past'.ascend = FALSE
    <3>1. Recalls(Remembered(FALSE, FALSE), FALSE, FALSE)
      BY <1>1, RememberedFacts, Zenon
    <3>2. PICK p : p = Remembered(FALSE, FALSE)
      OBVIOUS
    <3>3. Recalls(p, FALSE, FALSE) /\ past' = p
      BY <2>2, <3>1, <3>2, Zenon
    <3> QED
      BY <3>3, Zenon DEF Recalls
  <2>6. list = Listed([v \in V |-> Tasks(v, FALSE, FALSE)])
    <3>1. [v \in V |-> Tasks(v, FALSE, FALSE)] = [v \in V |-> N(v)]
      BY DEF Tasks
    <3> QED
      BY <2>1, <3>1, Zenon
  <2>7. PICK n, rows : n = g.n_vertices /\ rows = [v \in V |-> N(v)]
    OBVIOUS
  <2>8. Current(n, rows, list)
    BY <2>1, <2>7, CurrentList
  <2>9. PICK m \in Nat : m = g.n_edges /\ Len(list) = m
    BY <2>8 DEF Current
  <2>14. m = Room(FALSE)
    BY <2>9 DEF Room
  <2>10. Len(list) <= m /\ Len(list) \in Nat
    BY <2>9
  <2>11. \A e \in 0 .. Len(list) - 1 : y[e] = list[e + 1][2]
    <3>1. \A e \in 0 .. Len(list) - 1 : Filled(m, list, 2)[e] = list[e + 1][2]
      BY <2>10 DEF Filled
    <3>2. y = Filled(m, list, 2)
      BY <2>1, <2>9
    <3> QED
      BY <3>1, <3>2
  <2>12. /\ g'.nnz = m /\ heap'[g'.src_list].data = Filled(m, list, 1)
         /\ \A e \in 0 .. Len(list) - 1 : heap'[g'.dst_list].data[e] = list[e + 1][2]
    BY <2>1, <2>3, <2>4, <2>9, <2>11
  <2>13. FALSE \in BOOLEAN
    OBVIOUS
  <2> QED
    BY <2>5, <2>6, <2>10, <2>12, <2>13, <2>14, MadeNew
<1> QED
  BY <1>2, <1>3

\* The step of MakeList: an overrun, or a list with room for all its tasks.
Overruns(list, room) == Len(list) > room /\ status' = "overrun" /\ UNCHANGED <<heap, g, past>>

Fits(list, room, sym_break, ascend) ==
  /\ ~(Len(list) > room) /\ status' = status
  /\ heap' = heap \o <<Block(Filled(room, list, 1))>>
                  \o (IF sym_break THEN <<Block(Filled(room, list, 2))>> ELSE <<>>)
  /\ \E sizes : g' = [g EXCEPT !.nnz = room, !.src_list = Fresh(1),
                        !.dst_list = IF sym_break THEN Fresh(2) ELSE g.edges,
                        !.sizes = sizes]
  /\ \E k : past' = [Remembered(sym_break, ascend) EXCEPT !.sized = k, !.counted = TRUE]

LEMMA MakeListCases ==
  ASSUME NEW sym_break, NEW ascend, MakeList(sym_break, ascend),
         NEW list, list = Listed([v \in V |-> Tasks(v, sym_break, ascend)]),
         NEW room, room = Room(sym_break)
  PROVE  Overruns(list, room) \/ Fits(list, room, sym_break, ascend)
BY Zenon DEF MakeList, Room, Overruns, Fits

\* The blocks of a list that fits.
LEMMA FitsHeap ==
  ASSUME Shape, NEW sym_break \in BOOLEAN, NEW ascend, NEW list, NEW room,
         Fits(list, room, sym_break, ascend),
         NEW x, x = Filled(room, list, 1), NEW y, y = Filled(room, list, 2),
         NEW a, a = Fresh(1), NEW b, b = Fresh(2)
  PROVE  /\ heap'[a].data = x
         /\ sym_break => heap'[b].data = y
         /\ \A p \in DOMAIN heap : heap'[p] = heap[p]
<1>1. heap \in Seq(ToSet(heap)) /\ Len(heap) \in Nat
  BY DEF Shape
<1>2. CASE sym_break
  <2>1. heap' = heap \o <<Block(x)>> \o <<Block(y)>>
    BY <1>2, Zenon DEF Fits
  <2>2. PICK c, d, m : c = Block(x) /\ d = Block(y) /\ m = heap \o <<c>>
    OBVIOUS
  <2>3. /\ m \in Seq(ToSet(heap) \cup {c}) /\ Len(m) = Len(heap) + 1
        /\ \A p \in DOMAIN heap : m[p] = heap[p]
        /\ m[Len(heap) + 1] = c /\ DOMAIN heap = 1 .. Len(heap)
    BY <1>1, <2>2, OneBlock
  <2>4. /\ DOMAIN m = 1 .. Len(m) /\ \A p \in DOMAIN m : (m \o <<d>>)[p] = m[p]
        /\ (m \o <<d>>)[Len(m) + 1] = d
    BY <2>3, OneBlock
  <2>5. heap' = m \o <<d>>
    BY <2>1, <2>2, Zenon
  <2>6. a = Len(heap) + 1 /\ b = Len(m) + 1 /\ Len(heap) + 1 \in DOMAIN m
        /\ \A p \in DOMAIN heap : p \in DOMAIN m
    BY <1>1, <2>3, <2>4 DEF Fresh
  <2>7. heap'[a] = c /\ heap'[b] = d /\ \A p \in DOMAIN heap : heap'[p] = heap[p]
    BY <2>3, <2>4, <2>5, <2>6, Zenon
  <2> QED
    BY <2>2, <2>7 DEF Block
<1>3. CASE ~sym_break
  <2>1. heap' = (heap \o <<Block(x)>>) \o <<>>
    BY <1>3, Zenon DEF Fits
  <2>2. PICK t : t = <<Block(x)>>
    OBVIOUS
  <2>3. t \in Seq({Block(x)}) /\ Len(t) = 1 /\ t[1] = Block(x) /\ 1 \in 1 .. Len(t)
    BY <2>2
  <2>4. /\ heap \o t \in Seq(ToSet(heap) \cup {Block(x)})
        /\ \A p \in DOMAIN heap : (heap \o t)[p] = heap[p]
        /\ \A i \in 1 .. Len(t) : (heap \o t)[Len(heap) + i] = t[i]
    BY <1>1, <2>3, Appended
  <2>5. heap' = heap \o t
    BY <2>1, <2>2, <2>4
  <2>6. heap'[a] = Block(x)
    BY <2>3, <2>4, <2>5 DEF Fresh
  <2> QED
    BY <1>3, <2>4, <2>5, <2>6 DEF Block
<1> QED
  BY <1>2, <1>3

LEMMA MakeListMade ==
  ASSUME IInv, Data, ListInv, status = "ok", NEW sym_break \in BOOLEAN, NEW ascend \in BOOLEAN,
         MakeList(sym_break, ascend)
  PROVE  /\ ListInv' /\ status' \in {"ok", "overrun"}
         /\ status' = "overrun" => ~Symmetric(Arcs) /\ UNCHANGED <<heap, g, past>>
<1>1. Shape /\ Ownership /\ List
  BY DEF IInv, Deleted
<1>2. PICK list, room, W :
        /\ list = Listed([v \in V |-> Tasks(v, sym_break, ascend)]) /\ room = Room(sym_break)
        /\ W = {a \in Arcs : sym_break => IF ascend THEN a[1] < a[2] ELSE a[1] > a[2]}
  OBVIOUS
<1>3. /\ Enlists(list, W) /\ room \in Nat
      /\ (sym_break => Symmetric(Arcs)) => Len(list) = room
      /\ ~sym_break => \A e \in 0 .. Len(list) - 1 : Array(g.edges)[e] = list[e + 1][2]
  BY <1>2, TasksListed, ZenonT(60)
<1>4. Len(list) \in Nat
  BY <1>3 DEF Enlists
<1>5. CASE Overruns(list, room)
  <2>1. ListInv'
    BY <1>1, <1>5, KeepsList DEF SameListMembers, Overruns
  <2>2. ~Symmetric(Arcs)
    BY <1>3, <1>4, <1>5 DEF Overruns
  <2> QED
    BY <1>5, <2>1, <2>2 DEF Overruns
<1>6. CASE Fits(list, room, sym_break, ascend)
  <2>1. PICK x, y, a, b, dst : /\ x = Filled(room, list, 1) /\ y = Filled(room, list, 2)
                               /\ a = Fresh(1) /\ b = Fresh(2)
                               /\ dst = (IF sym_break THEN b ELSE g.edges)
    OBVIOUS
  <2>2. PICK sizes : g' = [g EXCEPT !.nnz = room, !.src_list = a, !.dst_list = dst,
                                    !.sizes = sizes]
    BY <1>6, <2>1, Zenon DEF Fits
  <2>3. g'.nnz = room /\ g'.src_list = a /\ g'.dst_list = dst
    BY <1>1, <2>2 DEF Shape, Members, Owned
  <2>4. past'.arcs = Arcs /\ past'.sym_break = sym_break /\ past'.ascend = ascend
    <3>1. PICK p : p = Remembered(sym_break, ascend)
      OBVIOUS
    <3>2. PICK k : past' = [p EXCEPT !.sized = k, !.counted = TRUE]
      BY <1>6, <3>1 DEF Fits
    <3>3. Recalls(p, sym_break, ascend)
      BY <1>1, <3>1, RememberedFacts, Zenon
    <3>4. PICK A : A = Arcs /\ p.arcs = A /\ p.sym_break = sym_break /\ p.ascend = ascend
      BY <3>3, Zenon DEF Recalls
    <3>5. DOMAIN p = History
      BY <3>3, Zenon DEF Recalls
    <3>6. past'.arcs = A /\ past'.sym_break = sym_break /\ past'.ascend = ascend
      BY <3>2, <3>4, <3>5 DEF History
    <3> QED
      BY <3>4, <3>6
  <2>5. Len(list) <= room
    BY <1>3, <1>4, <1>6 DEF Fits
  <2>6. /\ heap'[a].data = x
        /\ sym_break => heap'[b].data = y
        /\ \A p \in DOMAIN heap : heap'[p] = heap[p]
    BY <1>1, <1>6, <2>1, FitsHeap
  <2>7. \A e \in 0 .. Len(list) - 1 : heap'[dst].data[e] = list[e + 1][2]
    <3>1. CASE sym_break
      <4>1. heap'[dst].data = y
        BY <2>1, <2>6, <3>1
      <4>2. \A e \in 0 .. Len(list) - 1 : y[e] = list[e + 1][2]
        BY <1>3, <1>4, <2>1, <2>5, FilledFacts
      <4> QED
        BY <4>1, <4>2
    <3>2. CASE ~sym_break
      <4>1. heap'[dst] = heap[g.edges]
        BY <1>1, <2>1, <2>6, <3>2, ArrayPointers
      <4> QED
        BY <1>3, <3>2, <4>1 DEF Array
    <3> QED
      BY <3>1, <3>2
  <2>8. ListInv'
    <3>1. /\ heap'[g'.src_list].data = Filled(room, list, 1)
          /\ \A e \in 0 .. Len(list) - 1 : heap'[g'.dst_list].data[e] = list[e + 1][2]
      BY <2>1, <2>3, <2>6, <2>7
    <3> QED
      BY <1>2, <2>3, <2>4, <2>5, <3>1, MadeNew
  <2> QED
    BY <1>6, <2>8 DEF Fits
<1> QED
  BY <1>2, <1>5, <1>6, MakeListCases

-----------------------------------------------------------------------------
(* The list stays exact.                                                   *)

LEMMA CallGraphListInv ==
  ASSUME IInv, Data, ListInv, CallGraph
  PROVE  ListInv' /\ (status' = "overrun" => ~Symmetric(Arcs) /\ UNCHANGED <<heap, g, past>>)
<1>1. GraphStep
  BY DEF CallGraph
<1>2. ASSUME NEW buffers, Orient(buffers) PROVE ListInv' /\ status' = "ok"
  BY <1>2, OrientationKeepsList DEF Orient, Called
<1>3. CASE swap_graph_mode
  <2>1. CASE Swaps
    BY <2>1, SwapKeepsList DEF Swaps, Called
  <2>2. CASE SwapFails
    <3>1. Shape /\ Ownership /\ List /\ status' # "overrun"
      BY <2>2, InUse DEF SwapFails
    <3>2. ListInv'
      BY <2>2, <3>1, KeepsList DEF SwapFails, SameListMembers
    <3> QED
      BY <3>1, <3>2
  <2> QED
    BY <1>3, <2>1, <2>2, SwapCases
<1>4. ASSUME NEW c, color_sparsify_fast(c) PROVE ListInv' /\ status' = "ok"
  BY <1>4, SparsifyFastKeepsList DEF color_sparsify_fast, Called
<1>5. ASSUME NEW c, color_sparsify_fast_d(c) PROVE ListInv' /\ status' = "ok"
  BY <1>5, SparsifyFastDKeepsList DEF color_sparsify_fast_d, Called
<1>6. ASSUME NEW c, color_sparsify(c) PROVE ListInv' /\ status' = "ok"
  BY <1>6, SparsifyKeepsList DEF color_sparsify, Called
<1>7. CASE init_simple_edgelist
  BY <1>7, SimpleListMade DEF init_simple_edgelist, Called
<1>8. CASE create_edge_stream
  BY <1>8, StreamKeepsList DEF create_edge_stream, Called
<1>9. ASSUME NEW s \in BOOLEAN, NEW a \in BOOLEAN, init_edgelist(s, a)
      PROVE  ListInv' /\ (status' = "overrun" => ~Symmetric(Arcs) /\ UNCHANGED <<heap, g, past>>)
  <2>1. status = "ok" /\ (MakeList(s, a) \/ UNCHANGED <<heap, g, status, past>>)
    BY <1>9 DEF init_edgelist, Called
  <2>2. CASE MakeList(s, a)
    BY <2>1, <2>2, MakeListMade
  <2>3. CASE UNCHANGED <<heap, g, status, past>>
    <3>1. Shape /\ Ownership /\ List
      BY <2>1 DEF IInv, Deleted
    <3>2. ListInv'
      BY <2>3, <3>1, KeepsList DEF SameListMembers
    <3> QED
      BY <2>1, <2>3, <3>2
  <2> QED
    BY <2>1, <2>2, <2>3
<1>10. ASSUME NEW s \in BOOLEAN, NEW a \in BOOLEAN, reinit_edgelist(s, a)
       PROVE  ListInv' /\ (status' = "overrun" => ~Symmetric(Arcs) /\ UNCHANGED <<heap, g, past>>)
  <2>1. status = "ok" /\ MakeList(s, a)
    BY <1>10 DEF reinit_edgelist, Called
  <2> QED
    BY <2>1, MakeListMade
<1>11. CASE destroy
  <2>1. status' # "overrun"
    BY <1>11 DEF destroy
  <2> QED
    BY <1>11, <2>1, DestroyKeepsList
<1>12. "ok" # "overrun"
  OBVIOUS
<1> QED
  BY <1>1, <1>2, <1>3, <1>4, <1>5, <1>6, <1>7, <1>8, <1>9, <1>10, <1>11, <1>12, Zenon
     DEF GraphStep, use_dag, orientation

LEMMA NextListInv == IInv /\ Data /\ ListInv /\ [Next]_vars => ListInv'
<1> SUFFICES ASSUME IInv, Data, ListInv, [Next]_vars PROVE ListInv'
  OBVIOUS
<1>1. CASE UNCHANGED <<heap, g, past>>
  <2> SUFFICES ASSUME g.src_list # NULL PROVE \E list, room : Made(list, room)'
    BY <1>1 DEF ListInv
  <2>1. PICK list, room : Made(list, room)
    BY DEF ListInv
  <2>2. Wanted' = Wanted
    BY <1>1 DEF Wanted
  <2>3. Made(list, room)'
    BY <1>1, <2>1, <2>2 DEF Made, Array, nnz
  <2> QED
    BY <2>3
<1> QED
  BY <1>1, ObjectKept, CallGraphListInv

LEMMA InitListInv == SplitInit => ListInv
<1> SUFFICES ASSUME SplitInit PROVE ListInv
  OBVIOUS
<1>1. PICK nv, m, rv, re, deg :
        g = [n_vertices |-> nv, n_edges |-> m,
             vertices |-> 1, edges |-> 2, reverse_vertices |-> rv, reverse_edges |-> re,
             vertices_c |-> NULL, edges_c |-> NULL, n_edges_c |-> 0,
             src_list |-> NULL, dst_list |-> NULL, stream |-> NULL,
             nnz |-> 0, sizes |-> <<>>, max_degree |-> deg,
             MAX_DEGREE |-> Max({deg, 1})]
  BY ZenonT(60) DEF SplitInit, Init
<1>2. g.src_list = NULL
  BY <1>1
<1> QED
  BY <1>2 DEF ListInv

(***************************************************************************)
(* The arrays of a list keep what the loops of init_edgelist put there     *)
(* (graph.cc), through any calls of the methods of Graph, and nnz stays    *)
(* their length; but for an empty list, after which create_edge_stream     *)
(* finds nnz = 0 and sets it to the length of the stream.                  *)
(***************************************************************************)
THEOREM SplitListInv == Spec => []ListInv
BY InitListInv, NextListInv, SplitInvariant, SplitData, PTL DEF Spec

(***************************************************************************)
(* A list holds every arc of the graph it was made from once, with         *)
(* sym_break every edge once (init_edgelist and init_simple_edgelist of    *)
(* graph.cc), whatever reductions follow, for every graph and any number   *)
(* of calls: all that can spoil it is what ListExact names.                *)
(***************************************************************************)
THEOREM SplitListExact == Spec => []ListExact
<1>1. ListInv => ListExact
  <2> SUFFICES ASSUME ListInv, g.src_list # NULL, ~past.lostList,
                      past.sym_break => Symmetric(past.arcs), Wanted = {} => g.stream = NULL
               PROVE  /\ {<<Src(e), Dst(e)>> : e \in 0 .. nnz - 1} = Wanted
                      /\ nnz = Cardinality(Wanted)
    BY DEF ListExact
  <2>1. PICK list, room : Made(list, room)
    BY DEF ListInv
  <2>2. PICK l \in Nat : l = Len(list) /\ l = room /\ l = nnz /\ l = Cardinality(Wanted)
    BY <2>1 DEF Made, Enlists
  <2>3. list \in Seq(Wanted) /\ ToSet(list) = Wanted /\ DOMAIN list = 1 .. l
    BY <2>1, <2>2 DEF Made, Enlists
  <2>4. \A e \in 0 .. l - 1 : <<Src(e), Dst(e)>> = list[e + 1]
    <3> SUFFICES ASSUME NEW e \in 0 .. l - 1 PROVE <<Src(e), Dst(e)>> = list[e + 1]
      OBVIOUS
    <3>1. Src(e) = list[e + 1][1] /\ list[e + 1] = <<list[e + 1][1], list[e + 1][2]>>
      BY <2>1, <2>2, MadeFacts
    <3>2. Dst(e) = list[e + 1][2]
      BY <2>1, <2>2 DEF Made, Dst
    <3> QED
      BY <3>1, <3>2
  <2>5. {<<Src(e), Dst(e)>> : e \in 0 .. l - 1} = {list[e + 1] : e \in 0 .. l - 1}
    BY <2>4
  <2>6. {list[e + 1] : e \in 0 .. l - 1} = {list[i] : i \in 1 .. l}
    <3>1. ASSUME NEW i \in 1 .. l PROVE \E e \in 0 .. l - 1 : list[i] = list[e + 1]
      <4>1. i - 1 \in 0 .. l - 1 /\ (i - 1) + 1 = i
        OBVIOUS
      <4> QED
        BY <4>1
    <3>2. ASSUME NEW e \in 0 .. l - 1 PROVE e + 1 \in 1 .. l
      OBVIOUS
    <3> QED
      BY <3>1, <3>2
  <2>7. {list[i] : i \in 1 .. l} = Wanted
    BY <2>3 DEF ToSet
  <2> QED
    BY <2>2, <2>5, <2>6, <2>7
<1> QED
  BY <1>1, SplitListInv, PTL

-----------------------------------------------------------------------------
(* What stops a call, the rest of the reasons.                             *)

\* The other reasons that FaultsExplained gives.
Reasons ==
  /\ status = "overrun" => ~Symmetric(Arcs)
  /\ status = "unset" => past.sym_break /\ ~Symmetric(past.arcs)
  /\ status = "past_end" => g.stream # NULL /\ Wanted = {}
  /\ status = "out_of_bounds" => g.n_vertices % num_subgraphs # 0

\* The current arcs depend on the object alone.
LEMMA SameArcs == ASSUME UNCHANGED <<heap, g>> PROVE Symmetric(Arcs)' <=> Symmetric(Arcs)
BY DEF Symmetric, Arcs, N, Row, Array, V

LEMMA UnsetReason ==
  ASSUME ListInv, Unusable = "ok", nnz \in Nat, NEW e \in Nat, e < nnz, Src(e) = Unset
  PROVE  past.sym_break /\ ~Symmetric(past.arcs)
<1>1. g.src_list # NULL
  BY DEF Unusable
<1>2. PICK list, room : Made(list, room)
  BY <1>1 DEF ListInv
<1>3. /\ Cardinality(DOMAIN Array(g.src_list)) = room
      /\ \A i \in 0 .. Len(list) - 1 : Src(i) \in Nat
  BY <1>2, MadeFacts
<1>4. Len(list) \in Nat /\ room \in Nat
  BY <1>2 DEF Made, Enlists
<1>5. ~(room < nnz)
  BY <1>1, <1>3 DEF Unusable
<1>6. e < room
  BY <1>4, <1>5
<1>7. Len(list) # room
  <2> SUFFICES ASSUME Len(list) = room PROVE FALSE
    OBVIOUS
  <2>1. e \in 0 .. Len(list) - 1
    BY <1>4, <1>6
  <2> QED
    BY <1>3, <2>1 DEF Unset
<1> QED
  BY <1>2, <1>7 DEF Made

LEMMA PastEndReason ==
  ASSUME ListInv, Unusable = "past_end", nnz \in Nat
  PROVE  g.stream # NULL /\ Wanted = {}
<1>1. g.src_list # NULL /\ Cardinality(DOMAIN Array(g.src_list)) < nnz
  BY DEF Unusable
<1>2. PICK list, room : Made(list, room)
  BY <1>1 DEF ListInv
<1>3. Cardinality(DOMAIN Array(g.src_list)) = room
  BY <1>2, MadeFacts
<1> QED
  BY <1>1, <1>2, <1>3 DEF Made

\* Equal ranges have room for every vertex.
LEMMA OutOfBounds ==
  ASSUME NEW nv \in Nat \ {0}, NEW n \in Nat \ {0}, nv % n = 0, NEW u \in 0 .. nv - 1,
         nv \div n > 0
  PROVE  ~(u \div (nv \div n) >= n)
<1>1. nv \div n \in Nat /\ nv = (nv \div n) * n + (nv % n)
  BY Euclid
<1>2. PICK size : size = nv \div n
  OBVIOUS
<1>3. size \in Nat \ {0} /\ nv = size * n
  BY <1>1, <1>2
<1>4. u \div size \in Nat /\ (u % size) \in 0 .. size - 1 /\ u = (u \div size) * size + (u % size)
  <2>1. u \in Nat
    OBVIOUS
  <2> QED
    BY <1>3, <2>1, Euclid
<1>5. PICK q, r : q = u \div size /\ r = u % size
  OBVIOUS
<1>6. q \in Nat /\ r \in Nat /\ u = q * size + r /\ u < size * n
  BY <1>3, <1>4, <1>5
<1>7. ASSUME q >= n PROVE FALSE
  <2>1. PICK d \in Nat : q = n + d
    <3>1. q - n \in Nat /\ q = n + (q - n)
      BY <1>6, <1>7
    <3> QED
      BY <3>1
  <2>2. q * size = n * size + d * size /\ d * size \in Nat /\ n * size = size * n
    BY <1>3, <2>1
  <2> QED
    BY <1>3, <1>6, <2>2
<1>8. ~(q >= n)
  BY <1>7
<1> QED
  BY <1>2, <1>5, <1>8

LEMMA SchedulerReasons ==
  ASSUME Undisturbed, Counts, Job, Lists, ListInv, SchedulerStep, UNCHANGED pvars
  PROVE  Reasons'
<1>1. nnz \in Nat /\ MinTasks \in Nat
  BY MinTasksAssumption DEF Counts, nnz
<1>2. UNCHANGED <<heap, g, past, calls>>
  BY SchedulerKeeps
<1>3. Wanted' = Wanted
  BY <1>2 DEF Wanted
<1>4. ASSUME status' \notin {"overrun", "unset", "past_end", "out_of_bounds"} PROVE Reasons'
  BY <1>4 DEF Reasons
<1>5. ASSUME NEW e \in Nat, e < nnz, Unusable = "ok", Src(e) = Unset, Fails("unset") PROVE Reasons'
  <2>1. past.sym_break /\ ~Symmetric(past.arcs)
    BY <1>1, <1>5, UnsetReason
  <2>2. status' = "unset"
    BY <1>5 DEF Fails
  <2>3. past.sym_break' /\ ~Symmetric(past.arcs)'
    BY <1>2, <2>1 DEF Symmetric
  <2> QED
    BY <2>2, <2>3 DEF Reasons
<1>6. ASSUME Unusable # "ok", Fails(Unusable) PROVE Reasons'
  <2>1. status' = Unusable
    BY <1>6 DEF Fails
  <2>2. Unusable \in {"null", "freed", "past_end"}
    BY <1>6, UnusableType
  <2>3. CASE Unusable = "past_end"
    <3>1. g.stream # NULL /\ Wanted = {}
      BY <1>1, <2>3, PastEndReason
    <3> QED
      BY <1>2, <1>3, <2>1, <2>3, <3>1 DEF Reasons
  <2> QED
    BY <1>4, <2>1, <2>2, <2>3
<1>7. \/ status' = status /\ status = "ok"
      \/ Fails("assert") \/ Fails("sizes")
      \/ Unusable # "ok" /\ Fails(Unusable)
      \/ \E e \in Nat : e < nnz /\ Unusable = "ok" /\ Src(e) = Unset /\ Fails("unset")
  <2>1. CASE round_robin
    BY <2>1 DEF round_robin, Undisturbed, gvars
  <2>2. CASE CopyRest \/ \E c \in todo : CopyChunk(c)
    BY <2>2 DEF CopyRest, CopyChunk, Undisturbed, gvars
  <2>3. CASE vertex_chunking
    BY <2>3 DEF vertex_chunking, Undisturbed, gvars
  <2>4. CASE AppendTask
    <3>1. pos \in Nat /\ pos < nnz /\ status = "ok"
      BY <2>4 DEF AppendTask, Lists, Undisturbed
    <3> QED
      BY <2>4, <3>1 DEF AppendTask, gvars
  <2>5. CASE AppendEnd \/ NextChunk \/ LastChunk
    BY <2>5 DEF AppendEnd, NextChunk, LastChunk, Undisturbed, gvars
  <2>6. CASE least_first
    <3>1. status = "ok"
      BY <2>6 DEF least_first, Undisturbed
    <3>2. CASE nnz > MinTasks /\ Unusable = "ok" /\ Src(estimated - 1) = Unset
      <4>3. nnz \in Nat \ {0} /\ job.n \in Nat \ {0} /\ job.stride \in Nat \ {0}
        BY <1>1, <2>6, <3>2 DEF Job, least_first
      <4>1. estimated - 1 \in Nat /\ estimated - 1 < nnz
        BY <4>3, EstimatedFacts
      <4>2. Fails("unset")
        BY <1>1, <2>6, <3>2 DEF least_first
      <4> QED
        BY <3>2, <4>1, <4>2
    <3> QED
      BY <1>1, <2>6, <3>1, <3>2 DEF least_first, gvars
  <2> QED
    BY <2>1, <2>2, <2>3, <2>4, <2>5, <2>6, Zenon DEF SchedulerStep
<1> QED
  BY <1>4, <1>5, <1>6, <1>7 DEF Fails

LEMMA PartitionReasons == ASSUME Data, Partition PROVE Reasons'
<1>1. PICK n \in 2 .. MaxSubgraphs : edgecut_induced_partition1D(n) \/ csr_segmenting(n)
  BY DEF Partition
<1>2. n \in Nat \ {0} /\ g.n_vertices \in Nat \ {0}
  BY DEF Data
<1>3. g' = g /\ num_subgraphs' = n
  BY <1>1 DEF edgecut_induced_partition1D, csr_segmenting, gvars
<1>4. PICK nv, heads : nv = g.n_vertices /\ heads = UNION {Heads(v) : v \in V}
  OBVIOUS
<1>5. \/ status' \in {"ok", "division"}
      \/ status' = "out_of_bounds" /\ nv \div n > 0 /\ \E u \in heads : u \div (nv \div n) >= n
  BY <1>1, <1>4 DEF edgecut_induced_partition1D, csr_segmenting, gvars
<1>6. heads \subseteq 0 .. nv - 1
  <2>1. ASSUME NEW v \in V PROVE Heads(v) \subseteq V
    <3>1. N(v) \in Seq(V \ {v})
      BY NFacts
    <3> QED
      BY <3>1 DEF Heads, ToSet
  <2> QED
    BY <1>4, <2>1 DEF V
<1>7. status' = "out_of_bounds" => nv % n # 0
  <2> SUFFICES ASSUME status' = "out_of_bounds", nv % n = 0 PROVE FALSE
    OBVIOUS
  <2>1. PICK u \in heads : nv \div n > 0 /\ u \div (nv \div n) >= n
    BY <1>5
  <2>2. u \in 0 .. nv - 1 /\ nv \in Nat \ {0}
    BY <1>2, <1>4, <1>6
  <2> QED
    BY <1>2, <2>1, <2>2, OutOfBounds
<1>8. status' \in {"ok", "division", "out_of_bounds"}
  BY <1>5
<1> QED
  BY <1>3, <1>4, <1>7, <1>8 DEF Reasons

LEMMA CallGraphReasons == ASSUME IInv, Data, ListInv, CallGraph PROVE Reasons'
<1>1. GraphStep
  BY DEF CallGraph
<1>2. ASSUME NEW s, NEW a, MakeList(s, a), status = "ok" PROVE status' \in {"ok", "overrun"}
  BY <1>2 DEF MakeList
<1>3. ASSUME NEW s, NEW a, init_edgelist(s, a) \/ reinit_edgelist(s, a)
      PROVE  status' \in {"ok", "overrun"}
  <2>1. status = "ok" /\ (MakeList(s, a) \/ status' = status)
    BY <1>3 DEF init_edgelist, reinit_edgelist, Called
  <2> QED
    BY <1>2, <2>1
<1>4. ASSUME NEW c, color_sparsify_fast(c) \/ color_sparsify_fast_d(c) \/ color_sparsify(c)
      PROVE  status' = "ok"
  BY <1>4 DEF color_sparsify_fast, color_sparsify_fast_d, color_sparsify, Called
<1>5. ASSUME \/ use_dag \/ orientation \/ swap_graph_mode
             \/ init_simple_edgelist \/ create_edge_stream
      PROVE  Reasons'
  <2>1. status' \in {"ok", "uninitialized"}
    BY <1>5 DEF use_dag, orientation, Orient, swap_graph_mode, init_simple_edgelist,
                create_edge_stream, Called
  <2> QED
    BY <2>1 DEF Reasons
<1>6. CASE destroy
  <2>1. status' \in {"destroyed", "double_free"}
    BY <1>6 DEF destroy
  <2> QED
    BY <2>1 DEF Reasons
<1>7. ASSUME status' \in {"ok", "overrun"} PROVE Reasons'
  <2>1. CASE status' = "overrun"
    <3>1. ~Symmetric(Arcs) /\ UNCHANGED <<heap, g, past>>
      BY <2>1, CallGraphListInv
    <3>2. ~Symmetric(Arcs)'
      BY <3>1, SameArcs
    <3> QED
      BY <2>1, <3>2 DEF Reasons
  <2> QED
    BY <1>7, <2>1 DEF Reasons
<1>8. "ok" \in {"ok", "overrun"}
  OBVIOUS
<1> QED
  BY <1>1, <1>3, <1>4, <1>5, <1>6, <1>7, <1>8, Zenon DEF GraphStep

LEMMA NextReasons ==
  IInv /\ Data /\ Counts /\ Job /\ Lists /\ ListInv /\ Reasons /\ [Next]_vars => Reasons'
<1> SUFFICES ASSUME IInv, Data, Counts, Job, Lists, ListInv, Reasons, [Next]_vars PROVE Reasons'
  OBVIOUS
<1>1. CASE CallGraph
  BY <1>1, CallGraphReasons
<1>2. CASE CallScheduler
  <2>1. status' = "ok"
    BY <1>2 DEF CallScheduler, Split, gvars
  <2> QED
    BY <2>1 DEF Reasons
<1>3. CASE CallPartition
  BY <1>3, PartitionReasons DEF CallPartition
<1>4. CASE SchedulerStep /\ UNCHANGED pvars
  BY <1>4, SchedulerReasons DEF IInv
<1>5. ASSUME UNCHANGED gvars, num_subgraphs' = num_subgraphs PROVE Reasons'
  <2>1. Symmetric(Arcs)' <=> Symmetric(Arcs)
    BY <1>5, SameArcs DEF gvars
  <2>2. Wanted' = Wanted /\ (Symmetric(past.arcs)' <=> Symmetric(past.arcs))
    BY <1>5 DEF gvars, Wanted, Symmetric
  <2> QED
    BY <1>5, <2>1, <2>2 DEF gvars, Reasons
<1>6. CASE PartitionStep
  <2>1. UNCHANGED gvars /\ num_subgraphs' = num_subgraphs
    BY <1>6 DEF PartitionStep, BuildSubgraph, Mark, SegmentVertex, SegmentEnd
  <2> QED
    BY <1>5, <2>1
<1>7. CASE UNCHANGED vars
  BY <1>5, <1>7 DEF vars, pvars
<1> QED
  BY <1>1, <1>2, <1>3, <1>4, <1>6, <1>7, Zenon DEF Next, Working

(***************************************************************************)
(* Whatever goes wrong in the graph, the scheduler or the partitioner does *)
(* so for the reason that FaultsExplained gives, for every graph and any   *)
(* number of calls.  With SplitFirstFaults: init_edgelist writes past its  *)
(* arrays (graph.cc), and leaves cells of them unwritten that a scheduler  *)
(* reads, only with sym_break on a graph that is not symmetric; a list is  *)
(* read past its end only where a stream took nnz over from an empty one;  *)
(* and csr_segmenting (graph_partition.cc) counts past its arrays only if  *)
(* the segments do not divide the vertices, and stores past a segment's    *)
(* row pointers only at the segment's last row.                            *)
(***************************************************************************)
THEOREM SplitFaultsExplained == Spec => []FaultsExplained
<1>1. Spec => []Lists
  <2>1. RoundRobinInv => Counts
    BY DEF RoundRobinInv
  <2> QED
    BY <2>1, InitLists, NextLists, SplitInvariant, SplitRoundRobin, PTL DEF Spec
<1>2. SplitInit => Reasons
  <2>1. SplitInit => status = "ok"
    BY DEF SplitInit, Init
  <2> QED
    BY <2>1 DEF Reasons
<1>3. RoundRobinInv => Counts /\ Job
  BY DEF RoundRobinInv
<1>4. Spec => []Reasons
  BY <1>1, <1>2, <1>3, NextReasons, SplitInvariant, SplitData, SplitListInv, SplitRoundRobin, PTL
     DEF Spec
<1>5. /\ Reasons
      /\ status \notin {"overrun", "unset", "past_end", "out_of_bounds"} => StatusExplained
      => StatusExplained
  BY DEF Reasons, StatusExplained
<1>6. Segments => StrayExplained
  BY DEF Segments, StrayExplained
<1>7. StatusExplained /\ StrayExplained => FaultsExplained
  BY DEF FaultsExplained
<1> QED
  BY <1>4, <1>5, <1>6, <1>7, SplitFirstFaults, SplitSegments, PTL

-----------------------------------------------------------------------------
(***************************************************************************)
(* Handing tasks to queues.  The tasks before p are in the first len[q]    *)
(* cells of the queues q, each in one of them, and in order.               *)
(***************************************************************************)
Lengths(len, n) == \A q \in 0 .. n - 1 : len[q] \in Nat
OnlyThese(f, len, p, n) ==
  \A q \in 0 .. n - 1 : \A k \in 0 .. len[q] - 1 : f[q][k] \in 0 .. p - 1
AllOfThese(f, len, p, n) ==
  \A t \in 0 .. p - 1 : \E q \in 0 .. n - 1 : \E k \in 0 .. len[q] - 1 : f[q][k] = t
OneCellEach(f, len, n) ==
  \A q, r \in 0 .. n - 1 : \A k \in 0 .. len[q] - 1, l \in 0 .. len[r] - 1 :
    f[q][k] = f[r][l] => q = r /\ k = l
InOrder(f, len, n) ==
  \A q \in 0 .. n - 1 : \A k, l \in 0 .. len[q] - 1 : k < l => f[q][k] < f[q][l]

Holding(f, len, p, n) ==
  /\ Lengths(len, n) /\ OnlyThese(f, len, p, n) /\ AllOfThese(f, len, p, n)
  /\ OneCellEach(f, len, n) /\ InOrder(f, len, n)

\* The next size tasks go to the end of queue q.
Handed(f, len, p, n, q, size, h, new) ==
  /\ new[q] = len[q] + size
  /\ \A k \in 0 .. len[q] - 1 : h[q][k] = f[q][k]
  /\ \A j \in 0 .. size - 1 : h[q][len[q] + j] = p + j
  /\ \A r \in (0 .. n - 1) \ {q} : new[r] = len[r] /\ h[r] = f[r]

\* Handing the next size tasks to the end of one queue keeps Holding.
LEMMA HandedHolding ==
  ASSUME NEW f, NEW len, NEW p \in Nat, NEW n \in Nat, Holding(f, len, p, n),
         NEW q \in 0 .. n - 1, NEW size \in Nat, NEW h, NEW new,
         Handed(f, len, p, n, q, size, h, new)
  PROVE  Holding(h, new, p + size, n)
<1>1. len[q] \in Nat /\ new[q] = len[q] + size
  BY DEF Holding, Lengths, OnlyThese, Handed
\* A cell is old or one of the new ones of q.
<1>2. ASSUME NEW r \in 0 .. n - 1, NEW k \in 0 .. new[r] - 1
      PROVE  \/ k \in 0 .. len[r] - 1 /\ h[r][k] = f[r][k] /\ f[r][k] \in 0 .. p - 1
             \/ r = q /\ k \in len[q] .. len[q] + size - 1 /\ h[q][k] = p + (k - len[q])
  <2>1. CASE k \in 0 .. len[r] - 1
    BY <2>1 DEF Holding, Lengths, OnlyThese, Handed
  <2>2. CASE k \notin 0 .. len[r] - 1
    <3>1. r = q
      BY <2>2 DEF Handed
    <3>2. k - len[q] \in 0 .. size - 1 /\ len[q] + (k - len[q]) = k
      BY <1>1, <2>2, <3>1
    <3>3. h[q][len[q] + (k - len[q])] = p + (k - len[q])
      BY <3>2 DEF Handed
    <3> QED
      BY <1>1, <3>1, <3>2, <3>3
  <2> QED
    BY <2>1, <2>2
<1>3. \A r \in 0 .. n - 1 : new[r] \in Nat /\ len[r] \in Nat /\ len[r] <= new[r]
  BY <1>1 DEF Holding, Lengths, OnlyThese, Handed
<1>4. \A r \in 0 .. n - 1 : \A k \in 0 .. new[r] - 1 : h[r][k] \in 0 .. p + size - 1
  BY <1>1, <1>2
<1>5. ASSUME NEW t \in 0 .. p + size - 1
      PROVE  \E r \in 0 .. n - 1 : \E k \in 0 .. new[r] - 1 : h[r][k] = t
  <2>1. CASE t < p
    <3>1. PICK r \in 0 .. n - 1 : \E k \in 0 .. len[r] - 1 : f[r][k] = t
      BY <2>1 DEF Holding, AllOfThese
    <3>2. PICK k \in 0 .. len[r] - 1 : f[r][k] = t
      BY <3>1
    <3>3. k \in 0 .. new[r] - 1
      BY <1>3
    <3>4. h[r][k] = f[r][k]
      BY DEF Handed
    <3> QED
      BY <3>2, <3>3, <3>4
  <2>2. CASE ~(t < p)
    <3>1. t - p \in 0 .. size - 1 /\ p + (t - p) = t
      BY <2>2
    <3>2. h[q][len[q] + (t - p)] = t
      BY <3>1 DEF Handed
    <3>3. len[q] + (t - p) \in 0 .. new[q] - 1
      BY <1>1, <3>1
    <3> QED
      BY <3>2, <3>3
  <2> QED
    BY <2>1, <2>2
<1>6. ASSUME NEW r \in 0 .. n - 1, NEW u \in 0 .. n - 1, NEW k \in 0 .. new[r] - 1,
             NEW l \in 0 .. new[u] - 1, h[r][k] = h[u][l]
      PROVE  r = u /\ k = l
  <2>1. \/ k \in 0 .. len[r] - 1 /\ h[r][k] = f[r][k] /\ f[r][k] \in 0 .. p - 1
        \/ r = q /\ k \in len[q] .. len[q] + size - 1 /\ h[q][k] = p + (k - len[q])
    BY <1>2
  <2>2. \/ l \in 0 .. len[u] - 1 /\ h[u][l] = f[u][l] /\ f[u][l] \in 0 .. p - 1
        \/ u = q /\ l \in len[q] .. len[q] + size - 1 /\ h[q][l] = p + (l - len[q])
    BY <1>2
  <2>3. CASE k \in 0 .. len[r] - 1 /\ h[r][k] = f[r][k] /\ l \in 0 .. len[u] - 1 /\ h[u][l] = f[u][l]
    <3>1. f[r][k] = f[u][l]
      BY <1>6, <2>3, Zenon
    <3> QED
      <4>1. \A a, b \in 0 .. n - 1 : \A i \in 0 .. len[a] - 1, j \in 0 .. len[b] - 1 :
              f[a][i] = f[b][j] => a = b /\ i = j
        BY DEF Holding, OneCellEach
      <4> QED
        BY <2>3, <3>1, <4>1
  <2> QED
    BY <1>1, <1>6, <2>1, <2>2, <2>3
<1>7. ASSUME NEW r \in 0 .. n - 1, NEW k \in 0 .. new[r] - 1, NEW l \in 0 .. new[r] - 1, k < l
      PROVE  h[r][k] < h[r][l]
  <2>1. \/ k \in 0 .. len[r] - 1 /\ h[r][k] = f[r][k] /\ f[r][k] \in 0 .. p - 1
        \/ r = q /\ k \in len[q] .. len[q] + size - 1 /\ h[q][k] = p + (k - len[q])
    BY <1>2
  <2>2. \/ l \in 0 .. len[r] - 1 /\ h[r][l] = f[r][l] /\ f[r][l] \in 0 .. p - 1
        \/ r = q /\ l \in len[q] .. len[q] + size - 1 /\ h[q][l] = p + (l - len[q])
    BY <1>2
  <2>3. CASE k \in 0 .. len[r] - 1 /\ h[r][k] = f[r][k] /\ l \in 0 .. len[r] - 1 /\ h[r][l] = f[r][l]
    BY <1>7, <2>3 DEF Holding, InOrder
  <2> QED
    BY <1>1, <1>7, <2>1, <2>2, <2>3
<1> QED
  <2>1. \A r, u \in 0 .. n - 1 : \A k \in 0 .. new[r] - 1, l \in 0 .. new[u] - 1 :
          h[r][k] = h[u][l] => r = u /\ k = l
    BY <1>6
  <2>2. \A r \in 0 .. n - 1 : \A k, l \in 0 .. new[r] - 1 : k < l => h[r][k] < h[r][l]
    BY <1>7
  <2>3. \A t \in 0 .. p + size - 1 :
          \E r \in 0 .. n - 1 : \E k \in 0 .. new[r] - 1 : h[r][k] = t
    BY <1>5
  <2>4. Lengths(new, n) /\ OnlyThese(h, new, p + size, n)
    BY <1>3, <1>4 DEF Lengths, OnlyThese
  <2>5. AllOfThese(h, new, p + size, n)
    BY <2>3 DEF AllOfThese
  <2>6. OneCellEach(h, new, n)
    BY <2>1 DEF OneCellEach
  <2>7. InOrder(h, new, n)
    BY <2>2 DEF InOrder
  <2> QED
    BY <2>4, <2>5, <2>6, <2>7 DEF Holding

\* h is f with the size tasks from p on in the cells from at on.
CopiedInto(h, f, at, p, size, len) ==
  /\ \A k \in 0 .. at - 1 : h[k] = f[k]
  /\ \A j \in 0 .. size - 1 : h[at + j] = p + j
  /\ \A k \in at + size .. len - 1 : h[k] = f[k]
  /\ at + size <= len => DOMAIN h = 0 .. len - 1
  /\ at = len => DOMAIN h = 0 .. at + size - 1

\* A copy to the end of a queue of len cells.
LEMMA CopiedCells ==
  ASSUME NEW f, NEW at \in Nat, NEW p \in Nat, NEW size \in Nat, NEW len \in Nat,
         DOMAIN f = 0 .. len - 1, at <= len, NEW h, h = Copied(f, at, p, size)
  PROVE  CopiedInto(h, f, at, p, size, len)
<1>1. h = [k \in (at .. at + size - 1) \cup (0 .. len - 1) |->
             IF k \in at .. at + size - 1 THEN p + k - at ELSE f[k]]
  BY DEF Copied
<1>2. \A j \in 0 .. size - 1 : at + j \in at .. at + size - 1 /\ p + (at + j) - at = p + j
  OBVIOUS
<1>3. \A j \in 0 .. size - 1 : h[at + j] = p + j
  BY <1>1, <1>2
<1>4. \A k \in 0 .. at - 1 : k \in 0 .. len - 1 /\ k \notin at .. at + size - 1
  OBVIOUS
<1>5. \A k \in at + size .. len - 1 : k \in 0 .. len - 1 /\ k \notin at .. at + size - 1
  OBVIOUS
<1>6. DOMAIN h = (at .. at + size - 1) \cup (0 .. len - 1)
  BY <1>1
<1>7. at + size <= len => DOMAIN h = 0 .. len - 1
  BY <1>6
<1>8. at = len => DOMAIN h = 0 .. at + size - 1
  BY <1>6
<1> QED
  BY <1>1, <1>3, <1>4, <1>5, <1>7, <1>8 DEF CopiedInto

-----------------------------------------------------------------------------
\* One chunk of s tasks in each of n queues.
OneChunkEach(f, n, s) ==
  \A q \in 0 .. n - 1 : \A j \in 0 .. s - 1 : f[q][j] = q * s + j

\* The first chunk of each queue holds the tasks below n * s.
LEMMA FirstChunks ==
  ASSUME NEW n \in Nat \ {0}, NEW s \in Nat \ {0}, NEW f, NEW len,
         \A q \in 0 .. n - 1 : len[q] = s,
         OneChunkEach(f, n, s)
  PROVE  Holding(f, len, n * s, n)
<1>1. Lengths(len, n)
  BY DEF Lengths
<1>2. n * s \in Nat
  OBVIOUS
<1>3. OnlyThese(f, len, n * s, n)
  <2> SUFFICES ASSUME NEW q \in 0 .. n - 1, NEW k \in 0 .. s - 1
               PROVE  f[q][k] \in 0 .. n * s - 1
    BY DEF OnlyThese
  <2>1. q * s + s <= n * s
    BY NextMultiple
  <2>2. q * s \in Nat
    OBVIOUS
  <2> QED
    BY <1>2, <2>1, <2>2 DEF OneChunkEach
<1>4. AllOfThese(f, len, n * s, n)
  <2> SUFFICES ASSUME NEW t \in 0 .. n * s - 1
               PROVE  \E q \in 0 .. n - 1 : \E k \in 0 .. s - 1 : f[q][k] = t
    BY DEF AllOfThese
  <2>1. t \in Nat
    BY <1>2
  <2>2. PICK q \in Nat, k \in 0 .. s - 1 : t = q * s + k
    <3>1. (t \div s) \in Nat /\ (t % s) \in 0 .. s - 1 /\ t = (t \div s) * s + (t % s)
      BY <2>1, Euclid
    <3> QED
      BY <3>1
  <2>3. q < n
    <3> SUFFICES ASSUME n <= q PROVE FALSE
      BY <2>2
    <3>1. n = q \/ n * s + s <= q * s
      BY <2>2, NextMultiple
    <3>2. q * s \in Nat
      BY <2>2
    <3> QED
      BY <1>2, <2>1, <2>2, <3>1, <3>2
  <2>4. q \in 0 .. n - 1
    BY <2>3
  <2>5. f[q][k] = q * s + k
    BY <2>4 DEF OneChunkEach
  <2> QED
    BY <2>2, <2>4, <2>5
<1>5. OneCellEach(f, len, n)
  <2> SUFFICES ASSUME NEW q \in 0 .. n - 1, NEW r \in 0 .. n - 1, NEW k \in 0 .. s - 1,
                      NEW l \in 0 .. s - 1, f[q][k] = f[r][l]
               PROVE  q = r /\ k = l
    BY DEF OneCellEach
  <2>1. q * s + k = r * s + l
    BY DEF OneChunkEach
  <2>2. PICK x \in Nat, y \in Nat : x = q /\ y = r
    OBVIOUS
  <2>3. x * s + k = y * s + l
    BY <2>1, <2>2
  <2>4. x = y /\ k = l
    BY <2>3, Digits
  <2> QED
    BY <2>2, <2>4
<1>6. InOrder(f, len, n)
  <2> SUFFICES ASSUME NEW q \in 0 .. n - 1, NEW k \in 0 .. s - 1, NEW l \in 0 .. s - 1, k < l
               PROVE  f[q][k] < f[q][l]
    BY DEF InOrder
  <2>1. q * s \in Nat
    OBVIOUS
  <2> QED
    BY <2>1 DEF OneChunkEach
<1> QED
  BY <1>1, <1>3, <1>4, <1>5, <1>6 DEF Holding

\* What TasksOnce says of the cells that are written.
Once ==
  LET cells == {c \in Q \X UNION {DOMAIN queues[q] : q \in Q} :
                  c[2] \in DOMAIN queues[c[1]] /\ queues[c[1]][c[2]] # Unset}
      task(c) == queues[c[1]][c[2]]
  IN  /\ {task(c) : c \in cells} = 0 .. nnz - 1
      /\ \A c, d \in cells : task(c) = task(d) => c = d
      /\ \A c, d \in cells : c[1] = d[1] /\ c[2] < d[2] => task(c) < task(d)

\* Queues that hold all tasks below nnz, and nothing behind them, hold each once.
LEMMA HoldingOnce ==
  ASSUME NEW len, job.n \in Nat, nnz \in Nat, Holding(queues, len, nnz, job.n),
         \A q \in Q : /\ DOMAIN queues[q] = 0 .. lens[q] - 1
                      /\ lens[q] \in Nat /\ len[q] <= lens[q]
                      /\ \A k \in len[q] .. lens[q] - 1 : queues[q][k] = Unset
  PROVE  Once
<1> DEFINE cells == {c \in Q \X UNION {DOMAIN queues[q] : q \in Q} :
                       c[2] \in DOMAIN queues[c[1]] /\ queues[c[1]][c[2]] # Unset}
           task(c) == queues[c[1]][c[2]]
<1>1. PICK n, p, f : n = job.n /\ p = nnz /\ f = queues
  OBVIOUS
<1>2. n \in Nat /\ p \in Nat /\ Q = 0 .. n - 1 /\ Holding(f, len, p, n)
  BY <1>1 DEF Q
<1>3. \A q \in Q : len[q] \in Nat
  BY <1>2 DEF Holding, Lengths
<1>4. ASSUME NEW q \in Q, NEW k \in 0 .. len[q] - 1
      PROVE  k \in DOMAIN f[q] /\ f[q][k] \in 0 .. p - 1 /\ f[q][k] # Unset
  <2>1. f[q][k] \in 0 .. p - 1
    BY <1>2 DEF Holding, OnlyThese
  <2>2. k \in DOMAIN f[q]
    BY <1>1, <1>3
  <2> QED
    BY <1>2, <2>1, <2>2 DEF Unset
<1>5. ASSUME NEW q \in Q, NEW k \in 0 .. len[q] - 1
      PROVE  <<q, k>> \in cells /\ task(<<q, k>>) = f[q][k]
  BY <1>1, <1>4, <1>5
<1>6. ASSUME NEW c \in cells
      PROVE  /\ c[1] \in Q /\ c[2] \in 0 .. len[c[1]] - 1 /\ c = <<c[1], c[2]>>
             /\ task(c) = f[c[1]][c[2]]
  <2>1. PICK q, k : c = <<q, k>> /\ q \in Q /\ k \in DOMAIN f[q] /\ f[q][k] # Unset
    BY <1>1
  <2>2. k \in 0 .. lens[q] - 1 /\ lens[q] \in Nat /\ len[q] \in Nat
    BY <1>1, <1>3, <2>1
  <2>3. k \notin len[q] .. lens[q] - 1
    BY <1>1, <2>1
  <2>4. k \in 0 .. len[q] - 1
    BY <2>2, <2>3
  <2> QED
    BY <1>1, <2>1, <2>4
<1> HIDE DEF cells, task
<1>7. {task(c) : c \in cells} = 0 .. nnz - 1
  <2>1. ASSUME NEW c \in cells PROVE task(c) \in 0 .. p - 1
    BY <1>4, <1>6
  <2>2. ASSUME NEW e \in 0 .. p - 1 PROVE \E c \in cells : task(c) = e
    <3>1. PICK q \in 0 .. n - 1 : \E k \in 0 .. len[q] - 1 : f[q][k] = e
      BY <1>2 DEF Holding, AllOfThese
    <3>2. PICK k \in 0 .. len[q] - 1 : f[q][k] = e
      BY <3>1
    <3> QED
      BY <1>2, <1>5, <3>2
  <2> QED
    BY <1>1, <2>1, <2>2
<1>8. \A c, d \in cells : task(c) = task(d) => c = d
  <2> SUFFICES ASSUME NEW c \in cells, NEW d \in cells, task(c) = task(d) PROVE c = d
    OBVIOUS
  <2>1. PICK q, k, r, l : q = c[1] /\ k = c[2] /\ r = d[1] /\ l = d[2]
    OBVIOUS
  <2>2. /\ q \in 0 .. n - 1 /\ k \in 0 .. len[q] - 1 /\ r \in 0 .. n - 1 /\ l \in 0 .. len[r] - 1
        /\ f[q][k] = f[r][l]
    BY <1>2, <1>6, <2>1
  <2>3. q = r /\ k = l
    BY <1>2, <2>2 DEF Holding, OneCellEach
  <2> QED
    BY <1>6, <2>1, <2>3
<1>9. \A c, d \in cells : c[1] = d[1] /\ c[2] < d[2] => task(c) < task(d)
  <2> SUFFICES ASSUME NEW c \in cells, NEW d \in cells, c[1] = d[1], c[2] < d[2]
               PROVE  task(c) < task(d)
    OBVIOUS
  <2>1. PICK q, k, l : q = c[1] /\ k = c[2] /\ l = d[2]
    OBVIOUS
  <2>2. q \in 0 .. n - 1 /\ k \in 0 .. len[q] - 1 /\ l \in 0 .. len[q] - 1 /\ k < l
    BY <1>2, <1>6, <2>1
  <2>3. f[q][k] < f[q][l]
    BY <1>2, <2>2 DEF Holding, InOrder
  <2>4. task(c) = f[q][k] /\ task(d) = f[q][l]
    BY <1>6, <2>1
  <2> QED
    BY <2>3, <2>4
<1> QED
  BY <1>7, <1>8, <1>9, Zenon DEF Once, cells, task

-----------------------------------------------------------------------------
(* The arithmetic of least_first.                                          *)

\* The work of tasks that all have a number is a number.
LEMMA WorkNat ==
  ASSUME NEW from \in Nat, NEW size \in Nat,
         \A e \in from .. from + size - 1 : workload_estimate(e) \in Nat
  PROVE  Work(from, size) \in Nat
<1>1. PICK val, S : /\ S = from .. from + size - 1 /\ val = [e \in S |-> workload_estimate(e)]
  OBVIOUS
<1>2. IsFiniteSet(S)
  <2>1. from \in Int /\ from + size - 1 \in Int
    OBVIOUS
  <2> QED
    BY <1>1, <2>1, FS_Interval
<1>3. \A x \in S : val[x] \in Nat
  BY <1>1
<1> QED
  BY <1>1, <1>2, <1>3, SumNat DEF Work

\* smallest_score_id is a queue with the least work.
LEMMA LeastScore ==
  ASSUME NEW n \in Nat \ {0}, Q = 0 .. n - 1, \A q \in Q : scores[q] \in Nat
  PROVE  /\ smallest_score_id \in Q
         /\ \A j \in Q : scores[smallest_score_id] <= scores[j]
<1>1. PICK x \in {scores[q] : q \in Q} : \A y \in {scores[q] : q \in Q} : x <= y
  <2>1. {scores[q] : q \in Q} \in SUBSET Nat
    OBVIOUS
  <2>2. 0 \in Q
    OBVIOUS
  <2>3. {scores[q] : q \in Q} # {}
    BY <2>2
  <2> QED
    BY <2>1, <2>3, LeastNatural, Zenon
<1>2. PICK S : S = {q \in Q : scores[q] = x}
  OBVIOUS
<1>3. S \in SUBSET Nat /\ S # {}
  BY <1>1, <1>2
<1>4. PICK i \in S : \A j \in S : i <= j
  BY <1>3, LeastNatural
<1>5. /\ i \in Q /\ \A j \in Q : scores[i] <= scores[j]
      /\ \A j \in Q : scores[j] = scores[i] => i <= j
  BY <1>1, <1>2, <1>4
<1> QED
  BY <1>5, Zenon DEF smallest_score_id

-----------------------------------------------------------------------------
(* Sums over the numbers below n, by the least n for which they would fail. *)

\* val[v] is the length of row v under the pointers x.
RowLengths(n, val, x) ==
  /\ x \in [0 .. n -> Nat] /\ x[0] = 0
  /\ \A v \in 0 .. n - 1 : val[v] \in Nat /\ x[v + 1] - x[v] = val[v]

\* The lengths of rows add up to their last pointer.
LEMMA SumRows ==
  ASSUME NEW n \in Nat, NEW val, NEW x, RowLengths(n, val, x)
  PROVE  SumOver(val, 0 .. n - 1) = x[n]
<1>4. /\ x \in [0 .. n -> Nat] /\ x[0] = 0
      /\ \A v \in 0 .. n - 1 : val[v] \in Nat /\ x[v + 1] - x[v] = val[v]
  BY DEF RowLengths
<1> DEFINE T == {k \in Nat : k <= n => SumOver(val, 0 .. k - 1) = x[k]}
<1>1. 0 \in T
  <2>1. 0 .. 0 - 1 = 0 .. -1
    OBVIOUS
  <2> QED
    BY <1>4, <2>1, SumNone
<1>2. ASSUME NEW k \in Nat, k \in T PROVE k + 1 \in T
  <2> SUFFICES ASSUME k + 1 <= n PROVE SumOver(val, 0 .. (k + 1) - 1) = x[k + 1]
    OBVIOUS
  <2>1. SumOver(val, 0 .. k - 1) = x[k]
    BY <1>2
  <2>2. (k + 1) - 1 = k /\ k \in 0 .. n - 1 /\ k \in 0 .. n /\ k + 1 \in 0 .. n
    OBVIOUS
  <2>3. \A i \in 0 .. k : val[i] \in Nat
    BY <1>4
  <2>4. SumOver(val, 0 .. k) = SumOver(val, 0 .. k - 1) + val[k]
    BY <2>3, SumBelow
  <2>5. x[k] \in Nat /\ x[k + 1] \in Nat /\ x[k + 1] - x[k] = val[k] /\ val[k] \in Nat
    BY <1>4, <2>2
  <2>6. SumOver(val, 0 .. k) = x[k + 1]
    BY <2>1, <2>4, <2>5
  <2> QED
    BY <2>2, <2>6
<1> HIDE DEF T
<1>3. n \in T
  BY <1>1, <1>2, FromZero
<1> QED
  BY <1>3 DEF T

\* The part of a sum in each of the classes 0 .. m - 1.
Class(of, n, q) == {v \in 0 .. n - 1 : of[v] = q}

\* new differs from old at x only.
OnlyAt(S, x, old, new) ==
  /\ x \in S /\ new[x] \in Nat /\ \A y \in S : old[y] \in Nat
  /\ \A y \in S \ {x} : new[y] = old[y]

\* Functions that differ at one element.
LEMMA SumOnlyAt ==
  ASSUME NEW S, IsFiniteSet(S), NEW x, NEW old, NEW new, OnlyAt(S, x, old, new)
  PROVE  SumOver(new, S) + old[x] = SumOver(old, S) + new[x]
<1>1. x \in S /\ (\A y \in S : old[y] \in Nat) /\ new[x] \in Nat /\ \A y \in S \ {x} : new[y] = old[y]
  BY DEF OnlyAt
<1> QED
  BY <1>1, SumChange

\* The elements are in classes, and len has the sum of each.
ClassSums(n, m, of, val, len) ==
  /\ \A v \in 0 .. n - 1 : val[v] \in Nat /\ of[v] \in 0 .. m - 1
  /\ \A q \in 0 .. m - 1 : len[q] = SumOver(val, Class(of, n, q))

\* The sums over classes add up to the sum over all.
LEMMA SumClasses ==
  ASSUME NEW n \in Nat, NEW m \in Nat, NEW of, NEW val, NEW len, ClassSums(n, m, of, val, len)
  PROVE  SumOver(len, 0 .. m - 1) = SumOver(val, 0 .. n - 1)
<1> DEFINE part(k) == [q \in 0 .. m - 1 |-> SumOver(val, Class(of, k, q))]
           T == {k \in Nat : k <= n => SumOver(part(k), 0 .. m - 1) = SumOver(val, 0 .. k - 1)}
<1>9. \A v \in 0 .. n - 1 : val[v] \in Nat /\ of[v] \in 0 .. m - 1
  BY DEF ClassSums
<1>10. \A q \in 0 .. m - 1 : len[q] = SumOver(val, Class(of, n, q))
  BY DEF ClassSums
<1>0. IsFiniteSet(0 .. m - 1)
  <2>1. 0 \in Int /\ m - 1 \in Int
    OBVIOUS
  <2> QED
    BY <2>1, FS_Interval
<1>1. 0 \in T
  <2>1. 0 .. 0 - 1 = 0 .. -1 /\ 0 .. -1 = {}
    OBVIOUS
  <2>2. SumOver(val, {}) = 0
    BY <2>1, SumNone
  <2>3. \A q \in 0 .. m - 1 : Class(of, 0, q) = {}
    BY <2>1 DEF Class
  <2>4. \A q \in 0 .. m - 1 : part(0)[q] = 0
    BY <2>2, <2>3
  <2> HIDE DEF part
  <2>5. SumOver(part(0), 0 .. m - 1) = 0
    BY <1>0, <2>4, SumZero
  <2> QED
    BY <2>1, <2>5, SumNone
<1>2. ASSUME NEW k \in Nat, k \in T PROVE k + 1 \in T
  <2> SUFFICES ASSUME k + 1 <= n
               PROVE  SumOver(part(k + 1), 0 .. m - 1) = SumOver(val, 0 .. (k + 1) - 1)
    OBVIOUS
  <2>1. SumOver(part(k), 0 .. m - 1) = SumOver(val, 0 .. k - 1)
    BY <1>2
  <2>2. (k + 1) - 1 = k /\ k \in 0 .. n - 1 /\ val[k] \in Nat
    BY <1>9
  <2>3. PICK r \in 0 .. m - 1 : r = of[k]
    BY <1>9, <2>2
  <2>4. \A i \in Nat : \A q \in 0 .. m - 1 : i <= n => IsFiniteSet(Class(of, i, q)) /\ \A v \in Class(of, i, q) : val[v] \in Nat
    <3> SUFFICES ASSUME NEW i \in Nat, NEW q \in 0 .. m - 1, i <= n
                 PROVE  IsFiniteSet(Class(of, i, q)) /\ \A v \in Class(of, i, q) : val[v] \in Nat
      OBVIOUS
    <3>1. 0 \in Int /\ i - 1 \in Int
      OBVIOUS
    <3>2. IsFiniteSet(0 .. i - 1)
      BY <3>1, FS_Interval
    <3>3. Class(of, i, q) \subseteq 0 .. i - 1
      BY DEF Class
    <3>4. IsFiniteSet(Class(of, i, q))
      BY <3>2, <3>3, FS_Subset
    <3>5. \A v \in 0 .. i - 1 : v \in 0 .. n - 1
      OBVIOUS
    <3> QED
      BY <1>9, <3>3, <3>4, <3>5
  <2>5. Class(of, k + 1, r) \ {k} = Class(of, k, r) /\ k \in Class(of, k + 1, r)
    BY <2>3 DEF Class
  <2>6. \A q \in (0 .. m - 1) \ {r} : Class(of, k + 1, q) = Class(of, k, q)
    BY <2>3 DEF Class
  <2>7. PICK old, new, C : old = part(k) /\ new = part(k + 1) /\ C = Class(of, k + 1, r)
    OBVIOUS
  <2>8. SumOver(val, C) = val[k] + SumOver(val, C \ {k})
    <3>1. IsFiniteSet(C) /\ \A v \in C : val[v] \in Nat
      BY <2>4, <2>7
    <3> QED
      BY <2>5, <2>7, <3>1, SumTake
  <2>9. /\ \A q \in 0 .. m - 1 : old[q] = SumOver(val, Class(of, k, q))
        /\ \A q \in 0 .. m - 1 : new[q] = SumOver(val, Class(of, k + 1, q))
    BY <2>7
  <2>10. \A q \in 0 .. m - 1 : old[q] \in Nat /\ new[q] \in Nat
    <3> SUFFICES ASSUME NEW q \in 0 .. m - 1 PROVE old[q] \in Nat /\ new[q] \in Nat
      OBVIOUS
    <3>1. k <= n /\ k + 1 \in Nat
      OBVIOUS
    <3>2. /\ IsFiniteSet(Class(of, k, q)) /\ \A v \in Class(of, k, q) : val[v] \in Nat
          /\ IsFiniteSet(Class(of, k + 1, q)) /\ \A v \in Class(of, k + 1, q) : val[v] \in Nat
      BY <2>4, <3>1
    <3>3. SumOver(val, Class(of, k, q)) \in Nat /\ SumOver(val, Class(of, k + 1, q)) \in Nat
      BY <3>2, SumNat
    <3> QED
      BY <2>9, <3>3
  <2> HIDE DEF part
  <2>11. new[r] = val[k] + old[r]
    BY <2>5, <2>7, <2>8, <2>9
  <2>12. \A q \in (0 .. m - 1) \ {r} : new[q] = old[q]
    BY <2>6, <2>9
  <2>13. SumOver(new, 0 .. m - 1) + old[r] = SumOver(old, 0 .. m - 1) + new[r]
    <3>1. OnlyAt(0 .. m - 1, r, old, new)
      BY <2>10, <2>12 DEF OnlyAt
    <3> QED
      BY <1>0, <3>1, SumOnlyAt
  <2>14. SumOver(val, 0 .. k) = SumOver(val, 0 .. k - 1) + val[k] /\ SumOver(val, 0 .. k - 1) \in Nat
    <3>1. \A i \in 0 .. k : val[i] \in Nat
      BY <1>9
    <3> QED
      BY <3>1, SumBelow
  <2>15. SumOver(new, 0 .. m - 1) \in Nat
    BY <1>0, <2>10, SumNat
  <2>16. old[r] \in Nat /\ SumOver(old, 0 .. m - 1) = SumOver(val, 0 .. k - 1)
    BY <2>1, <2>7, <2>10
  <2>17. SumOver(new, 0 .. m - 1) = SumOver(val, 0 .. k)
    BY <2>2, <2>11, <2>13, <2>14, <2>15, <2>16
  <2> QED
    BY <2>2, <2>7, <2>17
<1> HIDE DEF T, part
<1>3. n \in T
  BY <1>1, <1>2, FromZero
<1>4. SumOver(part(n), 0 .. m - 1) = SumOver(val, 0 .. n - 1)
  BY <1>3 DEF T
<1>5. PICK p : p = part(n)
  OBVIOUS
<1>6. \A q \in 0 .. m - 1 : p[q] = SumOver(val, Class(of, n, q)) /\ p[q] \in Nat
  <2> SUFFICES ASSUME NEW q \in 0 .. m - 1 PROVE p[q] = SumOver(val, Class(of, n, q)) /\ p[q] \in Nat
    OBVIOUS
  <2>1. IsFiniteSet(0 .. n - 1)
    <3>1. 0 \in Int /\ n - 1 \in Int
      OBVIOUS
    <3> QED
      BY <3>1, FS_Interval
  <2>2. IsFiniteSet(Class(of, n, q)) /\ \A v \in Class(of, n, q) : val[v] \in Nat
    BY <1>9, <2>1, FS_Subset DEF Class
  <2>3. SumOver(val, Class(of, n, q)) \in Nat
    BY <2>2, SumNat
  <2>4. p[q] = SumOver(val, Class(of, n, q))
    BY <1>5 DEF part
  <2> QED
    BY <2>3, <2>4
<1>7. \A q \in 0 .. m - 1 : len[q] = p[q]
  BY <1>6, <1>10
<1>8. SumOver(len, 0 .. m - 1) = SumOver(p, 0 .. m - 1)
  BY <1>0, <1>6, <1>7, SumSame
<1> QED
  BY <1>4, <1>5, <1>8

-----------------------------------------------------------------------------
(* What sizes counts.                                                      *)

\* Every task of the list src has a place of its own among the sizes[v] of its
\* source v.
Places(at, src, sizes) ==
  \A e \in DOMAIN src : src[e] # Unset =>
    /\ src[e] \in V /\ at[e] \in 0 .. sizes[src[e]] - 1
    /\ \A d \in DOMAIN src : src[d] = src[e] /\ at[d] = at[e] => d = e

(***************************************************************************)
(* The arcs of the list are between vertices; a list that orientation took *)
(* its array from has a freed one; sizes adds up to the tasks of the lists *)
(* that were counted in it, and counts those of this list.                 *)
(***************************************************************************)
Tally ==
  /\ past.arcs \subseteq V \X V
  /\ status = "ok" /\ past.lostList => g.dst_list \in DOMAIN heap /\ heap[g.dst_list].live = FALSE
  /\ g.sizes # <<>> => \A v \in V : g.sizes[v] \in Nat
  /\ past.sized = IF g.sizes = <<>> THEN 0 ELSE SumOver(g.sizes, V)
  /\ past.counted => /\ g.src_list # NULL /\ g.sizes # <<>>
                     /\ \E at : Places(at, Array(g.src_list), g.sizes)

\* The members and the history of the list and of sizes.
SameTally ==
  /\ \A m \in {"n_vertices", "src_list", "dst_list", "sizes"} : g'[m] = g[m]
  /\ \A m \in {"arcs", "sized", "counted"} : past'[m] = past[m]

\* A step that writes to no array but the row pointers, and frees none but
\* dst_list at most.
LEMMA KeepsTally ==
  ASSUME Ownership, List, Tally, SameTally,
         \A p \in DOMAIN heap \ {g.vertices} : IsBlock(heap[p]) => heap'[p].data = heap[p].data,
         status' = "ok" /\ past'.lostList =>
           g.dst_list \in DOMAIN heap' /\ heap'[g.dst_list].live = FALSE
  PROVE  Tally'
<1>1. V' = V
  BY DEF V, SameTally
<1>2. g.src_list # NULL => Array(g.src_list)' = Array(g.src_list)
  <2> SUFFICES ASSUME g.src_list # NULL PROVE Array(g.src_list)' = Array(g.src_list)
    OBVIOUS
  <2>1. g.src_list \in DOMAIN heap /\ IsBlock(heap[g.src_list]) /\ g.src_list # g.vertices
    BY DEF Ownership, Owned, Live
  <2> QED
    BY <2>1 DEF Array, SameTally
<1>3. past.counted => \E at : Places(at, Array(g.src_list), g.sizes)'
  <2> SUFFICES ASSUME past.counted PROVE \E at : Places(at, Array(g.src_list), g.sizes)'
    OBVIOUS
  <2>1. PICK at : Places(at, Array(g.src_list), g.sizes)
    BY DEF Tally
  <2>2. PICK src, sizes : src = Array(g.src_list) /\ sizes = g.sizes /\ Places(at, src, sizes)
    BY <2>1
  <2>3. Array(g.src_list)' = src /\ g'.sizes = sizes
    BY <1>2, <2>2 DEF Tally, SameTally
  <2>4. Places(at, Array(g.src_list), g.sizes)'
    BY <1>1, <2>2, <2>3 DEF Places
  <2> QED
    BY <2>4
<1>4. /\ g'.sizes = g.sizes /\ g'.src_list = g.src_list /\ g'.dst_list = g.dst_list
      /\ past'.arcs = past.arcs /\ past'.sized = past.sized /\ past'.counted = past.counted
  BY DEF SameTally
<1>5. past'.arcs \subseteq V' \X V'
  BY <1>1, <1>4 DEF Tally
<1>6. g'.sizes # <<>> => \A v \in V' : g'.sizes[v] \in Nat
  BY <1>1, <1>4 DEF Tally
<1>7. past'.sized = IF g'.sizes = <<>> THEN 0 ELSE SumOver(g'.sizes, V')
  BY <1>1, <1>4 DEF Tally
<1>8. past'.counted => /\ g'.src_list # NULL /\ g'.sizes # <<>>
                       /\ \E at : Places(at, Array(g.src_list), g.sizes)'
  BY <1>3, <1>4 DEF Tally
<1>9. status' = "ok" /\ past'.lostList =>
        g'.dst_list \in DOMAIN heap' /\ heap'[g'.dst_list].live = FALSE
  BY <1>4
<1> QED
  BY <1>5, <1>6, <1>7, <1>8, <1>9, Zenon DEF Tally

LEMMA OrientationTally == ASSUME IInv, Tally, NEW buffers, Orient(buffers) PROVE Tally'
<1>1. Shape /\ Ownership /\ List /\ status = "ok"
  BY InUse DEF Orient
<1>2. PICK new, S : /\ S = {g.vertices, g.edges}
                    /\ heap' = Freed(S) \o <<Block(new.vertices), Block(new.edges)>>
  BY Zenon DEF Orient
<1>3. Preserves(Freed(S), S)
  BY <1>1, FreedFacts DEF Shape, Preserves
<1>4. PICK x, y : x = new.vertices /\ y = new.edges
  OBVIOUS
<1>5. \A p \in DOMAIN heap : heap'[p] = Freed(S)[p]
  BY <1>2, <1>3, <1>4, NewArrays
<1>6. \A p \in DOMAIN heap : IsBlock(heap[p]) => heap'[p].data = heap[p].data
  BY <1>5 DEF Freed, IsBlock
<1>7. DOMAIN heap \subseteq DOMAIN heap'
  BY <1>2, <1>3, <1>4, GrowsByTwo DEF Grows
<1>8. past' = [past EXCEPT !.oriented = TRUE, !.lostList = @ \/ g.dst_list = g.edges]
  BY DEF Orient
<1>9. SameTally
  <2>1. PICK a, b, c, d : g' = [g EXCEPT !.vertices = a, !.edges = b, !.n_edges = c,
                                         !.max_degree = d, !.MAX_DEGREE = buffers]
    BY Zenon DEF Orient
  <2> QED
    BY <1>1, <1>8, <2>1 DEF SameTally, Shape, Members, Owned, History
<1>10. ASSUME past'.lostList
       PROVE  g.dst_list \in DOMAIN heap' /\ heap'[g.dst_list].live = FALSE
  <2>1. past.lostList \/ g.dst_list = g.edges
    BY <1>1, <1>8, <1>10 DEF Shape, History
  <2>2. g.dst_list \in DOMAIN heap /\ (g.dst_list \in S \/ heap[g.dst_list].live = FALSE)
    BY <1>1, <1>2, <2>1 DEF Tally, Ownership, Owned, Live
  <2>3. \A p \in S : p \in DOMAIN heap /\ IsBlock(heap[p])
    BY <1>1, <1>2 DEF Ownership, Owned, Live
  <2>4. Freed(S)[g.dst_list].live = FALSE
    BY <2>2, <2>3 DEF Freed, IsBlock
  <2> QED
    BY <1>5, <1>7, <2>2, <2>4
<1> QED
  BY <1>1, <1>6, <1>9, <1>10, KeepsTally

\* A step that leaves every block but the row pointers as it is.
LEMMA KeepsAll ==
  ASSUME Ownership, List, Tally, SameTally, status = "ok", past'.lostList = past.lostList,
         DOMAIN heap \subseteq DOMAIN heap',
         \A p \in DOMAIN heap \ {g.vertices} : heap'[p] = heap[p]
  PROVE  Tally'
<1>1. past'.lostList => g.dst_list \in DOMAIN heap' /\ heap'[g.dst_list].live = FALSE
  <2> SUFFICES ASSUME past.lostList
               PROVE  g.dst_list \in DOMAIN heap' /\ heap'[g.dst_list].live = FALSE
    OBVIOUS
  <2>1. g.dst_list \in DOMAIN heap /\ heap[g.dst_list].live = FALSE
    BY DEF Tally
  <2>2. Live(g.vertices)
    BY DEF Ownership, Owned
  <2>3. g.dst_list # g.vertices
    BY <2>1, <2>2 DEF Live, IsBlock
  <2> QED
    BY <2>1, <2>3
<1> QED
  BY <1>1, KeepsTally

LEMMA SparsifyFastTally == ASSUME IInv, Tally, NEW c, color_sparsify_fast(c) PROVE Tally'
<1>1. Shape /\ Ownership /\ List /\ status = "ok" /\ past' = past
  BY InUse DEF color_sparsify_fast
<1>0. PICK keep, new : /\ new = Filtered(keep)
                       /\ heap' = heap \o <<Block(new.vertices), Block(new.edges)>>
                       /\ g' = [g EXCEPT !.vertices = Fresh(1), !.edges = Fresh(2),
                                         !.n_edges = new.n_edges]
  BY Zenon DEF color_sparsify_fast, Monochrome
<1>2. PICK x, y, a, b, n : /\ heap' = heap \o <<Block(x), Block(y)>>
                           /\ g' = [g EXCEPT !.vertices = a, !.edges = b, !.n_edges = n]
  BY <1>0, Zenon
<1>3. /\ \A p \in DOMAIN heap : heap'[p] = heap[p]
      /\ DOMAIN heap \subseteq DOMAIN heap'
  BY <1>1, <1>2, HeapPreserves, NewArrays, GrowsByTwo DEF Grows
<1>4. SameTally
  BY <1>1, <1>2 DEF SameTally, Shape, Members, Owned
<1> QED
  BY <1>1, <1>3, <1>4, KeepsAll

LEMMA SparsifyFastDTally == ASSUME IInv, Tally, NEW c, color_sparsify_fast_d(c) PROVE Tally'
<1>1. Shape /\ Ownership /\ List /\ status = "ok" /\ past' = past
  BY InUse DEF color_sparsify_fast_d
<1>0. PICK keep, new : /\ new = Filtered(keep)
                       /\ heap' = heap \o <<Block(new.vertices), Block(new.edges)>>
                       /\ g' = [g EXCEPT !.vertices_c = Fresh(1), !.edges_c = Fresh(2),
                                         !.n_edges_c = new.n_edges]
  BY Zenon DEF color_sparsify_fast_d, Monochrome
<1>2. PICK x, y, a, b, n : /\ heap' = heap \o <<Block(x), Block(y)>>
                           /\ g' = [g EXCEPT !.vertices_c = a, !.edges_c = b, !.n_edges_c = n]
  BY <1>0, Zenon
<1>3. /\ \A p \in DOMAIN heap : heap'[p] = heap[p]
      /\ DOMAIN heap \subseteq DOMAIN heap'
  BY <1>1, <1>2, HeapPreserves, NewArrays, GrowsByTwo DEF Grows
<1>4. SameTally
  BY <1>1, <1>2 DEF SameTally, Shape, Members, Owned
<1> QED
  BY <1>1, <1>3, <1>4, KeepsAll

LEMMA SwapTally == ASSUME IInv, Tally, Swaps PROVE Tally'
<1>1. Shape /\ Ownership /\ List /\ heap' = heap /\ past' = past /\ status = "ok"
  BY InUse DEF Swaps
<1>2. SameTally
  BY <1>1 DEF Swaps, SameTally, Shape, Members, Owned
<1> QED
  BY <1>1, <1>2, KeepsAll

LEMMA SparsifyTally == ASSUME IInv, Tally, NEW c, color_sparsify(c) PROVE Tally'
<1>1. Shape /\ Ownership /\ List /\ status = "ok"
  BY InUse DEF color_sparsify
<1>0. PICK keep, new, x, y :
        /\ new = Filtered(keep) /\ x = new.vertices
        /\ y = [i \in 0 .. g.n_edges - 1 |-> IF i < new.n_edges THEN new.edges[i] ELSE Unset]
        /\ heap' = [heap EXCEPT ![g.vertices].data = x] \o <<Block(y)>>
        /\ g' = [g EXCEPT !.edges = Fresh(1), !.n_edges = new.n_edges]
  BY Zenon DEF color_sparsify, Monochrome
<1>2. PICK a, n : /\ heap' = [heap EXCEPT ![g.vertices].data = x] \o <<Block(y)>>
                  /\ g' = [g EXCEPT !.edges = a, !.n_edges = n]
  BY <1>0, Zenon
<1>3. PICK h, b : h = [heap EXCEPT ![g.vertices].data = x] /\ b = Block(y) /\ heap' = h \o <<b>>
  BY <1>2, Zenon
<1>4. DOMAIN heap = 1 .. Len(heap) /\ Len(heap) \in Nat
  BY <1>1 DEF Shape
<1>5. h \in Seq(ToSet(h)) /\ DOMAIN h = DOMAIN heap
  <2>1. h = [p \in 1 .. Len(heap) |-> h[p]] /\ DOMAIN h = 1 .. Len(heap)
    BY <1>3, <1>4
  <2>2. \A i \in 1 .. Len(heap) : h[i] \in ToSet(h)
    BY <2>1 DEF ToSet
  <2> QED
    BY <1>4, <2>1, <2>2, SeqDef
<1>6. PICK new_heap : new_heap = h \o <<b>>
  OBVIOUS
<1>7. /\ new_heap \in Seq(ToSet(h) \cup {b}) /\ Len(new_heap) = Len(h) + 1
      /\ DOMAIN h = 1 .. Len(h) /\ Len(h) \in Nat
      /\ \A p \in DOMAIN h : new_heap[p] = h[p]
  BY <1>5, <1>6, OneBlock
<1>8. \A p \in DOMAIN heap \ {g.vertices} : h[p] = heap[p]
  BY <1>3
<1>9. /\ \A p \in DOMAIN heap \ {g.vertices} : heap'[p] = heap[p]
      /\ DOMAIN heap \subseteq DOMAIN heap'
  <2>1. DOMAIN new_heap = 1 .. Len(new_heap)
    BY <1>7
  <2>2. DOMAIN h \subseteq DOMAIN new_heap
    BY <1>7, <2>1
  <2> QED
    BY <1>3, <1>5, <1>6, <1>7, <1>8, <2>2, Zenon
<1>10. SameTally /\ past'.lostList = past.lostList
  <2>1. PICK z : past' = [past EXCEPT !.inPlace = z]
    BY Zenon DEF color_sparsify
  <2> QED
    BY <1>1, <1>2, <2>1 DEF SameTally, Shape, Members, Owned, History
<1> QED
  BY <1>1, <1>9, <1>10, KeepsAll

LEMMA StreamTally == ASSUME IInv, Tally, create_edge_stream PROVE Tally'
<1>1. Shape /\ Ownership /\ List /\ past' = past /\ status = "ok"
  BY InUse DEF create_edge_stream
<1>2. CASE g.nnz # 0
  <2>1. heap' = heap /\ g' = g
    BY <1>2 DEF create_edge_stream
  <2> QED
    BY <1>1, <2>1, KeepsAll DEF SameTally
<1>3. CASE g.nnz = 0
  <2>1. PICK x, a : /\ heap' = Append(heap, Block(x)) /\ a = Fresh(1)
                    /\ g' = [g EXCEPT !.nnz = g.n_edges, !.stream = a]
    BY <1>3, Zenon DEF create_edge_stream
  <2>2. heap \in Seq(ToSet(heap)) /\ Len(heap) \in Nat /\ DOMAIN heap = 1 .. Len(heap)
    BY <1>1 DEF Shape
  <2>3. (\A p \in DOMAIN heap : heap'[p] = heap[p]) /\ DOMAIN heap \subseteq DOMAIN heap'
    BY <2>1, <2>2
  <2>4. SameTally
    BY <1>1, <2>1 DEF SameTally, Shape, Members, Owned
  <2> QED
    BY <1>1, <2>3, <2>4, KeepsAll
<1> QED
  BY <1>2, <1>3

LEMMA DestroyTally == ASSUME IInv, Tally, destroy PROVE Tally'
<1>1. Shape /\ Ownership /\ List /\ g' = g /\ past' = past /\ status' # "ok"
  BY InUse DEF destroy
<1>2. PICK S : heap' = Freed(S)
  BY Zenon DEF destroy
<1>3. ASSUME NEW p \in DOMAIN heap, IsBlock(heap[p]) PROVE heap'[p].data = heap[p].data
  BY <1>2, <1>3 DEF Freed, IsBlock
<1>4. SameTally
  BY <1>1 DEF SameTally
<1> QED
  BY <1>1, <1>3, <1>4, KeepsTally

-----------------------------------------------------------------------------
\* A list that is laid out by rows has places for its tasks.
LEMMA LaidOutPlaces ==
  ASSUME NEW n \in Nat \ {0}, V = 0 .. n - 1, NEW rows, Sorted(n, rows), NEW x, NEW list,
         LaidOut(n, rows, x, list), NEW room \in Nat, Len(list) <= room, NEW sizes,
         \A v \in 0 .. n - 1 : sizes[v] \in Nat /\ Len(rows[v]) <= sizes[v]
  PROVE  \E at : Places(at, Filled(room, list, 1), sizes)
<1>1. PICK l \in Nat : l = Len(list) /\ l <= room
  BY DEF LaidOut
<1>2. PICK src : src = Filled(room, list, 1)
  OBVIOUS
<1>3. /\ DOMAIN src = 0 .. room - 1
      /\ \A e \in 0 .. room - 1 : src[e] = IF e < l THEN list[e + 1][1] ELSE Unset
  BY <1>1, <1>2 DEF Filled
<1>4. PICK at : at = [e \in 0 .. room - 1 |-> e - x[src[e]]]
  OBVIOUS
<1>5. ASSUME NEW e \in 0 .. room - 1, src[e] # Unset
      PROVE  /\ src[e] \in V /\ x[src[e]] \in Nat /\ at[e] = e - x[src[e]]
             /\ at[e] \in 0 .. sizes[src[e]] - 1
  <2>1. e < l /\ src[e] = list[e + 1][1]
    BY <1>3, <1>5
  <2>2. PICK i \in 1 .. Len(list) : i = e + 1
    BY <1>1, <2>1
  <2>3. PICK v \in 0 .. n - 1 : InRow(rows, x, list, i, v)
    BY PlaceOf
  <2>4. PICK k \in 1 .. Len(rows[v]) : i = x[v] + k /\ list[i] = <<v, rows[v][k]>>
    BY <2>3 DEF InRow
  <2>5. src[e] = v
    BY <2>1, <2>2, <2>4
  <2>6. x[v] \in Nat /\ Len(rows[v]) \in Nat
    <3>1. x \in [0 .. n -> Nat]
      BY DEF LaidOut
    <3>4. v \in 0 .. n
      OBVIOUS
    <3>2. x[v] \in Nat
      BY <3>1, <3>4
    <3>3. rows[v] \in Seq(Nat)
      BY DEF Sorted
    <3> QED
      BY <3>2, <3>3
  <2>7. PICK b \in Nat, c \in Nat : b = x[v] /\ c = Len(rows[v])
    BY <2>6
  <2>8. e - b = k - 1 /\ k \in 1 .. c
    <3>1. k \in 1 .. c /\ i = b + k /\ e \in Nat /\ e + 1 = b + k
      BY <2>2, <2>4, <2>7
    <3> QED
      BY <3>1
  <2>9. at[e] = e - x[src[e]]
    BY <1>4
  <2>10. at[e] = k - 1
    BY <2>5, <2>7, <2>8, <2>9
  <2>11. k - 1 \in 0 .. sizes[v] - 1
    <3>1. PICK z \in Nat : z = sizes[v] /\ c <= z
      BY <2>7
    <3> QED
      BY <2>7, <2>8, <3>1
  <2> QED
    BY <2>5, <2>6, <2>9, <2>10, <2>11
<1>6. ASSUME NEW e \in 0 .. room - 1, src[e] # Unset, NEW d \in 0 .. room - 1,
             src[d] = src[e], at[d] = at[e]
      PROVE  d = e
  <2>1. PICK b \in Nat : b = x[src[e]]
    BY <1>5, <1>6
  <2>2. at[e] = e - b /\ at[d] = d - b
    BY <1>5, <1>6, <2>1
  <2> QED
    BY <1>6, <2>2
<1>7. Places(at, src, sizes)
  BY <1>3, <1>5, <1>6 DEF Places
<1> QED
  BY <1>2, <1>7

LEMMA ArcsInV == Data => Arcs \subseteq V \X V
<1> SUFFICES ASSUME Data, NEW a \in Arcs PROVE a \in V \X V
  OBVIOUS
<1>1. PICK v \in V : \E u \in ToSet(N(v)) : a = <<v, u>>
  BY DEF Arcs
<1>2. N(v) \in Seq(V \ {v})
  BY NFacts
<1>3. ToSet(N(v)) \subseteq V
  BY <1>2 DEF ToSet
<1> QED
  BY <1>1, <1>3

\* The rest of what Remembered keeps.
LEMMA RememberedRest ==
  ASSUME Shape, NEW s, NEW a
  PROVE  Remembered(s, a).counted = FALSE /\ Remembered(s, a).sized = past.sized
<1>1. PICK A : A = Arcs
  OBVIOUS
<1>2. PICK p : p = Remembered(s, a)
  OBVIOUS
<1>3. p = [past EXCEPT !.arcs = A, !.sym_break = s, !.ascend = a,
                       !.counted = FALSE, !.lostList = FALSE]
  BY <1>1, <1>2, Zenon DEF Remembered
<1>4. DOMAIN past = History
  BY DEF Shape
<1>5. p.counted = FALSE /\ p.sized = past.sized
  BY <1>3, <1>4 DEF History
<1> QED
  BY <1>2, <1>5

LEMMA SimpleListTally == ASSUME IInv, Data, Tally, init_simple_edgelist PROVE Tally'
<1>1. Shape /\ Ownership /\ List /\ status = "ok"
  BY InUse DEF init_simple_edgelist
<1>2. CASE g.nnz # 0
  <2>1. UNCHANGED <<heap, g, past>>
    BY <1>2 DEF init_simple_edgelist
  <2> QED
    BY <1>1, <2>1, KeepsAll DEF SameTally
<1>3. CASE g.nnz = 0
  <2>1. PICK a, b : g' = [g EXCEPT !.nnz = g.n_edges, !.src_list = a, !.dst_list = b]
    BY <1>3, Zenon DEF init_simple_edgelist
  <2>2. past' = Remembered(FALSE, FALSE)
    BY <1>3, Zenon DEF init_simple_edgelist
  <2>3. g'.n_vertices = g.n_vertices /\ g'.sizes = g.sizes
    BY <1>1, <2>1 DEF Shape, Members, Owned
  <2>4. PICK p : p = Remembered(FALSE, FALSE)
    OBVIOUS
  <2>5. Recalls(p, FALSE, FALSE) /\ p.counted = FALSE /\ p.sized = past.sized
    BY <1>1, <2>4, RememberedFacts, RememberedRest, Zenon
  <2>6. /\ past'.arcs = Arcs /\ past'.lostList = FALSE
        /\ past'.counted = FALSE /\ past'.sized = past.sized
    BY <2>2, <2>4, <2>5, Zenon DEF Recalls
  <2>7. V' = V
    BY <2>3 DEF V
  <2>8. past'.arcs \subseteq V' \X V'
    BY <2>6, <2>7, ArcsInV
  <2> QED
    BY <2>3, <2>6, <2>7, <2>8 DEF Tally
<1> QED
  BY <1>2, <1>3

\* What a list that fits adds to sizes.
Adds(list, sym_break, ascend) ==
  LET old == IF g.sizes = <<>> THEN [v \in V |-> 0] ELSE g.sizes
      lengths == [v \in V |-> old[v] + Len(Tasks(v, sym_break, ascend))]
  IN  /\ \E nnz0, dst : g' = [g EXCEPT !.nnz = nnz0, !.src_list = Fresh(1), !.dst_list = dst,
                                       !.sizes = lengths]
      /\ past' = [Remembered(sym_break, ascend) EXCEPT
                    !.sized = past.sized + Len(list), !.counted = TRUE]

LEMMA MakeListAdds ==
  ASSUME NEW sym_break, NEW ascend, MakeList(sym_break, ascend),
         NEW list, list = Listed([v \in V |-> Tasks(v, sym_break, ascend)]),
         NEW room, room = Room(sym_break)
  PROVE  \/ Overruns(list, room)
         \/ Fits(list, room, sym_break, ascend) /\ Adds(list, sym_break, ascend)
<1>1. Overruns(list, room) \/ Adds(list, sym_break, ascend)
  BY Zenon DEF MakeList, Room, Overruns, Adds
<1> QED
  BY <1>1, MakeListCases

-----------------------------------------------------------------------------
\* sizes has the lengths of the rows on top of old.
Enlarged(n, rows, old, sizes) ==
  \A v \in 0 .. n - 1 : /\ old[v] \in Nat /\ Len(rows[v]) \in Nat
                         /\ sizes[v] = old[v] + Len(rows[v])

\* The lengths of the rows that are added to sizes are those of the list.
LEMMA SumSizes ==
  ASSUME NEW n \in Nat, NEW rows, NEW x, NEW list, LaidOut(n, rows, x, list),
         NEW old, NEW sizes, Enlarged(n, rows, old, sizes)
  PROVE  SumOver(sizes, 0 .. n - 1) = SumOver(old, 0 .. n - 1) + Len(list)
<1>1. PICK lengths : lengths = [v \in 0 .. n - 1 |-> Len(rows[v])]
  OBVIOUS
<1>2. /\ x \in [0 .. n -> Nat] /\ x[0] = 0 /\ x[n] = Len(list)
      /\ \A v \in 0 .. n - 1 : x[v + 1] - x[v] = Len(rows[v])
  BY DEF LaidOut
<1>3. \A v \in 0 .. n - 1 : lengths[v] \in Nat /\ x[v + 1] - x[v] = lengths[v]
  BY <1>1, <1>2 DEF Enlarged
<1>4. SumOver(lengths, 0 .. n - 1) = x[n]
  <2>1. RowLengths(n, lengths, x)
    BY <1>2, <1>3 DEF RowLengths
  <2> QED
    BY <2>1, SumRows
<1>5. \A v \in 0 .. n - 1 : old[v] \in Nat /\ lengths[v] \in Nat /\ sizes[v] = old[v] + lengths[v]
  BY <1>1 DEF Enlarged
<1>6. SumOver(sizes, 0 .. n - 1) = SumOver(old, 0 .. n - 1) + SumOver(lengths, 0 .. n - 1)
  BY <1>5, SumAdd
<1> QED
  BY <1>2, <1>4, <1>6

\* The sizes count the tasks of the list.
CountedIn(sizes, list) ==
  /\ sizes # <<>> /\ \A v \in V : sizes[v] \in Nat
  /\ SumOver(sizes, V) = past.sized + Len(list)
  /\ \A room \in Nat : Len(list) <= room => \E at : Places(at, Filled(room, list, 1), sizes)

\* The sizes before, of as many vertices as there are.
Sized == IF g.sizes = <<>> THEN [v \in V |-> 0] ELSE g.sizes

\* The new sizes count the tasks of the list, on top of those of earlier ones.
LEMMA SizesAdded ==
  ASSUME Data, Tally, NEW sym_break \in BOOLEAN, NEW ascend \in BOOLEAN,
         NEW list, list = Listed([v \in V |-> Tasks(v, sym_break, ascend)]),
         NEW old, old = Sized, NEW sizes, sizes = [v \in V |-> old[v] + Len(Tasks(v, sym_break, ascend))]
  PROVE  CountedIn(sizes, list)
<1>1. PICK n \in Nat \ {0} : n = g.n_vertices /\ V = 0 .. n - 1
  BY DEF Data, V
<1>2. PICK tasks : tasks = [v \in V |-> Tasks(v, sym_break, ascend)] /\ list = Listed(tasks)
  OBVIOUS
<1>3. ASSUME NEW v \in V
      PROVE  tasks[v] \in Seq(Nat) /\ Strict(tasks[v]) /\ Len(tasks[v]) \in Nat
  <2>1. tasks[v] = Tasks(v, sym_break, ascend)
    BY <1>2
  <2>2. tasks[v] \in Seq(Nat) /\ Strict(tasks[v])
    BY <2>1, TasksFacts
  <2> QED
    BY <2>2
<1>4. Sorted(n, tasks)
  BY <1>1, <1>3 DEF Sorted
<1>5. PICK x : LaidOut(n, tasks, x, list)
  BY <1>1, <1>2, <1>4, ListedLaidOut
<1>6. PICK lengths : lengths = [v \in V |-> Len(tasks[v])]
  OBVIOUS
<1>7. \A v \in V : lengths[v] = Len(tasks[v]) /\ lengths[v] \in Nat
  BY <1>3, <1>6
<1>8. \A v \in V : old[v] \in Nat
  <2>1. CASE g.sizes = <<>>
    BY <2>1 DEF Sized
  <2>2. CASE g.sizes # <<>>
    BY <2>2 DEF Tally, Sized
  <2> QED
    BY <2>1, <2>2
<1>9. \A v \in V : sizes[v] = old[v] + lengths[v]
  BY <1>2, <1>7
<1>10. \A v \in V : sizes[v] \in Nat /\ lengths[v] <= sizes[v]
  BY <1>7, <1>8, <1>9
<1>11. sizes # <<>>
  <2>1. 0 \in DOMAIN sizes
    BY <1>1
  <2>2. 0 \notin DOMAIN <<>>
    OBVIOUS
  <2> QED
    BY <2>1, <2>2
<1>13. SumOver(old, V) = past.sized
  <2>1. CASE g.sizes = <<>>
    <3>1. \A v \in V : old[v] = 0
      BY <2>1 DEF Sized
    <3>2. IsFiniteSet(V)
      <4>1. 0 \in Int /\ n - 1 \in Int
        OBVIOUS
      <4> QED
        BY <1>1, <4>1, FS_Interval
    <3>3. SumOver(old, V) = 0
      BY <3>1, <3>2, SumZero
    <3> QED
      BY <2>1, <3>3 DEF Tally
  <2>2. CASE g.sizes # <<>>
    BY <2>2 DEF Tally, Sized
  <2> QED
    BY <2>1, <2>2
<1>14. SumOver(sizes, V) = past.sized + Len(list)
  <2>1. n \in Nat
    OBVIOUS
  <2>2. Enlarged(n, tasks, old, sizes)
    BY <1>1, <1>7, <1>8, <1>9 DEF Enlarged
  <2>3. SumOver(sizes, 0 .. n - 1) = SumOver(old, 0 .. n - 1) + Len(list)
    BY <1>5, <2>1, <2>2, SumSizes
  <2> QED
    BY <1>1, <1>13, <2>3
<1>15. ASSUME NEW room \in Nat, Len(list) <= room
       PROVE  \E at : Places(at, Filled(room, list, 1), sizes)
  <2>1. \A v \in 0 .. n - 1 : sizes[v] \in Nat /\ Len(tasks[v]) <= sizes[v]
    BY <1>1, <1>7, <1>10
  <2> QED
    BY <1>1, <1>4, <1>5, <1>15, <2>1, LaidOutPlaces
<1> QED
  BY <1>10, <1>11, <1>14, <1>15 DEF CountedIn

LEMMA MakeListTally ==
  ASSUME IInv, Data, Tally, status = "ok", NEW sym_break \in BOOLEAN, NEW ascend \in BOOLEAN,
         MakeList(sym_break, ascend)
  PROVE  Tally'
<1>1. Shape /\ Ownership /\ List
  BY DEF IInv, Deleted
<1>2. PICK list, room, W :
        /\ list = Listed([v \in V |-> Tasks(v, sym_break, ascend)]) /\ room = Room(sym_break)
        /\ W = {a \in Arcs : sym_break => IF ascend THEN a[1] < a[2] ELSE a[1] > a[2]}
  OBVIOUS
<1>3. Enlists(list, W) /\ room \in Nat
  BY <1>2, TasksListed, ZenonT(60)
<1>4. Len(list) \in Nat
  BY <1>3 DEF Enlists
<1>5. CASE Overruns(list, room)
  <2>1. UNCHANGED <<heap, g, past>>
    BY <1>5 DEF Overruns
  <2> QED
    BY <1>1, <2>1, KeepsAll DEF SameTally
<1>6. CASE Fits(list, room, sym_break, ascend) /\ Adds(list, sym_break, ascend)
  <2>1. PICK x, a, old, sizes :
          /\ x = Filled(room, list, 1) /\ a = Fresh(1)
          /\ old = Sized
          /\ sizes = [v \in V |-> old[v] + Len(Tasks(v, sym_break, ascend))]
    OBVIOUS
  <2>2. PICK nnz0, dst : g' = [g EXCEPT !.nnz = nnz0, !.src_list = a, !.dst_list = dst,
                                        !.sizes = sizes]
    BY <1>6, <2>1, Zenon DEF Adds, Sized
  <2>3. g'.src_list = a /\ g'.sizes = sizes /\ g'.n_vertices = g.n_vertices
    BY <1>1, <2>2 DEF Shape, Members, Owned
  <2>4. /\ past'.arcs = Arcs /\ past'.lostList = FALSE /\ past'.counted = TRUE
        /\ past'.sized = past.sized + Len(list)
    <3>1. PICK p, k : p = Remembered(sym_break, ascend) /\ k = past.sized + Len(list)
      OBVIOUS
    <3>2. past' = [p EXCEPT !.sized = k, !.counted = TRUE]
      BY <1>6, <3>1, Zenon DEF Adds
    <3>3. Recalls(p, sym_break, ascend)
      BY <1>1, <3>1, RememberedFacts, Zenon
    <3>4. PICK A : A = Arcs /\ p.arcs = A /\ p.lostList = FALSE
      BY <3>3, Zenon DEF Recalls
    <3>5. DOMAIN p = History
      BY <3>3, Zenon DEF Recalls
    <3>6. past'.arcs = A /\ past'.lostList = FALSE /\ past'.counted = TRUE /\ past'.sized = k
      BY <3>2, <3>4, <3>5 DEF History
    <3> QED
      BY <3>1, <3>4, <3>6
  <2>5. Len(list) <= room
    BY <1>3, <1>4, <1>6 DEF Fits
  <2>6. heap'[a].data = x
    BY <1>1, <1>6, <2>1, FitsHeap
  <2>7. /\ sizes # <<>> /\ \A v \in V : sizes[v] \in Nat
        /\ SumOver(sizes, V) = past.sized + Len(list)
        /\ \A r \in Nat : Len(list) <= r => \E at : Places(at, Filled(r, list, 1), sizes)
    <3>1. CountedIn(sizes, list)
      BY <1>2, <2>1, SizesAdded, ZenonT(60)
    <3> QED
      BY <3>1, Zenon DEF CountedIn
  <2>8. PICK at : Places(at, x, sizes)
    BY <1>3, <2>1, <2>5, <2>7, Zenon
  <2>9. V' = V
    BY <2>3 DEF V
  <2>10. Places(at, Array(g.src_list), g.sizes)'
    <3>1. Array(g.src_list)' = x
      BY <2>3, <2>6 DEF Array
    <3> QED
      BY <2>3, <2>8, <2>9, <3>1 DEF Places
  <2>11. a # NULL
    BY <1>1, <2>1 DEF Shape, Fresh, NULL
  <2>12. past'.arcs \subseteq V' \X V'
    BY <2>4, <2>9, ArcsInV
  <2>13. g'.sizes # <<>> => \A v \in V' : g'.sizes[v] \in Nat
    BY <2>3, <2>7, <2>9
  <2>14. past'.sized = IF g'.sizes = <<>> THEN 0 ELSE SumOver(g'.sizes, V')
    BY <2>3, <2>4, <2>7, <2>9
  <2>15. g'.src_list # NULL /\ g'.sizes # <<>> /\ \E z : Places(z, Array(g.src_list), g.sizes)'
    BY <2>3, <2>7, <2>10, <2>11
  <2> QED
    BY <2>4, <2>12, <2>13, <2>14, <2>15, Zenon DEF Tally
<1> QED
  BY <1>2, <1>5, <1>6, MakeListAdds

LEMMA CallGraphTally == ASSUME IInv, Data, Tally, CallGraph PROVE Tally'
<1>1. GraphStep
  BY DEF CallGraph
<1>2. ASSUME NEW buffers, Orient(buffers) PROVE Tally'
  BY <1>2, OrientationTally
<1>3. CASE swap_graph_mode
  <2>1. CASE SwapFails
    <3>1. Shape /\ Ownership /\ List /\ status = "ok"
      BY <2>1, InUse DEF SwapFails
    <3> QED
      BY <2>1, <3>1, KeepsAll DEF SwapFails, SameTally
  <2> QED
    BY <1>3, <2>1, SwapCases, SwapTally
<1>4. ASSUME NEW c, color_sparsify_fast(c) PROVE Tally'
  BY <1>4, SparsifyFastTally
<1>5. ASSUME NEW c, color_sparsify_fast_d(c) PROVE Tally'
  BY <1>5, SparsifyFastDTally
<1>6. ASSUME NEW c, color_sparsify(c) PROVE Tally'
  BY <1>6, SparsifyTally
<1>7. CASE init_simple_edgelist
  BY <1>7, SimpleListTally
<1>8. CASE create_edge_stream
  BY <1>8, StreamTally
<1>9. ASSUME NEW s \in BOOLEAN, NEW a \in BOOLEAN, init_edgelist(s, a) PROVE Tally'
  <2>1. status = "ok" /\ (MakeList(s, a) \/ UNCHANGED <<heap, g, status, past>>)
    BY <1>9 DEF init_edgelist, Called
  <2>2. CASE MakeList(s, a)
    BY <2>1, <2>2, MakeListTally
  <2>3. CASE UNCHANGED <<heap, g, status, past>>
    <3>1. Shape /\ Ownership /\ List
      BY <2>1 DEF IInv, Deleted
    <3> QED
      BY <2>1, <2>3, <3>1, KeepsAll DEF SameTally
  <2> QED
    BY <2>1, <2>2, <2>3
<1>10. ASSUME NEW s \in BOOLEAN, NEW a \in BOOLEAN, reinit_edgelist(s, a) PROVE Tally'
  <2>1. status = "ok" /\ MakeList(s, a)
    BY <1>10 DEF reinit_edgelist, Called
  <2> QED
    BY <2>1, MakeListTally
<1>11. CASE destroy
  BY <1>11, DestroyTally
<1> QED
  BY <1>1, <1>2, <1>3, <1>4, <1>5, <1>6, <1>7, <1>8, <1>9, <1>10, <1>11, Zenon
     DEF GraphStep, use_dag, orientation

LEMMA StaysOk ==
  ASSUME Undisturbed, [Next]_vars, status' = "ok" PROVE status = "ok"
<1>1. CASE UNCHANGED vars
  BY <1>1 DEF vars, gvars
<1>2. CASE CallScheduler
  BY <1>2 DEF CallScheduler, Split
<1>3. CASE CallPartition
  BY <1>3 DEF CallPartition, Partition, edgecut_induced_partition1D, csr_segmenting
<1>4. CASE SchedulerStep
  <2>1. phase \notin {"idle", "done"}
    BY <1>4 DEF SchedulerStep, round_robin, CopyRest, CopyChunk, vertex_chunking, AppendTask,
                AppendEnd, least_first, NextChunk, LastChunk
  <2> QED
    BY <2>1 DEF Undisturbed
<1>5. CASE PartitionStep
  BY <1>5 DEF PartitionStep, BuildSubgraph, Mark, SegmentVertex, SegmentEnd, gvars
<1>6. CASE CallGraph
  <2>1. Called
    BY <1>6 DEF CallGraph, GraphStep, use_dag, orientation, Orient, swap_graph_mode, color_sparsify_fast,
                color_sparsify_fast_d, color_sparsify, init_simple_edgelist, create_edge_stream,
                init_edgelist, reinit_edgelist, destroy
  <2> QED
    BY <2>1 DEF Called
<1> QED
  BY <1>1, <1>2, <1>3, <1>4, <1>5, <1>6 DEF Next, Working

LEMMA NextTally == IInv /\ Data /\ Tally /\ [Next]_vars => Tally'
<1> SUFFICES ASSUME IInv, Data, Tally, [Next]_vars PROVE Tally'
  OBVIOUS
<1>1. CASE UNCHANGED <<heap, g, past>>
  <2>1. V' = V
    BY <1>1 DEF V
  <2>2. status' = "ok" => status = "ok"
    BY StaysOk DEF IInv
  <2>3. past.counted => \E at : Places(at, Array(g.src_list), g.sizes)'
    <3> SUFFICES ASSUME past.counted PROVE \E at : Places(at, Array(g.src_list), g.sizes)'
      OBVIOUS
    <3>1. PICK at : Places(at, Array(g.src_list), g.sizes)
      BY DEF Tally
    <3>2. Places(at, Array(g.src_list), g.sizes)'
      BY <1>1, <2>1, <3>1 DEF Places, Array
    <3> QED
      BY <3>2
  <2> QED
    BY <1>1, <2>1, <2>2, <2>3 DEF Tally
<1> QED
  BY <1>1, ObjectKept, CallGraphTally

LEMMA InitTally == SplitInit => Tally
<1> SUFFICES ASSUME SplitInit PROVE Tally
  OBVIOUS
<1>1. PICK nv, m, rv, re, deg :
        g = [n_vertices |-> nv, n_edges |-> m,
             vertices |-> 1, edges |-> 2, reverse_vertices |-> rv, reverse_edges |-> re,
             vertices_c |-> NULL, edges_c |-> NULL, n_edges_c |-> 0,
             src_list |-> NULL, dst_list |-> NULL, stream |-> NULL,
             nnz |-> 0, sizes |-> <<>>, max_degree |-> deg,
             MAX_DEGREE |-> Max({deg, 1})]
  BY ZenonT(60) DEF SplitInit, Init
<1>2. g.sizes = <<>>
  BY <1>1
<1>3. PICK csr : past = [loaded |-> csr,
                   arcs |-> {}, sym_break |-> FALSE, ascend |-> FALSE,
                   sized |-> 0, counted |-> FALSE, oriented |-> FALSE, inPlace |-> FALSE,
                   lostList |-> FALSE]
  BY ZenonT(60) DEF SplitInit, Init
<1>4. past.arcs = {} /\ past.sized = 0 /\ past.counted = FALSE /\ past.lostList = FALSE
  BY <1>3
<1> QED
  BY <1>2, <1>4 DEF Tally

(***************************************************************************)
(* After any calls of the methods of Graph the sizes that init_edgelist    *)
(* accumulates add up to the tasks of the lists it has counted, and every  *)
(* task of a counted list has a place of its own in the size of its source *)
(* (graph.cc): the arrays that vertex_chunking allocates by sizes have     *)
(* room for the list.                                                      *)
(***************************************************************************)
THEOREM SplitTally == Spec => []Tally
BY InitTally, NextTally, SplitInvariant, SplitData, PTL DEF Spec

-----------------------------------------------------------------------------
(* least_first.                                                            *)

\* The tasks before the last chunk have a number for their work.
Estimates ==
  \A e \in 0 .. ((nnz - 1) \div job.stride) * job.stride - 1 : workload_estimate(e) \in Nat

\* The heads of the listed arcs are vertices, so that each task has a degree.
LEMMA ListedWork ==
  ASSUME Data, ListInv, Tally, status = "ok", Unusable = "ok",
         nnz \in Nat, NEW x \in Nat \ {0}, x <= nnz, Src(x - 1) # Unset
  PROVE  \A e \in 0 .. x - 1 : workload_estimate(e) \in Nat
<1>1. g.src_list # NULL /\ heap[g.dst_list].live
  BY DEF Unusable
<1>2. PICK list, room : Made(list, room)
  BY <1>1 DEF ListInv
<1>3. ~past.lostList
  BY <1>1 DEF Tally
<1>4. PICK l \in Nat, r \in Nat : l = Len(list) /\ r = room /\ l <= r
  BY <1>2 DEF Made, Enlists
<1>5. /\ DOMAIN Array(g.src_list) = 0 .. r - 1 /\ Cardinality(DOMAIN Array(g.src_list)) = r
      /\ \A e \in 0 .. l - 1 : /\ Src(e) = list[e + 1][1] /\ list[e + 1] \in Wanted
                               /\ list[e + 1] = <<list[e + 1][1], list[e + 1][2]>>
  BY <1>2, <1>4, MadeFacts
<1>6. nnz <= r
  BY <1>1, <1>4, <1>5 DEF Unusable
<1>7. x <= l
  <2> SUFFICES ASSUME l < x PROVE FALSE
    BY <1>4
  <2>1. x - 1 \in 0 .. r - 1 /\ ~(x - 1 < l)
    BY <1>4, <1>6
  <2>2. Array(g.src_list) = [i \in 0 .. r - 1 |-> IF i < l THEN list[i + 1][1] ELSE Unset]
    BY <1>2, <1>4 DEF Made, Filled
  <2>3. Src(x - 1) = Unset
    BY <2>1, <2>2 DEF Src
  <2> QED
    BY <2>3
<1>8. ASSUME NEW e \in 0 .. x - 1 PROVE workload_estimate(e) \in Nat
  <2>1. e \in 0 .. l - 1
    BY <1>4, <1>7
  <2>2. Src(e) = list[e + 1][1] /\ Dst(e) = list[e + 1][2]
    BY <1>2, <1>3, <1>4, <1>5, <2>1 DEF Made, Dst
  <2>3. PICK a : a = list[e + 1] /\ a \in Wanted
    BY <1>5, <2>1
  <2>4. a \in V \X V
    BY <2>3 DEF Wanted, Tally
  <2>5. Src(e) \in V /\ Dst(e) \in V
    BY <2>2, <2>3, <2>4
  <2>6. get_degree(Src(e)) \in Nat /\ get_degree(Dst(e)) \in Nat
    BY <2>5, NFacts
  <2> QED
    BY <2>6 DEF workload_estimate
<1> QED
  BY <1>8

\* The most work in a chunk before the last one.
Largest == Max({Work(c * job.stride, job.stride) : c \in 0 .. (nnz - 1) \div job.stride - 1})

\* Each chunk before the last one has at most the work of the largest.
LEMMA LargestWork ==
  ASSUME Estimates, nnz \in Nat, NEW s \in Nat \ {0}, s = job.stride, s < nnz
  PROVE  /\ Largest \in Nat
         /\ \A c \in Nat : c * s + s < nnz => /\ Work(c * s, s) \in Nat
                                               /\ Work(c * s, s) <= Largest
<1>1. PICK m, N0 : m = nnz - 1 /\ m \in Nat /\ N0 = m \div s
  OBVIOUS
<1>2. N0 \in Nat /\ (m % s) \in 0 .. s - 1 /\ m = N0 * s + (m % s)
  BY <1>1, Euclid
<1>3. ASSUME NEW c \in Nat, c * s + s <= m PROVE c \in 0 .. N0 - 1
  <2> SUFFICES ASSUME N0 <= c PROVE FALSE
    BY <1>2
  <2>1. N0 < c + 1 /\ N0 \in Int /\ c + 1 \in Int
    BY <1>2
  <2>2. N0 * s + s <= (c + 1) * s
    BY <2>1, NextMultiple
  <2>3. PICK x \in Nat, y \in Nat : x = N0 * s /\ y = c * s /\ (c + 1) * s = y + s
    BY <1>2
  <2> QED
    BY <1>2, <1>3, <2>2, <2>3
<1>4. ASSUME NEW c \in 0 .. N0 - 1 PROVE c * s \in Nat /\ c * s + s <= m
  <2>1. c * s + s <= N0 * s
    <3>1. c \in Int /\ N0 \in Int /\ c < N0
      BY <1>2
    <3> QED
      BY <3>1, NextMultiple
  <2>2. c * s \in Nat /\ N0 * s \in Nat
    BY <1>2
  <2> QED
    BY <1>2, <2>1, <2>2
<1>5. ASSUME NEW c \in 0 .. N0 - 1 PROVE Work(c * s, s) \in Nat
  <2>1. c * s \in Nat /\ c * s + s <= m
    BY <1>4
  <2>4. c * s + s <= N0 * s /\ N0 * s \in Nat
    <3>1. c \in Int /\ N0 \in Int /\ c < N0
      BY <1>2
    <3> QED
      BY <1>2, <3>1, NextMultiple
  <2>2. \A e \in c * s .. c * s + s - 1 : e \in 0 .. N0 * s - 1
    BY <1>2, <2>1, <2>4
  <2>3. \A e \in c * s .. c * s + s - 1 : workload_estimate(e) \in Nat
    BY <1>1, <2>2 DEF Estimates
  <2> QED
    BY <2>1, <2>3, WorkNat
<1>6. PICK W, S : /\ W = [c \in 0 .. N0 - 1 |-> Work(c * s, s)]
                  /\ S = {W[c] : c \in 0 .. N0 - 1}
  OBVIOUS
<1>7. Largest = Max(S)
  <2>1. {Work(c * s, s) : c \in 0 .. N0 - 1} = S
    BY <1>6
  <2> QED
    BY <1>1, <2>1 DEF Largest
<1>8. IsFiniteSet(S) /\ S \subseteq Nat
  <2>1. IsFiniteSet(0 .. N0 - 1)
    <3>1. 0 \in Int /\ N0 - 1 \in Int
      BY <1>2
    <3> QED
      BY <3>1, FS_Interval
  <2>2. IsFiniteSet(S)
    <3>1. W \in Surjection(0 .. N0 - 1, S)
      BY <1>6 DEF Surjection
    <3> QED
      BY <2>1, <3>1, FS_Surjection
  <2> QED
    BY <1>5, <1>6, <2>2
<1>9. 0 \in 0 .. N0 - 1
  <2>1. 0 * s + s <= m
    BY <1>1, <1>2
  <2> QED
    BY <1>3, <2>1
<1>10. S # {}
  BY <1>6, <1>9
<1>11. Max(S) \in S /\ \A x \in S : x <= Max(S)
  BY <1>8, <1>10, MaxFacts
<1>12. ASSUME NEW c \in Nat, c * s + s < nnz
       PROVE  Work(c * s, s) \in Nat /\ Work(c * s, s) <= Largest
  <2>3. c * s \in Nat
    OBVIOUS
  <2>4. c * s + s <= m
    BY <1>1, <1>12, <2>3
  <2>1. c \in 0 .. N0 - 1
    BY <1>3, <2>4
  <2>2. Work(c * s, s) \in S
    BY <1>6, <2>1
  <2> QED
    BY <1>5, <1>7, <1>11, <2>1, <2>2
<1> QED
  BY <1>7, <1>8, <1>11, <1>12

-----------------------------------------------------------------------------
\* Every queue is as long as lens says.
QueuesFit ==
  /\ DOMAIN queues = Q /\ DOMAIN lens = Q
  /\ \A q \in Q : DOMAIN queues[q] = 0 .. lens[q] - 1

\* The queues hold the tasks before pos, and the work of two of them differs
\* by no more than a chunk has.
GivenSoFar ==
  /\ Estimates /\ pos \in Nat /\ job.n * job.stride < nnz
  /\ QueuesFit /\ Holding(queues, lens, pos, job.n)
  /\ DOMAIN scores = Q /\ \A q \in Q : scores[q] \in Nat
  /\ \A a, b \in Q : scores[a] - scores[b] <= Largest
  /\ phase = "more" => pos < nnz /\ \E c \in Nat : pos = c * job.stride
  /\ phase = "done" => pos = nnz

Giving == job.method = "least_first" /\ (phase = "more" \/ Given) => GivenSoFar

\* The next size tasks for queue id.
LEMMA GiveFacts ==
  ASSUME NEW n \in Nat \ {0}, n = job.n, QueuesFit, pos \in Nat, Holding(queues, lens, pos, n),
         smallest_score_id \in Q, NEW size \in Nat, Give(size), job' = job
  PROVE  QueuesFit' /\ Holding(queues', lens', pos + size, n) /\ pos' = pos + size
<1>1. PICK id \in Q : id = smallest_score_id
  OBVIOUS
<1>2. PICK l \in Nat : l = lens[id] /\ DOMAIN queues[id] = 0 .. l - 1
  BY <1>1 DEF QueuesFit, Holding, Lengths, Q
<1>3. Cardinality(DOMAIN queues[id]) = l
  <2>1. 0 \in Int /\ l - 1 \in Int
    OBVIOUS
  <2>2. Cardinality(0 .. l - 1) = IF 0 > l - 1 THEN 0 ELSE (l - 1) - 0 + 1
    BY <2>1, FS_Interval
  <2> QED
    BY <1>2, <2>2
<1>4. PICK h : h = Copied(queues[id], l, pos, size)
  OBVIOUS
<1>5. /\ lens' = [lens EXCEPT ![id] = l + size] /\ queues' = [queues EXCEPT ![id] = h]
      /\ pos' = pos + size
  BY <1>1, <1>2, <1>3, <1>4 DEF Give
<1>6. /\ lens'[id] = l + size /\ queues'[id] = h
      /\ DOMAIN lens' = Q /\ DOMAIN queues' = Q
      /\ \A r \in Q \ {id} : lens'[r] = lens[r] /\ queues'[r] = queues[r]
  BY <1>5 DEF QueuesFit
<1>7. PICK f : f = queues[id] /\ DOMAIN f = 0 .. l - 1
  BY <1>2
<1>8. /\ \A k \in 0 .. l - 1 : h[k] = f[k]
      /\ \A j \in 0 .. size - 1 : h[l + j] = pos + j
      /\ DOMAIN h = 0 .. l + size - 1
  <2>1. l <= l /\ h = Copied(f, l, pos, size)
    BY <1>4, <1>7
  <2>2. CopiedInto(h, f, l, pos, size, l)
    BY <1>7, <2>1, CopiedCells
  <2> QED
    BY <2>2 DEF CopiedInto
<1>9. Handed(queues, lens, pos, n, id, size, queues', lens')
  BY <1>1, <1>2, <1>6, <1>7, <1>8 DEF Handed, Q
<1>10. Holding(queues', lens', pos + size, n)
  <2>1. n \in Nat /\ id \in 0 .. n - 1
    BY DEF Q
  <2> QED
    BY <1>9, <2>1, HandedHolding
<1>11. QueuesFit'
  <2>1. Q' = Q
    BY DEF Q
  <2>2. ASSUME NEW q \in Q PROVE DOMAIN queues'[q] = 0 .. lens'[q] - 1
    <3>1. CASE q = id
      BY <1>6, <1>8, <3>1
    <3>2. CASE q # id
      BY <1>6, <3>2 DEF QueuesFit
    <3> QED
      BY <3>1, <3>2
  <2> QED
    BY <1>6, <2>1, <2>2 DEF QueuesFit
<1> QED
  BY <1>5, <1>10, <1>11

\* The steps of Scheduler leave what the list is.
LEMMA SameWork ==
  ASSUME UNCHANGED <<heap, g>>, job' = job
  PROVE  (Estimates' <=> Estimates) /\ Largest' = Largest
<1>1. nnz' = nnz
  BY DEF nnz
<1>2. \A e : workload_estimate(e)' = workload_estimate(e)
  BY DEF workload_estimate, get_degree, Src, Dst, Array
<1>3. \A a, b : Work(a, b)' = Work(a, b)
  BY <1>2 DEF Work
<1> QED
  BY <1>1, <1>2, <1>3 DEF Estimates, Largest

\* The queues after the first chunks of least_first.
LEMMA StartGiving ==
  ASSUME Data, ListInv, Tally, Counts, Job, Undisturbed, least_first, job' = job
  PROVE  Giving'
<1>1. PICK n \in Nat \ {0}, s \in Nat \ {0}, m \in Nat :
        n = job.n /\ s = job.stride /\ m = nnz /\ status = "ok" /\ Q = 0 .. n - 1
  BY DEF least_first, Job, Counts, Undisturbed, nnz, Q
<1>2. MinTasks \in Nat /\ n * s \in Nat
  BY MinTasksAssumption
<1>3. CASE phase' # "more"
  <2>1. status' # "ok"
    BY <1>3 DEF least_first, Fails
  <2> QED
    BY <1>3, <2>1 DEF Giving, Given
<1>4. CASE phase' = "more"
  <2>1. ~(m <= MinTasks) /\ Unusable = "ok" /\ Src(estimated - 1) # Unset /\ ~(n * s >= m)
    BY <1>1, <1>2, <1>4, UnusableType DEF least_first, Fails
  <2>2. /\ lens' = [i \in Q |-> s]
        /\ queues' = [i \in Q |-> Copied(<<>>, 0, i * s, s)]
        /\ scores' = [i \in Q |-> Work(i * s, s)]
        /\ pos' = n * s /\ UNCHANGED gvars
    BY <1>1, <1>2, <1>4 DEF least_first, Fails
  <2>3. m \in Nat \ {0} /\ n * s < m
    BY <1>2, <2>1
  <2>4. Estimates
    <3>1. PICK x \in Nat \ {0} : /\ x = estimated /\ x <= m
                                 /\ x = ((nnz - 1) \div job.stride) * job.stride
      BY <1>1, <2>3, EstimatedFacts
    <3>2. \A e \in 0 .. x - 1 : workload_estimate(e) \in Nat
      BY <1>1, <2>1, <3>1, ListedWork
    <3> QED
      BY <3>1, <3>2 DEF Estimates
  <2>5. UNCHANGED <<heap, g>> /\ Q' = Q /\ nnz' = nnz
    BY <2>2 DEF gvars, Q, nnz
  <2>6. ASSUME NEW q \in Q
        PROVE  /\ lens'[q] = s /\ DOMAIN queues'[q] = 0 .. s - 1
               /\ \A j \in 0 .. s - 1 : queues'[q][j] = q * s + j
    <3>5. PICK p \in Nat : p = q * s
      BY <1>1
    <3>1. PICK f, h : f = <<>> /\ h = Copied(f, 0, p, s) /\ queues'[q] = h
      BY <2>2, <3>5
    <3>2. DOMAIN f = 0 .. 0 - 1 /\ 0 \in Nat /\ s \in Nat /\ 0 <= 0
      BY <3>1
    <3>3. (\A j \in 0 .. s - 1 : h[0 + j] = p + j) /\ DOMAIN h = 0 .. 0 + s - 1
      <4>1. CopiedInto(h, f, 0, p, s, 0)
        BY <3>1, <3>2, CopiedCells
      <4> QED
        BY <4>1 DEF CopiedInto
    <3>4. \A j \in 0 .. s - 1 : h[j] = p + j
      BY <3>3
    <3> QED
      BY <2>2, <3>1, <3>3, <3>4, <3>5
  <2>7. QueuesFit'
    BY <2>2, <2>5, <2>6 DEF QueuesFit
  <2>8. Holding(queues', lens', n * s, n)
    <3>1. OneChunkEach(queues', n, s) /\ \A q \in 0 .. n - 1 : lens'[q] = s
      BY <1>1, <2>6 DEF OneChunkEach
    <3> QED
      BY <3>1, FirstChunks
  <2>9. s < m
    <3>1. 0 * s + s <= n * s
      BY NextMultiple
    <3> QED
      BY <1>2, <2>3, <3>1
  <2>10. /\ Largest \in Nat
         /\ \A c \in Nat : c * s + s < nnz => Work(c * s, s) \in Nat /\ Work(c * s, s) <= Largest
    BY <1>1, <2>4, <2>9, LargestWork
  <2>11. ASSUME NEW q \in Q PROVE scores'[q] \in 0 .. Largest
    <3>1. q \in Nat /\ q \in Int /\ n \in Int /\ q < n /\ q * s \in Nat
      BY <1>1
    <3>2. q * s + s <= n * s
      BY <3>1, NextMultiple
    <3>3. q * s + s < nnz
      BY <1>1, <1>2, <2>3, <3>1, <3>2
    <3> QED
      BY <2>2, <2>10, <3>1, <3>3
  <2>12. \A a, b \in Q : scores'[a] - scores'[b] <= Largest
    BY <2>10, <2>11
  <2>13. Estimates' /\ Largest' = Largest
    BY <2>4, <2>5, SameWork
  <2>14. GivenSoFar'
    <3>1. job'.n * job'.stride < nnz' /\ pos' \in Nat /\ pos' < nnz' /\ pos' = n * job'.stride
      BY <1>1, <1>2, <2>2, <2>3, <2>5
    <3>2. Holding(queues', lens', pos', job'.n)
      BY <1>1, <2>2, <2>8
    <3>3. DOMAIN scores' = Q' /\ \A q \in Q' : scores'[q] \in Nat
      BY <2>2, <2>5, <2>10, <2>11
    <3>4. \A a, b \in Q' : scores'[a] - scores'[b] <= Largest'
      BY <2>5, <2>12, <2>13
    <3>5. \E c \in Nat : pos' = c * job'.stride
      BY <3>1
    <3> QED
      BY <1>4, <2>7, <2>13, <3>1, <3>2, <3>3, <3>4, <3>5 DEF GivenSoFar
  <2> QED
    BY <2>14 DEF Giving
<1> QED
  BY <1>3, <1>4

-----------------------------------------------------------------------------
\* A chunk goes to the queue that is lowest, which stays within the largest chunk.
LEMMA NextChunkGiving ==
  ASSUME Counts, Job, Giving, NextChunk, job' = job
  PROVE  Giving'
<1>1. PICK n \in Nat \ {0}, s \in Nat \ {0}, m \in Nat :
        n = job.n /\ s = job.stride /\ m = nnz /\ Q = 0 .. n - 1
  BY DEF NextChunk, Job, Counts, nnz, Q
<1>2. job.method = "least_first" /\ GivenSoFar
  BY DEF NextChunk, Job, Giving
<1>3. /\ Estimates /\ pos \in Nat /\ n * s < m /\ QueuesFit /\ Holding(queues, lens, pos, n)
      /\ DOMAIN scores = Q /\ \A q \in Q : scores[q] \in Nat
      /\ \A a, b \in Q : scores[a] - scores[b] <= Largest
      /\ \E c \in Nat : pos = c * s
  BY <1>1, <1>2 DEF GivenSoFar, NextChunk
<1>4. smallest_score_id \in Q /\ \A j \in Q : scores[smallest_score_id] <= scores[j]
  BY <1>1, <1>3, LeastScore
<1>5. QueuesFit' /\ Holding(queues', lens', pos + s, n) /\ pos' = pos + s
  BY <1>1, <1>3, <1>4, GiveFacts DEF NextChunk
<1>6. UNCHANGED <<heap, g>> /\ Q' = Q /\ nnz' = nnz /\ phase' = "more" /\ pos + s < m
  BY <1>1 DEF NextChunk, gvars, Q, nnz
<1>7. Estimates' /\ Largest' = Largest
  BY <1>3, <1>6, SameWork
<1>8. n * s \in Nat /\ s <= n * s
  <2>1. 0 * s + s <= n * s
    BY NextMultiple
  <2> QED
    BY <2>1
<1>9. PICK c \in Nat : pos = c * s
  BY <1>3
<1>10. PICK w \in Nat : w = Work(pos, s) /\ Largest \in Nat /\ w <= Largest
  <2>1. s < m
    BY <1>3, <1>8
  <2>2. /\ Largest \in Nat
        /\ \A d \in Nat : d * s + s < nnz => Work(d * s, s) \in Nat /\ Work(d * s, s) <= Largest
    BY <1>1, <1>3, <2>1, LargestWork
  <2>3. c * s + s < nnz
    BY <1>1, <1>3, <1>6, <1>9
  <2> QED
    BY <1>9, <2>2, <2>3
<1>11. PICK id \in Q : id = smallest_score_id
  BY <1>4
<1>12. scores' = [scores EXCEPT ![id] = @ + w]
  BY <1>1, <1>10, <1>11 DEF NextChunk
<1>13. /\ scores'[id] = scores[id] + w /\ DOMAIN scores' = Q
       /\ \A q \in Q \ {id} : scores'[q] = scores[q]
  BY <1>3, <1>12
<1>14. \A q \in Q : scores'[q] \in Nat
  BY <1>3, <1>13
<1>15. ASSUME NEW a \in Q, NEW b \in Q PROVE scores'[a] - scores'[b] <= Largest
  <2>1. scores[id] <= scores[b] /\ scores[a] \in Nat /\ scores[b] \in Nat /\ scores[id] \in Nat
    BY <1>3, <1>4, <1>11
  <2>2. scores[a] - scores[b] <= Largest
    BY <1>3
  <2>3. CASE a = id /\ b = id
    BY <1>10, <1>14, <2>3
  <2>4. CASE a = id /\ b # id
    BY <1>10, <1>13, <2>1, <2>4
  <2>5. CASE a # id /\ b = id
    BY <1>10, <1>13, <2>1, <2>2, <2>5
  <2>6. CASE a # id /\ b # id
    BY <1>13, <2>2, <2>6
  <2> QED
    BY <2>3, <2>4, <2>5, <2>6
<1>16. GivenSoFar'
  <2>1. job'.n * job'.stride < nnz' /\ pos' \in Nat /\ pos' < nnz'
    <3>1. job'.n * job'.stride = n * s /\ nnz' = m
      BY <1>1, <1>6
    <3>2. pos + s \in Nat /\ n * s < m
      BY <1>3
    <3> QED
      BY <1>5, <1>6, <3>1, <3>2
  <2>2. Holding(queues', lens', pos', job'.n)
    BY <1>1, <1>5
  <2>3. DOMAIN scores' = Q' /\ \A q \in Q' : scores'[q] \in Nat
    BY <1>6, <1>13, <1>14
  <2>4. \A a, b \in Q' : scores'[a] - scores'[b] <= Largest'
    BY <1>6, <1>7, <1>15
  <2>5. \E d \in Nat : pos' = d * job'.stride
    <3>1. pos' = (c + 1) * s /\ c + 1 \in Nat
      BY <1>5, <1>9
    <3> QED
      BY <1>1, <3>1
  <2>6. phase' # "done"
    BY <1>6
  <2> QED
    BY <1>5, <1>7, <2>1, <2>2, <2>3, <2>4, <2>5, <2>6 DEF GivenSoFar
<1> QED
  BY <1>16 DEF Giving

\* The last chunk leaves the scores as they are.
LEMMA LastChunkGiving ==
  ASSUME Counts, Job, Giving, LastChunk, job' = job
  PROVE  Giving'
<1>1. PICK n \in Nat \ {0}, s \in Nat \ {0}, m \in Nat :
        n = job.n /\ s = job.stride /\ m = nnz /\ Q = 0 .. n - 1
  BY DEF LastChunk, Job, Counts, nnz, Q
<1>2. job.method = "least_first" /\ GivenSoFar
  BY DEF LastChunk, Job, Giving
<1>3. /\ Estimates /\ pos \in Nat /\ n * s < m /\ QueuesFit /\ Holding(queues, lens, pos, n)
      /\ DOMAIN scores = Q /\ \A q \in Q : scores[q] \in Nat
      /\ \A a, b \in Q : scores[a] - scores[b] <= Largest
      /\ pos < m
  BY <1>1, <1>2 DEF GivenSoFar, LastChunk
<1>4. smallest_score_id \in Q
  BY <1>1, <1>3, LeastScore
<1>5. PICK size \in Nat : size = m - pos /\ pos + size = m
  BY <1>3
<1>6. QueuesFit' /\ Holding(queues', lens', pos + size, n) /\ pos' = pos + size
  <2>1. Give(size)
    BY <1>1, <1>5 DEF LastChunk
  <2> QED
    BY <1>1, <1>3, <1>4, <2>1, GiveFacts
<1>7. UNCHANGED <<heap, g>> /\ Q' = Q /\ nnz' = nnz /\ phase' = "done" /\ scores' = scores
  BY DEF LastChunk, gvars, Q, nnz
<1>8. Estimates' /\ Largest' = Largest
  BY <1>3, <1>7, SameWork
<1>9. GivenSoFar'
  <2>1. job'.n * job'.stride < nnz' /\ pos' \in Nat /\ pos' = nnz'
    BY <1>1, <1>3, <1>5, <1>6, <1>7
  <2>2. Holding(queues', lens', pos', job'.n)
    BY <1>1, <1>6
  <2>3. DOMAIN scores' = Q' /\ \A q \in Q' : scores'[q] \in Nat
    BY <1>3, <1>7
  <2>4. \A a, b \in Q' : scores'[a] - scores'[b] <= Largest'
    BY <1>3, <1>7, <1>8
  <2>5. phase' # "more"
    BY <1>7
  <2> QED
    BY <1>6, <1>8, <2>1, <2>2, <2>3, <2>4, <2>5 DEF GivenSoFar
<1> QED
  BY <1>9 DEF Giving

LEMMA NextGiving ==
  IInv /\ Data /\ ListInv /\ Tally /\ Counts /\ Job /\ Giving /\ [Next]_vars => Giving'
<1> SUFFICES ASSUME IInv, Data, ListInv, Tally, Counts, Job, Giving, [Next]_vars
             PROVE  Giving'
  OBVIOUS
<1>1. ASSUME phase' \notin {"more", "done"} PROVE Giving'
  BY <1>1 DEF Giving, Given
<1>2. CASE CallGraph
  BY <1>1, <1>2 DEF CallGraph, Idle, svars
<1>3. CASE CallScheduler
  BY <1>1, <1>3 DEF CallScheduler, Split, Methods
<1>4. CASE CallPartition
  BY <1>1, <1>4 DEF CallPartition, Idle, svars
<1>5. CASE UNCHANGED <<gvars, svars>>
  <2>1. UNCHANGED <<heap, g>> /\ job' = job /\ Q' = Q /\ nnz' = nnz
    BY <1>5 DEF gvars, svars, Q, nnz
  <2>2. (Estimates' <=> Estimates) /\ Largest' = Largest
    BY <2>1, SameWork
  <2>3. QueuesFit' <=> QueuesFit
    BY <1>5, <2>1 DEF svars, QueuesFit
  <2>4. GivenSoFar' <=> GivenSoFar
    BY <1>5, <2>1, <2>2, <2>3 DEF svars, GivenSoFar
  <2> QED
    BY <1>5, <2>4 DEF Giving, Given, gvars, svars
<1>6. CASE SchedulerStep
  <2>1. job' = job
    BY <1>6 DEF SchedulerStep
  <2>2. CASE least_first
    BY <2>1, <2>2, StartGiving DEF IInv
  <2>3. CASE NextChunk
    BY <2>1, <2>3, NextChunkGiving
  <2>4. CASE LastChunk
    BY <2>1, <2>4, LastChunkGiving
  <2>5. CASE round_robin \/ CopyRest \/ \E c \in todo : CopyChunk(c)
    <3>1. phase = "round_robin" \/ phase = "chunks"
      BY <2>5 DEF round_robin, CopyRest, CopyChunk
    <3>2. job.method # "least_first"
      BY <3>1 DEF Job, Methods
    <3> QED
      BY <2>1, <3>2 DEF Giving
  <2>6. CASE vertex_chunking \/ AppendTask \/ AppendEnd
    <3>1. phase = "vertex_chunking" \/ phase = "append"
      BY <2>6 DEF vertex_chunking, AppendTask, AppendEnd
    <3>2. job.method # "least_first"
      BY <3>1 DEF Job, Methods
    <3> QED
      BY <2>1, <3>2 DEF Giving
  <2> QED
    BY <1>6, <2>2, <2>3, <2>4, <2>5, <2>6 DEF SchedulerStep
<1>7. CASE PartitionStep /\ UNCHANGED svars
  <2>1. UNCHANGED gvars
    BY <1>7 DEF PartitionStep, BuildSubgraph, Mark, SegmentVertex, SegmentEnd
  <2> QED
    BY <1>5, <1>7, <2>1
<1> QED
  BY <1>2, <1>3, <1>4, <1>5, <1>6, <1>7 DEF Next, Working, vars

LEMMA InitGiving == SplitInit => Giving
BY DEF SplitInit, SchedulerInit, Giving, Given

(***************************************************************************)
(* What least_first keeps, for every list, number of queues and stride     *)
(* (scheduler.cc): the queues hold the tasks before pos, each once, and    *)
(* the scores lie within the work of one chunk of each other.              *)
(***************************************************************************)
THEOREM SplitGiving == Spec => []Giving
<1>1. RoundRobinInv => Counts /\ Job
  BY DEF RoundRobinInv
<1> QED
  BY <1>1, InitGiving, NextGiving, SplitInvariant, SplitData, SplitListInv, SplitTally,
     SplitRoundRobin, PTL DEF Spec

(***************************************************************************)
(* least_first balances (scheduler.cc): while it hands out chunks, and at  *)
(* its end, the scores of two queues differ by no more than the work of    *)
(* the largest chunk, for every graph, every list and any number of calls  *)
(* before; the last chunk is in no score.                                  *)
(***************************************************************************)
THEOREM SplitBalanced == Spec => []Balanced
<1>1. Giving => Balanced
  BY DEF Giving, Given, GivenSoFar, Balanced, Largest
<1> QED
  BY <1>1, SplitGiving, PTL

-----------------------------------------------------------------------------
(* vertex_chunking.                                                        *)

\* The first n of the tasks t have their sources in C, and differ.
FromSources(t, n, src, C) ==
  \A k \in 0 .. n - 1 : t[k] \in DOMAIN src /\ src[t[k]] # Unset /\ src[t[k]] \in C
Different(t, n) == \A k, l \in 0 .. n - 1 : t[k] = t[l] => k = l

\* Tasks that differ, with sources in C, are no more than the sizes of C.
LEMMA RoomFor ==
  ASSUME NEW n \in Nat, NEW sizes, NEW C, IsFiniteSet(C), \A v \in C : sizes[v] \in Nat,
         NEW at, NEW src, Places(at, src, sizes), NEW t, FromSources(t, n, src, C), Different(t, n)
  PROVE  n <= SumOver(sizes, C)
<1>1. PICK f, U : /\ f = [k \in 0 .. n - 1 |-> <<src[t[k]], at[t[k]]>>] /\ U = Units(sizes, C)
  OBVIOUS
<1>2. ASSUME NEW k \in 0 .. n - 1 PROVE f[k] \in U
  <2>1. PICK v, a : v = src[t[k]] /\ a = at[t[k]]
    OBVIOUS
  <2>2. v \in C /\ a \in 0 .. sizes[v] - 1
    BY <2>1 DEF FromSources, Places
  <2>3. <<v, a>> \in UnitsOf(sizes, v)
    BY <2>2 DEF UnitsOf
  <2>4. <<v, a>> \in U
    BY <1>1, <2>2, <2>3 DEF Units
  <2> QED
    BY <1>1, <2>1, <2>4
<1>3. ASSUME NEW k \in 0 .. n - 1, NEW l \in 0 .. n - 1, f[k] = f[l] PROVE k = l
  <2>1. PICK d, e : d = t[k] /\ e = t[l]
    OBVIOUS
  <2>2. src[d] = src[e] /\ at[d] = at[e]
    BY <1>1, <1>3, <2>1
  <2>3. e \in DOMAIN src /\ src[e] # Unset /\ d \in DOMAIN src
    BY <2>1 DEF FromSources
  <2>4. d = e
    BY <2>2, <2>3 DEF Places
  <2> QED
    BY <2>1, <2>4 DEF Different
<1>4. f \in Injection(0 .. n - 1, U)
  <2>1. f \in [0 .. n - 1 -> U]
    BY <1>1, <1>2
  <2>2. \A k, l \in DOMAIN f : f[k] = f[l] => k = l
    BY <1>1, <1>3
  <2> QED
    BY <2>1, <2>2 DEF Injection, IsInjective
<1>5. IsFiniteSet(U) /\ Cardinality(U) \in Nat
  BY <1>1, UnitsFinite
<1>6. Cardinality(0 .. n - 1) <= Cardinality(U)
  BY <1>4, <1>5, FS_Injection
<1>7. Cardinality(0 .. n - 1) = n
  <2>1. 0 \in Int /\ n - 1 \in Int
    OBVIOUS
  <2>2. Cardinality(0 .. n - 1) = IF 0 > n - 1 THEN 0 ELSE (n - 1) - 0 + 1
    BY <2>1, FS_Interval
  <2> QED
    BY <2>2
<1>8. SumOver(sizes, C) = Cardinality(U)
  BY <1>1, SumCounts
<1> QED
  BY <1>6, <1>7, <1>8

\* The lengths that are taken from sizes.
SourcesOf(q) == {v \in V : QueueOf(v) = q}
VertexLens == [q \in Q |-> SumOver(g.sizes, SourcesOf(q))]

\* The cells of queue q: tasks of its sources, then room.
FilledTo(f, q) ==
  /\ f[q] \in Nat /\ f[q] <= lens[q] /\ DOMAIN queues[q] = 0 .. lens[q] - 1
  /\ \A k \in f[q] .. lens[q] - 1 : queues[q][k] = Unset
  /\ FromSources(queues[q], f[q], Array(g.src_list), SourcesOf(q))

AppendedSoFar ==
  /\ lens = VertexLens /\ DOMAIN queues = Q /\ DOMAIN idx = Q
  /\ pos \in Nat /\ pos <= nnz /\ Holding(queues, idx, pos, job.n)
  /\ \A q \in Q : FilledTo(idx, q)
  /\ phase = "done" => pos = nnz

Appending ==
  job.method = "vertex_chunking" /\ past.counted /\ (phase = "append" \/ Given) => AppendedSoFar

\* Every vertex is a source of one queue, and the lengths are numbers.
LEMMA VertexLensFacts ==
  ASSUME Data, Tally, past.counted, NEW n \in Nat \ {0}, n = job.n, job.stride \in Nat \ {0}
  PROVE  /\ \A v \in V : QueueOf(v) \in Q /\ g.sizes[v] \in Nat
         /\ \A q \in Q : /\ VertexLens[q] = SumOver(g.sizes, SourcesOf(q)) /\ VertexLens[q] \in Nat
                         /\ IsFiniteSet(SourcesOf(q))
         /\ DOMAIN VertexLens = Q /\ SumOver(VertexLens, Q) = past.sized
<1>1. PICK m \in Nat : V = 0 .. m - 1
  BY DEF Data, V
<1>2. PICK sizes : sizes = g.sizes /\ \A v \in V : sizes[v] \in Nat
  BY DEF Tally
<1>3. past.sized = SumOver(sizes, V)
  BY <1>2 DEF Tally
<1>4. Q = 0 .. n - 1
  BY DEF Q
<1>5. ASSUME NEW v \in V PROVE QueueOf(v) \in Q
  <2>1. PICK s \in Nat \ {0} : s = job.stride
    OBVIOUS
  <2>2. PICK w \in Nat : w = v \div s
    <3>1. v \in Nat
      BY <1>1
    <3> QED
      BY <3>1, Euclid
  <2>3. (w % n) \in 0 .. n - 1
    BY Euclid
  <2> QED
    BY <1>4, <2>1, <2>2, <2>3 DEF QueueOf
<1>6. PICK of : of = [v \in V |-> QueueOf(v)]
  OBVIOUS
<1>7. ASSUME NEW q \in Q PROVE SourcesOf(q) = Class(of, m, q) /\ IsFiniteSet(SourcesOf(q))
  <2>1. SourcesOf(q) = Class(of, m, q)
    BY <1>1, <1>6 DEF SourcesOf, Class
  <2>2. IsFiniteSet(V)
    <3>1. 0 \in Int /\ m - 1 \in Int
      OBVIOUS
    <3> QED
      BY <1>1, <3>1, FS_Interval
  <2>3. SourcesOf(q) \subseteq V
    BY DEF SourcesOf
  <2> QED
    BY <2>1, <2>2, <2>3, FS_Subset
<1>8. PICK len : len = VertexLens
  OBVIOUS
<1>9. DOMAIN len = Q /\ \A q \in Q : len[q] = SumOver(sizes, SourcesOf(q))
  BY <1>2, <1>8 DEF VertexLens
<1>10. ASSUME NEW q \in Q PROVE len[q] \in Nat
  <2>1. \A v \in SourcesOf(q) : sizes[v] \in Nat
    BY <1>2 DEF SourcesOf
  <2> QED
    BY <1>7, <1>9, <2>1, SumNat
<1>11. SumOver(len, Q) = past.sized
  <2>1. \A v \in 0 .. m - 1 : sizes[v] \in Nat /\ of[v] \in 0 .. n - 1
    BY <1>1, <1>2, <1>4, <1>5, <1>6
  <2>2. \A q \in 0 .. n - 1 : len[q] = SumOver(sizes, Class(of, m, q))
    BY <1>4, <1>7, <1>9
  <2>3. n \in Nat
    OBVIOUS
  <2>4. SumOver(len, 0 .. n - 1) = SumOver(sizes, 0 .. m - 1)
    <3>1. ClassSums(m, n, of, sizes, len)
      BY <2>1, <2>2 DEF ClassSums
    <3> QED
      BY <2>3, <3>1, SumClasses
  <2> QED
    BY <1>1, <1>3, <1>4, <2>4
<1> QED
  BY <1>2, <1>5, <1>7, <1>8, <1>9, <1>10, <1>11

\* The empty queues of vertex_chunking are as long as sizes says.
LEMMA StartAppending ==
  ASSUME Data, Tally, Counts, Job, vertex_chunking, job' = job PROVE Appending'
<1> SUFFICES ASSUME past'.counted, phase' = "append" \/ Given' PROVE AppendedSoFar'
  BY DEF Appending
<1>1. PICK n \in Nat \ {0} : n = job.n /\ job.stride \in Nat \ {0} /\ nnz \in Nat
  BY DEF vertex_chunking, Job, Counts, nnz
<1>2. CASE g.sizes = <<>>
  <2>1. status' # "ok" /\ phase' = "done"
    BY <1>2 DEF vertex_chunking, Fails
  <2> QED
    BY <2>1 DEF Given
<1>3. CASE g.sizes # <<>>
  <2>1. /\ UNCHANGED gvars /\ phase' = "append" /\ pos' = 0
        /\ queues' = Allocated(lens') /\ idx' = [q \in Q |-> 0]
    BY <1>3 DEF vertex_chunking
  <2>2. lens' = VertexLens
    BY <1>3 DEF vertex_chunking, VertexLens, SourcesOf
  <2>3. Q' = Q /\ nnz' = nnz /\ g' = g /\ heap' = heap /\ past' = past
    BY <2>1 DEF Q, nnz, gvars
  <2>4. past.counted
    BY <2>3
  <2>5. DOMAIN VertexLens = Q /\ \A q \in Q : VertexLens[q] \in Nat
    BY <1>1, <2>4, VertexLensFacts
  <2>6. DOMAIN queues' = Q /\ DOMAIN idx' = Q /\ \A q \in Q : idx'[q] = 0
    BY <2>1, <2>2, <2>5 DEF Allocated
  <2>7. ASSUME NEW q \in Q
        PROVE  /\ DOMAIN queues'[q] = 0 .. lens'[q] - 1 /\ lens'[q] \in Nat
               /\ \A k \in 0 .. lens'[q] - 1 : queues'[q][k] = Unset
    <3>1. queues'[q] = [k \in 0 .. lens'[q] - 1 |-> Unset]
      BY <2>1, <2>2, <2>5 DEF Allocated
    <3> QED
      BY <2>2, <2>5, <3>1
  <2>8. ASSUME NEW q \in Q PROVE FilledTo(idx, q)'
    <3>1. FromSources(queues'[q], 0, heap'[g'.src_list].data, SourcesOf(q)')
      BY DEF FromSources
    <3>2. idx'[q] = 0 /\ lens'[q] \in Nat
      BY <2>6, <2>7
    <3> QED
      BY <2>7, <3>1, <3>2 DEF FilledTo, Array
  <2>9. Holding(queues', idx', 0, n)
    <3>1. \A q \in 0 .. n - 1 : idx'[q] = 0
      BY <1>1, <2>6 DEF Q
    <3>2. Lengths(idx', n) /\ OnlyThese(queues', idx', 0, n) /\ AllOfThese(queues', idx', 0, n)
      BY <3>1 DEF Lengths, OnlyThese, AllOfThese
    <3>3. OneCellEach(queues', idx', n) /\ InOrder(queues', idx', n)
      BY <3>1 DEF OneCellEach, InOrder
    <3> QED
      BY <3>2, <3>3 DEF Holding
  <2>10. VertexLens' = VertexLens
    BY <2>3 DEF VertexLens, SourcesOf, V, QueueOf, Q
  <2>11. pos' \in Nat /\ pos' <= nnz' /\ phase' # "done"
    BY <1>1, <2>1, <2>3
  <2>12. Holding(queues', idx', pos', job'.n)
    BY <1>1, <2>1, <2>9
  <2>13. \A q \in Q' : FilledTo(idx, q)'
    BY <2>3, <2>8
  <2>14. lens' = VertexLens' /\ DOMAIN queues' = Q' /\ DOMAIN idx' = Q'
    BY <2>2, <2>3, <2>6, <2>10
  <2> QED
    BY <2>11, <2>12, <2>13, <2>14 DEF AppendedSoFar
<1> QED
  BY <1>2, <1>3

-----------------------------------------------------------------------------
\* The task at pos has a source, and it is one of the vertices.
LEMMA UsableSource ==
  ASSUME ListInv, Tally, past.counted, nnz \in Nat, pos \in Nat, pos < nnz,
         Unusable = "ok", Src(pos) # Unset
  PROVE  pos \in DOMAIN Array(g.src_list) /\ Src(pos) \in V
<1>1. g.src_list # NULL
  BY DEF Unusable
<1>2. PICK list, room : Made(list, room)
  BY <1>1 DEF ListInv
<1>3. /\ DOMAIN Array(g.src_list) = 0 .. room - 1
      /\ Cardinality(DOMAIN Array(g.src_list)) = room /\ room \in Nat
  BY <1>2, MadeFacts DEF Made
<1>4. nnz <= room
  BY <1>1, <1>3 DEF Unusable
<1>5. pos \in DOMAIN Array(g.src_list)
  BY <1>3, <1>4
<1>6. PICK at : Places(at, Array(g.src_list), g.sizes)
  BY DEF Tally
<1> QED
  BY <1>5, <1>6 DEF Places, Src

\* The state with the task at pos appended to queue r.
LEMMA AppendStep ==
  ASSUME Data, ListInv, Tally, past.counted, Counts, NEW n \in Nat \ {0}, n = job.n,
         job.stride \in Nat \ {0}, AppendedSoFar, pos < nnz, Unusable = "ok", Src(pos) # Unset,
         NEW r, r = QueueOf(Src(pos)), job' = job, UNCHANGED <<gvars, lens>>,
         queues' = [queues EXCEPT ![r] = Copied(queues[r], idx[r], pos, 1)],
         idx' = [idx EXCEPT ![r] = idx[r] + 1], pos' = pos + 1
  PROVE  /\ r \in Q /\ Holding(queues', idx', pos', n)
         /\ DOMAIN queues' = Q /\ DOMAIN idx' = Q /\ \A q \in Q : FilledTo(idx, q)'
<1>1. /\ lens = VertexLens /\ DOMAIN queues = Q /\ DOMAIN idx = Q
      /\ pos \in Nat /\ Holding(queues, idx, pos, n) /\ \A q \in Q : FilledTo(idx, q)
  BY DEF AppendedSoFar
<1>2. nnz \in Nat
  BY DEF Counts, nnz
<1>3. pos \in DOMAIN Array(g.src_list) /\ Src(pos) \in V
  BY <1>1, <1>2, UsableSource
<1>4. /\ \A v \in V : QueueOf(v) \in Q /\ g.sizes[v] \in Nat
      /\ \A q \in Q : /\ VertexLens[q] = SumOver(g.sizes, SourcesOf(q)) /\ VertexLens[q] \in Nat
                      /\ IsFiniteSet(SourcesOf(q))
  BY VertexLensFacts
<1>5. r \in Q /\ Src(pos) \in SourcesOf(r)
  BY <1>3, <1>4 DEF SourcesOf
<1>0. PICK f, src, C : f = queues[r] /\ src = Array(g.src_list) /\ C = SourcesOf(r)
  OBVIOUS
<1>6. PICK l \in Nat, i \in Nat :
        /\ l = lens[r] /\ i = idx[r] /\ f = queues[r] /\ src = Array(g.src_list) /\ C = SourcesOf(r)
  <2>1. lens[r] \in Nat /\ idx[r] \in Nat
    BY <1>1, <1>4, <1>5 DEF FilledTo
  <2> QED
    BY <1>0, <2>1
<1>7. /\ i <= l /\ DOMAIN f = 0 .. l - 1 /\ \A k \in i .. l - 1 : f[k] = Unset
      /\ FromSources(f, i, src, C)
  BY <1>1, <1>5, <1>6 DEF FilledTo
<1>8. Q = 0 .. n - 1 /\ r \in 0 .. n - 1
  BY <1>5 DEF Q
<1>9. /\ \A k \in 0 .. i - 1 : f[k] \in 0 .. pos - 1
      /\ \A k, j \in 0 .. i - 1 : f[k] = f[j] => k = j
  BY <1>1, <1>6, <1>8 DEF Holding, OnlyThese, OneCellEach
<1>10. i + 1 <= l
  <2>1. PICK t : t = [k \in 0 .. i |-> IF k < i THEN f[k] ELSE pos]
    OBVIOUS
  <2>2. (\A k \in 0 .. i - 1 : t[k] = f[k]) /\ t[i] = pos /\ (i + 1) - 1 = i
    BY <2>1
  <2>3. FromSources(t, i + 1, src, C)
    <3> SUFFICES ASSUME NEW k \in 0 .. i
                 PROVE  t[k] \in DOMAIN src /\ src[t[k]] # Unset /\ src[t[k]] \in C
      BY <2>2 DEF FromSources
    <3>1. CASE k = i
      BY <1>3, <1>5, <1>6, <2>2, <3>1 DEF Src
    <3>2. CASE k # i
      <4>1. k \in 0 .. i - 1
        BY <3>2
      <4> QED
        BY <1>7, <2>2, <4>1 DEF FromSources
    <3> QED
      BY <3>1, <3>2
  <2>4. Different(t, i + 1)
    <3> SUFFICES ASSUME NEW k \in 0 .. i, NEW j \in 0 .. i, t[k] = t[j] PROVE k = j
      BY <2>2 DEF Different
    <3>1. \A z \in 0 .. i - 1 : t[z] # t[i]
      BY <1>1, <1>9, <2>2
    <3>2. \A z \in 0 .. i : z = i \/ z \in 0 .. i - 1
      OBVIOUS
    <3> QED
      BY <1>9, <2>2, <3>1, <3>2
  <2>5. PICK sizes : sizes = g.sizes /\ (\A v \in C : sizes[v] \in Nat) /\ IsFiniteSet(C)
    BY <1>4, <1>5, <1>6 DEF SourcesOf
  <2>6. PICK at : Places(at, src, sizes)
    BY <1>6, <2>5 DEF Tally
  <2>7. i + 1 <= SumOver(sizes, C)
    <3>1. i + 1 \in Nat
      OBVIOUS
    <3> QED
      BY <2>3, <2>4, <2>5, <2>6, <3>1, RoomFor
  <2> QED
    BY <1>1, <1>4, <1>5, <1>6, <2>5, <2>7
<1>11. PICK h : h = Copied(f, i, pos, 1)
  OBVIOUS
<1>12. /\ \A k \in 0 .. i - 1 : h[k] = f[k]
       /\ h[i] = pos
       /\ \A k \in i + 1 .. l - 1 : h[k] = f[k]
       /\ DOMAIN h = 0 .. l - 1
  <2>1. CopiedInto(h, f, i, pos, 1, l)
    <3>1. 1 \in Nat
      OBVIOUS
    <3> QED
      BY <1>1, <1>7, <1>11, <3>1, CopiedCells
  <2>2. 0 \in 0 .. 1 - 1 /\ i + 0 = i /\ pos + 0 = pos
    BY <1>1
  <2>3. h[i + 0] = pos + 0
    BY <2>1, <2>2 DEF CopiedInto
  <2> QED
    BY <1>10, <2>1, <2>2, <2>3 DEF CopiedInto
<1>13. /\ queues'[r] = h /\ idx'[r] = i + 1 /\ DOMAIN queues' = Q /\ DOMAIN idx' = Q
       /\ \A q \in Q \ {r} : queues'[q] = queues[q] /\ idx'[q] = idx[q]
  BY <1>1, <1>5, <1>6, <1>11
<1>14. Holding(queues', idx', pos + 1, n)
  <2>1. \A j \in 0 .. 1 - 1 : h[i + j] = pos + j
    <3>1. \A j \in 0 .. 1 - 1 : j = 0 /\ i + j = i /\ pos + j = pos
      BY <1>1
    <3> QED
      BY <1>12, <3>1
  <2>2. Handed(queues, idx, pos, n, r, 1, queues', idx')
    <3>1. idx'[r] = idx[r] + 1 /\ \A k \in 0 .. idx[r] - 1 : queues'[r][k] = queues[r][k]
      BY <1>6, <1>12, <1>13
    <3>2. \A j \in 0 .. 1 - 1 : queues'[r][idx[r] + j] = pos + j
      BY <1>6, <1>13, <2>1
    <3>3. \A q \in (0 .. n - 1) \ {r} : idx'[q] = idx[q] /\ queues'[q] = queues[q]
      BY <1>8, <1>13
    <3> QED
      BY <3>1, <3>2, <3>3, Zenon DEF Handed
  <2>3. n \in Nat /\ 1 \in Nat
    OBVIOUS
  <2> QED
    BY <1>1, <1>8, <2>2, <2>3, HandedHolding
<1>15. lens' = lens /\ g' = g /\ heap' = heap /\ Array(g.src_list)' = Array(g.src_list)
       /\ \A q \in Q : SourcesOf(q)' = SourcesOf(q)
  BY DEF gvars, Array, SourcesOf, V, QueueOf
<1>16. ASSUME NEW q \in Q PROVE FilledTo(idx, q)'
  <2>1. CASE q # r
    BY <1>1, <1>13, <1>15, <2>1 DEF FilledTo
  <2>2. CASE q = r
    <3>1. FromSources(h, i + 1, src, C)
      <4> SUFFICES ASSUME NEW k \in 0 .. i
                   PROVE  h[k] \in DOMAIN src /\ src[h[k]] # Unset /\ src[h[k]] \in C
        BY DEF FromSources
      <4>1. CASE k = i
        BY <1>3, <1>5, <1>6, <1>12, <4>1 DEF Src
      <4>2. CASE k # i
        <5>1. k \in 0 .. i - 1
          BY <4>2
        <5> QED
          BY <1>7, <1>12, <5>1 DEF FromSources
      <4> QED
        BY <4>1, <4>2
    <3>2. \A k \in i + 1 .. l - 1 : h[k] = Unset
      <4>1. \A k \in i + 1 .. l - 1 : k \in i .. l - 1
        OBVIOUS
      <4> QED
        BY <1>7, <1>12, <4>1
    <3>3. i + 1 \in Nat
      OBVIOUS
    <3>4. idx'[q] = i + 1 /\ lens'[q] = l /\ queues'[q] = h
      BY <1>6, <1>13, <1>15, <2>2
    <3>5. FromSources(queues'[q], idx'[q], Array(g.src_list)', SourcesOf(q)')
      BY <1>5, <1>6, <1>15, <2>2, <3>1, <3>4
    <3> QED
      BY <1>10, <1>12, <3>2, <3>3, <3>4, <3>5 DEF FilledTo
  <2> QED
    BY <2>1, <2>2
<1> QED
  BY <1>5, <1>13, <1>14, <1>16

-----------------------------------------------------------------------------
\* A task goes to the queue of its source, which has room for it.
LEMMA AppendTaskAppending ==
  ASSUME Data, ListInv, Tally, Counts, Job, Appending, AppendTask, job' = job PROVE Appending'
<1> SUFFICES ASSUME past'.counted, phase' = "append" \/ Given' PROVE AppendedSoFar'
  BY DEF Appending
<1>1. PICK n \in Nat \ {0} : n = job.n /\ job.stride \in Nat \ {0} /\ nnz \in Nat
  BY DEF AppendTask, Job, Counts, nnz
<1>2. pos < nnz /\ phase = "append" /\ job.method = "vertex_chunking"
  BY DEF AppendTask, Job
<1>3. CASE Unusable # "ok" \/ Src(pos) = Unset
  <2>1. status' # "ok" /\ phase' = "done"
    BY <1>3 DEF AppendTask, Fails
  <2> QED
    BY <2>1 DEF Given
<1>4. CASE Unusable = "ok" /\ Src(pos) # Unset
  <2>1. PICK r : r = QueueOf(Src(pos))
    OBVIOUS
  <2>2. /\ queues' = [queues EXCEPT ![r] = Copied(queues[r], idx[r], pos, 1)]
        /\ idx' = [idx EXCEPT ![r] = idx[r] + 1]
        /\ pos' = pos + 1 /\ UNCHANGED <<gvars, phase, lens>>
    BY <1>4, <2>1 DEF AppendTask
  <2>3. past.counted
    BY <2>2 DEF gvars
  <2>4. AppendedSoFar
    BY <1>2, <2>3 DEF Appending
  <2>5. /\ r \in Q /\ Holding(queues', idx', pos', n)
        /\ DOMAIN queues' = Q /\ DOMAIN idx' = Q /\ \A q \in Q : FilledTo(idx, q)'
    BY <1>1, <1>2, <1>4, <2>1, <2>2, <2>3, <2>4, AppendStep
  <2>6. g' = g /\ heap' = heap /\ Q' = Q /\ nnz' = nnz
    BY <2>2 DEF gvars, Q, nnz
  <2>7. VertexLens' = VertexLens
    BY <2>6 DEF VertexLens, SourcesOf, V, QueueOf, Q
  <2>8. lens' = VertexLens' /\ DOMAIN queues' = Q' /\ DOMAIN idx' = Q'
    BY <2>2, <2>4, <2>5, <2>6, <2>7 DEF AppendedSoFar
  <2>9. pos' \in Nat /\ pos' <= nnz' /\ phase' # "done"
    BY <1>1, <1>2, <2>2, <2>4, <2>6 DEF AppendedSoFar
  <2>10. Holding(queues', idx', pos', job'.n)
    BY <1>1, <2>5
  <2>11. \A q \in Q' : FilledTo(idx, q)'
    BY <2>5, <2>6
  <2> QED
    BY <2>8, <2>9, <2>10, <2>11 DEF AppendedSoFar
<1> QED
  BY <1>3, <1>4

\* A step that leaves the queues leaves what they hold.
LEMMA SameAppended ==
  ASSUME AppendedSoFar, UNCHANGED <<heap, g, job, lens, queues, idx, pos>>,
         phase' = "done" => pos = nnz
  PROVE  AppendedSoFar'
<1>1. Q' = Q /\ nnz' = nnz
  BY DEF Q, nnz
<1>2. \A q : SourcesOf(q)' = SourcesOf(q)
  BY DEF SourcesOf, V, QueueOf
<1>3. VertexLens' = VertexLens
  BY <1>1, <1>2 DEF VertexLens
<1>4. \A q \in Q : FilledTo(idx, q)'
  BY <1>2 DEF AppendedSoFar, FilledTo, Array
<1>5. /\ lens' = VertexLens' /\ DOMAIN queues' = Q' /\ DOMAIN idx' = Q'
      /\ pos' \in Nat /\ pos' <= nnz'
  BY <1>1, <1>3 DEF AppendedSoFar
<1>6. Holding(queues', idx', pos', job'.n)
  BY DEF AppendedSoFar
<1>7. phase' = "done" => pos' = nnz'
  BY <1>1
<1>8. \A q \in Q' : FilledTo(idx, q)'
  BY <1>1, <1>4
<1> QED
  BY <1>5, <1>6, <1>7, <1>8 DEF AppendedSoFar

LEMMA AppendEndAppending == ASSUME Job, Appending, AppendEnd, job' = job PROVE Appending'
<1> SUFFICES ASSUME past'.counted PROVE AppendedSoFar'
  BY DEF Appending
<1>1. UNCHANGED <<heap, g, past, lens, queues, idx, pos>> /\ pos = nnz
  BY DEF AppendEnd, gvars
<1>2. phase = "append" /\ job.method = "vertex_chunking"
  BY DEF AppendEnd, Job
<1>3. AppendedSoFar
  BY <1>1, <1>2 DEF Appending
<1> QED
  BY <1>1, <1>3, SameAppended

LEMMA NextAppending ==
  Data /\ ListInv /\ Tally /\ Counts /\ Job /\ Appending /\ [Next]_vars => Appending'
<1> SUFFICES ASSUME Data, ListInv, Tally, Counts, Job, Appending, [Next]_vars
             PROVE  Appending'
  OBVIOUS
<1>1. ASSUME phase' \notin {"append", "done"} PROVE Appending'
  BY <1>1 DEF Appending, Given
<1>2. CASE CallGraph
  BY <1>1, <1>2 DEF CallGraph, Idle, svars
<1>3. CASE CallScheduler
  BY <1>1, <1>3 DEF CallScheduler, Split, Methods
<1>4. CASE CallPartition
  BY <1>1, <1>4 DEF CallPartition, Idle, svars
<1>5. CASE UNCHANGED <<gvars, svars>>
  <2>1. UNCHANGED <<heap, g, past, status, phase, job, lens, queues, idx, pos>>
    BY <1>5 DEF gvars, svars
  <2> SUFFICES ASSUME job'.method = "vertex_chunking", past'.counted, phase' = "append" \/ Given'
               PROVE  AppendedSoFar'
    BY DEF Appending
  <2>2. AppendedSoFar
    BY <2>1 DEF Appending, Given
  <2>3. phase' = "done" => pos = nnz
    BY <2>1, <2>2 DEF AppendedSoFar
  <2> QED
    BY <2>1, <2>2, <2>3, SameAppended
<1>6. CASE SchedulerStep
  <2>1. job' = job
    BY <1>6 DEF SchedulerStep
  <2>2. CASE vertex_chunking
    BY <2>1, <2>2, StartAppending
  <2>3. CASE AppendTask
    BY <2>1, <2>3, AppendTaskAppending
  <2>4. CASE AppendEnd
    BY <2>1, <2>4, AppendEndAppending
  <2>5. CASE round_robin \/ CopyRest \/ \E c \in todo : CopyChunk(c)
    <3>1. phase = "round_robin" \/ phase = "chunks"
      BY <2>5 DEF round_robin, CopyRest, CopyChunk
    <3>2. job.method # "vertex_chunking"
      BY <3>1 DEF Job, Methods
    <3> QED
      BY <2>1, <3>2 DEF Appending
  <2>6. CASE least_first \/ NextChunk \/ LastChunk
    <3>1. phase = "least_first" \/ phase = "more"
      BY <2>6 DEF least_first, NextChunk, LastChunk
    <3>2. job.method # "vertex_chunking"
      BY <3>1 DEF Job, Methods
    <3> QED
      BY <2>1, <3>2 DEF Appending
  <2> QED
    BY <1>6, <2>2, <2>3, <2>4, <2>5, <2>6 DEF SchedulerStep
<1>7. CASE PartitionStep /\ UNCHANGED svars
  <2>1. UNCHANGED gvars
    BY <1>7 DEF PartitionStep, BuildSubgraph, Mark, SegmentVertex, SegmentEnd
  <2> QED
    BY <1>5, <1>7, <2>1
<1> QED
  BY <1>2, <1>3, <1>4, <1>5, <1>6, <1>7 DEF Next, Working, vars

LEMMA InitAppending == SplitInit => Appending
BY DEF SplitInit, SchedulerInit, Appending, Given

(***************************************************************************)
(* What vertex_chunking keeps, for every list that is counted in sizes     *)
(* (scheduler.cc): the tasks before pos are in the queues of their sources *)
(* and fit the arrays, which are allocated by sizes.                       *)
(***************************************************************************)
THEOREM SplitAppending == Spec => []Appending
<1>1. RoundRobinInv => Counts /\ Job
  BY DEF RoundRobinInv
<1> QED
  BY <1>1, InitAppending, NextAppending, SplitData, SplitListInv, SplitTally,
     SplitRoundRobin, PTL DEF Spec

\* What TasksOnce says besides.
LEMMA OnceIsTasksOnce ==
  ASSUME Once, job.method # "round_robin",
         \A q \in Q : DOMAIN queues[q] = 0 .. lens[q] - 1,
         IF job.method = "vertex_chunking" THEN SumOver(lens, Q) = past.sized
         ELSE \A q \in Q : \A k \in DOMAIN queues[q] : queues[q][k] # Unset
  PROVE  TasksOnce
<1> DEFINE cells == {c \in Q \X UNION {DOMAIN queues[q] : q \in Q} :
                       c[2] \in DOMAIN queues[c[1]] /\ queues[c[1]][c[2]] # Unset}
           task(c) == queues[c[1]][c[2]]
<1>1. /\ {task(c) : c \in cells} = 0 .. nnz - 1
      /\ \A c, d \in cells : task(c) = task(d) => c = d
      /\ \A c, d \in cells : c[1] = d[1] /\ c[2] < d[2] => task(c) < task(d)
  BY Zenon DEF Once
<1> HIDE DEF cells, task
<1>2. (0 .. nnz - 1) \ Lost = 0 .. nnz - 1
  BY DEF Lost
<1>3. {task(c) : c \in cells} = (0 .. nnz - 1) \ Lost
  BY <1>1, <1>2, Zenon
<1> QED
  BY <1>1, <1>3, Zenon DEF TasksOnce, cells, task

LEMMA GivenOnce ==
  ASSUME Counts, Job, Giving, job.method = "least_first" PROVE TasksOnce
<1> SUFFICES ASSUME Given PROVE TasksOnce
  BY DEF TasksOnce
<1>1. job.n \in Nat \ {0} /\ nnz \in Nat
  BY DEF Job, Counts, Given, nnz
<1>2. QueuesFit /\ Holding(queues, lens, nnz, job.n)
  BY DEF Giving, GivenSoFar, Given
<1>3. \A q \in Q : DOMAIN queues[q] = 0 .. lens[q] - 1
  BY <1>2 DEF QueuesFit
<1>4. \A q \in Q : lens[q] \in Nat /\ \A k \in 0 .. lens[q] - 1 : queues[q][k] \in 0 .. nnz - 1
  BY <1>2 DEF Holding, Lengths, OnlyThese, Q
<1>5. \A q \in Q : \A k \in DOMAIN queues[q] : queues[q][k] # Unset
  <2> SUFFICES ASSUME NEW q \in Q, NEW k \in 0 .. lens[q] - 1 PROVE queues[q][k] # Unset
    BY <1>3
  <2>1. queues[q][k] \in 0 .. nnz - 1
    BY <1>4
  <2> QED
    BY <1>1, <2>1 DEF Unset
<1>6. Once
  <2>1. ASSUME NEW q \in Q
        PROVE  /\ DOMAIN queues[q] = 0 .. lens[q] - 1
               /\ lens[q] \in Nat /\ lens[q] <= lens[q]
               /\ \A k \in lens[q] .. lens[q] - 1 : queues[q][k] = Unset
    <3>1. PICK l \in Nat : l = lens[q]
      BY <1>4
    <3>2. l <= l /\ \A k \in l .. l - 1 : FALSE
      OBVIOUS
    <3> QED
      BY <1>3, <3>1, <3>2
  <2>2. job.n \in Nat
    BY <1>1
  <2> QED
    BY <1>1, <1>2, <2>1, <2>2, HoldingOnce
<1> QED
  BY <1>3, <1>5, <1>6, OnceIsTasksOnce

LEMMA AppendedOnce ==
  ASSUME Data, Tally, Counts, Job, Appending, job.method = "vertex_chunking" PROVE TasksOnce
<1> SUFFICES ASSUME Given, past.counted PROVE TasksOnce
  BY DEF TasksOnce
<1>1. PICK n \in Nat \ {0} : n = job.n /\ job.stride \in Nat \ {0} /\ nnz \in Nat
  BY DEF Job, Counts, Given, nnz
<1>2. /\ lens = VertexLens /\ Holding(queues, idx, nnz, job.n) /\ \A q \in Q : FilledTo(idx, q)
  BY DEF Appending, AppendedSoFar, Given
<1>3. SumOver(lens, Q) = past.sized /\ \A q \in Q : lens[q] \in Nat
  BY <1>1, <1>2, VertexLensFacts
<1>4. \A q \in Q : /\ DOMAIN queues[q] = 0 .. lens[q] - 1
                   /\ lens[q] \in Nat /\ idx[q] <= lens[q]
                   /\ \A k \in idx[q] .. lens[q] - 1 : queues[q][k] = Unset
  BY <1>2, <1>3 DEF FilledTo
<1>5. job.n \in Nat
  BY <1>1
<1>6. Once
  BY <1>1, <1>2, <1>4, <1>5, HoldingOnce
<1> QED
  BY <1>3, <1>4, <1>6, OnceIsTasksOnce

\* Once a call has been made, the method is one of the three.
MethodKnown == phase # "idle" => job.method \in Methods

LEMMA MethodOf == MethodKnown /\ [Next]_vars => MethodKnown'
<1> SUFFICES ASSUME MethodKnown, [Next]_vars PROVE MethodKnown'
  OBVIOUS
<1>1. CASE job' = job /\ phase' = phase
  BY <1>1 DEF MethodKnown
<1>2. CASE CallScheduler
  <2>1. PICK m \in Methods, n \in 1 .. MaxQueues, s \in 1 .. MaxStride : Split(m, n, s)
    BY <1>2 DEF CallScheduler
  <2> QED
    BY <2>1 DEF Split, MethodKnown
<1>3. CASE CallGraph \/ CallPartition \/ UNCHANGED vars \/ (PartitionStep /\ UNCHANGED svars)
  BY <1>1, <1>3 DEF CallGraph, CallPartition, vars, svars
<1>4. CASE SchedulerStep
  <2>1. phase # "idle" /\ job' = job
    BY <1>4 DEF SchedulerStep, round_robin, CopyRest, CopyChunk, vertex_chunking, AppendTask,
                AppendEnd, least_first, NextChunk, LastChunk
  <2> QED
    BY <2>1 DEF MethodKnown
<1> QED
  BY <1>2, <1>3, <1>4 DEF Next, Working

(***************************************************************************)
(* Every task of the list is handed to one queue, in the order of the      *)
(* list, and no write is past a queue's array (scheduler.cc): for each of  *)
(* the three methods, every graph, list, number of queues and stride, any  *)
(* calls of the methods of Graph before, and every order of the parallel   *)
(* iterations of round_robin; with the exceptions that TasksOnce names.    *)
(***************************************************************************)
THEOREM SplitTasksOnce == Spec => []TasksOnce
<1>1. SplitInit => MethodKnown
  BY DEF SplitInit, SchedulerInit, MethodKnown
<1>2. Spec => []MethodKnown
  BY <1>1, MethodOf, PTL DEF Spec
<1>3. MethodKnown /\ RoundRobinInv /\ Data /\ Tally /\ Giving /\ Appending => TasksOnce
  <2> SUFFICES ASSUME MethodKnown, RoundRobinInv, Data, Tally, Giving, Appending PROVE TasksOnce
    OBVIOUS
  <2>1. Counts /\ Job
    BY DEF RoundRobinInv
  <2>2. CASE job.method = "round_robin"
    BY <2>2, DealtOnce
  <2>3. CASE job.method = "least_first"
    BY <2>1, <2>3, GivenOnce
  <2>4. CASE job.method = "vertex_chunking"
    BY <2>1, <2>4, AppendedOnce
  <2>5. CASE phase = "idle"
    BY <2>5 DEF TasksOnce, Given
  <2> QED
    BY <2>2, <2>3, <2>4, <2>5 DEF Methods, MethodKnown
<1> QED
  BY <1>2, <1>3, SplitRoundRobin, SplitData, SplitTally, SplitGiving, SplitAppending, PTL
=============================================================================

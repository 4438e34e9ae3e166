------------------------- MODULE ParallelScanProofs -------------------------
(***************************************************************************)
(* Proofs about parallel_prefix_sum (ParallelScan), for every input        *)
(* length, block size and input.                                           *)
(***************************************************************************)
EXTENDS ParallelScan, PrefixSumProofs

\* The boundary before block c: bulk_prefix[c] is the number of slots up to it.
Edge(c) == IF c * BlockSize < Len THEN c * BlockSize ELSE Len

(***************************************************************************)
(* Facts about the cut into blocks: blocks are not empty, follow each      *)
(* other and cover the input.                                              *)
(***************************************************************************)
LEMMA BlockCount ==
  /\ num_blocks \in Nat
  /\ num_blocks * BlockSize >= Len
  /\ (num_blocks - 1) * BlockSize < Len
BY LenAssumption, BlockSizeAssumption, Z3T(30) DEF num_blocks

\* A block is not empty, lies inside the input and ends where the next begins.
LEMMA BlockFacts ==
  ASSUME NEW b \in Blocks
  PROVE  /\ b \in Nat
         /\ BlockBegin(b) \in Nat
         /\ BlockBegin(b) = Edge(b)
         /\ BlockBegin(b) < block_end(b)
         /\ block_end(b) \in 0 .. Len
         /\ block_end(b) = Edge(b + 1)
<1>1. /\ b \in Nat /\ b <= num_blocks - 1 /\ BlockSize \in Nat /\ BlockSize > 0 /\ num_blocks \in Nat
  BY BlockCount, BlockSizeAssumption DEF Blocks
<1>2. b * BlockSize <= (num_blocks - 1) * BlockSize
  BY <1>1, Z3T(30)
<1>3. b * BlockSize < Len /\ b * BlockSize \in Nat
  BY <1>1, <1>2, BlockCount, LenAssumption
<1>4. (b + 1) * BlockSize = b * BlockSize + BlockSize
  BY <1>1
<1> QED
  BY <1>1, <1>3, <1>4, LenAssumption DEF BlockBegin, block_end, Edge

\* The borders of the blocks go from 0 to Len in ascending order.
LEMMA EdgeFacts ==
  /\ Edge(0) = 0
  /\ Edge(num_blocks) = Len
  /\ \A c \in Nat : Edge(c) \in 0 .. Len
  /\ \A c \in Nat : Edge(c) <= Edge(c + 1)
BY LenAssumption, BlockSizeAssumption, BlockCount DEF Edge

\* Every index lies in a block.
LEMMA BlocksCover ==
  ASSUME NEW i \in Index
  PROVE  \E b \in Blocks : BlockBegin(b) <= i /\ i < block_end(b)
<1> DEFINE b == i \div BlockSize
<1>1. i \in Nat /\ i < Len /\ BlockSize \in Nat /\ BlockSize > 0
  BY LenAssumption, BlockSizeAssumption DEF Index
<1>2. b \in Nat /\ b * BlockSize <= i /\ i < (b + 1) * BlockSize
  BY <1>1, Z3T(30)
<1>3. b <= num_blocks - 1
  <2>1. b * BlockSize < num_blocks * BlockSize
    BY <1>1, <1>2, BlockCount, LenAssumption
  <2> QED
    BY <1>1, <1>2, <2>1, BlockCount, Z3T(30)
<1>4. b \in Blocks
  BY <1>2, <1>3, BlockCount DEF Blocks
<1> QED
  BY <1>1, <1>2, <1>4, LenAssumption DEF BlockBegin, block_end

-----------------------------------------------------------------------------
(***************************************************************************)
(* Counting the slots of the current input.                                *)
(***************************************************************************)
InputOK == in \in [Index -> 0 .. MaxIn]

\* The scan's sums are numbers.
LEMMA SlotsFinite ==
  ASSUME NEW i \in Nat, NEW j \in Nat
  PROVE  Cardinality(Slots(i, j)) \in Nat
BY SlotSetFinite, MaxInAssumption DEF Slots

\* An accumulator starts at 0.
LEMMA SlotsEmpty ==
  ASSUME NEW i \in Nat
  PROVE  Cardinality(Slots(i, i)) = 0
BY SlotSetEmpty, MaxInAssumption DEF Slots

\* The sum over a block adds to the sum over the blocks before it.
LEMMA SlotsSplit ==
  ASSUME NEW i \in Nat, NEW j \in Nat, NEW k \in Nat, i <= j, j <= k
  PROVE  Cardinality(Slots(i, k)) =
           Cardinality(Slots(i, j)) + Cardinality(Slots(j, k))
BY SlotSetSplit, MaxInAssumption DEF Slots

\* One iteration of an inner loop adds one input entry.
LEMMA SlotsAdd ==
  ASSUME InputOK, NEW i \in Nat, NEW j \in Index, i <= j
  PROVE  Cardinality(Slots(i, j + 1)) = Cardinality(Slots(i, j)) + in[j]
BY SlotSetAdd, LenAssumption, MaxInAssumption DEF Slots, InputOK, Index

-----------------------------------------------------------------------------
(***************************************************************************)
(* The inductive invariant.  Every accumulator is the count of the slots   *)
(* its loop has passed.                                                    *)
(***************************************************************************)
IdxInv == \A b \in Blocks : BlockBegin(b) <= idx[b] /\ idx[b] <= block_end(b)

LocalInv ==
  phase = "local" =>
    /\ total = 0 /\ block = 0
    /\ \A b \in Blocks : acc[b] = Cardinality(Slots(BlockBegin(b), idx[b]))
    /\ \A b \in finished : idx[b] = block_end(b)
    /\ \A b \in finished :
         local_sums[b] = Cardinality(Slots(BlockBegin(b), block_end(b)))

BulkInv ==
  phase = "bulk" =>
    /\ \A b \in Blocks :
         local_sums[b] = Cardinality(Slots(BlockBegin(b), block_end(b)))
    /\ total = Cardinality(Slots(0, Edge(block)))
    /\ \A c \in 0 .. block - 1 : bulk_prefix[c] = Cardinality(Slots(0, Edge(c)))

SpreadInv ==
  phase \in {"spread", "done"} =>
    /\ bulk_prefix[num_blocks] = Cardinality(Slots(0, Len))
    /\ \A b \in Blocks : acc[b] = Cardinality(Slots(0, idx[b]))
    /\ \A b \in finished : idx[b] = block_end(b)
    /\ \A b \in Blocks : \A i \in BlockBegin(b) .. idx[b] - 1 : prefix[i] # Unset

DoneInv == phase = "done" => finished = Blocks /\ prefix[Len] # Unset

CellInv == \A i \in 0 .. Len : prefix[i] \in {Unset, Cardinality(Slots(0, i))}

IInv == TypeOK /\ IdxInv /\ LocalInv /\ BulkInv /\ SpreadInv /\ DoneInv /\ CellInv

\* The state on entry to parallel_prefix_sum satisfies the invariant.
LEMMA InitIInv == Init => IInv
<1> SUFFICES ASSUME Init PROVE IInv
  OBVIOUS
<1> USE LenAssumption, MaxInAssumption
<1>1. \A b \in Blocks : /\ BlockBegin(b) \in 0 .. Len
                        /\ BlockBegin(b) <= block_end(b)
  BY BlockFacts
<1>2. TypeOK
  BY <1>1, BlockCount DEF Init, TypeOK
<1>3. IdxInv
  BY <1>1 DEF Init, IdxInv
<1>4. LocalInv
  <2>1. \A b \in Blocks : Cardinality(Slots(BlockBegin(b), BlockBegin(b))) = 0
    BY <1>1, SlotsEmpty
  <2> QED
    BY <2>1 DEF Init, LocalInv
<1> QED
  BY <1>2, <1>3, <1>4 DEF Init, IInv, BulkInv, SpreadInv, DoneInv, CellInv

\* Every step of every block keeps the invariant.
LEMMA NextIInv == IInv /\ [Next]_vars => IInv'
<1> SUFFICES ASSUME IInv, [Next]_vars PROVE IInv'
  OBVIOUS
<1> USE LenAssumption, MaxInAssumption
<1>0. in' = in
  BY DEF Next, MasterStep, BlockStep, LocalStep, LocalStore, LocalBarrier, BulkStep,
         BulkEnd, SpreadStep, SpreadEnd, Return, vars
<1>S. \A i, j : Slots(i, j)' = Slots(i, j)
  BY <1>0 DEF Slots
<1>I. InputOK
  BY DEF IInv, TypeOK, InputOK
<1>B. \A b \in Blocks : /\ b \in Nat
                        /\ BlockBegin(b) \in Nat
                        /\ BlockBegin(b) < block_end(b)
                        /\ block_end(b) \in 0 .. Len
                        /\ idx[b] \in Nat
                        /\ idx[b] < block_end(b) => idx[b] \in Index
  BY BlockFacts DEF IInv, TypeOK, Index
<1>1. ASSUME NEW b \in Blocks, LocalStep(b) PROVE IInv'
  <2>1. idx[b] \in Index /\ idx[b] + 1 <= block_end(b) /\ idx[b] + 1 \in 0 .. Len
    BY <1>1, <1>B DEF LocalStep, Index
  <2>2. TypeOK'
    BY <1>1, <2>1 DEF LocalStep, IInv, TypeOK
  <2>3. IdxInv'
    BY <1>1, <1>B, <2>1 DEF LocalStep, IInv, TypeOK, IdxInv
  <2>4. LocalInv'
    <3>1. Cardinality(Slots(BlockBegin(b), idx[b] + 1)) =
            Cardinality(Slots(BlockBegin(b), idx[b])) + in[idx[b]]
      BY <1>I, <1>B, <2>1, SlotsAdd DEF IInv, IdxInv
    <3>2. b \notin finished
      BY <1>1, <1>B DEF LocalStep, IInv, LocalInv
    <3>3. \A c \in Blocks : acc'[c] = Cardinality(Slots(BlockBegin(c), idx'[c]))
      BY <1>1, <3>1 DEF LocalStep, IInv, TypeOK, LocalInv
    <3> QED
      BY <1>1, <1>S, <3>2, <3>3 DEF LocalStep, IInv, TypeOK, LocalInv
  <2> QED
    BY <1>1, <1>S, <2>2, <2>3, <2>4
       DEF LocalStep, IInv, BulkInv, SpreadInv, DoneInv, CellInv
<1>2. ASSUME NEW b \in Blocks, LocalStore(b) PROVE IInv'
  <2>1. idx[b] = block_end(b)
    BY <1>2, <1>B DEF LocalStore, IInv, IdxInv
  <2>2. TypeOK' /\ IdxInv'
    BY <1>2 DEF LocalStore, IInv, TypeOK, IdxInv
  <2>3. LocalInv'
    BY <1>2, <1>S, <2>1 DEF LocalStore, IInv, TypeOK, LocalInv
  <2> QED
    BY <1>2, <1>S, <2>2, <2>3
       DEF LocalStore, IInv, BulkInv, SpreadInv, DoneInv, CellInv
<1>3. ASSUME LocalBarrier PROVE IInv'
  <2>1. TypeOK' /\ IdxInv'
    BY <1>3 DEF LocalBarrier, IInv, TypeOK, IdxInv
  <2>2. BulkInv'
    BY <1>3, <1>S, EdgeFacts, SlotsEmpty DEF LocalBarrier, IInv, LocalInv, BulkInv
  <2> QED
    BY <1>3, <1>S, <2>1, <2>2 DEF LocalBarrier, IInv, LocalInv, SpreadInv, DoneInv, CellInv
<1>4. ASSUME BulkStep PROVE IInv'
  <2>1. block \in Blocks /\ block \in Nat /\ block + 1 \in 0 .. num_blocks
    BY <1>4, BlockCount DEF BulkStep, IInv, TypeOK, Blocks
  <2>2. TypeOK' /\ IdxInv'
    <3>1. local_sums[block] \in Nat /\ total \in Nat /\ block \in 0 .. num_blocks
      BY <2>1 DEF IInv, TypeOK
    <3>2. total' \in Nat /\ block' \in 0 .. num_blocks
      BY <1>4, <2>1, <3>1 DEF BulkStep
    <3>3. bulk_prefix' \in [0 .. num_blocks -> Nat]
      BY <1>4, <3>1 DEF BulkStep, IInv, TypeOK
    <3>4. TypeOK'
      BY <1>4, <3>2, <3>3 DEF BulkStep, IInv, TypeOK
    <3> QED
      BY <1>4, <3>4 DEF BulkStep, IInv, IdxInv
  <2>3. BulkInv'
    <3>1. Cardinality(Slots(0, Edge(block + 1))) =
            Cardinality(Slots(0, Edge(block))) + Cardinality(Slots(Edge(block), Edge(block + 1)))
      BY <2>1, EdgeFacts, SlotsSplit
    <3>2. local_sums[block] = Cardinality(Slots(Edge(block), Edge(block + 1)))
      BY <1>4, <2>1, BlockFacts DEF BulkStep, IInv, BulkInv
    <3>3. total' = Cardinality(Slots(0, Edge(block')))
      BY <1>4, <3>1, <3>2 DEF BulkStep, IInv, BulkInv
    <3>4. \A c \in 0 .. block' - 1 : bulk_prefix'[c] = Cardinality(Slots(0, Edge(c)))
      BY <1>4, <2>1 DEF BulkStep, IInv, TypeOK, BulkInv
    <3> QED
      BY <1>4, <1>S, <3>3, <3>4 DEF BulkStep, IInv, BulkInv
  <2> QED
    BY <1>4, <1>S, <2>2, <2>3 DEF BulkStep, IInv, LocalInv, SpreadInv, DoneInv, CellInv
<1>5. ASSUME BulkEnd PROVE IInv'
  <2>1. TypeOK' /\ IdxInv'
    <3>1. num_blocks \in 0 .. num_blocks /\ \A b \in Blocks : b \in 0 .. num_blocks
      BY BlockCount DEF Blocks
    <3>2. \A b \in Blocks : BlockBegin(b) \in 0 .. Len
      BY <1>B
    <3>3. acc' \in [Blocks -> Nat] /\ idx' \in [Blocks -> 0 .. Len]
      BY <1>5, <3>1, <3>2 DEF BulkEnd, IInv, TypeOK
    <3>4. TypeOK'
      BY <1>5, <3>1, <3>3 DEF BulkEnd, IInv, TypeOK
    <3>5. IdxInv'
      BY <1>5, <1>B DEF BulkEnd, IdxInv
    <3> QED
      BY <3>4, <3>5
  <2>2. SpreadInv'
    <3>1. bulk_prefix'[num_blocks] = Cardinality(Slots(0, Len))
      BY <1>5, BlockCount, EdgeFacts DEF BulkEnd, IInv, TypeOK, BulkInv
    <3>2. \A b \in Blocks : acc'[b] = Cardinality(Slots(0, idx'[b]))
      BY <1>5, <1>B, BlockCount, BlockFacts DEF BulkEnd, IInv, BulkInv, Blocks
    <3>3. \A b \in Blocks : idx'[b] = BlockBegin(b)
      BY <1>5 DEF BulkEnd
    <3>4. finished' = {}
      BY <1>5 DEF BulkEnd
    <3>5. \A b \in Blocks : BlockBegin(b) .. idx'[b] - 1 = {}
      BY <3>3, <1>B
    <3> QED
      BY <1>S, <3>1, <3>2, <3>4, <3>5 DEF SpreadInv
  <2> QED
    BY <1>5, <1>S, <2>1, <2>2 DEF BulkEnd, IInv, LocalInv, BulkInv, DoneInv, CellInv
<1>6. ASSUME NEW b \in Blocks, SpreadStep(b) PROVE IInv'
  <2>1. /\ idx[b] \in Index /\ idx[b] + 1 <= block_end(b) /\ idx[b] + 1 \in 0 .. Len
        /\ idx[b] \in 0 .. Len /\ idx[b] # Len
    BY <1>6, <1>B DEF SpreadStep, Index
  <2>2. acc[b] = Cardinality(Slots(0, idx[b])) /\ acc[b] \in Nat
    BY <1>6 DEF SpreadStep, IInv, TypeOK, SpreadInv
  <2>3. TypeOK'
    BY <1>6, <2>1 DEF SpreadStep, IInv, TypeOK
  <2>4. IdxInv'
    BY <1>6, <1>B, <2>1 DEF SpreadStep, IInv, TypeOK, IdxInv
  <2>5. SpreadInv'
    <3>1. Cardinality(Slots(0, idx[b] + 1)) = Cardinality(Slots(0, idx[b])) + in[idx[b]]
      BY <1>I, <1>B, <2>1, SlotsAdd
    <3>2. \A c \in Blocks : acc'[c] = Cardinality(Slots(0, idx'[c]))
      BY <1>6, <2>2, <3>1 DEF SpreadStep, IInv, TypeOK, SpreadInv
    <3>3. b \notin finished
      BY <1>6, <1>B DEF SpreadStep, IInv, SpreadInv
    <3>4. \A c \in Blocks : \A i \in BlockBegin(c) .. idx'[c] - 1 : prefix'[i] # Unset
      <4> SUFFICES ASSUME NEW c \in Blocks, NEW i \in BlockBegin(c) .. idx'[c] - 1
                   PROVE  prefix'[i] # Unset
        OBVIOUS
      <4>1. prefix'[idx[b]] = acc[b] /\ acc[b] # Unset
        BY <1>6, <2>1, <2>2 DEF SpreadStep, IInv, TypeOK, Unset
      <4>2. i \in 0 .. Len
        <5>1. idx'[c] \in 0 .. Len
          BY <2>3 DEF TypeOK
        <5>2. BlockBegin(c) \in 0 .. Len
          BY <1>B
        <5> QED
          BY <5>1, <5>2
      <4>3. CASE i = idx[b]
        BY <4>1, <4>3
      <4>4. CASE i # idx[b]
        <5>1. prefix'[i] = prefix[i]
          BY <1>6, <4>2, <4>4 DEF SpreadStep, IInv, TypeOK
        <5>2. i \in BlockBegin(c) .. idx[c] - 1
          BY <1>6, <1>B, <4>4 DEF SpreadStep, IInv, TypeOK
        <5> QED
          BY <1>6, <5>1, <5>2 DEF SpreadStep, IInv, SpreadInv
      <4> QED
        BY <4>3, <4>4
    <3> QED
      BY <1>6, <1>S, <3>2, <3>3, <3>4 DEF SpreadStep, IInv, TypeOK, SpreadInv
  <2>6. CellInv'
    BY <1>6, <1>S, <2>1, <2>2 DEF SpreadStep, IInv, TypeOK, CellInv
  <2> QED
    BY <1>6, <2>3, <2>4, <2>5, <2>6 DEF SpreadStep, IInv, LocalInv, BulkInv, DoneInv
<1>7. ASSUME NEW b \in Blocks, SpreadEnd(b) PROVE IInv'
  <2>1. idx[b] = block_end(b)
    BY <1>7, <1>B DEF SpreadEnd, IInv, IdxInv
  <2>2. TypeOK' /\ IdxInv'
    BY <1>7 DEF SpreadEnd, IInv, TypeOK, IdxInv
  <2>3. SpreadInv'
    BY <1>7, <1>S, <2>1 DEF SpreadEnd, IInv, SpreadInv
  <2> QED
    BY <1>7, <1>S, <2>2, <2>3 DEF SpreadEnd, IInv, LocalInv, BulkInv, DoneInv, CellInv
<1>8. ASSUME Return PROVE IInv'
  <2>1. /\ bulk_prefix[num_blocks] = Cardinality(Slots(0, Len))
        /\ bulk_prefix[num_blocks] \in Nat
    BY <1>8, BlockCount DEF Return, IInv, TypeOK, SpreadInv
  <2>2. prefix'[Len] # Unset
    BY <1>8, <2>1 DEF Return, IInv, TypeOK, Unset
  <2>3. TypeOK' /\ IdxInv'
    BY <1>8, <2>1 DEF Return, IInv, TypeOK, IdxInv
  <2>4. CellInv'
    BY <1>8, <1>S, <2>1 DEF Return, IInv, TypeOK, CellInv
  <2>5. SpreadInv'
    <3>1. \A b \in Blocks : \A i \in BlockBegin(b) .. idx[b] - 1 :
            prefix'[i] = prefix[i] \/ prefix'[i] = prefix'[Len]
      BY <1>8, <1>B DEF Return, IInv, TypeOK
    <3> QED
      BY <1>8, <1>S, <2>2, <3>1 DEF Return, IInv, SpreadInv
  <2> QED
    BY <1>8, <1>S, <2>2, <2>3, <2>4, <2>5 DEF Return, IInv, LocalInv, BulkInv, DoneInv
<1>9. ASSUME UNCHANGED vars PROVE IInv'
  BY <1>9, <1>S DEF vars, IInv, TypeOK, IdxInv, LocalInv, BulkInv, SpreadInv, DoneInv, CellInv
<1> QED
  BY <1>1, <1>2, <1>3, <1>4, <1>5, <1>6, <1>7, <1>8, <1>9 DEF Next, MasterStep, BlockStep

(***************************************************************************)
(* Every reachable state of parallel_prefix_sum satisfies the invariant.   *)
(***************************************************************************)
THEOREM ScanInvariant == Spec => []IInv
BY InitIInv, NextIInv, PTL DEF Spec

(***************************************************************************)
(* Type correctness of parallel_prefix_sum: in particular no block index   *)
(* leaves the input and no cell is written outside the output.             *)
(***************************************************************************)
THEOREM ScanTypeCorrect == Spec => []TypeOK
<1>1. IInv => TypeOK
  BY DEF IInv
<1> QED
  BY <1>1, ScanInvariant, PTL

\* The invariant gives the exclusive prefix sum on return.
LEMMA IInvPrefixCorrect == IInv => PrefixCorrect
<1> SUFFICES ASSUME IInv PROVE PrefixCorrect
  OBVIOUS
<1>1. ASSUME phase = "done", NEW i \in 0 .. Len PROVE prefix[i] # Unset
  <2>1. CASE i = Len
    BY <1>1, <2>1 DEF IInv, DoneInv
  <2>2. CASE i # Len
    <3>1. i \in Index
      BY <2>2, LenAssumption DEF Index
    <3>2. PICK b \in Blocks : BlockBegin(b) <= i /\ i < block_end(b)
      BY <3>1, BlocksCover
    <3>3. idx[b] = block_end(b)
      BY <1>1 DEF IInv, DoneInv, SpreadInv
    <3>4. i \in BlockBegin(b) .. idx[b] - 1
      BY <3>2, <3>3, BlockFacts, LenAssumption
    <3> QED
      BY <1>1, <3>4 DEF IInv, SpreadInv
  <2> QED
    BY <2>1, <2>2
<1> QED
  BY <1>1 DEF IInv, CellInv, PrefixCorrect

(***************************************************************************)
(* The blocked parallel scan computes the exclusive prefix sum, for every  *)
(* input length, block size and interleaving of the blocks.                *)
(***************************************************************************)
THEOREM ScanCorrect == Spec => []PrefixCorrect
BY ScanInvariant, IInvPrefixCorrect, PTL

(***************************************************************************)
(* Two vertices' ranges of the edge array never overlap and stay within    *)
(* it: the parallel fill that follows the scan cannot race.                *)
(***************************************************************************)
THEOREM ScanRangesDisjoint == Spec => []RangesDisjoint
<1>1. IInv => RangesDisjoint
  <2> SUFFICES ASSUME IInv, phase = "done", NEW v \in Index
               PROVE  /\ \A w \in Index : v < w => prefix[v] + in[v] <= prefix[w]
                      /\ prefix[v] + in[v] <= prefix[Len]
    BY DEF RangesDisjoint
  <2>1. InputOK
    BY DEF IInv, TypeOK, InputOK
  <2>2. \A i \in 0 .. Len : prefix[i] = Cardinality(Slots(0, i))
    BY IInvPrefixCorrect DEF PrefixCorrect
  <2>3. v \in Nat /\ v \in 0 .. Len /\ Len \in Nat /\ v < Len
    BY LenAssumption DEF Index
  <2>4. Cardinality(Slots(0, v + 1)) = prefix[v] + in[v]
    BY <2>1, <2>2, <2>3, SlotsAdd
  <2>5. ASSUME NEW w \in 0 .. Len, v < w PROVE prefix[v] + in[v] <= prefix[w]
    <3>1. w \in Nat /\ v + 1 \in Nat /\ v + 1 <= w
      BY <2>3, <2>5
    <3>2. Cardinality(Slots(0, w)) =
            Cardinality(Slots(0, v + 1)) + Cardinality(Slots(v + 1, w))
      BY <3>1, SlotsSplit
    <3>3. Cardinality(Slots(0, v + 1)) \in Nat /\ Cardinality(Slots(v + 1, w)) \in Nat
      BY <3>1, SlotsFinite
    <3> QED
      BY <2>2, <2>4, <2>5, <3>2, <3>3
  <2> QED
    BY <2>3, <2>5 DEF Index
<1> QED
  BY <1>1, ScanInvariant, PTL

(***************************************************************************)
(* No cell of the output is overwritten by another block: the stores of    *)
(* the second parallel for do not race.                                    *)
(***************************************************************************)
THEOREM ScanWriteOnce == Spec => WriteOnce
<1> DEFINE Keeps == \A i \in 0 .. Len : prefix[i] # Unset => prefix'[i] = prefix[i]
<1>1. IInv /\ IInv' /\ [Next]_vars => [Keeps]_prefix
  <2> SUFFICES ASSUME IInv, IInv', [Next]_vars, NEW i \in 0 .. Len, prefix[i] # Unset
               PROVE  prefix'[i] = prefix[i]
    BY DEF Keeps
  <2>1. in' = in
    BY DEF Next, MasterStep, BlockStep, LocalStep, LocalStore, LocalBarrier, BulkStep,
           BulkEnd, SpreadStep, SpreadEnd, Return, vars
  <2>2. Slots(0, i)' = Slots(0, i)
    BY <2>1 DEF Slots
  <2>3. prefix[i] = Cardinality(Slots(0, i)) /\ prefix'[i] \in {Unset, Cardinality(Slots(0, i))}
    BY <2>2 DEF IInv, CellInv
  <2>4. prefix'[i] # Unset
    <3>1. CASE \E b \in Blocks : SpreadStep(b)
      <4>1. PICK b \in Blocks : SpreadStep(b)
        BY <3>1
      <4>2. acc[b] # Unset
        BY DEF IInv, TypeOK, Unset
      <4> QED
        BY <4>1, <4>2 DEF SpreadStep, IInv, TypeOK
    <3>2. CASE Return
      <4>1. bulk_prefix[num_blocks] # Unset
        BY BlockCount DEF IInv, TypeOK, Unset
      <4> QED
        BY <3>2, <4>1 DEF Return, IInv, TypeOK
    <3>3. CASE prefix' = prefix
      BY <3>3
    <3> QED
      BY <3>1, <3>2, <3>3 DEF Next, MasterStep, BlockStep, LocalStep, LocalStore,
         LocalBarrier, BulkStep, BulkEnd, SpreadEnd, vars
  <2> QED
    BY <2>3, <2>4
<1> QED
  BY <1>1, ScanInvariant, PTL DEF Spec, WriteOnce

=============================================================================

---------------------------- MODULE ParallelScan ----------------------------
(***************************************************************************)
(* parallel_prefix_sum of sansa/include/scan.h: the exclusive prefix sum   *)
(* of new_degrees that turns the vertex degrees into CSR row pointers.     *)
(* The input is cut into blocks.  A first `parallel for' sums every block, *)
(* a sequential loop turns the block sums into block starts, a second      *)
(* `parallel for' spreads the starts over the blocks.                      *)
(*                                                                         *)
(* A block is one iteration of a parallel for, run by one thread, so the   *)
(* processes of this model are the blocks: every assignment of blocks to   *)
(* threads is an interleaving of theirs.  The barrier at the end of a      *)
(* parallel for is an action that waits for all blocks.                    *)
(***************************************************************************)
EXTENDS PrefixSum

CONSTANTS
  Len,        \* in.size(), the number of vertices
  BlockSize,  \* block_size (1 << 20 in the code)
  MaxIn       \* bound on the entries of `in'

ASSUME LenAssumption == Len \in Nat
ASSUME BlockSizeAssumption == BlockSize \in Nat \ {0}
ASSUME MaxInAssumption == MaxIn \in Nat

VARIABLES
  in,           \* the input vector
  phase,        \* which loop of the function is running
  idx,          \* i of each block's inner loop
  acc,          \* lsum, then local_total, of each block
  finished,     \* the blocks whose iteration of the parallel for has ended
  local_sums,   \* sum of each block
  bulk_prefix,  \* start of each block
  total,        \* running total of the sequential loop
  block,        \* the sequential loop's counter
  prefix        \* the output array

vars == <<in, phase, idx, acc, finished, local_sums, bulk_prefix, total,
          block, prefix>>

num_blocks == (Len + BlockSize - 1) \div BlockSize

Blocks == 0 .. num_blocks - 1

Index == 0 .. Len - 1

BlockBegin(b) == b * BlockSize

\* Fault: a block reads one cell into the next block.
block_end_Overlap(b) ==
  IF (b + 1) * BlockSize + 1 < Len THEN (b + 1) * BlockSize + 1 ELSE Len

block_end(b) == IF (b + 1) * BlockSize < Len THEN (b + 1) * BlockSize ELSE Len

\* Content of a cell of the freshly allocated output that nothing wrote yet.
Unset == -1

(***************************************************************************)
(* The call: the vectors are sized, the first parallel for is entered.     *)
(***************************************************************************)
Init ==
  /\ in \in [Index -> 0 .. MaxIn]
  /\ phase = "local"
  /\ idx = [b \in Blocks |-> BlockBegin(b)]
  /\ acc = [b \in Blocks |-> 0]
  /\ finished = {}
  /\ local_sums = [b \in Blocks |-> 0]
  /\ bulk_prefix = [b \in 0 .. num_blocks |-> 0]
  /\ total = 0
  /\ block = 0
  /\ prefix = [i \in 0 .. Len |-> Unset]

\* lsum += in[i]
LocalStep(b) ==
  /\ phase = "local"
  /\ idx[b] < block_end(b)
  /\ acc' = [acc EXCEPT ![b] = @ + in[idx[b]]]
  /\ idx' = [idx EXCEPT ![b] = @ + 1]
  /\ UNCHANGED <<in, phase, finished, local_sums, bulk_prefix, total, block, prefix>>

\* local_sums[block] = lsum, the end of the block's iteration
LocalStore(b) ==
  /\ phase = "local"
  /\ b \notin finished
  /\ idx[b] >= block_end(b)
  /\ local_sums' = [local_sums EXCEPT ![b] = acc[b]]
  /\ finished' = finished \cup {b}
  /\ UNCHANGED <<in, phase, idx, acc, bulk_prefix, total, block, prefix>>

\* Fault: a `nowait' on the first parallel for.
LocalBarrier_NoWait ==
  /\ phase = "local"
  /\ phase' = "bulk"
  /\ UNCHANGED <<in, idx, acc, finished, local_sums, bulk_prefix, total, block, prefix>>

\* The implicit barrier of the first parallel for.
LocalBarrier ==
  /\ phase = "local"
  /\ finished = Blocks
  /\ phase' = "bulk"
  /\ UNCHANGED <<in, idx, acc, finished, local_sums, bulk_prefix, total, block, prefix>>

\* One iteration of the sequential loop over the block sums.
BulkStep ==
  /\ phase = "bulk"
  /\ block < num_blocks
  /\ bulk_prefix' = [bulk_prefix EXCEPT ![block] = total]
  /\ total' = total + local_sums[block]
  /\ block' = block + 1
  /\ UNCHANGED <<in, phase, idx, acc, finished, local_sums, prefix>>

\* Fault: local_total starts from the output array.
BulkEnd_WrongArray ==
  /\ phase = "bulk"
  /\ block = num_blocks
  /\ bulk_prefix' = [bulk_prefix EXCEPT ![num_blocks] = total]
  /\ phase' = "spread"
  /\ idx' = [b \in Blocks |-> BlockBegin(b)]
  /\ acc' = [b \in Blocks |-> prefix[BlockBegin(b)]]
  /\ finished' = {}
  /\ UNCHANGED <<in, local_sums, total, block, prefix>>

\* The grand total is stored and the second parallel for is entered: every
\* block starts again at its first index with its own start as local_total.
BulkEnd ==
  /\ phase = "bulk"
  /\ block = num_blocks
  /\ bulk_prefix' = [bulk_prefix EXCEPT ![num_blocks] = total]
  /\ phase' = "spread"
  /\ idx' = [b \in Blocks |-> BlockBegin(b)]
  /\ acc' = [b \in Blocks |-> bulk_prefix[b]]
  /\ finished' = {}
  /\ UNCHANGED <<in, local_sums, total, block, prefix>>

\* prefix[i] = local_total; local_total += in[i]
SpreadStep(b) ==
  /\ phase = "spread"
  /\ idx[b] < block_end(b)
  /\ prefix' = [prefix EXCEPT ![idx[b]] = acc[b]]
  /\ acc' = [acc EXCEPT ![b] = @ + in[idx[b]]]
  /\ idx' = [idx EXCEPT ![b] = @ + 1]
  /\ UNCHANGED <<in, phase, finished, local_sums, bulk_prefix, total, block>>

SpreadEnd(b) ==
  /\ phase = "spread"
  /\ b \notin finished
  /\ idx[b] >= block_end(b)
  /\ finished' = finished \cup {b}
  /\ UNCHANGED <<in, phase, idx, acc, local_sums, bulk_prefix, total, block, prefix>>

\* The barrier of the second parallel for, then prefix[in.size()] = total.
Return ==
  /\ phase = "spread"
  /\ finished = Blocks
  /\ prefix' = [prefix EXCEPT ![Len] = bulk_prefix[num_blocks]]
  /\ phase' = "done"
  /\ UNCHANGED <<in, idx, acc, finished, local_sums, bulk_prefix, total, block>>

BlockStep(b) == LocalStep(b) \/ LocalStore(b) \/ SpreadStep(b) \/ SpreadEnd(b)

MasterStep == LocalBarrier \/ BulkStep \/ BulkEnd \/ Return

Next == MasterStep \/ \E b \in Blocks : BlockStep(b)

Spec == Init /\ [][Next]_vars

-----------------------------------------------------------------------------
TypeOK ==
  /\ in \in [Index -> 0 .. MaxIn]
  /\ phase \in {"local", "bulk", "spread", "done"}
  /\ idx \in [Blocks -> 0 .. Len]
  /\ acc \in [Blocks -> Nat]
  /\ finished \in SUBSET Blocks
  /\ local_sums \in [Blocks -> Nat]
  /\ bulk_prefix \in [0 .. num_blocks -> Nat]
  /\ total \in Nat
  /\ block \in 0 .. num_blocks
  /\ prefix \in [0 .. Len -> Nat \cup {Unset}]

(***************************************************************************)
(* The reference.  in[v] is a number of edge slots that vertex v needs;    *)
(* Slots(i, j) is the set of slots of the vertices i .. j-1, and the       *)
(* exclusive prefix sum at i is the number of slots before vertex i.       *)
(***************************************************************************)
Slots(i, j) == SlotSet(in, MaxIn, i, j)

(***************************************************************************)
(* The blocked scan computes what the sequential prefix_sum of scan.h      *)
(* computes: a cell of the output is never given any other value than the  *)
(* number of slots before it, however the blocks interleave, and when      *)
(* parallel_prefix_sum returns no cell is left unwritten.                  *)
(***************************************************************************)
PrefixCorrect ==
  /\ \A i \in 0 .. Len : prefix[i] \in {Unset, Cardinality(Slots(0, i))}
  /\ phase = "done" => \A i \in 0 .. Len : prefix[i] # Unset

(***************************************************************************)
(* What the parallel fill loops of graph.cc (391-401, 660-671) rely on:    *)
(* the ranges prefix[v] .. prefix[v] + in[v] - 1 of two vertices never     *)
(* overlap and end within prefix[Len] cells.                               *)
(***************************************************************************)
RangesDisjoint ==
  phase = "done" =>
    \A v \in Index :
      /\ \A w \in Index : v < w => prefix[v] + in[v] <= prefix[w]
      /\ prefix[v] + in[v] <= prefix[Len]

(***************************************************************************)
(* A block never writes a cell that another block (or an earlier iteration *)
(* of its own loop) has written: the parallel stores do not race.          *)
(***************************************************************************)
WriteOnce == [][\A i \in 0 .. Len : prefix[i] # Unset => prefix'[i] = prefix[i]]_prefix

=============================================================================

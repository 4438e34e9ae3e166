# ScaleGPM: a TLA+ verification project

ScaleGPM counts occurrences of small patterns (cliques, paths, cycles, houses,
dumbbells, motifs) in large graphs, exactly or approximately. This directory
holds TLA+ models of its core, the TLC configurations that check them, and
proofs that TLAPS checks. Paths below are relative to `src/`.

## 1. The system

| Part | Where (`sansa/`) | State | Operations |
|---|---|---|---|
| Graph | `src/common/graph.cc`, `include/graph.h` | CSR arrays `vertices`, `edges`, `n_edges`; a COO list (`src_list`, `dst_list`, `nnz`); reverse arrays; a second CSR (`*_c`); `sizes`, `max_degree` | constructor, `orientation`, `color_sparsify*`, `edge_sparsify`, `swap_graph_mode`, `init_edgelist`, `reinit_edgelist`, `init_simple_edgelist`, edge streams, `N`, `in_neigh`, destructor |
| Prefix sum | `include/scan.h` | block sums, output array | `parallel_prefix_sum`, `prefix_sum` |
| VertexSet | `include/VertexSet.h`, `src/common/VertexSet.cc` | a sorted list in a pooled buffer; a per-thread pool | intersections, differences, bounded counts; acquire, move, release |
| NS engine | `src/approx/NS/ns_final.cc`, `ns_online.cc`, `sample.hh` | `counter`, `counter_sq`, `hits`, the window number | one sampler per pattern, the stop rule, the estimate |
| GS engine | `src/approx/GS/*` | the sparsified graph, `scale_factor`, `counter` | colour sampling, the counting kernels, scaling |
| Profilers | `src/approx/elp`, `fast-profiler`, `ns-elp` | the error and the samples of the profile | profile a colour subgraph, predict |
| Scheduler, partitioner | `src/common/scheduler.cc`, `graph_partition.cc` | edge lists per device, subgraphs | round robin, chunking, least first; edge-cut, segmenting, 2D |

How they interact. A main program builds a `Graph`, which reads the CSR files
and, for cliques, runs `orientation`. GS replaces the CSR arrays by those of a
colour-sparsified subgraph (`color_sparsify_fast`, which calls
`parallel_prefix_sum`), runs an exact kernel on it (nested loops over merges of
`VertexSet`s) and multiplies by the scale factor. NS builds a COO list, draws
random edges and neighbours in OpenMP parallel loops, adds the weight of each
walk to shared sums, and stops when the estimated relative error is below the
target. The fast profiler runs both on a colour subgraph and predicts how many
samples the whole graph needs. For several devices, a `Scheduler` divides the
COO list among queues, and a `PartitionedGraph` the graph into subgraphs.

What is hard. The parallel loops write shared arrays without locks and are
correct only because their ranges do not overlap. The sequential sparsifiers
shift row pointers in place while they read them. The differences may write
over their own input. Arrays of a `Graph` have two owners: without symmetry
breaking the COO list is the edge array itself, and in an undirected graph so
are the incoming arcs, while `orientation` frees the one and `nnz` guards the
other. The samplers mix reduced variables with unreduced ones
and read the sums between windows. The kernels and walks break symmetries and
subtract degenerate cases by hand, so an error shows only on particular graphs,
and an estimator's bias shows in no single run. Nothing is persisted and
nothing is sent over a network: there is no crash recovery and no messaging.

What makes each part correct:

* prefix sum: the exclusive prefix sum for every schedule, every cell written once;
* reductions: the fill loop is race-free, the published arrays are the CSR of
  the kept arcs, the DAG is acyclic, the whole call acts as one atomic step;
* sparsifiers: each row is read through unshifted pointers, the result is the
  CSR of the kept arcs, also at a second call;
* merges: the result is sorted and exact, no unread element is overwritten;
* NS: no sample is lost, the loop stops only within the target, the estimate is
  the mean, a sample's mean weight is the number of occurrences, ids stay
  inside the list;
* GS: exact with one colour, unbiased with several;
* the `Graph` object: a list stays the one that was asked for, no pointer is
  left to a freed array, rows fit the buffers, the incoming rows are the transposed
  ones;
* scheduler and partitioner: every task goes to one queue, every vertex and
  arc to its subgraph.

## 2. Modules

| Module | Models | Notes |
|---|---|---|
| `PrefixSum` | `prefix_sum` | the reference: the number of edge slots before each vertex |
| `ParallelScan` | `parallel_prefix_sum` | `LocalStep`/`LocalStore` per block, a barrier, the sequential `BulkStep`, then `SpreadStep` per block |
| `GraphReduction` | what `orientation` and the colour methods promise | abstract: one atomic step on neighbour sets |
| `CSRBuild` | `orientation`, `color_sparsify_fast` | one step per neighbour of each iteration; any set of iterations may be under way, which covers static and dynamic schedules |
| `InPlaceSparsify` | `color_sparsify`, `color_sparsify_old`, `edge_sparsify` | one step per arc; `old` and `kept` are history |
| `VertexSetMerge` | every intersection and difference loop | an unbounded variant is one whose bound is above every vertex; a variant that only counts is one whose output is ignored |
| `OnlineSampler` | `main`, `sample_pattern`, the window loop of all eight samplers of `ns_final.cc` and of the four of `ns_online.cc`; `ns_fast_profiler.cc` with `ELP` | a walk is abstracted to its weight; reductions are private copies, unreduced shared variables are a load and a store |
| `NeighborSampler` | one sample of each of the eight samplers of `ns_final.cc` and of eight of the stand-alone programs, with both edge lists | one step per draw; a `VertexSet` that may be unsorted is a sequence |
| `SamplerMean` | | the mean weight of the samples of `NeighborSampler`, for its properties `UnbiasedSample` and `EverySampleUnbiased` |
| `ExactCount` | the kernels under `GS/exact-counting` | sums over the loop variables; a loop that breaks at a bound is a sum over `Below` |
| `PatternCount` | the reference for the kernels and walks | counts of subgraphs by enumeration of injections |
| `GSEngine` | `main`, `SansaSolver`, `ColorSampler`, `Pattern` | one action per stage |
| `GraphObject` | `Graph` as an owner of arrays | `heap` has the blocks, a pointer member is an index of it; one action per method, so that the order of calls is what varies; rows are put in order by rank (`Ascending`) and reduced by `Kept`, which can be proved about; `IsFile` is what is assumed of a file |
| `Scheduler` | `round_robin`, `vertex_chunking`, `least_first` | a step per iteration of the copy loops; a queue holds positions of the list |
| `GraphPartition` | `edgecut_induced_partition1D`, `csr_segmenting` | a step per iteration of the parallel mark loop and per vertex of the second pass |
| `WorkSplit` | a program that calls the methods of a `Graph` in any order and then divides the work | composes the three modules above; `Scheduler` and `GraphPartition` share the state of `GraphObject` |
| `Sums` | | sums over a finite set, for `Scheduler` and `OnlineSampler` |
| `CSRInputs`, `SmallGraphs`, `MC*` | inputs and command lines of the runs | |
| `*Proofs` | theorems | see section 5 |

`GSEngine` treats `orientation` and `color_sparsify_fast` as atomic; `CSRBuild`
shows that they are (`ImplementsReduction`). It treats set operations as
operators on sets; `VertexSetMerge` shows that the merges compute them on
sorted lists, and `WellFormed` of `CSRBuild` that the lists stay sorted.
`OnlineSampler` takes the weights as data; `NeighborSampler` shows what they
are. `GraphObject` takes each reduction as one step on whole arrays, as
`CSRBuild` and `InPlaceSparsify` justify; `color_sparsify_old` and
`edge_sparsify` handle the arrays as `color_sparsify` does and have no action of
their own there. The constructor's `use_dag` is an action that can only come
first: it orients the graph and takes `MAX_DEGREE` from the rows of the DAG, as
`graph.cc:119-124` does. The `max_degree` of the meta file is assumed right, and
a directed graph loaded without `need_reverse` is left out.

The definitions named `X_Something` under a comment "Fault:" are plausible
bugs of `X`. No specification uses them; each shows that a property notices.

Abstractions. Timers and printing are left out, allocation and freeing
everywhere but in `GraphObject`. Memory that is used wrongly is an outcome of
its own there (`status`): a list longer than its arrays, a cell that was never
written, an array freed before or twice, members that nothing has set
(`swap_graph_mode` without a second CSR). The store of `fixEndEdge` past the row
pointers of a segment is a step with two outcomes: nothing notices, or it ends
what can be said (stage `stray`). The profiler's `true_count` and the ratio of
the two scale factors are inputs. Doubles are exact integers (as they are up to
2^53), and the stop rule is cross-multiplied, which keeps the outcome of every
comparison, those with NaN and infinity included. Two squares of `ns_online.cc`
are products of integers and wrap at `AvgBits` bits (64 in the code): that of
`avg`, and `scale * scale` of its path sampler (`SquareOf`). Counts of the kernels
and the `uint64_t` weights themselves are not wrapped. The random engines are a
free choice. With 0 colours (`dist(0, -1)` is undefined) the colouring is any
partition.

## 3. Runs

| Run | Shows | Bounds |
|---|---|---|
| `scan` | `PrefixCorrect`, `WriteOnce` | 5 values up to 2 in blocks of 2: three blocks, the last one short |
| `csr_build` | `WellFormed`, `NoWriteRace`, `Direction`, `PublishCorrect`, `ImplementsReduction` | four graphs of 4 vertices (ties, a hub, isolated vertices), 2 colours, 2 calls: each of the two methods after each, `orientation` after a colour pass and twice included |
| `in_place` | `ReadsOldRows`, `Compacted`, `ColorSeparates` | the same graphs, 2 colours, 2 calls, every outcome of the coins |
| `merge` | `WriteBehindRead`, `ResultCorrect`, `Terminates` | all sorted lists over 4 vertices, bounds 0 to 4, every ancestor |
| `online` | `SumsExact`, `HitsNeverOver`, `StopSoundReduced`, `EstimateIsMeanOfAll` | both programs, 2 threads, windows of 2 samples, up to 3 windows, weights 0, 1 and 3, a target of 0.6: both breaking and running into the limit occur, also with the 2.2 of the dumbbell, all six samplers of 4motif follow each other, and the 2-bit squares of `ns_online.cc` wrap; the profiler with and without a kernel for the pattern |
| `neighbor` | `EidInBounds`, `OverflowOnlySparse`, `WalkMatches`, `UnbiasedSample` | all labelled graphs of 4 vertices and a dozen of 5 and 6, k = 3 to 6 (the 6 of `tbl2.sh:5`), sixteen samplers |
| `gs` | `ExactTotal`, `Unbiased` | exact: every labelled graph of 5 vertices, ten patterns, cliques also on the DAG; 6-, 8-, 9-cliques on the DAGs of K9 and of K9 less an edge; colours: seven graphs of 5 vertices, all 2-colourings; the motif commands also with 0 colours, of whose totals nothing is claimed |
| `work_split` | `ListExact`, `OnlyOrientationDangles`, `ReverseExact`, `RowsFit`, `TasksOnce`, `Balanced`, `EdgeCutExact`, `SegmentsExact`, `FaultsExplained` | three undirected graphs of 4 vertices with and without `use_dag`, a directed one, and a directed one of a single arc (its DAG and its descending list are empty); up to 3 calls, or 2 and a split; up to 3 queues, chunks up to 3 (lists of 1 to 10 tasks: full and short last chunks, equal and unequal queues), up to 5 subgraphs of 4 vertices (dividing, not dividing, more than vertices); 1 for the least list of 8192 |

The runs `scan`, `csr_build` and `merge` also check the type invariants that the
proofs use.

Labels matter in `gs` because the kernels break symmetries by vertex id;
that is why no symmetry reduction is used. `CHECK_DEADLOCK FALSE` is set
everywhere: these programs end, or the caller makes no further call.

Four runs show disagreements between the code and what its documents or
comments say; each is described under `findings` in `PROJECT.json`.

| Run | Disagreement |
|---|---|
| `motif_counts` | `experiments.md:34` says that `tbl4a.sh` "produces motif counts"; the samplers of 4motif that it runs do not estimate them |
| `online_stop` | `ns_final.cc:473` does not reduce `counter_sq`; the loop can break above the target |
| `house_bounds` | `ns_final.cc:539` draws ids up to `E()` from the halved list |
| `gs_tritri` | `triangletriangle.h:15` lets the second triangle share vertices with the first |

One more disagreement has no run of its own: `ns_online.cc:205` divides the sum of
all windows by the size of one. `EstimateIsMeanOfAll` is about the samplers that
divide by `total_ns`, and its mutant (`EstimateOf_OneWindow`) is this bug.

`GSEngine` has three more outcomes that `ExactTotal` would refute, and the
passing runs leave them out: the name `dumbbell`, as
`scripts/tables/tbl3.sh:45` spells it, is unknown to `GS/pattern.h:21` and
counts 0; `8clique.h:29` divides the undirected count by 9!; and
`scripts/tables/tbl4a.sh:32-38` passes 0 colours under the heading "EXACT", with
which the scale factor and every total are 0 (these commands run in `gs`, but
`ExactTotal` speaks of one colour).

The reading of `UnbiasedSample` for the house: with the full list
(`ns_online.cc`) the mean weight is twice the number of houses, since both
orientations of the start edge are drawn. The property states the factor.

The other samplers are biased. `EverySampleUnbiased` says that none is; the run
`motif_counts` refutes it for the commands of `tbl4a.sh`. What the samplers do
instead, in 4motif: the clique sampler breaks no symmetry and, without the DAG,
finds each clique 24 times; the diamond and the cycle samplers find each
occurrence twice and start `scale` with 1 instead of m; the star sampler counts
one per arc into the centre; the tailed triangle sampler finds at most the count.
Only the path sampler is right. Outside of 4motif: the base sampler of
`ns_clique.cc` finds a clique k!(k-1)! times and divides by k!
(`ns_clique.cc:84-93`), and the dumbbell sampler finds each dumbbell twice, and
also pairs of triangles that share a vertex, since `vs0` is not sorted. No passing
run states these factors as right.

What the properties of `work_split` except, and what the code does there:

* `orientation` frees the arrays of the incoming arcs of an undirected graph,
  and a list made without `sym_break`; the destructor then frees that list a
  second time;
* the incoming rows stay those of the loaded file through every reduction, although
  `graph.h:45` says that reverse edges are maintained and `graph.cc:607` asserts
  them against the new `n_edges`. `ReverseExact` speaks only of states whose arcs
  are the loaded ones; `in_neigh` of a reduced graph is wrong;
* `swap_graph_mode` without a second CSR puts members that nothing has set into
  the graph (`uninitialized`);
* `max_degree` is too small after `color_sparsify_fast_d`, `orientation` and
  `swap_graph_mode`; the buffers (`MAX_DEGREE`) are not;
* `init_edgelist(true)` on an oriented graph writes past its arrays or leaves
  cells unset; a list after a stream is not made at all;
* an empty list leaves `nnz` at 0, so that a later `create_edge_stream` sets it to
  the length of the stream, and the scheduler then reads past the list
  (`past_end`); `init_simple_edgelist` after an empty list of `init_edgelist` makes
  one that `sizes` does not count;
* `round_robin` loses its last chunk when it is full and every queue gets the
  same number of chunks; the lengths of `vertex_chunking` also count the lists
  that `reinit_edgelist` replaced, and are missing after `init_simple_edgelist`;
* `least_first` estimates no work for the last chunk, which is given without a
  score, so that `Balanced` does not bound it, and an unset cell counts as read
  only among the tasks whose work is estimated (`estimated`);
* `csr_segmenting` calls `fixEndEdge` (`graph_partition.cc:188-189`) with an index
  it has already incremented: every row end is one place too far for `Graph::N`
  (`graph.h:60`), the second row pointer stays unset, and the last store is past
  the array (`stray`, explained by `FaultsExplained`). `SegmentsExact` is therefore
  about `edges` and `idx_map`; nothing is claimed of the row pointers;
* `csr_segmenting` also writes past its vectors when the segments do not divide the
  vertices, and divides by 0 when there are more segments than vertices.

The profiler sets `final_err` only when a sampler breaks: at the limit of the
window loop it predicts 0 samples (`ns_fast_profiler.cc:479`). Nothing in the
repository says what it should predict then, so no property does. It has no kernel
for `clique`, the pattern of the command line in `experiments.md:57`, and divides
by its count of 0 there (`Infinite`).

## 4. Fairness

One liveness property is checked: `Terminates` of `VertexSetMerge`, under weak
fairness of `Next`, which is one sequential loop that a running thread carries on.
The other modules check safety only. Their loops run over fixed ranges, and the
window loop of the NS engine ends at its limit (10^9 in the code, `MaxWindows`
here) whatever the error does; that they end says nothing about the code.

## 5. Proofs

Proved by TLAPS for every value of the constants:

* `ParallelScanProofs`: `ScanTypeCorrect`, `ScanCorrect`, `ScanRangesDisjoint`,
  `ScanWriteOnce`. The inductive invariant `IInv` says, per phase, where each
  block's index is, what its partial sum is and which cells hold their final
  value. Sums are counted as cardinalities of sets of slots, so that the facts
  of `PrefixSumProofs` about `prefix_sum` need no induction over data. That module
  also holds the lemmas about sums, quotients and remainders that the others cite.
* `CSRBuildProofs`: `BuildTypeCorrect`, `BuildWellFormed`, `BuildNoWriteRace`,
  `BuildPublishCorrect`, `BuildImplementsReduction`, `BuildDirection`, for any
  sequence of the two methods. `IInv`
  relates the degree and the offset of each iteration to the arcs kept before
  the position it has reached (`CountInv`, `FillInv`); the prefix sum then
  separates the ranges of different vertices. For the refinement, the order
  (degree, id) is the witness of the linear order, and the colour classes are
  the separated sets. The DAG is acyclic because every set of vertices has one
  that is highest in that order (`HighestVertex`), from which no arc leaves.
* `InPlaceSparsifyProofs`: `SparsifyReadsOldRows`, `SparsifyCompacted`,
  `SparsifySeparates`, for any number of calls and any outcomes of the coins.
  `IInv` says that the row pointers below the current vertex are those of the
  arcs kept so far, and that the ones from it on are still the old ones.
* `VertexSetMergeProofs`: `MergeTypeCorrect`, `MergeInPlaceSafe`,
  `MergeCorrect`. `IInv` says that the output is what is wanted of the
  elements read so far, that it is sorted, and that everything before the two
  indices is below everything after them (`Frontier`).
* `OnlineSamplerProofs`: `OnlineSumsExact`, `OnlineHitsNeverOver`,
  `OnlineStopSound`, `OnlineEstimateIsMean`, for any team of threads, window size,
  number of windows and weights. A sum over the
  team has no facts the provers know, so each sum is shown to be the number of
  elements of a set of units (a thread or a sample with a number below its
  weight), and a step adds or moves units (`Counted`, `Reduced`). What was lost
  by the unreduced variables can only be missing: `HitsBelow` and `SqBelow`
  bound them by the exact sums, which is why the rule is sound for the programs
  that reduce `counter_sq` and is not for the others (run `online_stop`).
* `NeighborSamplerProofs`: `SampleWalkMatches`, `SampleOverflowOnlySparse`,
  `SampleEidInBounds`, for every undirected graph, all the samplers and every
  k > 2 (what the programs assert). `IInv` says that the sampler works on the input or its orientation, that
  the list is that of this graph, that the walk is a match within its length,
  and that a house or dumbbell walks on only where the degrees leave room for
  what it collects. There is one lemma per way to extend a walk;
  `DifferenceSorted` shows that subtracting a sorted list removes all of it, while
  for the unsorted one of the dumbbell only what `WalkMatches` says is removed.
  `SampleEidInBounds` has a hypothesis: no command draws `E()` ids from the
  halved list (`PastTheList`). Without it, the theorem is false, as the run
  `house_bounds` shows; the invariant says that nothing else reads past the list.
* `WorkSplitProofs`, for any files, any number of calls and any split after
  them:
  * `SplitOnlyOrientationDangles`. `IInv` gives each block one owner among six
    pointers (`Ownership`), and says which blocks the two that may alias another
    (`dst_list` in `List`, the incoming arcs in `Incoming`) can refer to:
    `dst_list` never refers to row pointers, so that `orientation` frees it only
    as the edge array.
  * `SplitTasksOnce`, from an invariant for each method. For `round_robin`
    (`SplitRoundRobin`), task `t` is written with the digits (chunk of the queue,
    queue, offset in the chunk), in the bases number of chunks, queues and stride;
    `Dealing` says that a cell of a queue is unset or holds the task with its
    digits, and is set when its chunk was dealt. Distinct cells have distinct
    digits (`CellsDiffer`), and every task below `nnz` has a cell unless it is in
    the chunk that is lost (`TaskHasCell`). The other two methods fill the queues
    from the front: `Holding` says that their filled cells have the tasks before
    `pos`, each once and in order, which handing over the next tasks keeps
    (`HandedHolding`). For `least_first` (`SplitGiving`) a queue is as long as it
    is filled. `vertex_chunking` (`SplitAppending`) allocates by `sizes`, so it
    has to be shown that there is room.
  * `SplitTally` is where that room comes from: `sizes` adds up to the tasks of
    the lists it has counted, and each task of a counted list has a number of its
    own below the size of its source. Tasks of a queue that differ therefore
    number at most the sizes of its sources (`RoomFor`), and the lengths of all
    queues add up to what was counted (`SumClasses`). The sums are taken to
    cardinalities (`SumCounts`), as for the NS engine, and from there to
    arithmetic over `0 .. n - 1` (`SumBelow`, `FromZero`).
  * `SplitBalanced`. The queue with the least score gets a chunk, so that it ends
    at most the work of that chunk above any other; the work of a task is a number
    only because the list holds arcs between vertices (`ListedWork`).
  * `SplitFaultsExplained`: every status of `FaultsExplained`, and the stray store of
    `csr_segmenting`, which can only be that of a segment's last row (`LastRow`). `Lists` says that
    whatever made `nnz` nonzero left a list or a stream, and that `sizes` is there
    as soon as tasks were counted in it (`SplitFirstFaults`); the statuses that
    depend on what the list holds follow from `ListInv` below, and a segment number
    out of bounds from `Data`, by which every head is a vertex (`Reasons`).
  * `SplitReverseExact`, `SplitRowsFit`. These are about what arrays hold.
    `RowOfCSR` shows that the arrays of `CSR(lists)` have the lists as their
    rows; it rests on the existence and uniqueness of the recursive function
    behind `FlattenSeq`, shown by the least length for which they would fail
    (`Upwards`, `LeastNatural`). A reduced row is no longer than the row it is of
    (`KeptFacts`), so that the bounds of the constructor survive (`Rows`); the
    row that attains `max_degree` exists because lengths are bounded
    (`MaxRowFacts`). The arrays of the incoming arcs are left alone because
    `Ownership` and `Incoming` say which blocks a method writes; where the current
    arcs are the loaded ones, the loaded reverse is theirs.
  * `SplitData`: the current arrays stay well-formed CSR arrays (`IsCSR`). What is
    kept of an ascending row is the ascending list of its kept members
    (`KeptSorted`, `StrictIsAscending`), and ascending lists make CSR arrays
    (`CSRWell`).
  * `SplitSegmentsExact`, `SplitEdgeCutExact`. `Segments` says that after vertex
    `cur` each segment has the rows of the vertices before it, in order; one more
    vertex goes to the end of `idx_map` (`AscendingAdd`) and one more row behind the
    others (`FlattenAppend`, `SegmentRow`). `Cut` says that the masks are the part of the range
    marked so far with its neighbours, in whatever order the marks come, and that
    the subgraphs before `cur` are the induced ones (`InducedSubgraph`).
  * `SplitListInv`, `SplitListExact`. The loops of `init_edgelist` lay out row `v`
    from a row pointer on (`LaidOut`), so that the list enumerates its arcs without
    repetition (`LaidOutPairs`); without `sym_break` these pointers are the graph's
    own, which is why the edge array can serve as `dst_list`. With `sym_break` the
    arcs in one direction are half of the arcs of a symmetric graph (`Halves`),
    which is the room there is. `ListInv` keeps this through every other method:
    `color_sparsify` writes row pointers only, and the others write no old array.

Assumptions: the named `ASSUME`s of the component modules (an undirected,
sorted CSR without self loops; a non-empty, finite team of threads; positive
sizes and modulus), which TLC evaluates in the runs. `IsFile` of `GraphObject`
asks of a file: a vertex (the constructor asserts `max_degree < n_vertices`,
`graph.cc:36`), row pointers that ascend from the first edge to behind the last,
rows of other vertices in the order of their ids (`IsCSR`), and, where the
constructor uses the arrays of an undirected graph as their own reverse,
`graph.cc:54`, that they are. Each inductive invariant was also checked by TLC, with
its quantifiers bounded where they are not.

Only model-checked:

* `Terminates` (fairness and `ENABLED` are out of the prover's reach);
* `UnbiasedSample`, `ExactTotal`, `Unbiased`: their references
  enumerate subgraphs, and the sums of the walks and kernels need induction over
  the graph; `SamplerMean` also has a RECURSIVE operator.

## 6. Not modelled

* The buffer pool of `VertexSet`: each program builds its one `Graph` from files
  before any set exists, so that `release_buffers` meets no live set and
  `MAX_DEGREE` does not rise later; the pools are thread-local. What a buffer has
  to hold is checked (`OverflowOnlySparse`, `RowsFit`).
* Of `Graph`: labels and k-cores (read by GPU and Pangolin code only), the
  statistics of `sample_tree`, reading files, printing.
* `partition2D` and `fetch_partitions`: their constructor has a parameter `g`
  that hides the member, which stays uninitialized; no call has a defined outcome.
  `edgecut_partition1D` only sets a number.
* The GS profiler in `elp`: `elp/sampler.h` does not compile at this commit.
* `ns-elp`: a loop that doubles the samples until three estimates agree; it
  would be a module of its own around the same samplers. `ns_profile.cc`
  repeats `ns_online.cc` with statistics of the weights.
* `ns_all.cc`, `ns_timer.cc`, `ns_path.cc` and the variants of `ns_online.cc`
  repeat walks that are modelled; `sample_path`, the path samplers of
  `path_sampler.cc`, `odd_path`, the pruned clique samplers, `hop2_workload` and
  `construct_index` are called by nothing.
* The generator that the threads of `ns_online.cc` share: a race in it changes
  the random numbers, which are a free choice here.
* For good: the AVX intersections and `pattern.cc` (no program of the two
  engines uses them), CUDA code, the Python performance model, the third-party
  baselines with their vendored libraries (nine tenths of the repository's
  lines), vendored headers.

## 7. Plan

Done: all the parts of section 1 but those of section 6 are modelled and
checked; prefix sum, reductions, merges, in-place sparsifiers, the NS engine,
the walks, the arrays and lists of a `Graph`, the partitioner and the three methods
of the scheduler are proved about. Every safety property of a passing run is a
theorem but the three of section 5 that compare with an enumeration.

----------------------------- MODULE Scheduler -----------------------------
(***************************************************************************)
(* The Scheduler class (sansa/src/common/scheduler.cc): the task list of a *)
(* Graph is divided among n queues in chunks of stride tasks,              *)
(*                                                                         *)
(*   round_robin      chunk by chunk in turn, copied by a parallel loop;   *)
(*   vertex_chunking  by the source vertex, with lengths taken from sizes; *)
(*   least_first      each chunk to the queue with the least work so far.  *)
(*                                                                         *)
(* A cell of a queue holds the position of its task in the list; src_ptrs  *)
(* and dst_ptrs are always copied together.                                *)
(***************************************************************************)
EXTENDS GraphObject, Sums

CONSTANTS
  MaxQueues, MaxStride,  \* bounds on the arguments n and stride
  MinTasks               \* the smallest list worth a split, 8192 in the code

ASSUME QueueAssumption == MaxQueues \in Nat /\ MaxStride \in Nat
ASSUME MinTasksAssumption == MinTasks \in Nat

VARIABLES
  phase,   \* "idle", the loop that runs, or "done"
  job,     \* the call: [method, n, stride]
  lens,    \* the length of each queue
  queues,  \* the arrays of the queues
  todo,    \* round_robin: the iterations of the parallel loop still to run
  pos,     \* the next task of the list
  idx,     \* vertex_chunking: the cells written so far
  scores   \* least_first: the work given to each queue

svars == <<phase, job, lens, queues, todo, pos, idx, scores>>

Q == 0 .. job.n - 1
nnz == g.nnz
Src(e) == Array(g.src_list)[e]
Dst(e) == Array(g.dst_list)[e]

SchedulerInit ==
  /\ phase = "idle" /\ job = [method |-> "none", n |-> 0, stride |-> 1]
  /\ lens = <<>> /\ queues = <<>> /\ todo = {} /\ pos = 0
  /\ idx = <<>> /\ scores = <<>>

Allocated(len) == [q \in DOMAIN len |-> [k \in 0 .. len[q] - 1 |-> Unset]]

\* The queue after size tasks from position from on were copied to at; a copy
\* past its end makes it longer than it was allocated.
Copied(queue, at, from, size) ==
  LET new == at .. at + size - 1
  IN  [k \in new \cup DOMAIN queue |-> IF k \in new THEN from + k - at ELSE queue[k]]

Fails(why) ==
  /\ status' = why /\ phase' = "done"
  /\ UNCHANGED <<heap, g, calls, past, lens, queues, todo, pos, idx, scores>>

\* What stops a call at its first use of the list.  nnz may be the length of a
\* stream that was made after an empty list.
Unusable ==
  CASE g.src_list = NULL -> "null"
    [] g.src_list # NULL /\ ~heap[g.dst_list].live -> "freed"
    [] g.src_list # NULL /\ heap[g.dst_list].live
         /\ Cardinality(DOMAIN Array(g.src_list)) < nnz -> "past_end"
    [] OTHER -> "ok"

-----------------------------------------------------------------------------
(* round_robin                                                             *)

total_num_chunks == (nnz - 1) \div job.stride + 1
nchunks_per_queue == total_num_chunks \div job.n
rest == total_num_chunks % job.n

\* The tasks of the last chunk, where the queues get equal numbers of them.
last_size == nnz % job.stride

\* Fault: the remainder is compared with i instead of i + 1.
RoundRobinLens_Shifted ==
  [i \in Q |->
     job.stride * nchunks_per_queue +
       CASE rest # 0 /\ i = rest ->
              IF nnz % job.stride = 0 THEN job.stride ELSE nnz % job.stride
         [] rest # 0 /\ i < rest -> job.stride
         [] rest = 0 /\ i = job.n - 1 -> last_size - job.stride
         [] OTHER -> 0]

RoundRobinLens ==
  [i \in Q |->
     job.stride * nchunks_per_queue +
       CASE rest # 0 /\ i + 1 = rest ->
              IF nnz % job.stride = 0 THEN job.stride ELSE nnz % job.stride
         [] rest # 0 /\ i + 1 < rest -> job.stride
         [] rest = 0 /\ i = job.n - 1 -> last_size - job.stride
         [] OTHER -> 0]

round_robin ==
  /\ phase = "round_robin"
  /\ CASE nnz <= MinTasks -> Fails("assert")
       [] nnz > MinTasks /\ Unusable # "ok" -> Fails(Unusable)
       [] OTHER ->
            /\ lens' = RoundRobinLens /\ queues' = Allocated(RoundRobinLens)
            /\ todo' = 0 .. nchunks_per_queue - 1 /\ phase' = "chunks"
            /\ UNCHANGED <<gvars, pos, idx, scores>>

\* One iteration of the parallel loop: a chunk for every queue.
CopyChunk(chunk_id) ==
  /\ phase = "chunks" /\ chunk_id \in todo /\ todo' = todo \ {chunk_id}
  /\ queues' = [qid \in Q |->
       LET p == (chunk_id * job.n + qid) * job.stride
           last == rest = 0 /\ chunk_id = nchunks_per_queue - 1 /\ qid = job.n - 1
       IN  Copied(queues[qid], chunk_id * job.stride, p,
                  IF last THEN last_size ELSE job.stride)]
  /\ UNCHANGED <<gvars, phase, lens, pos, idx, scores>>

\* The loop over the queues that get one more chunk, the last one up to nnz.
CopyRest ==
  /\ phase = "chunks" /\ todo = {} /\ phase' = "done"
  /\ queues' = [i \in Q |->
       LET p == (nchunks_per_queue * job.n + i) * job.stride
           at == nchunks_per_queue * job.stride
       IN  CASE i + 1 = rest -> Copied(queues[i], at, p, nnz - p)
             [] i + 1 < rest -> Copied(queues[i], at, p, job.stride)
             [] OTHER -> queues[i]]
  /\ UNCHANGED <<gvars, lens, todo, pos, idx, scores>>

-----------------------------------------------------------------------------
(* vertex_chunking                                                         *)

QueueOf(v) == (v \div job.stride) % job.n

vertex_chunking ==
  /\ phase = "vertex_chunking"
  /\ IF g.sizes = <<>> THEN Fails("sizes")
     ELSE LET size(q) == SumOver(g.sizes, {v \in V : QueueOf(v) = q})
          IN  /\ lens' = [q \in Q |-> size(q)]
              /\ queues' = Allocated(lens') /\ idx' = [q \in Q |-> 0]
              /\ pos' = 0 /\ phase' = "append"
              /\ UNCHANGED <<gvars, todo, scores>>

\* One iteration of the sequential loop over the list.
AppendTask ==
  /\ phase = "append" /\ pos < nnz
  /\ CASE Unusable # "ok" -> Fails(Unusable)
       [] Unusable = "ok" /\ Src(pos) = Unset -> Fails("unset")
       [] OTHER ->
            LET qid == QueueOf(Src(pos)) IN
              /\ queues' = [queues EXCEPT ![qid] = Copied(@, idx[qid], pos, 1)]
              /\ idx' = [idx EXCEPT ![qid] = @ + 1]
              /\ pos' = pos + 1
              /\ UNCHANGED <<gvars, phase, lens, todo, scores>>

AppendEnd ==
  /\ phase = "append" /\ pos = nnz /\ phase' = "done"
  /\ UNCHANGED <<gvars, lens, queues, todo, pos, idx, scores>>

-----------------------------------------------------------------------------
(* least_first                                                             *)

workload_estimate(e) ==
  LET a == get_degree(Src(e)) b == get_degree(Dst(e)) IN IF a < b THEN a ELSE b

Work(from, size) ==
  LET tasks == from .. from + size - 1
  IN  SumOver([e \in tasks |-> workload_estimate(e)], tasks)

\* Fault: the first queue that is not worse than its successor.
smallest_score_id_Local ==
  CHOOSE i \in Q : (i + 1 \in Q => scores[i] <= scores[i + 1])

\* The first of the queues with the least work.
smallest_score_id ==
  CHOOSE i \in Q :
    /\ \A j \in Q : scores[i] <= scores[j]
    /\ \A j \in Q : scores[j] = scores[i] => i <= j

\* How many tasks have their work estimated: those of the first chunks, which
\* may be all of them, and then all but the last chunk.
estimated ==
  IF job.n * job.stride >= nnz THEN nnz ELSE ((nnz - 1) \div job.stride) * job.stride

\* One chunk for each queue; the asserts want tasks to be left after that.
least_first ==
  /\ phase = "least_first"
  /\ CASE nnz <= MinTasks -> Fails("assert")
       [] nnz > MinTasks /\ Unusable # "ok" -> Fails(Unusable)
       [] nnz > MinTasks /\ Unusable = "ok" /\ Src(estimated - 1) = Unset ->
            Fails("unset")
       [] nnz > MinTasks /\ Unusable = "ok" /\ Src(estimated - 1) # Unset
            /\ job.n * job.stride >= nnz -> Fails("assert")
       [] OTHER ->
            /\ lens' = [i \in Q |-> job.stride]
            /\ queues' = [i \in Q |-> Copied(<<>>, 0, i * job.stride, job.stride)]
            /\ scores' = [i \in Q |-> Work(i * job.stride, job.stride)]
            /\ pos' = job.n * job.stride /\ phase' = "more"
            /\ UNCHANGED <<gvars, todo, idx>>

\* The size of the next chunk: full while more than that is left.
Give(size) ==
  LET id == smallest_score_id IN
    /\ lens' = [lens EXCEPT ![id] = @ + size]
    /\ queues' = [queues EXCEPT ![id] =
                    Copied(@, Cardinality(DOMAIN queues[id]), pos, size)]
    /\ pos' = pos + size

NextChunk ==
  /\ phase = "more" /\ pos + job.stride < nnz
  /\ Give(job.stride)
  /\ scores' = [scores EXCEPT ![smallest_score_id] = @ + Work(pos, job.stride)]
  /\ UNCHANGED <<gvars, phase, todo, idx>>

\* The last chunk is not added to the scores.
LastChunk ==
  /\ phase = "more" /\ pos + job.stride >= nnz /\ phase' = "done"
  /\ Give(nnz - pos)
  /\ UNCHANGED <<gvars, todo, idx, scores>>

-----------------------------------------------------------------------------
Methods == {"round_robin", "vertex_chunking", "least_first"}

\* A program calls one of the methods on the graph.
Split(method, n, stride) ==
  /\ phase = "idle" /\ status = "ok"
  /\ job' = [method |-> method, n |-> n, stride |-> stride] /\ phase' = method
  /\ UNCHANGED <<gvars, lens, queues, todo, pos, idx, scores>>

SchedulerStep ==
  \/ /\ round_robin \/ CopyRest \/ \E c \in todo : CopyChunk(c)
     /\ UNCHANGED job
  \/ (vertex_chunking \/ AppendTask \/ AppendEnd) /\ UNCHANGED job
  \/ (least_first \/ NextChunk \/ LastChunk) /\ UNCHANGED job
=============================================================================

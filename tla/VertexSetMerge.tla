--------------------------- MODULE VertexSetMerge ---------------------------
(***************************************************************************)
(* The merge loops of VertexSet (sansa/include/VertexSet.h and             *)
(* sansa/src/common/VertexSet.cc), which every kernel and every sampler    *)
(* uses to intersect and subtract sorted neighbour lists:                  *)
(*                                                                         *)
(*   "intersect"   operator&, get_intersect_num, intersect, intersect_ns,  *)
(*                 intersect_ns_except, intersect_except, intersection     *)
(*   "difference"  difference_buf (bounded or not) and difference_ns       *)
(*                                                                         *)
(* The variants differ in whether they have an upper bound, in the         *)
(* ancestors they leave out, and in whether they store or only count; a    *)
(* variant without a bound is one whose bound is above every vertex.       *)
(* difference_buf may write into its own input ("outBuf may be the same as *)
(* this->ptr"), which `place' says.                                        *)
(***************************************************************************)
EXTENDS Integers

CONSTANTS
  Values,  \* the vertex ids
  Bounds,  \* the upper bounds tried
  MaxLen   \* bound on the sizes of the two sets

ASSUME ValuesAssumption == Values \subseteq Nat
ASSUME BoundsAssumption == Bounds \subseteq Nat
ASSUME MaxLenAssumption == MaxLen \in Nat

VARIABLES
  op,           \* "intersect" or "difference"
  place,        \* "own" when the result goes to a buffer, "same" to a itself
  set_size, other_size,
  a, b,         \* the contents of this->ptr and other.ptr
  a0,           \* a as it was passed (history)
  upper,        \* the bound
  skip,         \* the ancestors, or other.vid
  phase,        \* "merge", "tail" (the second loop of difference) or "done"
  idx_l, idx_r,
  out,          \* the output buffer
  n_out         \* number of results

args == <<op, place, set_size, other_size, b, a0, upper, skip>>
vars == <<args, a, phase, idx_l, idx_r, out, n_out>>

Ascending(f, n) == \A i, k \in 0 .. n - 1 : i < k => f[i] < f[k]

Unset == -1

\* vid of a pooled set, and the ancestor of a variant without one.
NoVertex == -1

\* Sorted lists without duplicates; results go in place for a difference only.
\* An intersection leaves out up to two ancestors, a difference other.vid.
Init ==
  /\ op \in {"intersect", "difference"} /\ place \in {"own", "same"}
  /\ op = "intersect" => place = "own"
  /\ set_size \in 0 .. MaxLen /\ other_size \in 0 .. MaxLen
  /\ a0 \in [0 .. set_size - 1 -> Values] /\ Ascending(a0, set_size)
  /\ b \in [0 .. other_size - 1 -> Values] /\ Ascending(b, other_size)
  /\ a = a0
  /\ upper \in Bounds
  /\ \E x, y \in Values \cup {NoVertex} :
       skip = {x, y} /\ (op = "difference" => x = y)
  /\ phase = "merge" /\ idx_l = 0 /\ idx_r = 0 /\ n_out = 0
  /\ out = [i \in 0 .. set_size - 1 |-> Unset]

\* out.ptr[out.set_size++] = x, into the buffer or into the input.
Emit(x) ==
  /\ n_out' = n_out + 1
  /\ IF place = "own"
     THEN out' = [out EXCEPT ![n_out] = x] /\ a' = a
     ELSE a' = [a EXCEPT ![n_out] = x] /\ out' = out

\* The element is not part of the result.
Drop == UNCHANGED <<n_out, out, a>>

\* Fault: an element is taken as soon as it differs from other's.
Wants_NotEqual(left, right) ==
  IF op = "intersect" THEN left = right /\ left \notin skip
  ELSE left # right /\ left \notin skip

\* The test of the merge loop on the two current elements.
Wants(left, right) ==
  IF op = "intersect" THEN left = right /\ left \notin skip
  ELSE left < right /\ left \notin skip

\* Fault: the left side moves by two at a match, without a test of its end.
Advance_ByTwo(left, right) ==
  /\ idx_l' = IF left < right THEN idx_l + 1
              ELSE IF left = right THEN idx_l + 2 ELSE idx_l
  /\ idx_r' = IF right <= left THEN idx_r + 1 ELSE idx_r

\* if(left <= right) idx_l++; if(right <= left) idx_r++;
Advance(left, right) ==
  /\ idx_l' = IF left <= right THEN idx_l + 1 ELSE idx_l
  /\ idx_r' = IF right <= left THEN idx_r + 1 ELSE idx_r

\* The loop goes on until the end of a list or the bound.
InLoop ==
  /\ idx_l < set_size /\ idx_r < other_size
  /\ a[idx_l] < upper /\ b[idx_r] < upper

\* One iteration of the merge loop.
Merge ==
  /\ phase = "merge" /\ InLoop
  /\ Advance(a[idx_l], b[idx_r])
  /\ IF Wants(a[idx_l], b[idx_r]) THEN Emit(a[idx_l]) ELSE Drop
  /\ UNCHANGED <<args, phase>>

\* Fault: the bound alone ends a difference.
MergeEnd_NoTail ==
  /\ phase = "merge" /\ ~InLoop
  /\ phase' = "done"
  /\ UNCHANGED <<args, a, idx_l, idx_r, out, n_out>>

\* A difference goes on with its second loop.
MergeEnd ==
  /\ phase = "merge" /\ ~InLoop
  /\ phase' = IF op = "difference" THEN "tail" ELSE "done"
  /\ UNCHANGED <<args, a, idx_l, idx_r, out, n_out>>

\* The second loop of difference takes what is left below the bound.
InTail == idx_l < set_size /\ a[idx_l] < upper

Tail ==
  /\ phase = "tail" /\ InTail
  /\ idx_l' = idx_l + 1 /\ idx_r' = idx_r
  /\ IF a[idx_l] \notin skip THEN Emit(a[idx_l]) ELSE Drop
  /\ UNCHANGED <<args, phase>>

\* Fault: the second loop never ends at the bound.
TailEnd_NoBound ==
  /\ phase = "tail" /\ idx_l >= set_size
  /\ phase' = "done"
  /\ UNCHANGED <<args, a, idx_l, idx_r, out, n_out>>

TailEnd ==
  /\ phase = "tail" /\ ~InTail
  /\ phase' = "done"
  /\ UNCHANGED <<args, a, idx_l, idx_r, out, n_out>>

Next == Merge \/ MergeEnd \/ Tail \/ TailEnd

Spec == Init /\ [][Next]_vars /\ WF_vars(Next)

-----------------------------------------------------------------------------
ArgsType ==
  /\ op \in {"intersect", "difference"} /\ place \in {"own", "same"}
  /\ op = "intersect" => place = "own"
  /\ set_size \in Nat /\ other_size \in Nat
  /\ a0 \in [0 .. set_size - 1 -> Values]
  /\ b \in [0 .. other_size - 1 -> Values]
  /\ upper \in Nat /\ skip \in SUBSET (Values \cup {NoVertex})

\* The indices stay inside the arrays, and the arrays hold vertices.
TypeOK ==
  /\ ArgsType
  /\ a \in [0 .. set_size - 1 -> Values]
  /\ phase \in {"merge", "tail", "done"}
  /\ idx_l \in 0 .. set_size /\ idx_r \in 0 .. other_size
  /\ out \in [0 .. set_size - 1 -> Values \cup {Unset}]
  /\ n_out \in Nat

Result(i) == IF place = "own" THEN out[i] ELSE a[i]

InOther(x) == \E r \in 0 .. other_size - 1 : b[r] = x

\* The elements the operation is asked for.
Wanted(x) ==
  /\ x < upper /\ x \notin skip
  /\ IF op = "intersect" THEN InOther(x) ELSE ~InOther(x)

\* "assert(idx_l>return_set_size)": the result never gets ahead of what has
\* been read, so that an output placed on the input overwrites no element
\* that is still to be read, and no output exceeds the size of the input.
WriteBehindRead ==
  /\ n_out <= idx_l
  /\ \A i \in idx_l .. set_size - 1 : a[i] = a0[i]

(***************************************************************************)
(* When the loops end, the result is sorted, as the next merge needs it,   *)
(* and holds exactly the elements of this that the operation is asked for. *)
(***************************************************************************)
ResultCorrect ==
  phase = "done" =>
    /\ Ascending([i \in 0 .. n_out - 1 |-> Result(i)], n_out)
    /\ \A i \in 0 .. n_out - 1 : \E l \in 0 .. set_size - 1 : Result(i) = a0[l]
    /\ \A l \in 0 .. set_size - 1 :
         Wanted(a0[l]) <=> \E i \in 0 .. n_out - 1 : Result(i) = a0[l]

\* The loops end.
Terminates == <>(phase = "done")
=============================================================================

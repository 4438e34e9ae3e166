------------------------------ MODULE PrefixSum -----------------------------
(***************************************************************************)
(* What prefix_sum of sansa/include/scan.h computes, without its loop.     *)
(* d[v] is the number of edge slots vertex v needs, at most m.             *)
(***************************************************************************)
EXTENDS Integers, FiniteSets

\* The edge slots <<v, k>> of the vertices i .. j-1.
SlotSet(d, m, i, j) == {s \in (i .. j - 1) \X (0 .. m - 1) : s[2] < d[s[1]]}

\* The exclusive prefix sum of d over 0 .. n-1, with the total in cell n: the
\* number of slots before each vertex.
prefix_sum(d, m, n) == [i \in 0 .. n |-> Cardinality(SlotSet(d, m, 0, i))]
=============================================================================

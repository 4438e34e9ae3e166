------------------------------ MODULE CSRInputs ------------------------------
(***************************************************************************)
(* Four undirected graphs on four vertices, as the CSR arrays of the input *)
(* files.  Between them they have vertices that keep some of their edges   *)
(* and drop others, ties of degree, a hub, and isolated vertices.          *)
(***************************************************************************)
EXTENDS Integers, SequencesExt

\* The CSR arrays of neighbour lists.
CSR(lists) ==
  LET flat == FlattenSeq(lists)
      begin(v) == Len(FlattenSeq(SubSeq(lists, 1, v)))
  IN  [n_edges  |-> Len(flat),
       vertices |-> [v \in 0 .. Len(lists) |-> begin(v)],
       edges    |-> [e \in 0 .. Len(flat) - 1 |-> flat[e + 1]]]

MCGraphs ==
  {CSR(<< <<1, 2>>, <<0, 2, 3>>, <<0, 1, 3>>, <<1, 2>> >>),   \* diamond
   CSR(<< <<1, 2>>, <<0, 2>>, <<0, 1, 3>>, <<2>> >>),         \* tailed triangle
   CSR(<< <<3>>, <<3>>, <<3>>, <<0, 1, 2>> >>),               \* star
   CSR(<< <<>>, <<3>>, <<>>, <<1>> >>)}                       \* one edge
=============================================================================

---------------------------- MODULE MCWorkSplit ----------------------------
(***************************************************************************)
(* Instance of WorkSplit: the graphs of CSRInputs with ten, eight and two  *)
(* arcs, undirected, and two directed ones: a vertex with more incoming    *)
(* than outgoing arcs, and one arc, of which sym_break leaves no list.     *)
(***************************************************************************)
EXTENDS WorkSplit

MCInputs ==
  {[csr |-> c, directed |-> FALSE] : c \in {h \in MCGraphs : h.n_edges # 6}}
  \cup {[csr |-> c, directed |-> TRUE] :
          c \in {CSR(<< <<1, 3>>, <<3>>, <<0, 3>>, <<1>> >>), CSR(<< <<>>, <<0>> >>)}}
=============================================================================

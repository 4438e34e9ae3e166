-------------------------- MODULE MCOnlineSampler --------------------------
(***************************************************************************)
(* OnlineSampler with its command lines.                                   *)
(***************************************************************************)
EXTENDS OnlineSampler

AllCommands ==
  [program : {"ns_final"}, pattern : {"clique", "house", "dumbbell", "5path", "4motif"}]
    \cup [program : {"ns_online"}, pattern : {"5clique", "house", "dumbbell", "5path"}]
    \cup [program : {"ns_fast_profiler"}, pattern : {"clique", "house", "triangle", "5path"}]

FinalPath == {[program |-> "ns_final", pattern |-> "5path"]}
=============================================================================

-------------------------------- MODULE Sums --------------------------------
(***************************************************************************)
(* Sums over a finite set.                                                 *)
(***************************************************************************)
EXTENDS Integers, FiniteSetsExt

SumOver(val, S) == MapThenSumSet(LAMBDA x : val[x], S)
=============================================================================

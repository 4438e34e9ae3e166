-------------------------- MODULE MCInPlaceSparsify --------------------------
(***************************************************************************)
(* InPlaceSparsify on the graphs of CSRInputs.                             *)
(***************************************************************************)
EXTENDS InPlaceSparsify, CSRInputs
=============================================================================

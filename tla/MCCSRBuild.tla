----------------------------- MODULE MCCSRBuild -----------------------------
(***************************************************************************)
(* CSRBuild on the graphs of CSRInputs.                                    *)
(***************************************************************************)
EXTENDS CSRBuild, CSRInputs
=============================================================================

----------------------------- MODULE MCR8Fault -----------------------------
(***************************************************************************)
(* Instances of R8Fault for TLC: the .cfg files choose the constants.      *)
(* Every liveness property is checked without symmetry.                    *)
(***************************************************************************)
EXTENDS R8Fault
=============================================================================

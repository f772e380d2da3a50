-------------------------- MODULE MCCoreLifecycle --------------------------
(***************************************************************************)
(* Instances of CoreLifecycle for TLC: the .cfg files choose the           *)
(* constants.                                                              *)
(***************************************************************************)
EXTENDS CoreLifecycle
=============================================================================

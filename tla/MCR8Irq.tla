------------------------------ MODULE MCR8Irq ------------------------------
(***************************************************************************)
(* Instances of R8Irq for TLC.  VectorMax = 6 and CortexEntries = 2: INTID *)
(* 3 and 5 are dispatched, 7 has an entry past the bounds check and 9 has  *)
(* none.  Three priority levels: nesting is at most three deep, and 5 and  *)
(* 7 share a level.                                                        *)
(***************************************************************************)
EXTENDS R8Irq, TLC

MCIntId == {3, 5, 7, 9}
MCPrio  == (3 :> 2) @@ (5 :> 0) @@ (7 :> 0) @@ (9 :> 1)

(* One INTID per level: the deepest nesting.                               *)
MCFewIds  == {3, 5, 9}
MCFewPrio == (3 :> 2) @@ (5 :> 0) @@ (9 :> 1)

(* Two levels, for liveness: a tick that an interrupt out of range nests   *)
(* into.                                                                   *)
MCTwoIds  == {3, 9}
MCTwoPrio == (3 :> 1) @@ (9 :> 0)

TaskSymmetry == Permutations(Task)
=============================================================================

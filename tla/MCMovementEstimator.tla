------------------------- MODULE MCMovementEstimator -------------------------
(***************************************************************************)
(* A gate that takes 12 ticks to open and 10 to close.                     *)
(***************************************************************************)
EXTENDS MovementEstimator

MCGoal == {10, 200, 700}
==============================================================================

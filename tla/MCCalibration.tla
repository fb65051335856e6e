---------------------------- MODULE MCCalibration ----------------------------
(***************************************************************************)
(* One press of the calibration button of a gate that others move as well, *)
(* and one open retry beside it.                                           *)
(***************************************************************************)
EXTENDS Calibration

CONSTANTS p1, r1

MCPress == {p1}
MCRetry == {r1}
==============================================================================

--------------------------- MODULE MCBleController ---------------------------
(***************************************************************************)
(* Three overlapping calls of one gate's BLE controller.                   *)
(***************************************************************************)
EXTENDS BleController

CONSTANTS c1, c2, c3

MCCaller == {c1, c2, c3}
==============================================================================

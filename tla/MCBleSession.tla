---------------------------- MODULE MCBleSession ----------------------------
(***************************************************************************)
(* A call to a gate of each kind of length fields.                         *)
(***************************************************************************)
EXTENDS BleSession

MCSoftVersion == {2, 3, 4}
==============================================================================

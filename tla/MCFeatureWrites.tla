--------------------------- MODULE MCFeatureWrites ---------------------------
(***************************************************************************)
(* A feature object with two settings and a switch, of two values each.    *)
(***************************************************************************)
EXTENDS FeatureWrites

CONSTANTS volume, light, indicator

MCField == {volume, light}
MCSwitch == {indicator}
MCNoSwitch == {}
MCValue == {0, 1}
==============================================================================

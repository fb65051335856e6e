---------------------------- MODULE MCCoordinator ----------------------------
(***************************************************************************)
(* An account with two gates, of which one has a local index of its own.   *)
(***************************************************************************)
EXTENDS Coordinator, TLC

CONSTANTS g1, g2, r1, r2

MCTwoGates == <<g1, g2>>
MCRouted == {g1, g2}
MCElsewhere == {g2}
MCRefresh == {r1, r2}
Interchangeable == Permutations(MCRefresh)
MCAny == {"status", "none", "error", "exception"}
==============================================================================

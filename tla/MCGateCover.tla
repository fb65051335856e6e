----------------------------- MODULE MCGateCover -----------------------------
(***************************************************************************)
(* Values of GateCover's constants for TLC.                                *)
(***************************************************************************)
EXTENDS GateCover, TLC

CONSTANTS t1, t2

MCTask == {t1, t2}
Interchangeable == Permutations(MCTask)

Reachable == [known |-> TRUE, offline |-> FALSE, routed |-> TRUE]

\* A gate the cloud always lists as online and routed.
MCOnlineListing == {Reachable}

\* A gate that may drop off the cloud, lose its route, or leave the account.
MCAnyListing ==
    {Reachable, [Reachable EXCEPT !.offline = TRUE], [Reachable EXCEPT !.routed = FALSE],
     [Reachable EXCEPT !.known = FALSE]}

\* A gate that may lose its route.
MCRouteListing == {Reachable, [Reachable EXCEPT !.routed = FALSE]}
==============================================================================

--------------------------- MODULE MCEntryLifecycle ---------------------------
(***************************************************************************)
(* Two accounts, each with two platforms.                                  *)
(***************************************************************************)
EXTENDS EntryLifecycle

CONSTANTS e1, e2

MCEntry == {e1, e2}
MCPlatform == {"cover", "button"}
==============================================================================

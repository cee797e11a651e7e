------------------------- MODULE MCAppsScriptClient -------------------------
(***************************************************************************)
(* Instances of AppsScriptClient with two runs.                            *)
(***************************************************************************)
EXTENDS AppsScriptClient

CONSTANTS r1, r2

TwoRuns == {r1, r2}
=============================================================================

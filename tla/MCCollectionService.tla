------------------------- MODULE MCCollectionService -------------------------
(***************************************************************************)
(* Instances of CollectionService: one service, restarted at will, and a   *)
(* run_once tool beside it, or the service alone.                          *)
(***************************************************************************)
EXTENDS CollectionServiceProps, TLC

CONSTANTS r1, r2, s1, t1, c1, c2

OneRun == {r1}
TwoRuns == {r1, r2}

\* Runs are interchangeable: nothing in the code orders them.
RunSymmetry == Permutations(TwoRuns)
OneService == {s1}
OneTool == {t1}
NoTools == {}
OnePayload == {c1}
=============================================================================

--------------------------- MODULE MCRunController ---------------------------
(***************************************************************************)
(* Values for checking the manual run controller with TLC.                 *)
(***************************************************************************)
EXTENDS RunControllerProps, TLC

CONSTANTS r1, r2, p1, p2, d1

OneRun == {r1}
TwoRuns == {r1, r2}
TwoProcs == {p1, p2}
OneDate == {d1}
SameDate == [r \in Runs |-> d1]
AllPhases == 1 .. NumPhases
=============================================================================

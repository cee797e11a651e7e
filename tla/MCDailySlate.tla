----------------------------- MODULE MCDailySlate -----------------------------
(***************************************************************************)
(* A controller process with the slate handler and an operator on one run, *)
(* and, with the repository calls alone, on a second run to reuse from.    *)
(***************************************************************************)
EXTENDS DailySlate

CONSTANTS r1, r2, p1, d1, c1, c2

TwoRuns == {r1, r2}
OneProc == {p1}
OneDate == {d1}
SameDate == [r \in Runs |-> d1]
AllPhases == 1 .. NumPhases
TwoPlayers == {c1, c2}

\* Bound: with a second run no process is at work and a phase has two attempts.
Bound ==
  Exists(r2) => /\ mapping = {}
                /\ \A p \in Procs : pc[p] = "idle"
                /\ \A r \in Runs, i \in Phases : phase[r][i].attempt <= 2
=============================================================================

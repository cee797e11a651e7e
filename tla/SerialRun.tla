------------------------------ MODULE SerialRun ------------------------------
(***************************************************************************)
(* What a manual run promises its operator, without processes, rows or     *)
(* transactions: a run goes through its phases one at a time and in order; *)
(* a phase that fails stops the run until that same phase is tried again;  *)
(* a phase that is done is never done again; and a run closes once, after  *)
(* its last phase.                                                         *)
(***************************************************************************)
EXTENDS Naturals

CONSTANTS Runs, NumPhases

VARIABLES
  mode,      \* mode[r]: what run r is doing
  done       \* done[r]: how many of its phases are done

Mode == {"none", "waiting", "active", "failed", "closed"}

SerialTypeOK ==
  /\ mode \in [Runs -> Mode]
  /\ done \in [Runs -> 0 .. NumPhases]

Init ==
  /\ mode = [r \in Runs |-> "none"]
  /\ done = [r \in Runs |-> 0]

Move(r, from, to) ==
  /\ mode[r] = from
  /\ mode' = [mode EXCEPT ![r] = to]

Create(r) == Move(r, "none", "waiting") /\ UNCHANGED done

\* The next phase becomes active; at most one is.
Claim(r) == Move(r, "waiting", "active") /\ done[r] < NumPhases /\ UNCHANGED done

FinishPhase(r) ==
  /\ Move(r, "active", "waiting")
  /\ done' = [done EXCEPT ![r] = @ + 1]

Fail(r) == Move(r, "active", "failed") /\ UNCHANGED done

Again(r) == Move(r, "failed", "active") /\ UNCHANGED done

Close(r) == Move(r, "waiting", "closed") /\ done[r] = NumPhases /\ UNCHANGED done

Next ==
  \E r \in Runs :
    Create(r) \/ Claim(r) \/ FinishPhase(r) \/ Fail(r) \/ Again(r) \/ Close(r)

Spec == Init /\ [][Next]_<<mode, done>>
=============================================================================

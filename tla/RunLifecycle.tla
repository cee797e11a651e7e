---------------------------- MODULE RunLifecycle ----------------------------
(***************************************************************************)
(* What a client of the collection service may rely on: a run goes from    *)
(* queued through running to one terminal status it never leaves, and the  *)
(* artifact can be downloaded exactly from the moment the status says the  *)
(* run is complete.  A run may fail at any time, several at once.          *)
(***************************************************************************)
CONSTANT Runs

VARIABLES
  status,    \* status[r]: what GET /jobs/{run_id} answers
  served     \* served[r]: GET /jobs/{run_id}/artifact answers the archive

lifecycle == <<status, served>>

Complete == {"completed", "completed_with_warnings"}
Unfinished == {"queued", "running"}

LifecycleInit ==
  /\ status = [r \in Runs |-> "absent"]
  /\ served = [r \in Runs |-> FALSE]

Create(r) ==
  /\ status[r] = "absent"
  /\ status' = [status EXCEPT ![r] = "queued"]
  /\ UNCHANGED served

Run(r) ==
  /\ status[r] = "queued"
  /\ status' = [status EXCEPT ![r] = "running"]
  /\ UNCHANGED served

Finish(r) ==
  /\ status[r] = "running"
  /\ \E s \in Complete : status' = [status EXCEPT ![r] = s]
  /\ served' = [served EXCEPT ![r] = TRUE]

FailAll(failed) ==
  /\ failed # {}
  /\ \A r \in failed : status[r] \in Unfinished
  /\ status' = [r \in Runs |-> IF r \in failed THEN "failed" ELSE status[r]]
  /\ UNCHANGED served

LifecycleNext ==
  \/ \E r \in Runs : Create(r) \/ Run(r) \/ Finish(r)
  \/ \E failed \in SUBSET Runs : FailAll(failed)

LifecycleSpec == LifecycleInit /\ [][LifecycleNext]_lifecycle
=============================================================================

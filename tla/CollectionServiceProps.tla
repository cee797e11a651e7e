----------------------- MODULE CollectionServiceProps -----------------------
(***************************************************************************)
(* What makes the collection service correct, with a service process and a *)
(* run_once tool on the same database, failing transactions and file       *)
(* writes, and crashes and restarts between any two steps.                 *)
(***************************************************************************)
EXTENDS CollectionService

(***************************************************************************)
(* A run whose row says it is complete has its archive, with a manifest    *)
(* of the same status and every raw payload the database refers to; it has *)
(* warnings stored exactly if its status says so.  The manifest and the    *)
(* archive are written before the row, and _fail_run and a reconciliation  *)
(* may come in between (pipeline.py, jobs.py _execute).  And every raw     *)
(* payload the database refers to is on disk at any time, although a       *)
(* failed insert removes the file again and two captures may share one     *)
(* (_persist_raw_capture).                                                 *)
(***************************************************************************)
CompletedIsBacked ==
  \A r \in Runs :
    /\ payload[r] \subseteq file[r].raw
    /\ row[r].status \in Success =>
         /\ row[r].artifact
         /\ file[r].manifest = row[r].status
         /\ file[r].archive = row[r].status
         /\ payload[r] \subseteq file[r].packed
         /\ warning[r] <=> row[r].status = "completed_with_warnings"

(***************************************************************************)
(* A run recorded as failed before its worker started was never executed,  *)
(* not even by a work item the executor had queued before it raised.       *)
(***************************************************************************)
NeverStartedNeverRan ==
  \A r \in Runs :
    row[r].stage = "before_worker_start" =>
      /\ task[r] \in {"none", "queued", "start", "fail", "fail_files", "ended"}
      /\ payload[r] = {} /\ file[r].raw = {} /\ file[r].archive = "none"

(***************************************************************************)
(* A queued or running run is in somebody's hands, or its processing was   *)
(* cut short in a way the code leaves to the next startup: its process     *)
(* ended, its submission was refused, or its failure could not be stored.  *)
(***************************************************************************)
Attended(r) ==
  \/ request[r] \in {"posted", "submit", "broken"}
  \/ task[r] \in {"queued"} \cup (Executing \ {"fail_files"})

IncompleteIsAttended ==
  \A r \in Runs :
    row[r].status \in Incomplete => Attended(r) \/ r \in interrupted

(***************************************************************************)
(* An accepted run is in _active_run_ids until its future has called       *)
(* _completed, in whichever thread that happens.                           *)
(***************************************************************************)
Accepted(r) ==
  /\ request[r] \in {"register", "callback", "accepted"}
  /\ task[r] = "ended" => request[r] \in {"register", "callback"}

(***************************************************************************)
(* Every accepted run leaves the runner: the request thread, the worker's  *)
(* callback and shutdown never wait for each other's lock in a circle.     *)
(***************************************************************************)
ActiveEnds ==
  \A r \in Runs :
    (home[r] # Nowhere /\ Accepted(r)) ~> (home[r] = Nowhere \/ ~Accepted(r))

(***************************************************************************)
(* Every run ends in a terminal status unless its processing was cut short.*)
(***************************************************************************)
IncompleteEnds ==
  \A r \in Runs :
    row[r].status \in Incomplete ~>
      row[r].status \in Terminal \/ r \in interrupted

(***************************************************************************)
(* Both: the runner forgets every run and every run ends.                  *)
(***************************************************************************)
ProcessingEnds == ActiveEnds /\ IncompleteEnds

-----------------------------------------------------------------------------
\* What job_status and job_artifact answer.
Served(r) == row[r].status \in Success /\ row[r].artifact /\ file[r].archive # "none"

Lifecycle == INSTANCE RunLifecycle WITH
  status <- [r \in Runs |-> row[r].status],
  served <- [r \in Runs |-> Served(r)]

(***************************************************************************)
(* To a client, workers, tools, crashes and reconciliations look like one  *)
(* lifecycle per run with an artifact from its completion on, for ever.    *)
(***************************************************************************)
ImplementsRunLifecycle == Lifecycle!LifecycleSpec
=============================================================================

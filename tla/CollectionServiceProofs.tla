----------------------- MODULE CollectionServiceProofs -----------------------
(***************************************************************************)
(* The safety of the collection service for any number of services, tools, *)
(* runs, payloads and captures.                                            *)
(***************************************************************************)
EXTENDS CollectionServiceProps, TLAPS

Holding == {"submit", "broken", "broken_files"}
Collecting == {"collect", "insert", "manifest", "zip", "finish"}

\* Nothing was stored for the run.
Untouched(r) == payload[r] = {} /\ file[r].raw = {} /\ file[r].archive = "none"

\* A run's POST handler, its execution and its process.
ControlOK(r) ==
  /\ home[r] = Nowhere <=> request[r] = "none"
  /\ row[r].status = "absent" => request[r] = "none"
  /\ request[r] \in {"none", "posted", "submit"} => task[r] = "none"
  /\ request[r] \in {"broken", "broken_files"} =>
       task[r] = "none" \/ (task[r] = "queued" /\ home[r] \notin threads)
  /\ request[r] = "callback" => task[r] = "ended"
  /\ request[r] \in Holding => home[r] \in Services /\ lock[home[r]] = r

\* The row and what has happened to the run.
ProgressOK(r) ==
  /\ row[r].status \in {"absent", "queued"} => Untouched(r) /\ ~warning[r]
  /\ (request[r] \in {"posted", "submit", "broken"} \/ task[r] \in {"queued", "start"}) =>
       row[r].status \in {"queued", "failed"}
  /\ task[r] \in {"none", "queued", "start"} => work[r] = Idle
  /\ task[r] \in Collecting =>
       /\ row[r].status \in {"running", "failed"}
       /\ row[r].stage # "before_worker_start"
       /\ warning[r] <=> work[r].warned
  /\ task[r] \in {"fail", "fail_files"} => row[r].status \notin Success
  /\ row[r].stage = "before_worker_start" =>
       /\ row[r].status = "failed"
       /\ request[r] \in {"none", "broken_files", "refused"}
       /\ task[r] \in {"none", "queued", "start", "fail", "fail_files", "ended"}
       /\ Untouched(r)

\* The row and the files of the run.
FilesOK(r) ==
  /\ payload[r] \subseteq file[r].raw
  /\ task[r] = "insert" =>
       /\ work[r].capture \subseteq file[r].raw
       /\ ~work[r].existed => work[r].capture \cap payload[r] = {}
  /\ task[r] \in {"zip", "finish"} => file[r].manifest = Outcome(r)
  /\ task[r] = "finish" =>
       file[r].archive = Outcome(r) /\ payload[r] \subseteq file[r].packed
  /\ row[r].status \in Success =>
       /\ row[r].artifact
       /\ file[r].manifest = row[r].status
       /\ file[r].archive = row[r].status
       /\ payload[r] \subseteq file[r].packed
       /\ warning[r] <=> row[r].status = "completed_with_warnings"

AttendedOK(r) == row[r].status \in Incomplete => Attended(r) \/ r \in interrupted

RunOK(r) == ControlOK(r) /\ ProgressOK(r) /\ FilesOK(r) /\ AttendedOK(r)

\* Every work item of a process is a queued run of its own, and in there once.
QueueOK(p) ==
  /\ \A i \in 1 .. Len(queue[p]) : task[queue[p][i]] = "queued" /\ home[queue[p][i]] = p
  /\ \A i, j \in 1 .. Len(queue[p]) : queue[p][i] = queue[p][j] => i = j

IInv == /\ TypeOK
        /\ \A r \in Runs : RunOK(r)
        /\ \A p \in Hosts : QueueOK(p)

-----------------------------------------------------------------------------
(* Frame lemmas: what a step of one run leaves to the others.               *)

Same(q) ==
  /\ row'[q] = row[q] /\ payload'[q] = payload[q] /\ warning'[q] = warning[q]
  /\ home'[q] = home[q] /\ request'[q] = request[q] /\ task'[q] = task[q]
  /\ work'[q] = work[q] /\ file'[q] = file[q]
  /\ q \in interrupted => q \in interrupted'

\* q's request may still rely on the lock and on its process having no thread.
KeepsHold(q) ==
  /\ request[q] \in Holding => lock'[home[q]] = lock[home[q]]
  /\ request[q] \in {"broken", "broken_files"} /\ home[q] \notin threads =>
       home[q] \notin threads'

LEMMA RunStays ==
  ASSUME NEW q \in Runs, RunOK(q), Same(q), KeepsHold(q)
  PROVE  RunOK(q)'
<1>1. ControlOK(q)'
  BY DEF RunOK, ControlOK, Same, KeepsHold, Holding
<1>2. ProgressOK(q)'
  BY DEF RunOK, ProgressOK, Same, Untouched
<1>3. FilesOK(q)'
  BY DEF RunOK, FilesOK, Same, Outcome
<1>4. AttendedOK(q)'
  BY DEF RunOK, AttendedOK, Same, Attended
<1> QED
  BY <1>1, <1>2, <1>3, <1>4 DEF RunOK

LEMMA QueuesStay ==
  ASSUME IInv, UNCHANGED queue, NEW r \in Runs,
         \A q \in Runs \ {r} : task'[q] = task[q] /\ home'[q] = home[q],
         task[r] = "queued" => task'[r] = "queued" /\ home'[r] = home[r],
         NEW p \in Hosts
  PROVE  QueueOK(p)'
<1>1. QueueOK(p) /\ queue[p] \in Seq(Runs)
  BY DEF IInv, TypeOK
<1>2. \A i \in 1 .. Len(queue[p]) : queue[p][i] \in Runs
  BY <1>1
<1> QED
  BY <1>1, <1>2 DEF QueueOK

\* A step of r.
LocalTo(r) ==
  /\ \A q \in Runs \ {r} : Same(q)
  /\ \A q \in Runs \ {r} : KeepsHold(q)
  /\ UNCHANGED queue
  /\ task[r] = "queued" => task'[r] = "queued" /\ home'[r] = home[r]

LEMMA StepOfRun ==
  ASSUME IInv, NEW r \in Runs,
         \A q \in Runs \ {r} : Same(q),
         \A q \in Runs \ {r} : KeepsHold(q),
         TypeOK', RunOK(r)', \A p \in Hosts : QueueOK(p)'
  PROVE  IInv'
<1>1. \A q \in Runs \ {r} : RunOK(q)'
  BY RunStays DEF IInv
<1> QED
  BY <1>1 DEF IInv

LEMMA LocalStep ==
  ASSUME IInv, NEW r \in Runs, LocalTo(r), TypeOK', RunOK(r)'
  PROVE  IInv'
<1>1. \A q \in Runs \ {r} : RunOK(q)'
  BY RunStays DEF IInv, LocalTo
<1>2. \A p \in Hosts : QueueOK(p)'
  BY QueuesStay DEF LocalTo, Same
<1> QED
  BY <1>1, <1>2 DEF IInv

LEMMA InitOK == Init => IInv
<1> SUFFICES ASSUME Init PROVE IInv
  OBVIOUS
<1>1. TypeOK
  BY ProcessAssumption, MaxCapturesAssumption
  DEF Init, TablesInit, TypeOK, TablesTypeOK, AbsentRow, Row, Status, Incomplete, Terminal,
      Success, Stage, Hosts, RequestPC, TaskPC, Idle, Work, NoFiles, File
<1>2. \A r \in Runs : RunOK(r)
  BY DEF Init, TablesInit, RunOK, ControlOK, ProgressOK, FilesOK, AttendedOK, Untouched,
         AbsentRow, Idle, NoFiles, Holding, Collecting, Success, Incomplete
<1>3. \A p \in Hosts : QueueOK(p)
  BY DEF Init, QueueOK
<1> QED
  BY <1>1, <1>2, <1>3 DEF IInv

-----------------------------------------------------------------------------
(* Requests.                                                                *)

LEMMA PostOK ==
  ASSUME IInv, NEW p \in Hosts, NEW r \in Runs, Post(p, r) \/ RunOnce(p, r)
  PROVE  IInv'
<1>1. /\ row[r] = AbsentRow
      /\ row' = [row EXCEPT ![r].status = "queued"]
      /\ home' = [home EXCEPT ![r] = p]
      /\ request' = [request EXCEPT ![r] = "posted"]
      /\ UNCHANGED <<payload, warning, lock, threads, queue, worker, active, task, work,
                     file, interrupted>>
      /\ host' \in [Hosts -> {"down", "up", "closing"}]
  BY DEF Post, RunOnce, CreateRun, ToRequest, runner, IInv, TypeOK
<1>2. TypeOK'
  BY ZenonT(40), <1>1 DEF IInv, TypeOK, TablesTypeOK, Row, Status, Incomplete, RequestPC
<1>3. RunOK(r) /\ TypeOK
  BY DEF IInv
<1>4. request[r] = "none" /\ task[r] = "none" /\ p # Nowhere
  BY <1>1, <1>3, ProcessAssumption DEF RunOK, ControlOK, AbsentRow, Hosts
<1>5. LocalTo(r)
  BY <1>1, <1>3, <1>4 DEF LocalTo, Same, KeepsHold, TypeOK, TablesTypeOK
<1>6. /\ row'[r] = [AbsentRow EXCEPT !.status = "queued"]
      /\ home'[r] = p /\ request'[r] = "posted"
  BY <1>1, <1>3 DEF TypeOK, TablesTypeOK
<1>7. ControlOK(r)'
  BY <1>1, <1>3, <1>4, <1>6 DEF AbsentRow, ControlOK, Holding
<1>8. ProgressOK(r)' /\ FilesOK(r)'
  BY <1>1, <1>3, <1>4, <1>6
  DEF AbsentRow, RunOK, ProgressOK, FilesOK, Untouched, Collecting, Success, Outcome
<1>9. AttendedOK(r)'
  BY <1>6 DEF AttendedOK, Attended
<1> QED
  BY <1>2, <1>5, <1>7, <1>8, <1>9, LocalStep DEF RunOK

\* A run that holds a lock is the only one to do so, and nobody else takes it.
LEMMA LockIsOwn ==
  ASSUME IInv, NEW r \in Runs, home[r] \in Hosts, lock[home[r]] \in {r, NoRun},
         NEW v, lock' = [lock EXCEPT ![home[r]] = v],
         NEW q \in Runs \ {r}, request[q] \in Holding
  PROVE  home[q] # home[r] /\ lock'[home[q]] = lock[home[q]]
<1>1. lock[home[q]] = q /\ home[q] \in Hosts
  BY DEF IInv, RunOK, ControlOK, Hosts
<1>2. home[q] # home[r]
  BY <1>1, NoRunAssumption
<1> QED
  BY <1>1, <1>2 DEF IInv, TypeOK

LEMMA AcquireLockOK ==
  ASSUME IInv, NEW r \in Runs, AcquireLock(r)
  PROVE  IInv'
<1>1. /\ request[r] = "posted" /\ home[r] \in Services /\ lock[home[r]] = NoRun
      /\ lock' = [lock EXCEPT ![home[r]] = r]
      /\ request' = [request EXCEPT ![r] = "submit"]
      /\ UNCHANGED <<row, payload, warning, host, threads, queue, worker, active, home,
                     task, work, file, interrupted>>
  BY DEF AcquireLock, Owner, Free, ToRequest, tables
<1>2. TypeOK'
  BY <1>1 DEF IInv, TypeOK, TablesTypeOK, RequestPC
<1>3. RunOK(r) /\ TypeOK
  BY DEF IInv
<1>4. LocalTo(r)
  BY <1>1, <1>3, LockIsOwn DEF LocalTo, Same, KeepsHold, TypeOK, Hosts
<1>5. request'[r] = "submit" /\ lock'[home[r]] = r
  BY <1>1, <1>3 DEF TypeOK, Hosts
<1>6. ControlOK(r)'
  BY <1>1, <1>3, <1>5, ProcessAssumption DEF RunOK, ControlOK, Hosts
<1>7. ProgressOK(r)' /\ FilesOK(r)' /\ AttendedOK(r)'
  BY <1>1, <1>3, <1>5
  DEF RunOK, ProgressOK, FilesOK, Untouched, Outcome, AttendedOK, Attended
<1> QED
  BY <1>2, <1>4, <1>6, <1>7, LocalStep DEF RunOK

LEMMA RefuseOK ==
  ASSUME IInv, NEW r \in Runs, Refuse(r)
  PROVE  IInv'
<1>1. /\ request[r] = "submit"
      /\ lock' = [lock EXCEPT ![home[r]] = NoRun]
      /\ request' = [request EXCEPT ![r] = "refused"]
      /\ interrupted' = IF row[r].status \in Incomplete THEN interrupted \cup {r}
                                                        ELSE interrupted
      /\ UNCHANGED <<row, payload, warning, host, threads, queue, worker, active, home,
                     task, work, file>>
  BY DEF Refuse, Abandon, Owner, ToRequest, tables
<1>2. TypeOK'
  BY <1>1 DEF IInv, TypeOK, TablesTypeOK, RequestPC
<1>3. RunOK(r) /\ TypeOK
  BY DEF IInv
<1>4. lock[home[r]] = r /\ home[r] \in Hosts
  BY <1>1, <1>3 DEF RunOK, ControlOK, Holding, Hosts
<1>5. LocalTo(r)
  BY <1>1, <1>3, <1>4, LockIsOwn DEF LocalTo, Same, KeepsHold, TypeOK
<1>6. request'[r] = "refused"
  BY <1>1, <1>3 DEF TypeOK
<1>7. ControlOK(r)'
  BY <1>1, <1>3, <1>6 DEF RunOK, ControlOK, Holding
<1>8. ProgressOK(r)' /\ FilesOK(r)'
  BY <1>1, <1>3, <1>6 DEF RunOK, ProgressOK, FilesOK, Untouched, Outcome
<1>9. AttendedOK(r)'
  BY <1>1 DEF AttendedOK
<1> QED
  BY <1>2, <1>5, <1>7, <1>8, <1>9, LocalStep DEF RunOK

\* The queue of r's process grows by r.
LEMMA EnqueueOK ==
  ASSUME IInv, NEW r \in Runs, home[r] \in Hosts, task[r] = "none", Enqueue(r),
         UNCHANGED home, NEW p \in Hosts
  PROVE  QueueOK(p)' /\ queue'[p] \in Seq(Runs)
<1>1. QueueOK(p) /\ queue[p] \in Seq(Runs) /\ task \in [Runs -> TaskPC]
  BY DEF IInv, TypeOK
<1>2. task'[r] = "queued" /\ \A q \in Runs \ {r} : task'[q] = task[q]
  BY <1>1 DEF Enqueue, ToTask
<1>3. \A i \in 1 .. Len(queue[p]) : queue[p][i] \in Runs \ {r}
  BY <1>1 DEF QueueOK
<1>4. CASE p = home[r]
  <2> DEFINE s == queue[p]
             t == queue'[p]
  <2>1. t = Append(s, r) /\ s \in Seq(Runs)
    BY <1>1, <1>4 DEF Enqueue, Owner, IInv, TypeOK
  <2>2. /\ Len(t) = Len(s) + 1 /\ t[Len(s) + 1] = r /\ Len(s) \in Nat
        /\ \A i \in 1 .. Len(s) : t[i] = s[i]
    BY <2>1
  <2> HIDE DEF s, t
  <2>5. \A i \in 1 .. Len(s) : task[s[i]] = "queued" /\ home[s[i]] = p /\ s[i] \in Runs \ {r}
    BY <1>1, <1>3 DEF QueueOK, s
  <2>6. \A i \in 1 .. Len(t) : i \in 1 .. Len(s) \/ i = Len(s) + 1
    BY <2>2
  <2>3. \A i \in 1 .. Len(t) : task'[t[i]] = "queued" /\ home'[t[i]] = p
    BY <1>2, <1>4, <2>2, <2>5, <2>6
  <2>7. \A i, j \in 1 .. Len(s) : s[i] = s[j] => i = j
    BY <1>1 DEF QueueOK, s
  <2>4. \A i, j \in 1 .. Len(t) : t[i] = t[j] => i = j
    BY <2>2, <2>5, <2>6, <2>7
  <2> QED
    BY <2>1, <2>3, <2>4 DEF QueueOK, s, t
<1>5. CASE p # home[r]
  <2>1. queue'[p] = queue[p]
    BY <1>5 DEF Enqueue, Owner, IInv, TypeOK
  <2> QED
    BY <1>1, <1>2, <1>3, <2>1 DEF QueueOK
<1> QED
  BY <1>4, <1>5

LEMMA ScheduleOK ==
  ASSUME IInv, NEW r \in Runs, Schedule(r)
  PROVE  IInv'
<1>1. /\ request[r] = "submit" /\ row[r].status = "queued" /\ Enqueue(r)
      /\ threads' = threads \cup {home[r]}
      /\ active' = [active EXCEPT ![home[r]] = @ \cup {r}]
      /\ lock' = [lock EXCEPT ![home[r]] = NoRun]
      /\ request' = [request EXCEPT ![r] = "register"]
      /\ task' = [task EXCEPT ![r] = "queued"]
      /\ UNCHANGED <<row, payload, warning, host, worker, home, work, file, interrupted>>
  BY DEF Schedule, Schedulable, Owner, ToRequest, tables, Enqueue, ToTask
<1>2. RunOK(r) /\ TypeOK
  BY DEF IInv
<1>3. lock[home[r]] = r /\ home[r] \in Services /\ home[r] \in Hosts /\ task[r] = "none"
  BY <1>1, <1>2 DEF RunOK, ControlOK, Holding, Hosts
<1>4. \A p \in Hosts : QueueOK(p)' /\ queue'[p] \in Seq(Runs)
  BY <1>1, <1>3, EnqueueOK
<1>5. queue' \in [Hosts -> Seq(Runs)]
  BY <1>1, <1>2, <1>4 DEF TypeOK, Enqueue
<1>6. TypeOK'
  BY <1>1, <1>2, <1>3, <1>5 DEF TypeOK, TablesTypeOK, RequestPC, TaskPC
<1>7. \A q \in Runs \ {r} : Same(q)
  BY <1>1, <1>2 DEF Same, TypeOK
<1>8. \A q \in Runs \ {r} : KeepsHold(q)
  <2> TAKE q \in Runs \ {r}
  <2>1. request[q] \in Holding => home[q] # home[r] /\ lock'[home[q]] = lock[home[q]]
    BY <1>1, <1>3, LockIsOwn
  <2> QED
    BY <1>1, <2>1 DEF KeepsHold, Holding
<1>9. request'[r] = "register" /\ task'[r] = "queued"
  BY <1>1, <1>2 DEF TypeOK
<1>10. ControlOK(r)'
  BY <1>1, <1>2, <1>9 DEF RunOK, ControlOK, Holding
<1>11. ProgressOK(r)' /\ FilesOK(r)' /\ AttendedOK(r)'
  BY <1>1, <1>2, <1>3, <1>9
  DEF RunOK, ProgressOK, FilesOK, Untouched, Outcome, AttendedOK, Attended, Collecting
<1> QED
  BY <1>4, <1>6, <1>7, <1>8, <1>10, <1>11, StepOfRun DEF RunOK

LEMMA ScheduleFailsOK ==
  ASSUME IInv, NEW r \in Runs, ScheduleFails(r)
  PROVE  IInv'
<1>1. /\ request[r] = "submit" /\ row[r].status = "queued"
      /\ request' = [request EXCEPT ![r] = "broken"]
      /\ UNCHANGED <<row, payload, warning, host, lock, threads, worker, active, home, work,
                     file, interrupted>>
  BY DEF ScheduleFails, Schedulable, Owner, ToRequest, tables
<1>2. \/ home[r] \notin threads /\ Enqueue(r) /\ task' = [task EXCEPT ![r] = "queued"]
      \/ UNCHANGED <<queue, task>>
  BY DEF ScheduleFails, Owner, Enqueue, ToTask
<1>3. RunOK(r) /\ TypeOK
  BY DEF IInv
<1>4. lock[home[r]] = r /\ home[r] \in Services /\ home[r] \in Hosts /\ task[r] = "none"
  BY <1>1, <1>3 DEF RunOK, ControlOK, Holding, Hosts
<1>5. /\ \A q \in Runs \ {r} : Same(q)
      /\ \A q \in Runs \ {r} : KeepsHold(q)
  BY <1>1, <1>2, <1>3 DEF Same, KeepsHold, TypeOK
<1>6. \A p \in Hosts : QueueOK(p)' /\ queue'[p] \in Seq(Runs)
  <2>1. CASE Enqueue(r)
    BY <1>1, <1>4, <2>1, EnqueueOK
  <2>2. CASE UNCHANGED <<queue, task>>
    BY <1>1, <2>2, <1>3 DEF IInv, QueueOK, TypeOK
  <2> QED
    BY <1>2, <2>1, <2>2
<1>7. queue' \in [Hosts -> Seq(Runs)]
  BY <1>2, <1>3, <1>6 DEF TypeOK, Enqueue
<1>12. task' \in [Runs -> TaskPC]
  BY <1>2, <1>3 DEF TypeOK, TaskPC
<1>8. TypeOK'
  BY <1>1, <1>3, <1>7, <1>12 DEF TypeOK, TablesTypeOK, RequestPC
<1>9. request'[r] = "broken" /\ (task'[r] = "none" \/ (task'[r] = "queued" /\ home[r] \notin threads))
  BY <1>1, <1>2, <1>3, <1>4 DEF TypeOK
<1>10. ControlOK(r)'
  BY <1>1, <1>3, <1>4, <1>9 DEF RunOK, ControlOK, Holding
<1>11. ProgressOK(r)' /\ FilesOK(r)' /\ AttendedOK(r)'
  BY <1>1, <1>3, <1>4, <1>9
  DEF RunOK, ProgressOK, FilesOK, Untouched, Outcome, AttendedOK, Attended, Collecting
<1> QED
  BY <1>5, <1>6, <1>8, <1>10, <1>11, StepOfRun DEF RunOK

\* _fail_run: the row becomes failed and keeps its artifact flag, or the run is left as it was.
LEMMA FailRunFacts ==
  ASSUME IInv, NEW r \in Runs, NEW stage \in Stage, FailRun(r, stage)
  PROVE  /\ UNCHANGED <<payload, warning>>
         /\ row' \in [Runs -> Row]
         /\ interrupted \subseteq interrupted' /\ interrupted' \subseteq Runs
         /\ \A q \in Runs \ {r} : row'[q] = row[q]
         /\ \/ /\ row[r].status \in Incomplete
               /\ row'[r].status = "failed" /\ row'[r].stage = stage
            \/ /\ row'[r] = row[r]
               /\ row[r].status \in Incomplete => r \in interrupted'
<1> TypeOK /\ row \in [Runs -> Row] /\ row[r] \in Row
  BY DEF IInv, TypeOK, TablesTypeOK
<1>1. CASE CanTransition(r, "failed") /\ Transition(r, "failed", stage) /\ UNCHANGED interrupted
  <2>1. row[r].status \in Incomplete
    BY <1>1 DEF CanTransition, Allowed, Incomplete
  <2>2. /\ UNCHANGED <<payload, warning, interrupted>>
        /\ row' = [row EXCEPT ![r] = [status |-> "failed", stage |-> stage,
                                      artifact |-> row[r].artifact \/ "failed" \in Success]]
    BY <1>1 DEF Transition
  <2>3. [status |-> "failed", stage |-> stage,
         artifact |-> row[r].artifact \/ "failed" \in Success] \in Row
    BY DEF Row, Status, Terminal
  <2> QED
    BY <2>1, <2>2, <2>3 DEF TypeOK
<1>2. CASE UNCHANGED tables /\ Abandon(r)
  BY <1>2 DEF tables, Abandon, TypeOK
<1> QED
  BY <1>1, <1>2 DEF FailRun

LEMMA BrokenOK ==
  ASSUME IInv, NEW r \in Runs, Broken(r)
  PROVE  IInv'
<1>1. /\ request[r] = "broken" /\ FailRun(r, "before_worker_start")
      /\ request' = [request EXCEPT ![r] = "broken_files"]
      /\ UNCHANGED <<host, lock, threads, queue, worker, active, home, task, work, file>>
  BY DEF Broken, ToRequest, runner
<1>2. RunOK(r) /\ TypeOK
  BY DEF IInv
<1>3. /\ UNCHANGED <<payload, warning>>
      /\ row' \in [Runs -> Row]
      /\ interrupted \subseteq interrupted' /\ interrupted' \subseteq Runs
      /\ \A q \in Runs \ {r} : row'[q] = row[q]
      /\ \/ /\ row[r].status \in Incomplete
            /\ row'[r].status = "failed" /\ row'[r].stage = "before_worker_start"
         \/ /\ row'[r] = row[r]
            /\ row[r].status \in Incomplete => r \in interrupted'
  BY <1>1, FailRunFacts DEF Stage
<1>4. TypeOK'
  BY <1>1, <1>2, <1>3 DEF TypeOK, TablesTypeOK, RequestPC
<1>5. LocalTo(r)
  BY <1>1, <1>2, <1>3 DEF LocalTo, Same, KeepsHold, TypeOK
<1>6. request'[r] = "broken_files"
  BY <1>1, <1>2 DEF TypeOK
<1>7. ControlOK(r)'
  BY <1>1, <1>2, <1>3, <1>6 DEF RunOK, ControlOK, Holding, Incomplete
<1>8. /\ task[r] \in {"none", "queued"} /\ row[r].status \in {"queued", "failed"}
      /\ row[r].status = "queued" => Untouched(r)
  BY <1>1, <1>2 DEF RunOK, ControlOK, ProgressOK
<1>9. ProgressOK(r)'
  BY <1>1, <1>2, <1>3, <1>6, <1>8
  DEF RunOK, ProgressOK, Untouched, Collecting, Incomplete, Success
<1>10. FilesOK(r)' /\ AttendedOK(r)'
  BY <1>1, <1>2, <1>3, <1>6, <1>8
  DEF RunOK, FilesOK, Untouched, Outcome, AttendedOK, Attended, Success, Incomplete
<1> QED
  BY <1>4, <1>5, <1>7, <1>9, <1>10, LocalStep DEF RunOK

\* write_failure_manifest: of a failed run, and only its manifest.
LEMMA FailureManifestFacts ==
  ASSUME IInv, NEW r \in Runs, FailureManifest(r)
  PROVE  /\ file' \in [Runs -> File]
         /\ \A q \in Runs \ {r} : file'[q] = file[q]
         /\ file'[r].raw = file[r].raw /\ file'[r].archive = file[r].archive
         /\ file'[r].packed = file[r].packed
         /\ file'[r].manifest = file[r].manifest \/ row[r].status = "failed"
<1>1. file \in [Runs -> File] /\ file[r] \in File
  BY DEF IInv, TypeOK
<1>2. CASE row[r].status = "failed" /\ file' = [file EXCEPT ![r].manifest = "failed"]
  <2>1. [file[r] EXCEPT !.manifest = "failed"] \in File
    BY <1>1 DEF File
  <2> QED
    BY <1>1, <1>2, <2>1 DEF File
<1> QED
  BY <1>1, <1>2 DEF FailureManifest

LEMMA BrokenFilesOK ==
  ASSUME IInv, NEW r \in Runs, BrokenFiles(r)
  PROVE  IInv'
<1>1. /\ request[r] = "broken_files" /\ FailureManifest(r)
      /\ request' = [request EXCEPT ![r] = "refused"]
      /\ lock' = [lock EXCEPT ![home[r]] = NoRun]
      /\ UNCHANGED <<row, payload, warning, host, threads, queue, worker, active, home, task,
                     work, interrupted>>
  BY DEF BrokenFiles, ToRequest, tables, Owner
<1>2. RunOK(r) /\ TypeOK
  BY DEF IInv
<1>3. /\ file' \in [Runs -> File]
      /\ \A q \in Runs \ {r} : file'[q] = file[q]
      /\ file'[r].raw = file[r].raw /\ file'[r].archive = file[r].archive
      /\ file'[r].packed = file[r].packed
      /\ file'[r].manifest = file[r].manifest \/ row[r].status = "failed"
  BY <1>1, FailureManifestFacts
<1>4. TypeOK'
  BY <1>1, <1>2, <1>3 DEF TypeOK, TablesTypeOK, RequestPC
<1>5. lock[home[r]] = r /\ home[r] \in Hosts
  BY <1>1, <1>2 DEF RunOK, ControlOK, Holding, Hosts
<1>6. LocalTo(r)
  BY <1>1, <1>2, <1>3, <1>5, LockIsOwn DEF LocalTo, Same, KeepsHold, TypeOK
<1>7. request'[r] = "refused"
  BY <1>1, <1>2 DEF TypeOK
<1>8. ControlOK(r)'
  BY <1>1, <1>2, <1>7 DEF RunOK, ControlOK, Holding
<1>9. task[r] \in {"none", "queued"}
  BY <1>1, <1>2 DEF RunOK, ControlOK
<1>10. ProgressOK(r)' /\ AttendedOK(r)'
  BY <1>1, <1>2, <1>3, <1>7, <1>9
  DEF RunOK, ProgressOK, Untouched, Collecting, AttendedOK, Attended
<1>11. FilesOK(r)'
  BY <1>1, <1>2, <1>3, <1>7, <1>9 DEF RunOK, FilesOK, Outcome, Success
<1> QED
  BY <1>4, <1>6, <1>8, <1>10, <1>11, LocalStep DEF RunOK

LEMMA RegisterOK ==
  ASSUME IInv, NEW r \in Runs, Register(r) \/ RequestCallback(r)
  PROVE  IInv'
<1>1. /\ request[r] \in {"register", "callback"}
      /\ \E at \in {"callback", "accepted"} :
           /\ request' = [request EXCEPT ![r] = at]
           /\ at = "callback" => task[r] = "ended"
      /\ active' \in [Hosts -> SUBSET Runs]
      /\ UNCHANGED <<row, payload, warning, host, lock, threads, queue, worker, home, task,
                     work, file, interrupted>>
  <2>1. active \in [Hosts -> SUBSET Runs]
    BY DEF IInv, TypeOK
  <2>2. CASE Register(r)
    <3>1. CASE task[r] = "ended"
      BY <2>1, <2>2, <3>1 DEF Register, ToRequest, tables, runner
    <3>2. CASE task[r] # "ended"
      BY <2>1, <2>2, <3>2 DEF Register, ToRequest, tables, runner
    <3> QED
      BY <3>1, <3>2
  <2>3. CASE RequestCallback(r)
    <3>1. task[r] = "ended"
      BY <2>3 DEF RequestCallback, IInv, RunOK, ControlOK
    <3> QED
      BY <2>1, <2>3, <3>1 DEF RequestCallback, ToRequest, tables
  <2> QED
    BY <2>2, <2>3
<1>2. RunOK(r) /\ TypeOK
  BY DEF IInv
<1>3. TypeOK'
  BY <1>1, <1>2 DEF TypeOK, TablesTypeOK, RequestPC
<1>4. LocalTo(r)
  BY <1>1, <1>2 DEF LocalTo, Same, KeepsHold, TypeOK
<1>5. request'[r] \in {"callback", "accepted"} /\ (request'[r] = "callback" => task[r] = "ended")
  BY <1>1, <1>2 DEF TypeOK
<1>6. ControlOK(r)'
  BY <1>1, <1>2, <1>5 DEF RunOK, ControlOK, Holding
<1>7. ProgressOK(r)' /\ FilesOK(r)' /\ AttendedOK(r)'
  BY <1>1, <1>2, <1>5
  DEF RunOK, ProgressOK, FilesOK, Untouched, Outcome, AttendedOK, Attended
<1> QED
  BY <1>3, <1>4, <1>6, <1>7, LocalStep DEF RunOK

LEMMA ExecuteNowOK ==
  ASSUME IInv, NEW r \in Runs, ExecuteNow(r)
  PROVE  IInv'
<1>1. /\ request[r] = "posted" /\ home[r] \in Tools
      /\ request' = [request EXCEPT ![r] = "accepted"]
      /\ task' = [task EXCEPT ![r] = "start"]
      /\ worker' = [worker EXCEPT ![home[r]] = r]
      /\ active' = [active EXCEPT ![home[r]] = @ \cup {r}]
      /\ UNCHANGED <<row, payload, warning, host, lock, threads, queue, home, work, file,
                     interrupted>>
  BY DEF ExecuteNow, ToRequest, ToTask, tables, Owner
<1>2. RunOK(r) /\ TypeOK
  BY DEF IInv
<1>3. TypeOK'
  BY <1>1, <1>2 DEF TypeOK, TablesTypeOK, RequestPC, TaskPC
<1>4. task[r] = "none"
  BY <1>1, <1>2 DEF RunOK, ControlOK
<1>5. LocalTo(r)
  BY <1>1, <1>2, <1>4 DEF LocalTo, Same, KeepsHold, TypeOK
<1>6. request'[r] = "accepted" /\ task'[r] = "start"
  BY <1>1, <1>2 DEF TypeOK
<1>7. ControlOK(r)'
  BY <1>1, <1>2, <1>6 DEF RunOK, ControlOK, Holding
<1>8. ProgressOK(r)' /\ FilesOK(r)' /\ AttendedOK(r)'
  BY <1>1, <1>2, <1>4, <1>6
  DEF RunOK, ProgressOK, FilesOK, Untouched, Outcome, AttendedOK, Attended, Collecting, Executing
<1> QED
  BY <1>3, <1>5, <1>7, <1>8, LocalStep DEF RunOK

-----------------------------------------------------------------------------
(* Executions.                                                              *)

LEMMA TakeOK ==
  ASSUME IInv, NEW p \in Hosts, Take(p)
  PROVE  IInv'
<1> DEFINE s == queue[p]
<1>1. TypeOK /\ QueueOK(p) /\ s \in Seq(Runs) /\ s # << >> /\ p \in threads
  BY DEF IInv, TypeOK, Take
<1>2. PICK r \in Runs : r = Head(s) /\ r = s[1]
  BY <1>1
<1>3. task[r] = "queued" /\ home[r] = p /\ 1 \in 1 .. Len(s)
  BY <1>1, <1>2 DEF QueueOK
<1>4. /\ worker' = [worker EXCEPT ![p] = r]
      /\ queue' = [queue EXCEPT ![p] = Tail(s)]
      /\ task' = [task EXCEPT ![r] = "start"]
      /\ UNCHANGED <<row, payload, warning, host, lock, threads, active, home, request, work,
                     file, interrupted>>
  BY <1>2 DEF Take, ToTask, tables
<1>5. Tail(s) \in Seq(Runs)
  BY <1>1
<1>6. TypeOK'
  BY <1>1, <1>4, <1>5 DEF TypeOK, TablesTypeOK, TaskPC
<1>7. /\ \A q \in Runs \ {r} : Same(q)
      /\ \A q \in Runs \ {r} : KeepsHold(q)
  BY <1>1, <1>4 DEF Same, KeepsHold, TypeOK
<1>8. RunOK(r)
  BY DEF IInv
<1>9. task'[r] = "start"
  BY <1>1, <1>4 DEF TypeOK
<1>10. ControlOK(r)'
  BY <1>1, <1>3, <1>4, <1>8, <1>9 DEF RunOK, ControlOK, Holding
<1>11. ProgressOK(r)' /\ FilesOK(r)' /\ AttendedOK(r)'
  BY <1>3, <1>4, <1>8, <1>9
  DEF RunOK, ProgressOK, FilesOK, Untouched, Outcome, AttendedOK, Attended, Collecting, Executing
<1>12. ASSUME NEW o \in Hosts PROVE QueueOK(o)'
  <2>1. CASE o # p
    <3>1. queue'[o] = queue[o] /\ QueueOK(o) /\ queue[o] \in Seq(Runs)
      BY <1>1, <1>4, <2>1 DEF TypeOK, IInv
    <3>2. \A i \in 1 .. Len(queue[o]) : queue[o][i] \in Runs \ {r}
      BY <1>3, <2>1, <3>1 DEF QueueOK
    <3>3. \A i \in 1 .. Len(queue[o]) :
            task'[queue[o][i]] = "queued" /\ home'[queue[o][i]] = o
      BY <1>4, <1>7, <3>1, <3>2 DEF QueueOK, Same
    <3> QED
      BY <3>1, <3>3 DEF QueueOK
  <2>2. CASE o = p
    <3> DEFINE t == queue'[p]
    <3>1. /\ Len(t) = Len(s) - 1 /\ Len(s) \in Nat
          /\ \A i \in 1 .. Len(t) : t[i] = s[i + 1]
      BY <1>1, <1>4 DEF TypeOK
    <3>2. \A i \in 1 .. Len(s) : task[s[i]] = "queued" /\ home[s[i]] = p /\ s[i] \in Runs
      BY <1>1 DEF QueueOK
    <3>3. \A i, j \in 1 .. Len(s) : s[i] = s[j] => i = j
      BY <1>1 DEF QueueOK
    <3> HIDE DEF s, t
    <3>4. \A i \in 1 .. Len(t) : i + 1 \in 1 .. Len(s) /\ i + 1 # 1
      BY <3>1
    <3>5. \A i \in 1 .. Len(t) : t[i] \in Runs \ {r}
      BY <1>2, <1>3, <3>1, <3>2, <3>3, <3>4
    <3>6. \A i \in 1 .. Len(t) : task'[t[i]] = "queued" /\ home'[t[i]] = p
      BY <1>4, <1>7, <3>1, <3>2, <3>4, <3>5 DEF Same
    <3>7. \A i, j \in 1 .. Len(t) : t[i] = t[j] => i = j
      BY <3>1, <3>3, <3>4
    <3> QED
      BY <2>2, <3>6, <3>7 DEF QueueOK, t
  <2> QED
    BY <2>1, <2>2
<1> QED
  BY <1>6, <1>7, <1>10, <1>11, <1>12, StepOfRun DEF RunOK

\* A step of r's execution: it moves on within _execute or leaves it.
StepOfTask(r) ==
  /\ UNCHANGED <<host, lock, threads, queue, home, request>>
  /\ active' \in [Hosts -> SUBSET Runs]
  /\ worker' \in [Hosts -> Runs \cup {NoRun}]
  /\ task' \in [Runs -> TaskPC]
  /\ task[r] \in Executing \cup {"callback"}
  /\ task'[r] \in (Executing \ {"start"}) \cup {"callback", "ended"}
  /\ TablesTypeOK' /\ work' \in [Runs -> Work] /\ file' \in [Runs -> File]
  /\ interrupted \subseteq interrupted' /\ interrupted' \subseteq Runs
  /\ \A q \in Runs \ {r} :
       /\ row'[q] = row[q] /\ payload'[q] = payload[q] /\ warning'[q] = warning[q]
       /\ task'[q] = task[q] /\ work'[q] = work[q] /\ file'[q] = file[q]
  /\ row'[r].status = "absent" => row[r].status = "absent"

LEMMA StepOfTaskOK ==
  ASSUME IInv, NEW r \in Runs, StepOfTask(r), ProgressOK(r)', FilesOK(r)', AttendedOK(r)'
  PROVE  IInv'
<1>1. RunOK(r) /\ TypeOK
  BY DEF IInv
<1>2. TypeOK'
  BY <1>1 DEF StepOfTask, TypeOK
<1>3. LocalTo(r)
  BY DEF StepOfTask, LocalTo, Same, KeepsHold, Executing
<1>4. ControlOK(r)'
  BY <1>1 DEF StepOfTask, RunOK, ControlOK, Holding, Executing
<1> QED
  BY <1>2, <1>3, <1>4, LocalStep DEF RunOK

\* A run that is being executed was posted, is not the runner's to fail and has a home.
LEMMA ExecutingFacts ==
  ASSUME IInv, NEW r \in Runs, task[r] \in Executing \cup {"callback"}
  PROVE  /\ TypeOK /\ RunOK(r) /\ TablesTypeOK
         /\ request[r] \in {"register", "accepted", "refused"}
         /\ home[r] \in Hosts
         /\ row[r] \in Row /\ work[r] \in Work /\ file[r] \in File
<1>1. TypeOK /\ RunOK(r) /\ TablesTypeOK
  BY DEF IInv, TypeOK
<1>2. request[r] \in RequestPC /\ home[r] \in Hosts \cup {Nowhere}
      /\ row[r] \in Row /\ work[r] \in Work /\ file[r] \in File
  BY <1>1 DEF TypeOK, TablesTypeOK
<1>3. request[r] \in {"register", "accepted", "refused"}
  BY <1>1, <1>2 DEF RunOK, ControlOK, RequestPC, Executing
<1> QED
  BY <1>1, <1>2, <1>3 DEF RunOK, ControlOK

LEMMA EndTaskFacts ==
  ASSUME IInv, NEW r \in Runs, EndTask(r)
  PROVE  /\ worker' \in [Hosts -> Runs \cup {NoRun}]
         /\ task' \in [Runs -> TaskPC]
         /\ \A q \in Runs \ {r} : task'[q] = task[q]
         /\ task'[r] \in {"callback", "ended"}
         /\ task'[r] = "callback" => request[r] = "accepted"
<1>1. TypeOK /\ task \in [Runs -> TaskPC] /\ worker \in [Hosts -> Runs \cup {NoRun}]
  BY DEF IInv, TypeOK
<1>2. CASE request[r] = "accepted"
  BY <1>1, <1>2 DEF EndTask, ToTask, TaskPC
<1>3. CASE request[r] # "accepted"
  BY <1>1, <1>3 DEF EndTask, ToTask, TaskPC
<1> QED
  BY <1>2, <1>3

LEMMA ContinueFacts ==
  ASSUME IInv, NEW r \in Runs, NEW at \in TaskPC, Continue(r, at)
  PROVE  /\ worker' \in [Hosts -> Runs \cup {NoRun}]
         /\ task' \in [Runs -> TaskPC]
         /\ \A q \in Runs \ {r} : task'[q] = task[q]
         /\ task'[r] = at
  BY DEF IInv, TypeOK, Continue, ToTask

LEMMA TransitionFacts ==
  ASSUME IInv, NEW r \in Runs, NEW target \in Status, NEW stage \in Stage,
         Transition(r, target, stage)
  PROVE  /\ UNCHANGED <<payload, warning>>
         /\ TablesTypeOK'
         /\ \A q \in Runs \ {r} : row'[q] = row[q]
         /\ row'[r].status = target /\ row'[r].stage = stage
         /\ target \in Success => row'[r].artifact
<1> DEFINE new == [status |-> target, stage |-> stage,
                   artifact |-> row[r].artifact \/ target \in Success]
<1>1. TablesTypeOK /\ row \in [Runs -> Row] /\ row[r] \in Row
  BY DEF IInv, TypeOK, TablesTypeOK
<1>2. new \in Row
  BY <1>1 DEF Row
<1>3. /\ row' = [row EXCEPT ![r] = new]
      /\ UNCHANGED <<payload, warning>>
  BY DEF Transition
<1>4. /\ new.status = target /\ new.stage = stage
      /\ target \in Success => new.artifact
  OBVIOUS
<1> HIDE DEF new
<1> QED
  BY <1>1, <1>2, <1>3, <1>4 DEF TablesTypeOK

LEMMA StartOK ==
  ASSUME IInv, NEW r \in Runs, Start(r)
  PROVE  IInv'
<1>1. /\ task[r] = "start"
      /\ UNCHANGED <<host, lock, threads, queue, active, home, request, work, file, interrupted>>
  BY DEF Start, Elsewhere
<1>2. /\ TypeOK /\ RunOK(r) /\ TablesTypeOK
      /\ request[r] \in {"register", "accepted", "refused"}
  BY <1>1, ExecutingFacts DEF Executing
<1>3. row[r].status \in {"queued", "failed"} /\ work[r] = Idle
  BY <1>1, <1>2 DEF RunOK, ProgressOK
<1>4. CASE CanTransition(r, "running") /\ Transition(r, "running", "none") /\ Continue(r, "collect")
  <2>1. row[r].status = "queued"
    BY <1>3, <1>4 DEF CanTransition, Allowed, Success
  <2>2. /\ UNCHANGED <<payload, warning>> /\ TablesTypeOK'
        /\ \A q \in Runs \ {r} : row'[q] = row[q]
        /\ row'[r].status = "running" /\ row'[r].stage = "none"
    BY <1>4, TransitionFacts DEF Status, Incomplete, Stage
  <2>3. /\ worker' \in [Hosts -> Runs \cup {NoRun}]
        /\ task' \in [Runs -> TaskPC]
        /\ \A q \in Runs \ {r} : task'[q] = task[q]
        /\ task'[r] = "collect"
    BY <1>4, ContinueFacts DEF TaskPC
  <2>4. StepOfTask(r)
    BY <1>1, <1>2, <2>2, <2>3 DEF StepOfTask, TypeOK, Executing
  <2>5. Untouched(r) /\ ~warning[r]
    BY <1>2, <2>1 DEF RunOK, ProgressOK
  <2>6. ProgressOK(r)'
    BY <1>1, <1>2, <1>3, <2>2, <2>3, <2>5 DEF ProgressOK, Collecting, Idle, Success
  <2>7. FilesOK(r)' /\ AttendedOK(r)'
    BY <1>1, <1>2, <2>2, <2>3 DEF RunOK, FilesOK, AttendedOK, Attended, Executing, Success
  <2> QED
    BY <2>4, <2>6, <2>7, StepOfTaskOK
<1>5. CASE ~CanTransition(r, "running") /\ UNCHANGED tables /\ EndTask(r)
  <2>1. row[r].status = "failed"
    BY <1>3, <1>5 DEF CanTransition, Allowed
  <2>2. /\ worker' \in [Hosts -> Runs \cup {NoRun}]
        /\ task' \in [Runs -> TaskPC]
        /\ \A q \in Runs \ {r} : task'[q] = task[q]
        /\ task'[r] \in {"callback", "ended"}
        /\ task'[r] = "callback" => request[r] = "accepted"
    BY <1>5, EndTaskFacts
  <2>3. UNCHANGED <<row, payload, warning>>
    BY <1>5 DEF tables
  <2>4. StepOfTask(r)
    BY <1>1, <1>2, <2>2, <2>3 DEF StepOfTask, TypeOK, TablesTypeOK, Executing
  <2>5. ProgressOK(r)' /\ FilesOK(r)' /\ AttendedOK(r)'
    BY <1>1, <1>2, <2>1, <2>2, <2>3
    DEF RunOK, ProgressOK, Untouched, FilesOK, AttendedOK, Collecting, Success, Incomplete
  <2> QED
    BY <2>4, <2>5, StepOfTaskOK
<1>6. CASE UNCHANGED tables /\ Continue(r, "fail")
  <2>1. /\ worker' \in [Hosts -> Runs \cup {NoRun}]
        /\ task' \in [Runs -> TaskPC]
        /\ \A q \in Runs \ {r} : task'[q] = task[q]
        /\ task'[r] = "fail"
    BY <1>6, ContinueFacts DEF TaskPC
  <2>2. UNCHANGED <<row, payload, warning>>
    BY <1>6 DEF tables
  <2>3. StepOfTask(r)
    BY <1>1, <1>2, <2>1, <2>2 DEF StepOfTask, TypeOK, TablesTypeOK, Executing
  <2>4. ProgressOK(r)' /\ FilesOK(r)' /\ AttendedOK(r)'
    BY <1>1, <1>2, <1>3, <2>1, <2>2
    DEF RunOK, ProgressOK, Untouched, FilesOK, AttendedOK, Attended, Executing, Collecting,
        Success
  <2> QED
    BY <2>3, <2>4, StepOfTaskOK
<1> QED
  BY <1>4, <1>5, <1>6 DEF Start

LEMMA CaptureOK ==
  ASSUME IInv, NEW r \in Runs, Capture(r)
  PROVE  IInv'
<1>1. /\ task[r] = "collect" /\ work[r].captured < MaxCaptures
      /\ UNCHANGED <<row, payload, warning, host, lock, threads, queue, active, home, request,
                     interrupted>>
  BY DEF Capture, Elsewhere, tables
<1>2. PICK c \in Payloads :
        /\ work' = [work EXCEPT ![r].captured = @ + 1, ![r].capture = {c},
                                ![r].existed = c \in file[r].raw]
        /\ file' = [file EXCEPT ![r].raw = @ \cup {c}]
  BY DEF Capture
<1>3. /\ TypeOK /\ RunOK(r) /\ TablesTypeOK
      /\ request[r] \in {"register", "accepted", "refused"}
      /\ work[r] \in Work /\ file[r] \in File
  BY <1>1, ExecutingFacts DEF Executing
<1>4. /\ worker' \in [Hosts -> Runs \cup {NoRun}]
      /\ task' \in [Runs -> TaskPC]
      /\ \A q \in Runs \ {r} : task'[q] = task[q]
      /\ task'[r] = "insert"
  BY ContinueFacts DEF Capture, TaskPC
<1>5. /\ work' \in [Runs -> Work]
      /\ \A q \in Runs \ {r} : work'[q] = work[q]
      /\ work'[r].capture = {c} /\ work'[r].existed = (c \in file[r].raw)
      /\ work'[r].warned = work[r].warned
  <2> DEFINE new == [work[r] EXCEPT !.captured = @ + 1, !.capture = {c},
                                    !.existed = c \in file[r].raw]
  <2>1. new \in Work
    <3>1. work[r].captured \in 0 .. MaxCaptures /\ work[r].warned \in BOOLEAN
      BY <1>3 DEF Work
    <3>2. work[r].captured + 1 \in 0 .. MaxCaptures
      BY <1>1, <3>1, MaxCapturesAssumption
    <3>3. ASSUME NEW e \in BOOLEAN
          PROVE  [work[r] EXCEPT !.captured = @ + 1, !.capture = {c}, !.existed = e] \in Work
      BY <1>3, <3>2 DEF Work
    <3>4. (c \in file[r].raw) \in BOOLEAN
      OBVIOUS
    <3> QED
      BY <3>3, <3>4
  <2>2. /\ new.capture = {c} /\ new.existed = (c \in file[r].raw)
        /\ new.warned = work[r].warned
    BY <1>3 DEF Work
  <2>3. work' = [work EXCEPT ![r] = new]
    BY <1>2
  <2> HIDE DEF new
  <2> QED
    BY <1>3, <2>1, <2>2, <2>3 DEF TypeOK
<1>6. /\ file' \in [Runs -> File]
      /\ \A q \in Runs \ {r} : file'[q] = file[q]
      /\ file'[r].raw = file[r].raw \cup {c}
  BY <1>2, <1>3 DEF TypeOK, File
<1>7. StepOfTask(r)
  BY <1>1, <1>3, <1>4, <1>5, <1>6 DEF StepOfTask, TypeOK, TablesTypeOK, Executing
<1>8. /\ row[r].status \in {"running", "failed"} /\ row[r].stage # "before_worker_start"
      /\ warning[r] <=> work[r].warned
      /\ payload[r] \subseteq file[r].raw
  BY <1>1, <1>3 DEF RunOK, ProgressOK, FilesOK, Collecting
<1>9. ProgressOK(r)'
  BY <1>1, <1>3, <1>4, <1>5, <1>8 DEF ProgressOK, Collecting
<1>10. FilesOK(r)' /\ AttendedOK(r)'
  BY <1>1, <1>4, <1>5, <1>6, <1>8 DEF FilesOK, AttendedOK, Attended, Executing, Success
<1> QED
  BY <1>7, <1>9, <1>10, StepOfTaskOK

LEMMA InsertOK ==
  ASSUME IInv, NEW r \in Runs, Insert(r)
  PROVE  IInv'
<1>1. /\ task[r] = "insert"
      /\ UNCHANGED <<host, lock, threads, queue, active, home, request, work, interrupted>>
  BY DEF Insert, Elsewhere
<1>2. PICK c \in work[r].capture :
        \/ InsertRawPayload(r, c) /\ UNCHANGED file /\ Continue(r, "collect")
        \/ /\ UNCHANGED tables
           /\ \/ /\ ~work[r].existed
                 /\ file' = [file EXCEPT ![r].raw = @ \ {c}]
              \/ UNCHANGED file
           /\ Continue(r, "fail")
  BY DEF Insert
<1>3. /\ TypeOK /\ RunOK(r) /\ TablesTypeOK
      /\ request[r] \in {"register", "accepted", "refused"}
      /\ work[r] \in Work /\ file[r] \in File
  BY <1>1, ExecutingFacts DEF Executing
<1>4. /\ row[r].status \in {"running", "failed"} /\ row[r].stage # "before_worker_start"
      /\ warning[r] <=> work[r].warned
      /\ payload[r] \subseteq file[r].raw /\ work[r].capture \subseteq file[r].raw
      /\ ~work[r].existed => work[r].capture \cap payload[r] = {}
      /\ c \in Payloads
  BY <1>1, <1>3 DEF RunOK, ProgressOK, FilesOK, Collecting, Work
<1>5. CASE InsertRawPayload(r, c) /\ UNCHANGED file /\ Continue(r, "collect")
  <2>1. /\ worker' \in [Hosts -> Runs \cup {NoRun}]
        /\ task' \in [Runs -> TaskPC]
        /\ \A q \in Runs \ {r} : task'[q] = task[q]
        /\ task'[r] = "collect"
    BY <1>5, ContinueFacts DEF TaskPC
  <2>2. /\ UNCHANGED <<row, warning, file>> /\ payload' \in [Runs -> SUBSET Payloads]
        /\ \A q \in Runs \ {r} : payload'[q] = payload[q]
        /\ payload'[r] = payload[r] \cup {c}
    BY <1>3, <1>4, <1>5 DEF InsertRawPayload, TablesTypeOK
  <2>3. StepOfTask(r)
    BY <1>1, <1>3, <2>1, <2>2 DEF StepOfTask, TypeOK, TablesTypeOK, Executing
  <2>4. ProgressOK(r)' /\ FilesOK(r)' /\ AttendedOK(r)'
    <3>1. ProgressOK(r)'
      BY <1>1, <1>3, <1>4, <2>1, <2>2 DEF ProgressOK, Collecting, Success
    <3>2. FilesOK(r)'
      BY <1>1, <1>4, <2>1, <2>2 DEF FilesOK, Success
    <3>3. AttendedOK(r)'
      BY <1>1, <1>4, <2>1, <2>2 DEF AttendedOK, Attended, Executing, Success
    <3> QED
      BY <3>1, <3>2, <3>3
  <2> QED
    BY <2>3, <2>4, StepOfTaskOK
<1>6. CASE UNCHANGED tables /\ Continue(r, "fail") /\ UNCHANGED file
  <2>1. /\ worker' \in [Hosts -> Runs \cup {NoRun}]
        /\ task' \in [Runs -> TaskPC]
        /\ \A q \in Runs \ {r} : task'[q] = task[q]
        /\ task'[r] = "fail"
    BY <1>6, ContinueFacts DEF TaskPC
  <2>2. UNCHANGED <<row, payload, warning, file>>
    BY <1>6 DEF tables
  <2>3. StepOfTask(r)
    BY <1>1, <1>3, <2>1, <2>2 DEF StepOfTask, TypeOK, TablesTypeOK, Executing
  <2>4. ProgressOK(r)' /\ FilesOK(r)' /\ AttendedOK(r)'
    <3>1. ProgressOK(r)'
      BY <1>1, <1>3, <1>4, <2>1, <2>2 DEF ProgressOK, Collecting, Success
    <3>2. FilesOK(r)'
      BY <1>1, <1>4, <2>1, <2>2 DEF FilesOK, Success
    <3>3. AttendedOK(r)'
      BY <1>1, <1>4, <2>1, <2>2 DEF AttendedOK, Attended, Executing, Success
    <3> QED
      BY <3>1, <3>2, <3>3
  <2> QED
    BY <2>3, <2>4, StepOfTaskOK
<1>7. CASE /\ UNCHANGED tables /\ Continue(r, "fail") /\ ~work[r].existed
           /\ file' = [file EXCEPT ![r].raw = @ \ {c}]
  <2>1. /\ worker' \in [Hosts -> Runs \cup {NoRun}]
        /\ task' \in [Runs -> TaskPC]
        /\ \A q \in Runs \ {r} : task'[q] = task[q]
        /\ task'[r] = "fail"
    BY <1>7, ContinueFacts DEF TaskPC
  <2>2. UNCHANGED <<row, payload, warning>>
    BY <1>7 DEF tables
  <2>3. /\ file' \in [Runs -> File]
        /\ \A q \in Runs \ {r} : file'[q] = file[q]
        /\ file'[r].raw = file[r].raw \ {c}
    BY <1>3, <1>7 DEF TypeOK, File
  <2>4. StepOfTask(r)
    BY <1>1, <1>3, <2>1, <2>2, <2>3 DEF StepOfTask, TypeOK, TablesTypeOK, Executing
  <2>5. ProgressOK(r)' /\ FilesOK(r)' /\ AttendedOK(r)'
    <3>1. ProgressOK(r)'
      BY <1>1, <1>3, <1>4, <1>7, <2>1, <2>2, <2>3 DEF ProgressOK, Collecting, Success
    <3>2. FilesOK(r)'
      BY <1>1, <1>4, <1>7, <2>1, <2>2, <2>3 DEF FilesOK, Success
    <3>3. AttendedOK(r)'
      BY <1>1, <1>4, <1>7, <2>1, <2>2, <2>3 DEF AttendedOK, Attended, Executing, Success
    <3> QED
      BY <3>1, <3>2, <3>3
  <2> QED
    BY <2>4, <2>5, StepOfTaskOK
<1> QED
  BY <1>2, <1>5, <1>6, <1>7

LEMMA WarnOK ==
  ASSUME IInv, NEW r \in Runs, Warn(r)
  PROVE  IInv'
<1>1. /\ task[r] = "collect"
      /\ warning' = [warning EXCEPT ![r] = TRUE]
      /\ work' = [work EXCEPT ![r].warned = TRUE]
      /\ UNCHANGED <<row, payload, host, lock, threads, queue, active, home, request, file,
                     interrupted>>
  BY DEF Warn, Elsewhere, AddWarning
<1>2. /\ TypeOK /\ RunOK(r) /\ TablesTypeOK
      /\ request[r] \in {"register", "accepted", "refused"}
      /\ work[r] \in Work
  BY <1>1, ExecutingFacts DEF Executing
<1>3. /\ worker' \in [Hosts -> Runs \cup {NoRun}]
      /\ task' \in [Runs -> TaskPC]
      /\ \A q \in Runs \ {r} : task'[q] = task[q]
      /\ task'[r] = "collect"
  BY ContinueFacts DEF Warn, TaskPC
<1>4. /\ work' \in [Runs -> Work]
      /\ \A q \in Runs \ {r} : work'[q] = work[q]
      /\ work'[r].warned
  BY <1>1, <1>2 DEF TypeOK, Work
<1>5. /\ warning' \in [Runs -> BOOLEAN]
      /\ \A q \in Runs \ {r} : warning'[q] = warning[q]
      /\ warning'[r]
  BY <1>1, <1>2 DEF TablesTypeOK
<1>6. StepOfTask(r)
  BY <1>1, <1>2, <1>3, <1>4, <1>5 DEF StepOfTask, TypeOK, TablesTypeOK, Executing
<1>7. /\ row[r].status \in {"running", "failed"} /\ row[r].stage # "before_worker_start"
      /\ payload[r] \subseteq file[r].raw
  BY <1>1, <1>2 DEF RunOK, ProgressOK, FilesOK, Collecting
<1>8. ProgressOK(r)' /\ FilesOK(r)' /\ AttendedOK(r)'
  <2>1. ProgressOK(r)'
    BY <1>1, <1>2, <1>3, <1>4, <1>5, <1>7 DEF ProgressOK, Collecting, Success
  <2>2. FilesOK(r)'
    BY <1>1, <1>3, <1>4, <1>5, <1>7 DEF FilesOK, Success
  <2>3. AttendedOK(r)'
    BY <1>1, <1>3, <1>4, <1>5, <1>7 DEF AttendedOK, Attended, Executing, Success
  <2> QED
    BY <2>1, <2>2, <2>3
<1> QED
  BY <1>6, <1>8, StepOfTaskOK

LEMMA CollectedOK ==
  ASSUME IInv, NEW r \in Runs, CollectFails(r) \/ Collected(r)
  PROVE  IInv'
<1>1. /\ task[r] = "collect"
      /\ Continue(r, "fail") \/ Continue(r, "manifest")
      /\ UNCHANGED <<row, payload, warning, host, lock, threads, queue, active, home, request,
                     work, file, interrupted>>
  BY DEF CollectFails, Collected, Elsewhere, tables
<1>2. /\ TypeOK /\ RunOK(r) /\ TablesTypeOK
      /\ request[r] \in {"register", "accepted", "refused"}
  BY <1>1, ExecutingFacts DEF Executing
<1>3. /\ worker' \in [Hosts -> Runs \cup {NoRun}]
      /\ task' \in [Runs -> TaskPC]
      /\ \A q \in Runs \ {r} : task'[q] = task[q]
      /\ task'[r] \in {"fail", "manifest"}
  BY <1>1, ContinueFacts DEF TaskPC
<1>4. StepOfTask(r)
  BY <1>1, <1>2, <1>3 DEF StepOfTask, TypeOK, TablesTypeOK, Executing
<1>5. /\ row[r].status \in {"running", "failed"} /\ row[r].stage # "before_worker_start"
      /\ warning[r] <=> work[r].warned
      /\ payload[r] \subseteq file[r].raw
  BY <1>1, <1>2 DEF RunOK, ProgressOK, FilesOK, Collecting
<1>6. ProgressOK(r)' /\ FilesOK(r)' /\ AttendedOK(r)'
  <2>1. ProgressOK(r)'
    BY <1>1, <1>2, <1>3, <1>5 DEF ProgressOK, Collecting, Success
  <2>2. FilesOK(r)'
    BY <1>1, <1>3, <1>5 DEF FilesOK, Success
  <2>3. AttendedOK(r)'
    BY <1>1, <1>3, <1>5 DEF AttendedOK, Attended, Executing, Success
  <2> QED
    BY <2>1, <2>2, <2>3
<1> QED
  BY <1>4, <1>6, StepOfTaskOK

LEMMA WriteManifestOK ==
  ASSUME IInv, NEW r \in Runs, WriteManifest(r)
  PROVE  IInv'
<1>1. /\ task[r] = "manifest"
      /\ UNCHANGED <<row, payload, warning, host, lock, threads, queue, active, home, request,
                     work, interrupted>>
  BY DEF WriteManifest, Elsewhere, tables
<1>2. /\ TypeOK /\ RunOK(r) /\ TablesTypeOK
      /\ request[r] \in {"register", "accepted", "refused"}
      /\ file[r] \in File
  BY <1>1, ExecutingFacts DEF Executing
<1>3. /\ row[r].status \in {"running", "failed"} /\ row[r].stage # "before_worker_start"
      /\ warning[r] <=> work[r].warned
      /\ payload[r] \subseteq file[r].raw
  BY <1>1, <1>2 DEF RunOK, ProgressOK, FilesOK, Collecting
<1>4. CASE file' = [file EXCEPT ![r].manifest = Outcome(r)] /\ Continue(r, "zip")
  <2>1. /\ worker' \in [Hosts -> Runs \cup {NoRun}]
        /\ task' \in [Runs -> TaskPC]
        /\ \A q \in Runs \ {r} : task'[q] = task[q]
        /\ task'[r] = "zip"
    BY <1>4, ContinueFacts DEF TaskPC
  <2>2. Outcome(r) \in Success
    BY DEF Outcome, Success
  <2>3. /\ file' \in [Runs -> File]
        /\ \A q \in Runs \ {r} : file'[q] = file[q]
        /\ file'[r].raw = file[r].raw /\ file'[r].manifest = Outcome(r)
    BY <1>2, <1>4, <2>2 DEF TypeOK, File
  <2>4. StepOfTask(r)
    BY <1>1, <1>2, <2>1, <2>3 DEF StepOfTask, TypeOK, TablesTypeOK, Executing
  <2>5. ProgressOK(r)' /\ FilesOK(r)' /\ AttendedOK(r)'
    <3>1. ProgressOK(r)'
      BY <1>1, <1>2, <1>3, <2>1, <2>3 DEF ProgressOK, Collecting, Success
    <3>2. FilesOK(r)'
      BY <1>1, <1>3, <2>1, <2>3 DEF FilesOK, Outcome, Success
    <3>3. AttendedOK(r)'
      BY <1>1, <1>3, <2>1, <2>3 DEF AttendedOK, Attended, Executing, Success
    <3> QED
      BY <3>1, <3>2, <3>3
  <2> QED
    BY <2>4, <2>5, StepOfTaskOK
<1>5. CASE UNCHANGED file /\ Continue(r, "fail")
  <2>1. /\ worker' \in [Hosts -> Runs \cup {NoRun}]
        /\ task' \in [Runs -> TaskPC]
        /\ \A q \in Runs \ {r} : task'[q] = task[q]
        /\ task'[r] = "fail"
    BY <1>5, ContinueFacts DEF TaskPC
  <2>2. StepOfTask(r)
    BY <1>1, <1>2, <1>5, <2>1 DEF StepOfTask, TypeOK, TablesTypeOK, Executing
  <2>3. ProgressOK(r)' /\ FilesOK(r)' /\ AttendedOK(r)'
    <3>1. ProgressOK(r)'
      BY <1>1, <1>2, <1>3, <1>5, <2>1 DEF ProgressOK, Collecting, Success
    <3>2. FilesOK(r)'
      BY <1>1, <1>3, <1>5, <2>1 DEF FilesOK, Success
    <3>3. AttendedOK(r)'
      BY <1>1, <1>3, <1>5, <2>1 DEF AttendedOK, Attended, Executing, Success
    <3> QED
      BY <3>1, <3>2, <3>3
  <2> QED
    BY <2>2, <2>3, StepOfTaskOK
<1> QED
  BY <1>4, <1>5 DEF WriteManifest

LEMMA BuildZipOK ==
  ASSUME IInv, NEW r \in Runs, BuildZip(r)
  PROVE  IInv'
<1>1. /\ task[r] = "zip"
      /\ UNCHANGED <<row, payload, warning, host, lock, threads, queue, active, home, request,
                     work, interrupted>>
  BY DEF BuildZip, Elsewhere, tables
<1>2. /\ TypeOK /\ RunOK(r) /\ TablesTypeOK
      /\ request[r] \in {"register", "accepted", "refused"}
      /\ file[r] \in File
  BY <1>1, ExecutingFacts DEF Executing
<1>3. /\ row[r].status \in {"running", "failed"} /\ row[r].stage # "before_worker_start"
      /\ warning[r] <=> work[r].warned
      /\ payload[r] \subseteq file[r].raw /\ file[r].manifest = Outcome(r)
  BY <1>1, <1>2 DEF RunOK, ProgressOK, FilesOK, Collecting
<1>4. CASE /\ file' = [file EXCEPT ![r].archive = file[r].manifest, ![r].packed = file[r].raw]
           /\ Continue(r, "finish")
  <2>1. /\ worker' \in [Hosts -> Runs \cup {NoRun}]
        /\ task' \in [Runs -> TaskPC]
        /\ \A q \in Runs \ {r} : task'[q] = task[q]
        /\ task'[r] = "finish"
    BY <1>4, ContinueFacts DEF TaskPC
  <2>2. /\ file' \in [Runs -> File]
        /\ \A q \in Runs \ {r} : file'[q] = file[q]
        /\ file'[r].raw = file[r].raw /\ file'[r].manifest = file[r].manifest
        /\ file'[r].archive = file[r].manifest /\ file'[r].packed = file[r].raw
    BY <1>2, <1>4 DEF TypeOK, File
  <2>3. StepOfTask(r)
    BY <1>1, <1>2, <2>1, <2>2 DEF StepOfTask, TypeOK, TablesTypeOK, Executing
  <2>4. ProgressOK(r)' /\ FilesOK(r)' /\ AttendedOK(r)'
    <3>1. ProgressOK(r)'
      BY <1>1, <1>2, <1>3, <2>1, <2>2 DEF ProgressOK, Collecting, Success
    <3>2. FilesOK(r)'
      BY <1>1, <1>3, <2>1, <2>2 DEF FilesOK, Outcome, Success
    <3>3. AttendedOK(r)'
      BY <1>1, <1>3, <2>1, <2>2 DEF AttendedOK, Attended, Executing, Success
    <3> QED
      BY <3>1, <3>2, <3>3
  <2> QED
    BY <2>3, <2>4, StepOfTaskOK
<1>5. CASE UNCHANGED file /\ Continue(r, "fail")
  <2>1. /\ worker' \in [Hosts -> Runs \cup {NoRun}]
        /\ task' \in [Runs -> TaskPC]
        /\ \A q \in Runs \ {r} : task'[q] = task[q]
        /\ task'[r] = "fail"
    BY <1>5, ContinueFacts DEF TaskPC
  <2>2. StepOfTask(r)
    BY <1>1, <1>2, <1>5, <2>1 DEF StepOfTask, TypeOK, TablesTypeOK, Executing
  <2>3. ProgressOK(r)' /\ FilesOK(r)' /\ AttendedOK(r)'
    <3>1. ProgressOK(r)'
      BY <1>1, <1>2, <1>3, <1>5, <2>1 DEF ProgressOK, Collecting, Success
    <3>2. FilesOK(r)'
      BY <1>1, <1>3, <1>5, <2>1 DEF FilesOK, Success
    <3>3. AttendedOK(r)'
      BY <1>1, <1>3, <1>5, <2>1 DEF AttendedOK, Attended, Executing, Success
    <3> QED
      BY <3>1, <3>2, <3>3
  <2> QED
    BY <2>2, <2>3, StepOfTaskOK
<1> QED
  BY <1>4, <1>5 DEF BuildZip

LEMMA FinishOK ==
  ASSUME IInv, NEW r \in Runs, Finish(r)
  PROVE  IInv'
<1>1. /\ task[r] = "finish"
      /\ UNCHANGED <<host, lock, threads, queue, active, home, request, work, file, interrupted>>
  BY DEF Finish, Elsewhere
<1>2. /\ TypeOK /\ RunOK(r) /\ TablesTypeOK
      /\ request[r] \in {"register", "accepted", "refused"}
  BY <1>1, ExecutingFacts DEF Executing
<1>3. /\ row[r].status \in {"running", "failed"} /\ row[r].stage # "before_worker_start"
      /\ warning[r] <=> work[r].warned
      /\ payload[r] \subseteq file[r].raw /\ payload[r] \subseteq file[r].packed
      /\ file[r].manifest = Outcome(r) /\ file[r].archive = Outcome(r)
      /\ Outcome(r) \in Success
  BY <1>1, <1>2 DEF RunOK, ProgressOK, FilesOK, Collecting, Outcome, Success
<1>4. CASE CanTransition(r, Outcome(r)) /\ Transition(r, Outcome(r), "none") /\ EndTask(r)
  <2>1. /\ UNCHANGED <<payload, warning>> /\ TablesTypeOK'
        /\ \A q \in Runs \ {r} : row'[q] = row[q]
        /\ row'[r].status = Outcome(r) /\ row'[r].stage = "none" /\ row'[r].artifact
    BY <1>3, <1>4, TransitionFacts DEF Status, Terminal, Stage
  <2>2. /\ worker' \in [Hosts -> Runs \cup {NoRun}]
        /\ task' \in [Runs -> TaskPC]
        /\ \A q \in Runs \ {r} : task'[q] = task[q]
        /\ task'[r] \in {"callback", "ended"}
    BY <1>4, EndTaskFacts
  <2>3. StepOfTask(r)
    BY <1>1, <1>2, <1>3, <2>1, <2>2 DEF StepOfTask, TypeOK, Executing, Success
  <2>4. ProgressOK(r)' /\ AttendedOK(r)'
    BY <1>1, <1>2, <1>3, <2>1, <2>2
    DEF ProgressOK, Collecting, AttendedOK, Success, Incomplete
  <2>5. warning[r] <=> Outcome(r) = "completed_with_warnings"
    BY <1>3 DEF Outcome
  <2>6. FilesOK(r)'
    BY <1>1, <1>3, <2>1, <2>2, <2>5 DEF FilesOK
  <2> QED
    BY <2>3, <2>4, <2>6, StepOfTaskOK
<1>5. CASE ~CanTransition(r, Outcome(r)) /\ UNCHANGED tables /\ EndTask(r)
  <2>1. row[r].status = "failed"
    BY <1>3, <1>5 DEF CanTransition, Allowed
  <2>2. /\ worker' \in [Hosts -> Runs \cup {NoRun}]
        /\ task' \in [Runs -> TaskPC]
        /\ \A q \in Runs \ {r} : task'[q] = task[q]
        /\ task'[r] \in {"callback", "ended"}
    BY <1>5, EndTaskFacts
  <2>3. UNCHANGED <<row, payload, warning>>
    BY <1>5 DEF tables
  <2>4. StepOfTask(r)
    BY <1>1, <1>2, <2>2, <2>3 DEF StepOfTask, TypeOK, TablesTypeOK, Executing
  <2>5. ProgressOK(r)' /\ FilesOK(r)' /\ AttendedOK(r)'
    BY <1>1, <1>3, <2>1, <2>2, <2>3
    DEF ProgressOK, Collecting, FilesOK, AttendedOK, Success, Incomplete
  <2> QED
    BY <2>4, <2>5, StepOfTaskOK
<1>6. CASE UNCHANGED tables /\ Continue(r, "fail")
  <2>1. /\ worker' \in [Hosts -> Runs \cup {NoRun}]
        /\ task' \in [Runs -> TaskPC]
        /\ \A q \in Runs \ {r} : task'[q] = task[q]
        /\ task'[r] = "fail"
    BY <1>6, ContinueFacts DEF TaskPC
  <2>2. UNCHANGED <<row, payload, warning>>
    BY <1>6 DEF tables
  <2>3. StepOfTask(r)
    BY <1>1, <1>2, <2>1, <2>2 DEF StepOfTask, TypeOK, TablesTypeOK, Executing
  <2>4. ProgressOK(r)' /\ FilesOK(r)' /\ AttendedOK(r)'
    <3>1. ProgressOK(r)'
      BY <1>1, <1>2, <1>3, <2>1, <2>2 DEF ProgressOK, Collecting, Success
    <3>2. FilesOK(r)'
      BY <1>1, <1>3, <2>1, <2>2 DEF FilesOK, Success
    <3>3. AttendedOK(r)'
      BY <1>1, <1>3, <2>1, <2>2 DEF AttendedOK, Attended, Executing, Success
    <3> QED
      BY <3>1, <3>2, <3>3
  <2> QED
    BY <2>3, <2>4, StepOfTaskOK
<1> QED
  BY <1>4, <1>5, <1>6 DEF Finish

LEMMA FailOK ==
  ASSUME IInv, NEW r \in Runs, Fail(r)
  PROVE  IInv'
<1>1. /\ task[r] = "fail" /\ FailRun(r, "execution")
      /\ UNCHANGED <<host, lock, threads, queue, active, home, request, work, file>>
  BY DEF Fail, Elsewhere
<1>2. /\ TypeOK /\ RunOK(r) /\ TablesTypeOK
      /\ request[r] \in {"register", "accepted", "refused"}
  BY <1>1, ExecutingFacts DEF Executing
<1>3. /\ UNCHANGED <<payload, warning>>
      /\ row' \in [Runs -> Row]
      /\ interrupted \subseteq interrupted' /\ interrupted' \subseteq Runs
      /\ \A q \in Runs \ {r} : row'[q] = row[q]
      /\ \/ /\ row[r].status \in Incomplete
            /\ row'[r].status = "failed" /\ row'[r].stage = "execution"
         \/ /\ row'[r] = row[r]
            /\ row[r].status \in Incomplete => r \in interrupted'
  BY <1>1, FailRunFacts DEF Stage
<1>4. /\ worker' \in [Hosts -> Runs \cup {NoRun}]
      /\ task' \in [Runs -> TaskPC]
      /\ \A q \in Runs \ {r} : task'[q] = task[q]
      /\ task'[r] = "fail_files"
  BY ContinueFacts DEF Fail, TaskPC
<1>5. StepOfTask(r)
  BY <1>1, <1>2, <1>3, <1>4 DEF StepOfTask, TypeOK, TablesTypeOK, Executing
<1>6. ProgressOK(r)' /\ FilesOK(r)' /\ AttendedOK(r)'
  BY <1>1, <1>2, <1>3, <1>4
  DEF RunOK, ProgressOK, Untouched, FilesOK, AttendedOK, Attended, Collecting, Success, Incomplete
<1> QED
  BY <1>5, <1>6, StepOfTaskOK

LEMMA FailFilesOK ==
  ASSUME IInv, NEW r \in Runs, FailFiles(r)
  PROVE  IInv'
<1>1. /\ task[r] = "fail_files" /\ FailureManifest(r)
      /\ UNCHANGED <<row, payload, warning, host, lock, threads, queue, active, home, request,
                     work, interrupted>>
  BY DEF FailFiles, Elsewhere, tables
<1>2. /\ TypeOK /\ RunOK(r) /\ TablesTypeOK
      /\ request[r] \in {"register", "accepted", "refused"}
  BY <1>1, ExecutingFacts DEF Executing
<1>3. /\ file' \in [Runs -> File]
      /\ \A q \in Runs \ {r} : file'[q] = file[q]
      /\ file'[r].raw = file[r].raw /\ file'[r].archive = file[r].archive
      /\ file'[r].packed = file[r].packed
      /\ file'[r].manifest = file[r].manifest \/ row[r].status = "failed"
  BY <1>1, FailureManifestFacts
<1>4. /\ worker' \in [Hosts -> Runs \cup {NoRun}]
      /\ task' \in [Runs -> TaskPC]
      /\ \A q \in Runs \ {r} : task'[q] = task[q]
      /\ task'[r] \in {"callback", "ended"}
      /\ task'[r] = "callback" => request[r] = "accepted"
  BY EndTaskFacts DEF FailFiles
<1>5. StepOfTask(r)
  BY <1>1, <1>2, <1>3, <1>4 DEF StepOfTask, TypeOK, TablesTypeOK, Executing
<1>6. ProgressOK(r)' /\ FilesOK(r)' /\ AttendedOK(r)'
  BY <1>1, <1>2, <1>3, <1>4
  DEF RunOK, ProgressOK, Untouched, FilesOK, AttendedOK, Attended, Executing, Collecting, Success,
      Incomplete
<1> QED
  BY <1>5, <1>6, StepOfTaskOK

LEMMA TaskCallbackOK ==
  ASSUME IInv, NEW r \in Runs, TaskCallback(r)
  PROVE  IInv'
<1>1. /\ task[r] = "callback"
      /\ active' = [active EXCEPT ![home[r]] = @ \ {r}]
      /\ worker' = [worker EXCEPT ![home[r]] = NoRun]
      /\ task' = [task EXCEPT ![r] = "ended"]
      /\ UNCHANGED <<row, payload, warning, host, lock, threads, queue, home, request, work, file,
                     interrupted>>
  BY DEF TaskCallback, tables, ToTask, Owner
<1>2. /\ TypeOK /\ RunOK(r) /\ TablesTypeOK /\ home[r] \in Hosts
      /\ request[r] \in {"register", "accepted", "refused"}
  BY <1>1, ExecutingFacts
<1>3. StepOfTask(r) /\ task'[r] = "ended"
  BY <1>1, <1>2 DEF StepOfTask, TypeOK, TablesTypeOK, TaskPC
<1>4. ProgressOK(r)' /\ FilesOK(r)' /\ AttendedOK(r)'
  BY <1>1, <1>2, <1>3
  DEF RunOK, ProgressOK, Untouched, FilesOK, AttendedOK, Attended, Executing, Collecting
<1> QED
  BY <1>3, <1>4, StepOfTaskOK

-----------------------------------------------------------------------------
(* Processes.                                                               *)

LEMMA BootOK ==
  ASSUME IInv, NEW p \in Hosts, Boot(p)
  PROVE  IInv'
<1>1. /\ row' = [r \in Runs |-> Reconciled(r)]
      /\ host' = [host EXCEPT ![p] = "up"]
      /\ UNCHANGED <<payload, warning, lock, threads, queue, worker, active, home, request, task,
                     work, file, interrupted>>
  BY DEF Boot, ReconcileIncompleteRuns
<1>2. TypeOK /\ row \in [Runs -> Row]
  BY DEF IInv, TypeOK, TablesTypeOK
<1>3. ASSUME NEW r \in Runs
      PROVE  /\ row'[r] \in Row
             /\ \/ row[r].status \in Incomplete /\ row'[r].status = "failed"
                   /\ row'[r].stage = "startup_reconciliation"
                \/ row[r].status \notin Incomplete /\ row'[r] = row[r]
  <2>1. row[r] \in Row
    BY <1>2
  <2>2. [row[r] EXCEPT !.status = "failed", !.stage = "startup_reconciliation"] \in Row
    BY <2>1 DEF Row, Status, Terminal, Stage
  <2> QED
    BY <1>1, <2>1, <2>2 DEF Reconciled, Row
<1>4. TypeOK'
  BY <1>1, <1>2, <1>3 DEF TypeOK, TablesTypeOK
<1>5. ASSUME NEW r \in Runs PROVE RunOK(r)'
  <2>1. RunOK(r)
    BY DEF IInv
  <2>2. ControlOK(r)' /\ ProgressOK(r)'
    BY <1>1, <1>3, <2>1
    DEF RunOK, ControlOK, ProgressOK, Untouched, Collecting, Incomplete, Success
  <2>3. FilesOK(r)' /\ AttendedOK(r)'
    BY <1>1, <1>3, <2>1
    DEF RunOK, FilesOK, Outcome, AttendedOK, Attended, Incomplete, Success
  <2> QED
    BY <2>2, <2>3 DEF RunOK
<1>6. \A o \in Hosts : QueueOK(o)'
  BY <1>1 DEF IInv, QueueOK
<1> QED
  BY <1>4, <1>5, <1>6 DEF IInv

LEMMA ShutdownOK ==
  ASSUME IInv, NEW p \in Hosts, Shutdown(p)
  PROVE  IInv'
<1>1. /\ host' = [host EXCEPT ![p] = "closing"]
      /\ UNCHANGED <<row, payload, warning, lock, threads, queue, worker, active, home, request,
                     task, work, file, interrupted>>
  BY DEF Shutdown, tables
<1>2. TypeOK'
  BY <1>1 DEF IInv, TypeOK, TablesTypeOK
<1>3. \A r \in Runs : RunOK(r)'
  BY <1>1, RunStays DEF IInv, Same, KeepsHold
<1>4. \A o \in Hosts : QueueOK(o)'
  BY <1>1 DEF IInv, QueueOK
<1> QED
  BY <1>2, <1>3, <1>4 DEF IInv

\* What is lost with a process was in its hands: its runs are remembered as interrupted.
LEMMA VanishOK ==
  ASSUME IInv, NEW p \in Hosts, Vanish(p)
  PROVE  IInv'
<1> DEFINE mine == {r \in Runs : home[r] = p}
           Cleared(f, value) == [r \in Runs |-> IF r \in mine THEN value ELSE f[r]]
<1>1. /\ host' = [host EXCEPT ![p] = "down"]
      /\ lock' = [lock EXCEPT ![p] = NoRun]
      /\ threads' = threads \ {p}
      /\ queue' = [queue EXCEPT ![p] = << >>]
      /\ worker' = [worker EXCEPT ![p] = NoRun]
      /\ active' = [active EXCEPT ![p] = {}]
      /\ home' = Cleared(home, Nowhere)
      /\ request' = Cleared(request, "none")
      /\ task' = Cleared(task, "none")
      /\ work' = Cleared(work, Idle)
      /\ interrupted' = interrupted \cup {r \in mine : InHand(r)}
      /\ UNCHANGED <<row, payload, warning, file>>
  BY DEF Vanish, tables
<1>2. TypeOK
  BY DEF IInv
<1>3. home' \in [Runs -> Hosts \cup {Nowhere}]
  BY <1>1, <1>2 DEF TypeOK
<1>4. request' \in [Runs -> RequestPC] /\ task' \in [Runs -> TaskPC]
  BY <1>1, <1>2 DEF TypeOK, RequestPC, TaskPC
<1>5. work' \in [Runs -> Work]
  <2>1. Idle \in Work
    BY MaxCapturesAssumption DEF Idle, Work
  <2> QED
    BY <1>1, <1>2, <2>1 DEF TypeOK
<1>6. TypeOK'
  BY <1>1, <1>2, <1>3, <1>4, <1>5 DEF TypeOK, TablesTypeOK
<1>7. ASSUME NEW r \in Runs, home[r] = p PROVE RunOK(r)'
  <2>1. RunOK(r)
    BY DEF IInv
  <2>2. /\ home'[r] = Nowhere /\ request'[r] = "none" /\ task'[r] = "none" /\ work'[r] = Idle
        /\ InHand(r) => r \in interrupted'
        /\ interrupted \subseteq interrupted'
    BY <1>1, <1>7
  <2>3. ControlOK(r)' /\ ProgressOK(r)'
    BY <1>1, <2>1, <2>2 DEF RunOK, ControlOK, ProgressOK, Untouched, Holding, Collecting
  <2>4. FilesOK(r)'
    BY <1>1, <2>1, <2>2 DEF RunOK, FilesOK
  <2>5. AttendedOK(r)'
    BY <1>1, <2>1, <2>2 DEF RunOK, AttendedOK, Attended, InHand, Executing
  <2> QED
    BY <2>3, <2>4, <2>5 DEF RunOK
<1>8. ASSUME NEW r \in Runs, home[r] # p PROVE Same(r) /\ KeepsHold(r)
  BY <1>1, <1>2, <1>8 DEF Same, KeepsHold, TypeOK
<1>9. ASSUME NEW r \in Runs, home[r] # p PROVE RunOK(r)'
  BY <1>8, <1>9, RunStays DEF IInv
<1>10. ASSUME NEW o \in Hosts PROVE QueueOK(o)'
  <2>1. CASE o = p
    BY <1>1, <1>2, <2>1 DEF QueueOK, TypeOK
  <2>2. CASE o # p
    <3>1. queue'[o] = queue[o] /\ queue[o] \in Seq(Runs) /\ QueueOK(o)
      BY <1>1, <1>2, <2>2 DEF TypeOK, IInv
    <3>2. \A i \in 1 .. Len(queue[o]) : queue[o][i] \in Runs /\ home[queue[o][i]] # p
      BY <2>2, <3>1 DEF QueueOK
    <3>3. \A i \in 1 .. Len(queue[o]) :
            task'[queue[o][i]] = "queued" /\ home'[queue[o][i]] = o
      BY <1>8, <3>1, <3>2 DEF QueueOK, Same
    <3> QED
      BY <3>1, <3>3 DEF QueueOK
  <2> QED
    BY <2>1, <2>2
<1> QED
  BY <1>6, <1>7, <1>9, <1>10 DEF IInv

LEMMA StutterOK == IInv /\ UNCHANGED vars => IInv'
<1> SUFFICES ASSUME IInv, UNCHANGED vars PROVE IInv'
  OBVIOUS
<1>1. UNCHANGED <<row, payload, warning, host, lock, threads, queue, worker, active, home, request,
                  task, work, file, interrupted>>
  BY DEF vars, tables, runner
<1>2. TypeOK'
  BY <1>1 DEF IInv, TypeOK, TablesTypeOK
<1>3. \A r \in Runs : RunOK(r)'
  BY <1>1, RunStays DEF IInv, Same, KeepsHold
<1>4. \A o \in Hosts : QueueOK(o)'
  BY <1>1 DEF IInv, QueueOK
<1> QED
  BY <1>2, <1>3, <1>4 DEF IInv

LEMMA NextOK == IInv /\ [Next]_vars => IInv'
<1> SUFFICES ASSUME IInv, [Next]_vars PROVE IInv'
  OBVIOUS
<1>1. CASE UNCHANGED vars
  BY <1>1, StutterOK
<1>2. ASSUME NEW p \in Hosts,
             Boot(p) \/ Crash(p) \/ Shutdown(p) \/ Stop(p) \/ Take(p)
      PROVE  IInv'
  BY <1>2, BootOK, ShutdownOK, VanishOK, TakeOK DEF Crash, Stop
<1>3. ASSUME NEW p \in Hosts, NEW r \in Runs, Post(p, r) \/ RunOnce(p, r)
      PROVE  IInv'
  BY <1>3, PostOK
<1>4. ASSUME NEW r \in Runs, RequestStep(r) PROVE IInv'
  BY <1>4, AcquireLockOK, RefuseOK, ScheduleOK, ScheduleFailsOK, BrokenOK, BrokenFilesOK,
     RegisterOK, ExecuteNowOK DEF RequestStep
<1>5. ASSUME NEW r \in Runs, TaskStep(r) PROVE IInv'
  BY <1>5, StartOK, CaptureOK, InsertOK, WarnOK, CollectedOK, WriteManifestOK, BuildZipOK,
     FinishOK, FailOK, FailFilesOK, TaskCallbackOK DEF TaskStep
<1> QED
  BY <1>1, <1>2, <1>3, <1>4, <1>5 DEF Next

-----------------------------------------------------------------------------
(***************************************************************************)
(* The invariant holds in every state, whatever crashes, fails or is       *)
(* reconciled, for any number of services, tools, runs and captures.       *)
(***************************************************************************)
THEOREM Invariance == Spec => []IInv
<1> QED
  BY InitOK, NextOK, PTL DEF Spec

(***************************************************************************)
(* Every variable has its type.                                            *)
(***************************************************************************)
THEOREM TypeCorrect == Spec => []TypeOK
<1>1. IInv => TypeOK
  BY DEF IInv
<1> QED
  BY <1>1, Invariance, PTL

(***************************************************************************)
(* A complete run has its archive and manifest of the same status, with    *)
(* every raw payload of the database in it, and the database never refers  *)
(* to a raw payload that is not on disk.                                   *)
(***************************************************************************)
THEOREM CompletedRunsAreBacked == Spec => []CompletedIsBacked
<1>1. IInv => CompletedIsBacked
  BY DEF IInv, RunOK, FilesOK, CompletedIsBacked
<1> QED
  BY <1>1, Invariance, PTL

(***************************************************************************)
(* A run failed before its worker started was never executed.              *)
(***************************************************************************)
THEOREM UnstartedRunsNeverRan == Spec => []NeverStartedNeverRan
<1>1. IInv => NeverStartedNeverRan
  BY DEF IInv, RunOK, ProgressOK, Untouched, NeverStartedNeverRan
<1> QED
  BY <1>1, Invariance, PTL

(***************************************************************************)
(* An incomplete run is in somebody's hands or was cut short.              *)
(***************************************************************************)
THEOREM IncompleteRunsAreAttended == Spec => []IncompleteIsAttended
<1>1. IInv => IncompleteIsAttended
  BY DEF IInv, RunOK, AttendedOK, IncompleteIsAttended
<1> QED
  BY <1>1, Invariance, PTL

-----------------------------------------------------------------------------
(* The service implements RunLifecycle.                                     *)

\* What a step may do to the statuses of the runs.
Kept == \A q \in Runs : row'[q].status = row[q].status

Moved(r, from, to) ==
  /\ row[r].status \in from
  /\ row'[r].status \in to
  /\ \A q \in Runs \ {r} : row'[q].status = row[q].status

AllFailed(failed) ==
  /\ failed # {}
  /\ \A q \in failed : row[q].status \in Incomplete /\ row'[q].status = "failed"
  /\ \A q \in Runs \ failed : row'[q].status = row[q].status

Lives ==
  \/ Kept
  \/ \E r \in Runs : \/ Moved(r, {"absent"}, {"queued"})
                     \/ Moved(r, {"queued"}, {"running"})
                     \/ Moved(r, {"running"}, Success)
  \/ \E failed \in SUBSET Runs : AllFailed(failed)

LEMMA FailRunLives ==
  ASSUME IInv, NEW r \in Runs, NEW stage \in Stage, FailRun(r, stage)
  PROVE  Lives
<1>1. /\ \A q \in Runs \ {r} : row'[q] = row[q]
      /\ \/ row[r].status \in Incomplete /\ row'[r].status = "failed"
         \/ row'[r] = row[r]
  BY FailRunFacts
<1>2. CASE row[r].status \in Incomplete /\ row'[r].status = "failed"
  <2>1. AllFailed({r})
    BY <1>1, <1>2 DEF AllFailed
  <2> QED
    BY <2>1 DEF Lives
<1>3. CASE row'[r] = row[r]
  BY <1>1, <1>3 DEF Lives, Kept
<1> QED
  BY <1>1, <1>2, <1>3

LEMMA CreateLives ==
  ASSUME IInv, NEW r \in Runs, row[r] = AbsentRow, CreateRun(r)
  PROVE  Lives
<1>1. row \in [Runs -> Row] /\ row[r].status = "absent"
  BY DEF IInv, TypeOK, TablesTypeOK, AbsentRow
<1>2. row' = [row EXCEPT ![r].status = "queued"]
  BY DEF CreateRun
<1>3. Moved(r, {"absent"}, {"queued"})
  BY <1>1, <1>2 DEF Moved, Row
<1> QED
  BY <1>3 DEF Lives

LEMMA BootLives ==
  ASSUME IInv, NEW p \in Hosts, Boot(p)
  PROVE  Lives
<1> DEFINE failed == {r \in Runs : row[r].status \in Incomplete}
<1>1. row' = [r \in Runs |-> Reconciled(r)] /\ row \in [Runs -> Row]
  BY DEF Boot, ReconcileIncompleteRuns, IInv, TypeOK, TablesTypeOK
<1>2. ASSUME NEW q \in failed PROVE row'[q].status = "failed"
  BY <1>1 DEF Reconciled, Row
<1>3. ASSUME NEW q \in Runs \ failed PROVE row'[q].status = row[q].status
  BY <1>1 DEF Reconciled
<1>4. CASE failed = {}
  BY <1>3, <1>4 DEF Lives, Kept
<1>5. CASE failed # {}
  <2>1. AllFailed(failed)
    BY <1>2, <1>3, <1>5 DEF AllFailed
  <2> QED
    BY <2>1 DEF Lives
<1> QED
  BY <1>4, <1>5

LEMMA TransitionLives ==
  ASSUME IInv, NEW r \in Runs, NEW target \in {"running"} \cup Success,
         CanTransition(r, target), Transition(r, target, "none")
  PROVE  Lives
<1>1. /\ \A q \in Runs \ {r} : row'[q] = row[q]
      /\ row'[r].status = target
  BY TransitionFacts DEF Status, Incomplete, Terminal, Stage
<1>2. \/ row[r].status = "queued" /\ target = "running"
      \/ row[r].status = "running" /\ target \in Success
  BY DEF CanTransition, Allowed, Success
<1>3. Moved(r, {"queued"}, {"running"}) \/ Moved(r, {"running"}, Success)
  BY <1>1, <1>2 DEF Moved
<1> QED
  BY <1>3 DEF Lives

LEMMA NextLives == IInv /\ [Next]_vars => Lives
<1> SUFFICES ASSUME IInv, [Next]_vars PROVE Lives
  OBVIOUS
<1>1. UNCHANGED row => Lives
  BY DEF Lives, Kept
<1>2. CASE UNCHANGED vars
  BY <1>1, <1>2 DEF vars, tables
<1>3. ASSUME NEW p \in Hosts,
             Boot(p) \/ Crash(p) \/ Shutdown(p) \/ Stop(p) \/ Take(p)
      PROVE  Lives
  BY <1>1, <1>3, BootLives DEF Crash, Stop, Vanish, Shutdown, Take, tables
<1>4. ASSUME NEW p \in Hosts, NEW r \in Runs, Post(p, r) \/ RunOnce(p, r)
      PROVE  Lives
  BY <1>4, CreateLives DEF Post, RunOnce
<1>5. ASSUME NEW r \in Runs, RequestStep(r) PROVE Lives
  <2>1. CASE Broken(r)
    BY <2>1, FailRunLives DEF Broken, Stage
  <2>2. CASE ~Broken(r)
    <3>1. UNCHANGED row
      BY <1>5, <2>2 DEF RequestStep, AcquireLock, Refuse, Schedule, ScheduleFails, BrokenFiles,
           Register, RequestCallback, ExecuteNow, tables
    <3> QED
      BY <1>1, <3>1
  <2> QED
    BY <2>1, <2>2
<1>6. ASSUME NEW r \in Runs, TaskStep(r) PROVE Lives
  <2>1. CASE Start(r)
    BY <1>1, <2>1, TransitionLives DEF Start, tables
  <2>2. CASE Finish(r)
    <3>1. Outcome(r) \in {"running"} \cup Success
      BY DEF Outcome, Success
    <3> QED
      BY <1>1, <2>2, <3>1, TransitionLives DEF Finish, tables
  <2>3. CASE Fail(r)
    BY <2>3, FailRunLives DEF Fail, Stage
  <2>4. CASE ~(Start(r) \/ Finish(r) \/ Fail(r))
    <3>1. UNCHANGED row
      BY <1>6, <2>4 DEF TaskStep, Capture, Insert, InsertRawPayload, Warn, AddWarning,
           CollectFails, Collected, WriteManifest, BuildZip, FailFiles, TaskCallback, tables
    <3> QED
      BY <1>1, <3>1
  <2> QED
    BY <2>1, <2>2, <2>3, <2>4
<1> QED
  BY <1>2, <1>3, <1>4, <1>5, <1>6 DEF Next

\* The artifact is served exactly for the complete runs.
LEMMA ServedIsComplete ==
  ASSUME IInv
  PROVE  \A r \in Runs : Served(r) = (row[r].status \in Success)
<1> TAKE r \in Runs
<1>1. row[r].status \in Success => row[r].artifact /\ file[r].archive # "none"
  BY DEF IInv, RunOK, FilesOK, Success
<1> QED
  BY <1>1 DEF Served

LEMMA LivesIsLifecycle ==
  ASSUME IInv, IInv', Lives
  PROVE  [Lifecycle!LifecycleNext]_(Lifecycle!lifecycle)
<1> DEFINE status == [r \in Runs |-> row[r].status]
           served == [r \in Runs |-> Served(r)]
<1>1. served = [r \in Runs |-> row[r].status \in Success]
  BY ServedIsComplete
<1>2. served' = [r \in Runs |-> row'[r].status \in Success]
  <2>1. \A r \in Runs : row'[r].status \in Success => row'[r].artifact /\ file'[r].archive # "none"
    BY DEF IInv, RunOK, FilesOK, Success
  <2>2. \A r \in Runs : Served(r)' = (row'[r].status \in Success)
    BY <2>1 DEF Served
  <2> QED
    BY <2>2
<1>3. status' = [r \in Runs |-> row'[r].status]
  OBVIOUS
<1>4. CASE Kept
  <2>1. status' = status /\ served' = served
    BY <1>1, <1>2, <1>4 DEF Kept
  <2> QED
    BY <2>1 DEF Lifecycle!lifecycle
<1>5. ASSUME NEW r \in Runs, Moved(r, {"absent"}, {"queued"})
      PROVE  Lifecycle!Create(r)
  <2>1. status' = [status EXCEPT ![r] = "queued"] /\ status[r] = "absent"
    BY <1>5 DEF Moved
  <2>2. served' = served
    BY <1>1, <1>2, <1>5 DEF Moved, Success
  <2> QED
    BY <2>1, <2>2 DEF Lifecycle!Create
<1>6. ASSUME NEW r \in Runs, Moved(r, {"queued"}, {"running"})
      PROVE  Lifecycle!Run(r)
  <2>1. status' = [status EXCEPT ![r] = "running"] /\ status[r] = "queued"
    BY <1>6 DEF Moved
  <2>2. served' = served
    BY <1>1, <1>2, <1>6 DEF Moved, Success
  <2> QED
    BY <2>1, <2>2 DEF Lifecycle!Run
<1>7. ASSUME NEW r \in Runs, Moved(r, {"running"}, Success)
      PROVE  Lifecycle!Finish(r)
  <2>1. status' = [status EXCEPT ![r] = row'[r].status] /\ status[r] = "running"
    BY <1>7 DEF Moved
  <2>2. served' = [served EXCEPT ![r] = TRUE]
    <3> DEFINE before == [q \in Runs |-> row[q].status \in Success]
               after == [q \in Runs |-> row'[q].status \in Success]
    <3>1. after[r] = TRUE
      BY <1>7 DEF Moved
    <3>2. \A q \in Runs \ {r} : after[q] = before[q]
      BY <1>7 DEF Moved
    <3> QED
      BY <1>1, <1>2, <3>1, <3>2
  <2>3. row'[r].status \in Lifecycle!Complete
    BY <1>7 DEF Moved, Success, Lifecycle!Complete
  <2> QED
    BY <2>1, <2>2, <2>3 DEF Lifecycle!Finish
<1>8. ASSUME NEW failed \in SUBSET Runs, AllFailed(failed)
      PROVE  Lifecycle!FailAll(failed)
  <2>1. /\ \A r \in failed : status[r] \in Lifecycle!Unfinished
        /\ failed # {}
        /\ status' = [r \in Runs |-> IF r \in failed THEN "failed" ELSE status[r]]
    BY <1>8 DEF AllFailed, Incomplete, Lifecycle!Unfinished
  <2>2. served' = served
    BY <1>1, <1>2, <1>8 DEF AllFailed, Incomplete, Success
  <2> QED
    BY <2>1, <2>2 DEF Lifecycle!FailAll
<1> QED
  BY <1>4, <1>5, <1>6, <1>7, <1>8 DEF Lives, Lifecycle!LifecycleNext

(***************************************************************************)
(* To a client every run has the one lifecycle of RunLifecycle, with its   *)
(* artifact from its completion on.                                        *)
(***************************************************************************)
THEOREM ServiceImplementsRunLifecycle == Spec => ImplementsRunLifecycle
<1>1. Init => Lifecycle!LifecycleInit
  <2> SUFFICES ASSUME Init PROVE Lifecycle!LifecycleInit
    OBVIOUS
  <2>1. \A r \in Runs : row[r].status = "absent"
    BY DEF Init, TablesInit, AbsentRow
  <2>2. \A r \in Runs : Served(r) = FALSE
    BY <2>1 DEF Served, Success
  <2> QED
    BY <2>1, <2>2 DEF Lifecycle!LifecycleInit
<1>2. IInv /\ IInv' /\ [Next]_vars => [Lifecycle!LifecycleNext]_(Lifecycle!lifecycle)
  BY NextLives, LivesIsLifecycle
<1> QED
  BY <1>1, <1>2, Invariance, PTL DEF Spec, ImplementsRunLifecycle, Lifecycle!LifecycleSpec
=============================================================================

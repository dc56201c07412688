------------------------------ MODULE Bm25Jobs ------------------------------
(***************************************************************************)
(* The BM25 build queue: the rows of CorpusBm25BuildJob and of             *)
(* CorpusBm25Index, the one CorpusBm25BuildCoordinator task that claims a  *)
(* job and builds its index, the requests that queue and cancel jobs while *)
(* the task is between two awaits, and the recovery at application start.  *)
(*                                                                         *)
(* Every job creates at most one index, so the index carries the number of *)
(* its job.  The worker keeps one ORM object of the job in its session for *)
(* the whole execution: known is the cancel_requested it last loaded.      *)
(* A cancel request loads the row in one transaction and writes it, by     *)
(* primary key alone, in a later one.                                      *)
(***************************************************************************)
EXTENDS Naturals

CONSTANTS NumJobs,    \* jobs that may ever be queued (a bound)
          Names,      \* artifact names users ask for
          MaxStops,   \* crashes and shutdowns together (a bound)
          MaxFaults   \* database errors the worker meets (a bound)

ASSUME JobsAssumption   == NumJobs \in Nat \ {0}
ASSUME LimitsAssumption == MaxStops \in Nat /\ MaxFaults \in Nat

(* Jobs are numbered in the order of the queue, (queued_at, id). *)
Jobs  == 1..NumJobs
NoJob == 0

TERMINAL_CORPUS_BM25_BUILD_JOB_STATUSES == {"completed", "failed", "cancelled"}
CORPUS_BM25_BUILD_JOB_STATUSES ==
    {"queued", "running"} \cup TERMINAL_CORPUS_BM25_BUILD_JOB_STATUSES
CORPUS_BM25_INDEX_STATUSES ==
    {"created", "building", "built", "failed", "cancelled"}

(* Where execute_corpus_bm25_build_job_srvc can be suspended. *)
ExecuteLabels ==
    {"start", "validate", "reject", "create", "link", "mark_building", "build",
     "mark_built", "undo_failed", "undo_cancelled", "persist", "complete",
     "cancel_at_persist", "mark_cancelled", "mark_failed"}
WorkerLabels ==
    ExecuteLabels \cup {"loop", "claim", "nothing_claimed", "idle_wait",
                         "stopped", "dead"}
RecoveryLabels == {"recover", "recover_index", "recover_job"}

VARIABLES
    job_status,        \* job -> CorpusBm25BuildJob.status, "absent" before it
    cancel_requested,  \* job -> the flag of the row
    artifact_name,     \* job -> requested_artifact_name
    linked,            \* jobs whose result_bm25_index_id is set
    index_status,      \* job -> status of the index it created, or "absent"
    pc,                \* where the worker, or the recovery, is suspended
    cur,               \* the job it works on, or NoJob
    known,             \* cancel_requested of the worker's ORM object
    wake_event,        \* _wake_event.is_set()
    unnotified,        \* queued jobs whose request has not called wake() yet
    pending_cancel,    \* job -> the status a cancel request has read, or "none"
    app,               \* the process: starting, up, stopping or down
    stops,             \* crashes and shutdowns so far
    faults             \* database errors so far

jobVars     == <<job_status, cancel_requested, artifact_name, linked>>
workerVars  == <<pc, cur, known>>
requestVars == <<wake_event, unnotified, pending_cancel>>
envVars     == <<app, stops>>
vars == <<jobVars, index_status, workerVars, requestVars, envVars, faults>>

JobsOK ==
    /\ job_status \in [Jobs -> {"absent"} \cup CORPUS_BM25_BUILD_JOB_STATUSES]
    /\ cancel_requested \in [Jobs -> BOOLEAN]
    /\ artifact_name \in [Jobs -> Names]
    /\ linked \subseteq Jobs
    /\ index_status \in [Jobs -> {"absent"} \cup CORPUS_BM25_INDEX_STATUSES]

WorkerOK ==
    /\ pc \in WorkerLabels \cup RecoveryLabels \cup {"down"}
    /\ cur \in {NoJob} \cup Jobs
    /\ pc \in ExecuteLabels \cup {"recover_index", "recover_job"} => cur \in Jobs
    /\ known \in BOOLEAN
    /\ app \in {"starting", "up", "stopping", "down"}
    /\ app = "down" <=> pc = "down"
    /\ app = "starting" <=> pc \in RecoveryLabels

SurroundingsOK ==
    /\ wake_event \in BOOLEAN
    /\ unnotified \subseteq Jobs
    /\ pending_cancel \in [Jobs -> {"none", "queued", "running"}]
    /\ stops \in 0..MaxStops
    /\ faults \in 0..MaxFaults

TypeOK == JobsOK /\ WorkerOK /\ SurroundingsOK

Init ==
    /\ job_status = [j \in Jobs |-> "absent"]
    /\ cancel_requested = [j \in Jobs |-> FALSE]
    /\ artifact_name \in [Jobs -> Names]   \* what each request will ask for
    /\ linked = {}
    /\ index_status = [j \in Jobs |-> "absent"]
    /\ pc = "loop"
    /\ cur = NoJob
    /\ known = FALSE
    /\ wake_event = FALSE
    /\ unnotified = {}
    /\ pending_cancel = [j \in Jobs |-> "none"]
    /\ app = "up"
    /\ stops = 0
    /\ faults = 0

-----------------------------------------------------------------------------
(* Names.  The check and the insert of a queue request are one transaction *)
(* that holds pg_advisory_xact_lock on the name.                           *)

(* Fault: a name is free as soon as its job is claimed. *)
HasQueuedJobName(name) ==
    \E j \in Jobs : artifact_name[j] = name /\ job_status[j] = "queued"

has_active_corpus_bm25_build_job_name(name) ==
    \E j \in Jobs : /\ artifact_name[j] = name
                    /\ job_status[j] \in {"queued", "running"}

IndexNameExists(name) ==
    \E j \in Jobs : artifact_name[j] = name /\ index_status[j] # "absent"

NameAvailable(name) ==
    ~IndexNameExists(name) /\ ~has_active_corpus_bm25_build_job_name(name)

-----------------------------------------------------------------------------
(* Requests. *)

(* wake() follows the commit, in Notify.  Requests in flight commit in any *)
(* order.                                                                  *)
queue_corpus_bm25_build_job(j) ==
    /\ app = "up"
    /\ job_status[j] = "absent"
    /\ NameAvailable(artifact_name[j])
    /\ job_status' = [job_status EXCEPT ![j] = "queued"]
    /\ unnotified' = unnotified \cup {j}
    /\ UNCHANGED <<cancel_requested, artifact_name, linked, index_status,
                   workerVars, wake_event, pending_cancel, envVars, faults>>

(* A retry queues a new job for the chunk set of a finished one. *)
retry_corpus_bm25_build_job(old, j) ==
    /\ job_status[old] \in {"failed", "cancelled"}
    /\ queue_corpus_bm25_build_job(j)

(* Fault: a wake that reaches only a worker that already waits. *)
WakesOnlyAWaiter(j) ==
    /\ j \in unnotified
    /\ unnotified' = unnotified \ {j}
    /\ wake_event' = (pc = "idle_wait")
    /\ UNCHANGED <<jobVars, index_status, workerVars, pending_cancel, envVars,
                   faults>>

Notify(j) ==
    /\ j \in unnotified
    /\ unnotified' = unnotified \ {j}
    /\ wake_event' = TRUE
    /\ UNCHANGED <<jobVars, index_status, workerVars, pending_cancel, envVars,
                   faults>>

(* session.get: a finished job is refused; a repeated request would find   *)
(* the flag set and write nothing.                                         *)
CancelReads(j) ==
    /\ app = "up"
    /\ job_status[j] \in {"queued", "running"}
    /\ ~cancel_requested[j]
    /\ pending_cancel[j] = "none"
    /\ pending_cancel' = [pending_cancel EXCEPT ![j] = job_status[j]]
    /\ UNCHANGED <<jobVars, index_status, workerVars, wake_event, unnotified,
                   envVars, faults>>

(* request_corpus_bm25_build_job_cancel decides on the status it has read  *)
(* and updates by primary key, whatever the row has become.                *)
CancelCommits(j) ==
    /\ pending_cancel[j] # "none"
    /\ cancel_requested' = [cancel_requested EXCEPT ![j] = TRUE]
    /\ job_status' = [job_status EXCEPT
           ![j] = IF pending_cancel[j] = "queued" THEN "cancelled" ELSE @]
    /\ pending_cancel' = [pending_cancel EXCEPT ![j] = "none"]
    /\ UNCHANGED <<artifact_name, linked, index_status, workerVars, wake_event,
                   unnotified, envVars, faults>>

-----------------------------------------------------------------------------
(* The worker loop. *)

DatabaseError == faults < MaxFaults /\ faults' = faults + 1

(* Nothing between execute_... and the task catches: the task ends while   *)
(* the application keeps serving requests.                                 *)
WorkerDies == DatabaseError /\ pc' = "dead"

LoopTop ==
    /\ pc = "loop"
    /\ IF app = "stopping"
       THEN pc' = "stopped" /\ UNCHANGED wake_event
       ELSE pc' = "claim" /\ wake_event' = FALSE
    /\ cur' = NoJob
    /\ known' = FALSE
    /\ UNCHANGED <<jobVars, index_status, unnotified, pending_cancel, envVars,
                   faults>>

ClaimableJobs ==
    {j \in Jobs : /\ job_status[j] = "queued"
                  /\ \A k \in Jobs : job_status[k] = "queued" => j <= k}

claim_next_corpus_bm25_build_job ==
    /\ pc = "claim"
    /\ \/ /\ cur' \in ClaimableJobs
          /\ job_status' = [job_status EXCEPT ![cur'] = "running"]
          /\ cancel_requested' = [cancel_requested EXCEPT ![cur'] = FALSE]
          /\ pc' = "start"
          /\ UNCHANGED faults
       \/ /\ \/ /\ ClaimableJobs = {}
                /\ pc' = "nothing_claimed"
                /\ UNCHANGED faults
             \/ WorkerDies
          /\ UNCHANGED <<job_status, cancel_requested, cur>>
    /\ UNCHANGED <<artifact_name, linked, index_status, known, requestVars,
                   envVars>>

(* The session is closed, an await, before the worker starts to wait. *)
ProcessReturns ==
    /\ pc = "nothing_claimed"
    /\ pc' = IF app = "stopping" THEN "loop" ELSE "idle_wait"
    /\ UNCHANGED <<jobVars, index_status, cur, known, requestVars, envVars,
                   faults>>

WaitEnds ==
    /\ pc = "idle_wait"
    /\ wake_event
    /\ pc' = "loop"
    /\ UNCHANGED <<jobVars, index_status, cur, known, requestVars, envVars,
                   faults>>

-----------------------------------------------------------------------------
(* Statements on the job and on its index, each one transaction. *)

KeepsIndexes == UNCHANGED index_status
KeepsJobs    == UNCHANGED jobVars

(* A step that moves only the worker. *)
Continues(label) == pc' = label /\ KeepsJobs /\ KeepsIndexes

(* A statement on the job, its commit and the refresh: either may raise.   *)
commit_and_refresh(Statement, label, error_label) ==
    /\ \/ /\ Statement
          /\ \/ pc' = label /\ UNCHANGED faults
             \/ pc' = error_label /\ DatabaseError
       \/ /\ KeepsJobs
          /\ pc' = error_label
          /\ DatabaseError
    /\ KeepsIndexes
    /\ UNCHANGED known

mark_corpus_bm25_build_job_completed(j) ==
    /\ job_status' = [job_status EXCEPT ![j] = "completed"]
    /\ linked' = linked \cup {j}
    /\ UNCHANGED <<cancel_requested, artifact_name>>

(* After a rollback the ORM object is expired and every attribute that is  *)
(* set is written; otherwise cancel_requested = False, the value loaded,   *)
(* is no change, and a flag raised in the meantime stays.                  *)
mark_corpus_bm25_build_job_failed(j, expired) ==
    /\ job_status' = [job_status EXCEPT ![j] = "failed"]
    /\ cancel_requested' = [cancel_requested EXCEPT ![j] = @ /\ ~expired]
    /\ UNCHANGED <<artifact_name, linked>>

mark_corpus_bm25_build_job_cancelled(j) ==
    /\ job_status' = [job_status EXCEPT ![j] = "cancelled"]
    /\ cancel_requested' = [cancel_requested EXCEPT ![j] = TRUE]
    /\ UNCHANGED <<artifact_name, linked>>

(* UPDATE ... WHERE status IN (allowed): the artifact is stored with       *)
(* "built" and removed by a compensation, built or not.                    *)
_conditional_lifecycle_update(j, allowed, next_status) ==
    /\ index_status[j] \in allowed
    /\ index_status' = [index_status EXCEPT ![j] = next_status]

(* Fault: the ordinary lifecycle, in which a built index cannot fail. *)
LifecycleStatuses(next_status) == {"created", "building", next_status}

CompensableStatuses(next_status) ==
    {"created", "building", "built", next_status}

_compensate_corpus_bm25_index_build(j, next_status) ==
    _conditional_lifecycle_update(j, CompensableStatuses(next_status),
                                  next_status)

-----------------------------------------------------------------------------
(* The execution of the claimed job. *)

Executing(label) == pc = label /\ UNCHANGED <<cur, requestVars, envVars>>

(* The refresh after the claim, and the first look at the flag. *)
Start ==
    /\ Executing("start")
    /\ \/ /\ known' = cancel_requested[cur]
          /\ Continues(IF known' THEN "mark_cancelled" ELSE "validate")
          /\ UNCHANGED faults
       \/ /\ WorkerDies
          /\ UNCHANGED <<jobVars, index_status, known>>

(* The chunk set is gone, or its revision, checksum or members changed. *)
Validate ==
    /\ Executing("validate")
    /\ \/ \E label \in {"create", "reject"} : Continues(label) /\ UNCHANGED faults
       \/ WorkerDies /\ KeepsJobs /\ KeepsIndexes
    /\ UNCHANGED known

Reject ==
    /\ Executing("reject")
    /\ commit_and_refresh(mark_corpus_bm25_build_job_failed(cur, FALSE),
                          "loop", "dead")

(* The name of an index is unique.  When the refresh after the commit      *)
(* fails, the id of the new row cannot be read and no one compensates it.  *)
CreateIndex ==
    /\ Executing("create")
    /\ \/ /\ ~IndexNameExists(artifact_name[cur])
          /\ index_status' = [index_status EXCEPT ![cur] = "created"]
          /\ \/ pc' = "link" /\ UNCHANGED faults
             \/ pc' = "mark_failed" /\ DatabaseError
       \/ /\ \/ IndexNameExists(artifact_name[cur]) /\ UNCHANGED faults
             \/ DatabaseError
          /\ pc' = "mark_failed"
          /\ KeepsIndexes
    /\ KeepsJobs
    /\ UNCHANGED known

(* on_index_created commits the link and refreshes the job. *)
LinkIndex ==
    /\ Executing("link")
    /\ \/ /\ linked' = linked \cup {cur}
          /\ \/ /\ known' = cancel_requested[cur]
                /\ pc' = "mark_building"
                /\ UNCHANGED faults
             \/ /\ DatabaseError   \* the commit passed, the refresh failed
                /\ pc' = "undo_failed"
                /\ UNCHANGED known
       \/ /\ DatabaseError
          /\ pc' = "undo_failed"
          /\ UNCHANGED <<linked, known>>
    /\ KeepsIndexes
    /\ UNCHANGED <<job_status, cancel_requested, artifact_name>>

MarkBuilding ==
    /\ Executing("mark_building")
    /\ \/ /\ _conditional_lifecycle_update(cur, {"created"}, "building")
          /\ pc' = "build"
          /\ UNCHANGED faults
       \/ /\ DatabaseError
          /\ pc' = "undo_failed"
          /\ KeepsIndexes
    /\ KeepsJobs
    /\ UNCHANGED known

(* The build in a thread may raise.  stop_if_cancelled then calls          *)
(* session.get, which returns the object the session already holds: it     *)
(* sees the flag of the last refresh, not of the row.                      *)
Build ==
    /\ Executing("build")
    /\ \/ Continues("undo_failed")
       \/ Continues(IF known THEN "undo_cancelled" ELSE "mark_built")
    /\ UNCHANGED <<known, faults>>

(* Fault: an artifact that could not be stored goes unnoticed. *)
SwallowsStoreError ==
    /\ Executing("mark_built")
    /\ pc' = "persist"
    /\ \/ /\ _conditional_lifecycle_update(cur, {"building"}, "built")
          /\ UNCHANGED faults
       \/ /\ DatabaseError
          /\ KeepsIndexes
    /\ KeepsJobs
    /\ UNCHANGED known

(* An error may hide a commit that passed. *)
MarkBuilt ==
    /\ Executing("mark_built")
    /\ \/ /\ _conditional_lifecycle_update(cur, {"building"}, "built")
          /\ \/ pc' = "persist" /\ UNCHANGED faults
             \/ pc' = "undo_failed" /\ DatabaseError
       \/ /\ DatabaseError
          /\ pc' = "undo_failed"
          /\ KeepsIndexes
    /\ KeepsJobs
    /\ UNCHANGED known

(* _mark_build_failed and _mark_build_cancelled; their errors are dropped. *)
Undo(label, next_status, next_label) ==
    /\ Executing(label)
    /\ \/ /\ _compensate_corpus_bm25_index_build(cur, next_status)
          /\ UNCHANGED faults
       \/ /\ DatabaseError
          /\ KeepsIndexes
    /\ pc' = next_label
    /\ KeepsJobs
    /\ UNCHANGED known

(* Fault: the flag the build has looked at is taken for the last word. *)
TrustsTheBuild ==
    /\ Executing("persist")
    /\ pc' = "complete"
    /\ KeepsJobs
    /\ KeepsIndexes
    /\ UNCHANGED <<known, faults>>

(* mark_corpus_bm25_build_job_stage(persisting_artifact) refreshes the     *)
(* job: the second and last look at the flag.                              *)
Persist ==
    /\ Executing("persist")
    /\ \/ /\ known' = cancel_requested[cur]
          /\ pc' = IF known' THEN "cancel_at_persist" ELSE "complete"
          /\ UNCHANGED faults
       \/ /\ DatabaseError
          /\ pc' = "mark_failed"
          /\ UNCHANGED known
    /\ KeepsJobs
    /\ KeepsIndexes

(* The last statement of the execution: an error in the try leads to       *)
(* mark_failed, one in a handler or before the try ends the worker.        *)
Complete ==
    /\ Executing("complete")
    /\ commit_and_refresh(mark_corpus_bm25_build_job_completed(cur),
                          "loop", "mark_failed")

Cancel(label, error_label) ==
    /\ Executing(label)
    /\ commit_and_refresh(mark_corpus_bm25_build_job_cancelled(cur),
                          "loop", error_label)

Fail ==
    /\ Executing("mark_failed")
    /\ commit_and_refresh(mark_corpus_bm25_build_job_failed(cur, TRUE),
                          "loop", "dead")

Execute ==
    \/ Start
    \/ Validate
    \/ Reject
    \/ CreateIndex
    \/ LinkIndex
    \/ MarkBuilding
    \/ Build
    \/ MarkBuilt
    \/ Undo("undo_failed", "failed", "mark_failed")
    \/ Undo("undo_cancelled", "cancelled", "mark_cancelled")
    \/ Persist
    \/ Complete
    \/ Cancel("cancel_at_persist", "mark_failed")
    \/ Cancel("mark_cancelled", "dead")
    \/ Fail

-----------------------------------------------------------------------------
(* The application process. *)

(* What a process that ends forgets: requests in flight included. *)
Halt ==
    /\ app' = "down"
    /\ pc' = "down"
    /\ cur' = NoJob
    /\ known' = FALSE
    /\ wake_event' = FALSE
    /\ unnotified' = {}
    /\ pending_cancel' = [j \in Jobs |-> "none"]
    /\ KeepsJobs
    /\ KeepsIndexes

Crash ==
    /\ app # "down"
    /\ stops < MaxStops
    /\ stops' = stops + 1
    /\ Halt
    /\ UNCHANGED faults

(* The server stops accepting requests and waits for those in flight; then *)
(* stop() waits for the worker to finish its job.                          *)
Shutdown ==
    /\ app = "up"
    /\ stops < MaxStops
    /\ unnotified = {}
    /\ \A j \in Jobs : pending_cancel[j] = "none"
    /\ stops' = stops + 1
    /\ app' = "stopping"
    /\ wake_event' = TRUE
    /\ UNCHANGED <<jobVars, index_status, workerVars, unnotified,
                   pending_cancel, faults>>

Exit ==
    /\ app = "stopping"
    /\ pc \in {"stopped", "dead"}
    /\ Halt
    /\ UNCHANGED <<stops, faults>>

(* Fault: the coordinator starts before the recovery. *)
RestartsWithoutRecovery ==
    /\ app = "down"
    /\ app' = "up"
    /\ pc' = "loop"
    /\ UNCHANGED <<jobVars, index_status, cur, known, requestVars, stops, faults>>

Restart ==
    /\ app = "down"
    /\ app' = "starting"
    /\ pc' = "recover"
    /\ UNCHANGED <<jobVars, index_status, cur, known, requestVars, stops, faults>>

(* An exception in the lifespan startup ends the process. *)
StartupFails ==
    /\ pc \in RecoveryLabels
    /\ DatabaseError
    /\ Halt
    /\ UNCHANGED stops

(* The startup fails the running rows, their indexes first.                *)
RecoverNext ==
    /\ pc = "recover"
    /\ \/ \E j \in Jobs :
             /\ job_status[j] = "running"
             /\ cur' = j
             /\ pc' = IF j \in linked THEN "recover_index" ELSE "recover_job"
             /\ UNCHANGED app
       \/ /\ \A j \in Jobs : job_status[j] # "running"
          /\ app' = "up"
          /\ pc' = "loop"
          /\ UNCHANGED cur
    /\ UNCHANGED <<jobVars, index_status, known, requestVars, stops, faults>>

RecoverIndex ==
    /\ pc = "recover_index"
    /\ \/ _compensate_corpus_bm25_index_build(cur, "failed")
       \/ /\ index_status[cur] \notin CompensableStatuses("failed")
          /\ KeepsIndexes   \* the ValueError is dropped
    /\ pc' = "recover_job"
    /\ UNCHANGED <<jobVars, cur, known, requestVars, envVars, faults>>

RecoverJob ==
    /\ pc = "recover_job"
    /\ mark_corpus_bm25_build_job_failed(cur, TRUE)
    /\ pc' = "recover"
    /\ cur' = NoJob
    /\ UNCHANGED <<index_status, known, requestVars, envVars, faults>>

Coordinator ==
    \/ LoopTop
    \/ claim_next_corpus_bm25_build_job
    \/ ProcessReturns
    \/ WaitEnds
    \/ Execute
    \/ RecoverNext
    \/ RecoverIndex
    \/ RecoverJob

Requests ==
    \E j \in Jobs : \/ queue_corpus_bm25_build_job(j)
                    \/ \E old \in Jobs : retry_corpus_bm25_build_job(old, j)
                    \/ Notify(j)
                    \/ CancelReads(j)
                    \/ CancelCommits(j)

Process == Crash \/ Shutdown \/ Exit \/ Restart \/ StartupFails

(* Every job has ended, or has a name that is not available: nothing is    *)
(* left to do.                                                             *)
NothingLeft ==
    /\ pc \in {"idle_wait", "dead"}
    /\ \A j \in Jobs : job_status[j] = "absent" => ~NameAvailable(artifact_name[j])
    /\ \A j \in Jobs : job_status[j] = "queued" => pc = "dead"
    /\ UNCHANGED vars

Next == Coordinator \/ Requests \/ Process \/ NothingLeft

Spec == Init /\ [][Next]_vars

(* The event loop resumes the worker and the requests; the container is    *)
(* restarted.                                                              *)
Fairness ==
    /\ WF_vars(Coordinator)
    /\ \A j \in Jobs : WF_vars(Notify(j))
    /\ WF_vars(Exit)
    /\ WF_vars(Restart)

FairSpec == Spec /\ Fairness

-----------------------------------------------------------------------------
(* Properties. *)

Active(j)   == job_status[j] \in {"queued", "running"}
Terminal(j) == job_status[j] \in TERMINAL_CORPUS_BM25_BUILD_JOB_STATUSES

(* No request, crash or recovery lets a second job run: while the worker   *)
(* executes, only its own row can be running, and the recovery, which      *)
(* cannot read a second row after the rollback of its first, never meets   *)
(* two.                                                                    *)
OneJobRuns ==
    /\ \A j, k \in Jobs :
           job_status[j] = "running" /\ job_status[k] = "running" => j = k
    /\ pc \in ExecuteLabels =>
           \A j \in Jobs : job_status[j] = "running" => j = cur

(* A completed job points to its index, and the index is built: no error,  *)
(* cancellation or restart takes it away again.                            *)
CompletedJobsServeAnIndex ==
    \A j \in Jobs : job_status[j] = "completed" =>
        j \in linked /\ index_status[j] = "built"

(* Without database errors, whatever raised, stopped or crashed, a failed  *)
(* job leaves no artifact that simulations could load; all it may leave is *)
(* the empty row of an index that was never linked.                        *)
FailedJobsLeaveNoArtifact ==
    \A j \in Jobs : job_status[j] = "failed" /\ faults = 0 =>
        \/ index_status[j] \in {"absent", "failed", "cancelled"}
        \/ index_status[j] = "created" /\ j \notin linked

(* Queue requests never reserve one name twice, although a late cancel may *)
(* release the name of a job that is still executed.                       *)
ReservedNamesAreExclusive ==
    \A j, k \in Jobs :
        Active(j) /\ Active(k) /\ artifact_name[j] = artifact_name[k] => j = k

(* A cancellation accepted before the worker loads its row for the last    *)
(* time, in Persist, ends the job as cancelled or failed.                  *)
CancellationsEndJobs ==
    \A j \in Jobs :
        /\ pc \in ExecuteLabels \ {"complete"}
        /\ cur = j
        /\ job_status[j] = "running"
        /\ cancel_requested[j]
        ~> job_status[j] \in {"failed", "cancelled"} \/ pc = "dead"

(* Every queued job ends, across lost wakes and restarts, unless an error  *)
(* killed the worker of a process that keeps running.                      *)
QueueDrains ==
    \A j \in Jobs : job_status[j] = "queued" ~> (Terminal(j) \/ pc = "dead")
=============================================================================

--------------------------- MODULE FullPipeProofs ---------------------------
(***************************************************************************)
(* Proofs about the full corpus index pipe and the BM25 build queue, for   *)
(* every number of jobs, stops and database errors.  First the queue on    *)
(* its own: one job runs, completed jobs serve an index, failed ones leave *)
(* none.  Then the pipes beside it, which queue, cancel and fail its jobs  *)
(* and delete their indexes: a pipe that completed keeps what it serves,   *)
(* and one that was rolled back has left nothing.                          *)
(***************************************************************************)
EXTENDS FullPipe, TLAPS

-----------------------------------------------------------------------------
(* The BM25 queue. *)

(* Awaits of a worker that executes nothing. *)
IdleLabels == {"loop", "claim", "nothing_claimed", "idle_wait", "stopped"}

(* Awaits at which the job under execution, or recovery, has no outcome of *)
(* the worker yet; a late cancel may have overwritten its status.          *)
UndecidedLabels ==
    (ExecuteLabels \ {"mark_failed"}) \cup {"recover_index", "recover_job"}

LabelFacts ==
    /\ pc \in IdleLabels => \A j \in Jobs : job_status[j] # "running"
    /\ pc \in UndecidedLabels => job_status[cur] \in {"running", "cancelled"}

(* What holds of the jobs, whoever else writes their indexes: LabelFacts   *)
(* says why a claim meets no running row.                                  *)
JobsInv ==
    /\ TypeOK
    /\ LabelFacts
    /\ OneJobRuns
    /\ ReservedNamesAreExclusive

(* What holds of the indexes as long as only the worker writes them.       *)
ServedInv ==
    /\ pc \in {"persist", "complete"} => index_status[cur] = "built"
    /\ CompletedJobsServeAnIndex

(* The inductive invariant of the queue on its own. *)
IInv == JobsInv /\ ServedInv

(* A job has ended, and the worker does at most fail it once more.         *)
Working(j) == pc \in ExecuteLabels \cup {"recover_index", "recover_job"} /\ cur = j
Settled(j) == Terminal(j) /\ (Working(j) => pc = "mark_failed")

(* What everyone else may rely on: a step of the queue writes the index of *)
(* the job it works on, before that job has settled, inserts it in one     *)
(* place and deletes none.                                                 *)
JobStep ==
    /\ linked \subseteq linked'
    /\ \A j \in Jobs :
          \/ index_status'[j] = index_status[j]
          \/ /\ pc \in UndecidedLabels /\ cur = j
             /\ index_status'[j] # "absent"
             /\ index_status[j] = "absent" => pc = "create"
    /\ \A j \in Jobs : Settled(j) => Settled(j)'

Kept == JobsInv' /\ JobStep /\ (ServedInv => ServedInv')

LEMMA InitEstablishes == Init => IInv
<1> SUFFICES ASSUME Init PROVE IInv
  OBVIOUS
<1>1. TypeOK
  <2>1. JobsOK
    BY DEF Init, JobsOK
  <2>2. WorkerOK
    BY DEF Init, WorkerOK, WorkerLabels, RecoveryLabels, ExecuteLabels
  <2>3. SurroundingsOK
    <3>1. stops \in 0..MaxStops /\ faults \in 0..MaxFaults
      BY LimitsAssumption DEF Init
    <3> QED BY <3>1 DEF Init, SurroundingsOK
  <2> QED BY <2>1, <2>2, <2>3 DEF TypeOK
<1>2. LabelFacts /\ OneJobRuns /\ CompletedJobsServeAnIndex /\ ReservedNamesAreExclusive
  BY DEF Init, LabelFacts, IdleLabels, UndecidedLabels, ExecuteLabels, OneJobRuns,
     CompletedJobsServeAnIndex, ReservedNamesAreExclusive, Active
<1>3. ServedInv
  BY <1>2 DEF ServedInv, Init
<1> QED BY <1>1, <1>2, <1>3 DEF IInv, JobsInv

(* The queue requests and the notifications. *)
LEMMA RequestsPreserve == JobsInv /\ Requests => Kept
<1> SUFFICES ASSUME JobsInv, NEW j \in Jobs,
                    \/ queue_corpus_bm25_build_job(j)
                    \/ Notify(j)
                    \/ CancelReads(j)
                    \/ CancelCommits(j)
             PROVE  Kept
  BY DEF Requests, retry_corpus_bm25_build_job
<1>1. CASE queue_corpus_bm25_build_job(j)
  <2>1. TypeOK'
    BY <1>1 DEF JobsInv, TypeOK, JobsOK, WorkerOK, SurroundingsOK, queue_corpus_bm25_build_job,
       workerVars, envVars, CORPUS_BM25_BUILD_JOB_STATUSES
  <2>2. LabelFacts' /\ OneJobRuns'
    BY <1>1 DEF JobsInv, TypeOK, JobsOK, WorkerOK, queue_corpus_bm25_build_job,
       workerVars, LabelFacts, UndecidedLabels, OneJobRuns
  <2>3. ReservedNamesAreExclusive'
    BY <1>1 DEF JobsInv, TypeOK, JobsOK, queue_corpus_bm25_build_job, ReservedNamesAreExclusive,
       Active, NameAvailable, has_active_corpus_bm25_build_job_name
  <2>4. /\ UNCHANGED <<pc, cur, linked, index_status>>
        /\ \A k \in Jobs : job_status'[k] \in {"completed", "failed", "cancelled"}
               <=> job_status[k] \in {"completed", "failed", "cancelled"}
        /\ \A k \in Jobs : job_status'[k] = "completed" => job_status[k] = "completed"
    BY <1>1 DEF JobsInv, TypeOK, JobsOK, queue_corpus_bm25_build_job, workerVars
  <2>5. JobStep /\ (ServedInv => ServedInv')
    BY <2>4 DEF JobStep, Settled, Working, Terminal, ServedInv,
       CompletedJobsServeAnIndex, TERMINAL_CORPUS_BM25_BUILD_JOB_STATUSES
  <2> QED BY <2>1, <2>2, <2>3, <2>5 DEF JobsInv, Kept
<1>2. CASE Notify(j) \/ CancelReads(j)
  <2>1. UNCHANGED <<jobVars, index_status, workerVars, envVars, faults>>
    BY <1>2 DEF Notify, CancelReads
  <2>2. SurroundingsOK'
    BY <1>2 DEF JobsInv, TypeOK, SurroundingsOK, Notify, CancelReads, envVars
  <2>3. JobsInv'
    BY <2>1, <2>2 DEF JobsInv, TypeOK, JobsOK, WorkerOK, jobVars, workerVars, envVars,
       LabelFacts, OneJobRuns, ReservedNamesAreExclusive, Active
  <2>4. JobStep /\ (ServedInv => ServedInv')
    BY <2>1 DEF JobStep, Settled, Working, Terminal, ServedInv,
       CompletedJobsServeAnIndex, jobVars, workerVars
  <2> QED BY <2>3, <2>4 DEF Kept
<1>3. CASE CancelCommits(j)
  <2>1. TypeOK'
    BY <1>3 DEF JobsInv, TypeOK, JobsOK, WorkerOK, SurroundingsOK, CancelCommits, workerVars,
       envVars, CORPUS_BM25_BUILD_JOB_STATUSES, TERMINAL_CORPUS_BM25_BUILD_JOB_STATUSES
  <2>2. \A k \in Jobs : job_status'[k] \in {job_status[k], "cancelled"}
    BY <1>3 DEF JobsInv, TypeOK, JobsOK, CancelCommits
  <2>3. UNCHANGED <<pc, cur, artifact_name, linked, index_status>>
    BY <1>3 DEF CancelCommits, workerVars
  <2>4. pc \in UndecidedLabels => cur \in Jobs
    BY DEF JobsInv, TypeOK, WorkerOK, UndecidedLabels
  <2>5. LabelFacts' /\ OneJobRuns'
    BY <2>2, <2>3, <2>4 DEF JobsInv, LabelFacts, OneJobRuns
  <2>6. ReservedNamesAreExclusive'
    BY <2>2, <2>3 DEF JobsInv, ReservedNamesAreExclusive, Active
  <2>7. JobStep /\ (ServedInv => ServedInv')
    BY <2>2, <2>3 DEF JobStep, Settled, Working, Terminal, ServedInv,
       CompletedJobsServeAnIndex, TERMINAL_CORPUS_BM25_BUILD_JOB_STATUSES
  <2> QED BY <2>1, <2>5, <2>6, <2>7 DEF JobsInv, Kept
<1> QED BY <1>1, <1>2, <1>3

(* A database error is counted and the bound kept. *)
LEMMA FaultsBounded ==
    ASSUME TypeOK, UNCHANGED faults \/ DatabaseError
    PROVE  faults' \in 0..MaxFaults
BY LimitsAssumption DEF TypeOK, SurroundingsOK, DatabaseError

(* A step of the execution that leaves the statuses of all jobs alone and  *)
(* writes, if anything, the link or the index of its own job.              *)
LEMMA WorkPreserves ==
    ASSUME JobsInv, pc \in UndecidedLabels, pc \in ExecuteLabels,
           UNCHANGED <<job_status, cancel_requested, artifact_name>>,
           UNCHANGED <<cur, requestVars, envVars>>,
           linked \subseteq linked', linked' \subseteq linked \cup {cur},
           NEW s \in CORPUS_BM25_INDEX_STATUSES,
           index_status' \in {index_status, [index_status EXCEPT ![cur] = s]},
           UNCHANGED index_status \/ index_status[cur] # "absent" \/ pc = "create",
           known' \in BOOLEAN,
           UNCHANGED faults \/ DatabaseError,
           pc' \in ExecuteLabels \cup {"dead"},
           ServedInv /\ pc' \in {"persist", "complete"} => index_status'[cur] = "built"
    PROVE  Kept
<1>1. cur \in Jobs /\ job_status[cur] \in {"running", "cancelled"}
  BY DEF JobsInv, TypeOK, WorkerOK, LabelFacts
<1>2. TypeOK'
  <2>1. JobsOK'
    BY <1>1 DEF JobsInv, TypeOK, JobsOK
  <2>2. WorkerOK'
    <3>1. pc \notin RecoveryLabels /\ pc # "down"
      BY DEF ExecuteLabels, RecoveryLabels
    <3>2. pc' \notin RecoveryLabels /\ pc' # "down"
      BY DEF ExecuteLabels, RecoveryLabels
    <3>3. pc' \in WorkerLabels
      BY DEF WorkerLabels
    <3> QED BY <1>1, <3>1, <3>2, <3>3 DEF JobsInv, TypeOK, WorkerOK, envVars
  <2>3. SurroundingsOK'
    BY FaultsBounded DEF JobsInv, TypeOK, SurroundingsOK, requestVars, envVars
  <2> QED BY <2>1, <2>2, <2>3 DEF TypeOK
<1>3. LabelFacts'
  <2>1. pc' \notin IdleLabels
    BY DEF IdleLabels, ExecuteLabels
  <2> QED BY <1>1, <2>1 DEF LabelFacts
<1>4. OneJobRuns'
  BY DEF JobsInv, OneJobRuns
<1>5. ServedInv => ServedInv'
  <2> SUFFICES ASSUME ServedInv, NEW j \in Jobs, job_status'[j] = "completed"
               PROVE  j \in linked' /\ index_status'[j] = "built"
    BY DEF CompletedJobsServeAnIndex, ServedInv
  <2>1. j # cur
    BY <1>1
  <2>2. index_status'[j] = index_status[j]
    BY <1>1, <2>1 DEF JobsInv, TypeOK, JobsOK
  <2> QED BY <2>2 DEF ServedInv, CompletedJobsServeAnIndex
<1>6. ReservedNamesAreExclusive'
  BY DEF JobsInv, ReservedNamesAreExclusive, Active
<1>7. JobStep
  <2>1. \A j \in Jobs : index_status'[j] \in {index_status[j], s}
                        /\ (j # cur => index_status'[j] = index_status[j])
    BY <1>1 DEF JobsInv, TypeOK, JobsOK
  <2>2. s # "absent"
    BY DEF CORPUS_BM25_INDEX_STATUSES
  <2>3. ~Settled(cur)
    BY <1>1 DEF Settled, Working, UndecidedLabels, ExecuteLabels
  <2>4. \A j \in Jobs : Settled(j) => Settled(j)'
    BY <2>3 DEF Settled, Working, Terminal
  <2> QED BY <2>1, <2>2, <2>4 DEF JobStep
<1> QED BY <1>2, <1>3, <1>4, <1>5, <1>6, <1>7 DEF JobsInv, Kept

(* A step of the execution that writes the outcome of its job, or fails to. *)
LEMMA OutcomePreserves ==
    ASSUME JobsInv, pc \in ExecuteLabels,
           UNCHANGED <<index_status, artifact_name, known>>,
           UNCHANGED <<cur, requestVars, envVars>>,
           NEW t \in TERMINAL_CORPUS_BM25_BUILD_JOB_STATUSES,
           job_status' \in {job_status, [job_status EXCEPT ![cur] = t]},
           cancel_requested' \in [Jobs -> BOOLEAN],
           linked \subseteq linked', linked' \subseteq linked \cup {cur},
           t = "completed" => /\ pc = "complete"
                              /\ job_status' = job_status \/ cur \in linked',
           UNCHANGED faults \/ DatabaseError,
           pc' \in {"loop", "dead", "mark_failed"},
           pc' = "loop" => job_status' = [job_status EXCEPT ![cur] = t]
    PROVE  Kept
<1>1. cur \in Jobs
  BY DEF JobsInv, TypeOK, WorkerOK
<1>2. job_status \in [Jobs -> {"absent"} \cup CORPUS_BM25_BUILD_JOB_STATUSES]
  BY DEF JobsInv, TypeOK, JobsOK
<1>3. t \notin {"queued", "running", "absent"} /\ t \in CORPUS_BM25_BUILD_JOB_STATUSES
  BY DEF TERMINAL_CORPUS_BM25_BUILD_JOB_STATUSES, CORPUS_BM25_BUILD_JOB_STATUSES
<1>4. \A j \in Jobs : j # cur => job_status'[j] = job_status[j]
  BY <1>1, <1>2
<1>5. job_status'[cur] \in {job_status[cur], t}
  BY <1>1, <1>2
<1>6. TypeOK'
  <2>1. JobsOK'
    BY <1>1, <1>2, <1>3 DEF JobsInv, TypeOK, JobsOK
  <2>2. WorkerOK'
    <3>1. pc \notin RecoveryLabels /\ pc # "down"
      BY DEF ExecuteLabels, RecoveryLabels
    <3>2. pc' \notin RecoveryLabels /\ pc' # "down"
      BY DEF RecoveryLabels
    <3>3. pc' \in WorkerLabels
      BY DEF WorkerLabels, ExecuteLabels
    <3> QED BY <1>1, <3>1, <3>2, <3>3 DEF JobsInv, TypeOK, WorkerOK, envVars
  <2>3. SurroundingsOK'
    BY FaultsBounded DEF JobsInv, TypeOK, SurroundingsOK, requestVars, envVars
  <2> QED BY <2>1, <2>2, <2>3 DEF TypeOK
<1>7. \A j \in Jobs : job_status[j] = "running" => j = cur
  BY DEF JobsInv, OneJobRuns
<1>8. LabelFacts'
  <2>1. pc' \notin UndecidedLabels /\ pc' \notin {"persist", "complete"}
    BY DEF UndecidedLabels, ExecuteLabels
  <2>2. pc' \in IdleLabels => pc' = "loop"
    BY DEF IdleLabels
  <2>3. pc' = "loop" => \A j \in Jobs : job_status'[j] # "running"
    BY <1>1, <1>2, <1>3, <1>4, <1>7
  <2> QED BY <2>1, <2>2, <2>3 DEF LabelFacts
<1>9. OneJobRuns'
  BY <1>3, <1>4, <1>5, <1>7 DEF OneJobRuns
<1>10. ServedInv => ServedInv'
  BY <1>3, <1>4, <1>5 DEF ServedInv, CompletedJobsServeAnIndex
<1>11. ReservedNamesAreExclusive'
  BY <1>3, <1>4, <1>5 DEF JobsInv, ReservedNamesAreExclusive, Active
<1>12. JobStep
  <2>1. \A j \in Jobs : Terminal(j) => Terminal(j)'
    BY <1>4, <1>5 DEF Terminal
  <2>2. \A j \in Jobs : Working(j)' => Working(j) /\ pc' = "mark_failed"
    BY DEF Working, ExecuteLabels
  <2>3. \A j \in Jobs : Settled(j) => Settled(j)'
    BY <2>1, <2>2 DEF Settled
  <2> QED BY <2>3 DEF JobStep
<1> QED BY <1>6, <1>8, <1>9, <1>10, <1>11, <1>12 DEF JobsInv, Kept

(* The steps of the execution before its outcome. *)
LEMMA StatementsPreserve ==
    ASSUME JobsInv,
           \/ Start \/ Validate \/ CreateIndex \/ LinkIndex \/ MarkBuilding
           \/ Build \/ MarkBuilt \/ Persist
           \/ Undo("undo_failed", "failed", "mark_failed")
           \/ Undo("undo_cancelled", "cancelled", "mark_cancelled")
    PROVE  Kept
<1> USE DEF Executing
<1> DEFINE Here(label) == /\ pc = label
                          /\ UNCHANGED <<cur, requestVars, envVars>>
<1>1. \A label \in UndecidedLabels \cap ExecuteLabels :
          Here(label) => pc \in UndecidedLabels /\ pc \in ExecuteLabels
  OBVIOUS
<1>2. /\ {"start", "validate", "create", "link", "mark_building", "build",
          "mark_built", "persist", "undo_failed", "undo_cancelled"}
             \subseteq UndecidedLabels \cap ExecuteLabels
      /\ {"reject", "create", "link", "mark_building", "build", "mark_built",
          "undo_failed", "undo_cancelled", "persist", "complete",
          "cancel_at_persist", "mark_cancelled", "mark_failed", "validate"}
             \subseteq ExecuteLabels
  BY DEF UndecidedLabels, ExecuteLabels
<1>3. {"created", "building", "built", "failed", "cancelled"}
          = CORPUS_BM25_INDEX_STATUSES
  BY DEF CORPUS_BM25_INDEX_STATUSES
<1>4. /\ cur \in Jobs \/ pc \notin ExecuteLabels
      /\ known \in BOOLEAN
      /\ cancel_requested \in [Jobs -> BOOLEAN]
      /\ index_status \in [Jobs -> {"absent"} \cup CORPUS_BM25_INDEX_STATUSES]
  BY DEF JobsInv, TypeOK, JobsOK, WorkerOK
<1>5. CASE Start \/ Validate
  <2>1. Here("start") \/ Here("validate")
    BY <1>5 DEF Start, Validate
  <2>2. UNCHANGED <<jobVars, index_status>>
    BY <1>5 DEF Start, Validate, Continues, KeepsJobs, KeepsIndexes
  <2>3. UNCHANGED faults \/ DatabaseError
    BY <1>5 DEF Start, Validate, WorkerDies
  <2>4. pc' \in {"mark_cancelled", "validate", "create", "reject", "dead"}
    BY <1>5 DEF Start, Validate, Continues, WorkerDies
  <2>5. known' \in BOOLEAN
    BY <1>1, <1>2, <1>4, <1>5, <2>1 DEF Start, Validate
  <2> QED BY <1>1, <1>2, <1>3, <2>1, <2>2, <2>3, <2>4, <2>5, WorkPreserves DEF jobVars
<1>6. CASE CreateIndex
  <2>1. index_status' \in {index_status, [index_status EXCEPT ![cur] = "created"]}
    BY <1>6 DEF CreateIndex, KeepsIndexes
  <2>2. pc' \in {"link", "mark_failed"} /\ (UNCHANGED faults \/ DatabaseError)
        /\ pc = "create"
    BY <1>6 DEF CreateIndex
  <2>3. Here("create") /\ UNCHANGED <<jobVars, known>>
    BY <1>6 DEF CreateIndex, KeepsJobs
  <2> QED BY <1>1, <1>2, <1>3, <1>4, <2>1, <2>2, <2>3, WorkPreserves DEF jobVars
<1>7. CASE LinkIndex
  <2>1. linked \subseteq linked' /\ linked' \subseteq linked \cup {cur}
    BY <1>7 DEF LinkIndex
  <2>2. pc' \in {"mark_building", "undo_failed"} /\ (UNCHANGED faults \/ DatabaseError)
    BY <1>7 DEF LinkIndex
  <2>3. Here("link") /\ UNCHANGED <<job_status, cancel_requested, artifact_name, index_status>>
    BY <1>7 DEF LinkIndex, KeepsIndexes
  <2>4. known' \in BOOLEAN
    BY <1>1, <1>2, <1>4, <1>7, <2>3 DEF LinkIndex
  <2> QED BY <1>1, <1>2, <1>3, <2>1, <2>2, <2>3, <2>4, WorkPreserves
<1>8. CASE MarkBuilding
  <2>1. /\ index_status' \in {index_status, [index_status EXCEPT ![cur] = "building"]}
        /\ UNCHANGED index_status \/ index_status[cur] # "absent"
    BY <1>8 DEF MarkBuilding, KeepsIndexes, _conditional_lifecycle_update
  <2>2. pc' \in {"build", "undo_failed"} /\ (UNCHANGED faults \/ DatabaseError)
    BY <1>8 DEF MarkBuilding
  <2>3. Here("mark_building") /\ UNCHANGED <<jobVars, known>>
    BY <1>8 DEF MarkBuilding, KeepsJobs
  <2> QED BY <1>1, <1>2, <1>3, <1>4, <2>1, <2>2, <2>3, WorkPreserves DEF jobVars
<1>9. CASE Build
  <2>1. pc' \in {"undo_failed", "undo_cancelled", "mark_built"} /\ UNCHANGED faults
    BY <1>9 DEF Build, Continues
  <2>2. Here("build") /\ UNCHANGED <<jobVars, index_status, known>>
    BY <1>9 DEF Build, Continues, KeepsJobs, KeepsIndexes
  <2> QED BY <1>1, <1>2, <1>3, <1>4, <2>1, <2>2, WorkPreserves DEF jobVars
<1>10. CASE MarkBuilt
  <2>1. /\ index_status' \in {index_status, [index_status EXCEPT ![cur] = "built"]}
        /\ UNCHANGED index_status \/ index_status[cur] # "absent"
    BY <1>10 DEF MarkBuilt, KeepsIndexes, _conditional_lifecycle_update
  <2>2. pc' \in {"persist", "undo_failed"} /\ (UNCHANGED faults \/ DatabaseError)
    BY <1>10 DEF MarkBuilt
  <2>3. Here("mark_built") /\ UNCHANGED <<jobVars, known>>
    BY <1>10 DEF MarkBuilt, KeepsJobs
  <2>4. pc' = "persist" => index_status'[cur] = "built"
    BY <1>1, <1>2, <1>4, <1>10, <2>3 DEF MarkBuilt, _conditional_lifecycle_update
  <2> QED BY <1>1, <1>2, <1>3, <1>4, <2>1, <2>2, <2>3, <2>4, WorkPreserves DEF jobVars
<1>11. CASE Persist
  <2>1. pc' \in {"cancel_at_persist", "complete", "mark_failed"}
        /\ (UNCHANGED faults \/ DatabaseError)
    BY <1>11 DEF Persist
  <2>2. Here("persist") /\ UNCHANGED <<jobVars, index_status>>
    BY <1>11 DEF Persist, KeepsJobs, KeepsIndexes
  <2>3. known' \in BOOLEAN
    BY <1>1, <1>2, <1>4, <1>11, <2>2 DEF Persist
  <2>4. ServedInv => index_status[cur] = "built"
    BY <2>2 DEF ServedInv
  <2> QED BY <1>1, <1>2, <1>3, <2>1, <2>2, <2>3, <2>4, WorkPreserves DEF jobVars
<1>12. ASSUME NEW label \in {"undo_failed", "undo_cancelled"},
              NEW next_status \in {"failed", "cancelled"},
              NEW next_label \in {"mark_failed", "mark_cancelled"},
              Undo(label, next_status, next_label)
       PROVE  Kept
  <2>1. /\ index_status' \in {index_status, [index_status EXCEPT ![cur] = next_status]}
        /\ UNCHANGED index_status \/ index_status[cur] # "absent"
    BY <1>12 DEF Undo, KeepsIndexes, _compensate_corpus_bm25_index_build,
       _conditional_lifecycle_update, CompensableStatuses
  <2>2. pc' = next_label /\ (UNCHANGED faults \/ DatabaseError)
    BY <1>12 DEF Undo
  <2>3. Here(label) /\ UNCHANGED <<jobVars, known>>
    BY <1>12 DEF Undo, KeepsJobs
  <2> QED BY <1>1, <1>2, <1>3, <1>4, <2>1, <2>2, <2>3, WorkPreserves DEF jobVars
<1> QED BY <1>5, <1>6, <1>7, <1>8, <1>9, <1>10, <1>11, <1>12

(* The steps that write the outcome of the job. *)
LEMMA OutcomesPreserve ==
    ASSUME JobsInv,
           \/ Reject \/ Complete \/ Fail
           \/ Cancel("cancel_at_persist", "mark_failed")
           \/ Cancel("mark_cancelled", "dead")
    PROVE  Kept
<1> USE DEF Executing, commit_and_refresh, KeepsJobs, KeepsIndexes, jobVars
<1>1. cancel_requested \in [Jobs -> BOOLEAN]
  BY DEF JobsInv, TypeOK, JobsOK
<1>2. {"completed", "failed", "cancelled"} = TERMINAL_CORPUS_BM25_BUILD_JOB_STATUSES
  BY DEF TERMINAL_CORPUS_BM25_BUILD_JOB_STATUSES
<1>3. {"reject", "complete", "mark_failed", "cancel_at_persist", "mark_cancelled"}
          \subseteq ExecuteLabels
  BY DEF ExecuteLabels
<1>4. CASE Reject \/ Fail
  <2>1. /\ job_status' \in {job_status, [job_status EXCEPT ![cur] = "failed"]}
        /\ cancel_requested' \in [Jobs -> BOOLEAN]
        /\ UNCHANGED <<linked, artifact_name>>
        /\ pc' = "loop" => job_status' = [job_status EXCEPT ![cur] = "failed"]
    BY <1>1, <1>4 DEF Reject, Fail, mark_corpus_bm25_build_job_failed
  <2>2. /\ pc \in {"reject", "mark_failed"}
        /\ UNCHANGED <<cur, requestVars, envVars>>
        /\ UNCHANGED <<index_status, known>>
        /\ pc' \in {"loop", "dead"}
        /\ UNCHANGED faults \/ DatabaseError
    BY <1>4 DEF Reject, Fail, mark_corpus_bm25_build_job_failed
  <2>3. pc \in ExecuteLabels /\ pc' \in {"loop", "dead", "mark_failed"}
    BY <1>3, <2>2
  <2>4. "failed" \in TERMINAL_CORPUS_BM25_BUILD_JOB_STATUSES
    BY <1>2
  <2>5. linked \subseteq linked' /\ linked' \subseteq linked \cup {cur}
    BY <2>1
  <2> QED BY <2>1, <2>2, <2>3, <2>4, <2>5, OutcomePreserves
<1>5. CASE Complete
  <2>1. /\ job_status' \in {job_status, [job_status EXCEPT ![cur] = "completed"]}
        /\ UNCHANGED <<cancel_requested, artifact_name>>
        /\ linked \subseteq linked' /\ linked' \subseteq linked \cup {cur}
        /\ job_status' = job_status \/ cur \in linked'
        /\ pc' = "loop" => job_status' = [job_status EXCEPT ![cur] = "completed"]
    BY <1>5 DEF Complete, mark_corpus_bm25_build_job_completed
  <2>2. /\ pc = "complete"
        /\ UNCHANGED <<cur, requestVars, envVars>>
        /\ UNCHANGED <<index_status, known>>
        /\ pc' \in {"loop", "mark_failed"}
        /\ UNCHANGED faults \/ DatabaseError
    BY <1>5 DEF Complete
  <2>3. pc \in ExecuteLabels /\ pc' \in {"loop", "dead", "mark_failed"}
    BY <1>3, <2>2
  <2>4. cancel_requested' \in [Jobs -> BOOLEAN]
    BY <1>1, <2>1
  <2>5. "completed" \in TERMINAL_CORPUS_BM25_BUILD_JOB_STATUSES
    BY <1>2
  <2> QED BY <2>1, <2>2, <2>3, <2>4, <2>5, OutcomePreserves
<1>6. ASSUME NEW label \in {"cancel_at_persist", "mark_cancelled"},
             NEW error_label \in {"mark_failed", "dead"},
             Cancel(label, error_label)
      PROVE  Kept
  <2>1. /\ job_status' \in {job_status, [job_status EXCEPT ![cur] = "cancelled"]}
        /\ cancel_requested' \in [Jobs -> BOOLEAN]
        /\ UNCHANGED <<linked, artifact_name>>
        /\ pc' = "loop" => job_status' = [job_status EXCEPT ![cur] = "cancelled"]
    BY <1>1, <1>6 DEF Cancel, mark_corpus_bm25_build_job_cancelled
  <2>2. /\ pc = label
        /\ UNCHANGED <<cur, requestVars, envVars>>
        /\ UNCHANGED <<index_status, known>>
        /\ pc' \in {"loop", error_label}
        /\ UNCHANGED faults \/ DatabaseError
    BY <1>6 DEF Cancel
  <2> QED BY <1>2, <1>3, <2>1, <2>2, OutcomePreserves
<1> QED BY <1>4, <1>5, <1>6

LEMMA ExecutePreserves == JobsInv /\ Execute => Kept
BY StatementsPreserve, OutcomesPreserve DEF Execute

(* A step of the loop or of the recovery that writes no row. *)
LEMMA LoopPreserves ==
    ASSUME JobsInv,
           UNCHANGED <<jobVars, index_status>>,
           UNCHANGED <<stops, unnotified, pending_cancel>>,
           wake_event' \in BOOLEAN, known' \in BOOLEAN,
           UNCHANGED faults \/ DatabaseError,
           cur' \in {NoJob} \cup Jobs,
           \/ UNCHANGED app /\ app \in {"up", "stopping"} /\ pc' \in IdleLabels \cup {"dead"}
           \/ app' = "up" /\ pc' \in IdleLabels
           \/ /\ app' = "starting"
              /\ \/ pc' = "recover"
                 \/ pc' \in {"recover_index", "recover_job"} /\ job_status[cur'] = "running"
                    /\ cur' \in Jobs,
           pc' \in IdleLabels => \A j \in Jobs : job_status[j] # "running"
    PROVE  Kept
<1>1. TypeOK'
  <2>1. JobsOK'
    BY DEF JobsInv, TypeOK, JobsOK, jobVars
  <2>2. WorkerOK'
    BY DEF JobsInv, TypeOK, WorkerOK, IdleLabels, WorkerLabels, RecoveryLabels, ExecuteLabels
  <2>3. SurroundingsOK'
    BY FaultsBounded DEF JobsInv, TypeOK, SurroundingsOK
  <2> QED BY <2>1, <2>2, <2>3 DEF TypeOK
<1>2. LabelFacts'
  BY DEF JobsInv, LabelFacts, IdleLabels, UndecidedLabels, ExecuteLabels, jobVars
<1>3. OneJobRuns'
  BY DEF JobsInv, OneJobRuns, IdleLabels, ExecuteLabels, jobVars
<1>4. ReservedNamesAreExclusive' /\ (ServedInv => ServedInv')
  BY DEF JobsInv, ServedInv, CompletedJobsServeAnIndex, ReservedNamesAreExclusive,
     Active, jobVars, IdleLabels
<1>5. JobStep
  <2>1. \A j \in Jobs : Working(j)' => job_status[j] = "running"
    BY DEF Working, IdleLabels, ExecuteLabels
  <2> QED BY <2>1 DEF JobStep, Settled, Terminal, jobVars,
             TERMINAL_CORPUS_BM25_BUILD_JOB_STATUSES
<1> QED BY <1>1, <1>2, <1>3, <1>4, <1>5 DEF JobsInv, Kept

(* A claim makes a queued job the only running one. *)
LEMMA ClaimPreserves == JobsInv /\ claim_next_corpus_bm25_build_job => Kept
<1> SUFFICES ASSUME JobsInv, claim_next_corpus_bm25_build_job PROVE Kept
  OBVIOUS
<1>1. /\ pc = "claim"
      /\ UNCHANGED <<artifact_name, linked, index_status, known, requestVars, envVars>>
  BY DEF claim_next_corpus_bm25_build_job
<1>2. \A j \in Jobs : job_status[j] # "running"
  BY <1>1 DEF JobsInv, LabelFacts, IdleLabels
<1>3. app \in {"up", "stopping"} /\ known \in BOOLEAN /\ cur \in {NoJob} \cup Jobs
  BY <1>1 DEF JobsInv, TypeOK, WorkerOK, RecoveryLabels
<1>4. CASE UNCHANGED <<job_status, cancel_requested, cur>>
  <2>1. (pc' = "nothing_claimed" \/ pc' = "dead") /\ (UNCHANGED faults \/ DatabaseError)
    BY <1>2, <1>4 DEF claim_next_corpus_bm25_build_job, WorkerDies, ClaimableJobs,
       JobsInv, TypeOK, JobsOK
  <2>2. wake_event \in BOOLEAN
    BY DEF JobsInv, TypeOK, SurroundingsOK
  <2> QED
    BY <1>1, <1>2, <1>3, <1>4, <2>1, <2>2, LoopPreserves
       DEF jobVars, requestVars, envVars, IdleLabels
<1>5. CASE /\ cur' \in ClaimableJobs
           /\ job_status' = [job_status EXCEPT ![cur'] = "running"]
           /\ cancel_requested' = [cancel_requested EXCEPT ![cur'] = FALSE]
           /\ pc' = "start"
           /\ UNCHANGED faults
  <2>1. cur' \in Jobs /\ job_status[cur'] = "queued"
    BY <1>5 DEF ClaimableJobs
  <2>2. JobsOK'
    BY <1>1, <1>5, <2>1 DEF JobsInv, TypeOK, JobsOK, CORPUS_BM25_BUILD_JOB_STATUSES
  <2>3. WorkerOK'
    BY <1>1, <1>3, <1>5, <2>1 DEF WorkerOK, WorkerLabels, ExecuteLabels, RecoveryLabels, envVars
  <2>4. SurroundingsOK'
    BY <1>1, <1>5 DEF JobsInv, TypeOK, SurroundingsOK, requestVars, envVars
  <2>5. \A j \in Jobs : job_status'[j] = IF j = cur' THEN "running" ELSE job_status[j]
    BY <1>5, <2>1 DEF JobsInv, TypeOK, JobsOK
  <2>6. LabelFacts' /\ OneJobRuns'
    BY <1>2, <1>5, <2>1, <2>5 DEF LabelFacts, IdleLabels, OneJobRuns
  <2>7. ReservedNamesAreExclusive' /\ (ServedInv => ServedInv')
    BY <1>1, <1>5, <2>1, <2>5 DEF JobsInv, ServedInv, CompletedJobsServeAnIndex,
       ReservedNamesAreExclusive, Active
  <2>8. JobStep
    BY <1>1, <1>5, <2>1, <2>5 DEF JobStep, Settled, Working, Terminal,
       TERMINAL_CORPUS_BM25_BUILD_JOB_STATUSES
  <2> QED BY <2>2, <2>3, <2>4, <2>6, <2>7, <2>8 DEF JobsInv, TypeOK, Kept
<1> QED BY <1>4, <1>5 DEF claim_next_corpus_bm25_build_job

(* The recovery of one running row: its index, then the job itself. *)
LEMMA RecoveryPreserves == JobsInv /\ (RecoverIndex \/ RecoverJob) => Kept
<1> SUFFICES ASSUME JobsInv, RecoverIndex \/ RecoverJob PROVE Kept
  OBVIOUS
<1>1. cur \in Jobs /\ app = "starting" /\ job_status[cur] \in {"running", "cancelled"}
  BY DEF JobsInv, TypeOK, WorkerOK, RecoverIndex, RecoverJob, LabelFacts, UndecidedLabels,
     RecoveryLabels
<1>2. UNCHANGED <<known, requestVars, envVars, faults>>
  BY DEF RecoverIndex, RecoverJob
<1>3. SurroundingsOK'
  BY <1>2 DEF JobsInv, TypeOK, SurroundingsOK, requestVars, envVars
<1>4. CASE RecoverIndex
  <2>1. pc = "recover_index" /\ pc' = "recover_job" /\ UNCHANGED <<jobVars, cur>>
    BY <1>4 DEF RecoverIndex
  <2>2. /\ index_status' \in {index_status, [index_status EXCEPT ![cur] = "failed"]}
        /\ UNCHANGED index_status \/ index_status[cur] # "absent"
    BY <1>4 DEF RecoverIndex, KeepsIndexes, _compensate_corpus_bm25_index_build,
       _conditional_lifecycle_update, CompensableStatuses
  <2>3. JobsOK'
    BY <1>1, <2>1, <2>2 DEF JobsInv, TypeOK, JobsOK, jobVars, CORPUS_BM25_INDEX_STATUSES
  <2>4. WorkerOK'
    BY <1>1, <1>2, <2>1 DEF JobsInv, TypeOK, WorkerOK, envVars, ExecuteLabels, RecoveryLabels
  <2>5. ServedInv => ServedInv'
    BY <1>1, <2>1, <2>2 DEF JobsInv, TypeOK, JobsOK, ServedInv,
       CompletedJobsServeAnIndex, jobVars
  <2>6. LabelFacts' /\ OneJobRuns' /\ ReservedNamesAreExclusive'
    BY <1>1, <2>1 DEF JobsInv, LabelFacts, IdleLabels, UndecidedLabels, ExecuteLabels, OneJobRuns,
       ReservedNamesAreExclusive, Active, jobVars
  <2>7. JobStep
    <3>1. \A j \in Jobs : index_status'[j] \in {index_status[j], "failed"}
                          /\ (j # cur => index_status'[j] = index_status[j])
      BY <1>1, <2>2 DEF JobsInv, TypeOK, JobsOK
    <3>2. pc \in UndecidedLabels /\ ~Settled(cur)
      BY <2>1 DEF Settled, Working, UndecidedLabels
    <3> QED BY <1>1, <2>1, <2>2, <3>1, <3>2 DEF JobStep, Settled, Working, Terminal, jobVars
  <2> QED BY <1>3, <2>3, <2>4, <2>5, <2>6, <2>7 DEF JobsInv, TypeOK, Kept
<1>5. CASE RecoverJob
  <2>1. /\ pc = "recover_job" /\ pc' = "recover" /\ cur' = NoJob
        /\ UNCHANGED <<index_status, linked, artifact_name>>
    BY <1>5 DEF RecoverJob, mark_corpus_bm25_build_job_failed
  <2>2. \A j \in Jobs : job_status'[j] = IF j = cur THEN "failed" ELSE job_status[j]
    BY <1>1, <1>5 DEF RecoverJob, mark_corpus_bm25_build_job_failed, JobsInv, TypeOK, JobsOK
  <2>3. JobsOK'
    BY <1>1, <1>5, <2>1 DEF JobsInv, TypeOK, JobsOK, RecoverJob,
       mark_corpus_bm25_build_job_failed, CORPUS_BM25_BUILD_JOB_STATUSES,
       TERMINAL_CORPUS_BM25_BUILD_JOB_STATUSES
  <2>4. WorkerOK'
    BY <1>1, <1>2, <2>1 DEF JobsInv, TypeOK, WorkerOK, envVars, ExecuteLabels, RecoveryLabels
  <2>5. LabelFacts' /\ OneJobRuns'
    BY <2>1, <2>2 DEF JobsInv, LabelFacts, IdleLabels, UndecidedLabels, ExecuteLabels, OneJobRuns
  <2>6. ReservedNamesAreExclusive' /\ (ServedInv => ServedInv')
    BY <2>1, <2>2 DEF JobsInv, ServedInv, CompletedJobsServeAnIndex,
       ReservedNamesAreExclusive, Active
  <2>7. JobStep
    BY <1>1, <2>1, <2>2 DEF JobStep, Settled, Working, Terminal, ExecuteLabels,
       TERMINAL_CORPUS_BM25_BUILD_JOB_STATUSES
  <2> QED BY <1>3, <2>3, <2>4, <2>5, <2>6, <2>7 DEF JobsInv, TypeOK, Kept
<1> QED BY <1>4, <1>5

LEMMA CoordinatorPreserves == JobsInv /\ Coordinator => Kept
<1> SUFFICES ASSUME JobsInv, LoopTop \/ ProcessReturns \/ WaitEnds \/ RecoverNext PROVE Kept
  BY ExecutePreserves, ClaimPreserves, RecoveryPreserves DEF Coordinator
<1>1. wake_event \in BOOLEAN /\ known \in BOOLEAN /\ cur \in {NoJob} \cup Jobs
  BY DEF JobsInv, TypeOK, WorkerOK, SurroundingsOK
<1>2. CASE LoopTop \/ ProcessReturns \/ WaitEnds
  <2>1. /\ UNCHANGED <<jobVars, index_status, unnotified, pending_cancel, envVars, faults>>
        /\ wake_event' \in BOOLEAN /\ known' \in BOOLEAN /\ cur' \in {NoJob} \cup Jobs
        /\ pc \in {"loop", "nothing_claimed", "idle_wait"}
        /\ pc' \in {"stopped", "claim", "loop", "idle_wait"}
    BY <1>1, <1>2 DEF LoopTop, ProcessReturns, WaitEnds, requestVars
  <2>2. app \in {"up", "stopping"}
    BY <2>1 DEF JobsInv, TypeOK, WorkerOK, RecoveryLabels
  <2>3. \A j \in Jobs : job_status[j] # "running"
    BY <2>1 DEF JobsInv, LabelFacts, IdleLabels
  <2>4. pc' \in IdleLabels
    BY <2>1 DEF IdleLabels
  <2> QED BY <2>1, <2>2, <2>3, <2>4, LoopPreserves DEF envVars
<1>3. CASE RecoverNext
  <2>1. /\ UNCHANGED <<jobVars, index_status, known, requestVars, stops, faults>>
        /\ app = "starting"
    BY <1>3 DEF RecoverNext, JobsInv, TypeOK, WorkerOK, RecoveryLabels
  <2>2. CASE \E j \in Jobs : /\ job_status[j] = "running"
                             /\ cur' = j
                             /\ pc' = IF j \in linked THEN "recover_index" ELSE "recover_job"
                             /\ UNCHANGED app
    <3>1. /\ cur' \in Jobs /\ job_status[cur'] = "running"
          /\ pc' \in {"recover_index", "recover_job"} /\ app' = "starting"
      BY <2>1, <2>2
    <3>2. pc' \notin IdleLabels
      BY <3>1 DEF IdleLabels
    <3> QED BY <1>1, <2>1, <3>1, <3>2, LoopPreserves DEF requestVars
  <2>3. CASE /\ \A j \in Jobs : job_status[j] # "running"
             /\ app' = "up" /\ pc' = "loop" /\ UNCHANGED cur
    BY <1>1, <2>1, <2>3, LoopPreserves DEF requestVars, IdleLabels
  <2> QED BY <1>3, <2>2, <2>3 DEF RecoverNext
<1> QED BY <1>2, <1>3

(* A recovery that fails ends the process.                                 *)
Dies == Halt /\ UNCHANGED stops /\ (UNCHANGED faults \/ DatabaseError)

LEMMA ProcessPreserves == JobsInv /\ (Process \/ Dies) => Kept
<1> SUFFICES ASSUME JobsInv, Process \/ Dies PROVE Kept
  OBVIOUS
<1>1. UNCHANGED <<jobVars, index_status>>
  BY DEF Process, Crash, Shutdown, Exit, Restart, StartupFails, Dies, Halt, KeepsJobs, KeepsIndexes
<1>2. JobsOK' /\ ReservedNamesAreExclusive'
  BY <1>1 DEF JobsInv, TypeOK, JobsOK, ReservedNamesAreExclusive, Active, jobVars
<1>3. SurroundingsOK'
  <2>1. stops' \in 0..MaxStops
    BY LimitsAssumption DEF Process, Crash, Shutdown, Exit, Restart, StartupFails, Dies, JobsInv, TypeOK,
       SurroundingsOK
  <2>2. faults' \in 0..MaxFaults
    BY FaultsBounded DEF Process, Crash, Shutdown, Exit, Restart, StartupFails, Dies, JobsInv
  <2>3. /\ wake_event' \in BOOLEAN
        /\ unnotified' \subseteq Jobs
        /\ pending_cancel' \in [Jobs -> {"none", "queued", "running"}]
    BY DEF Process, Crash, Shutdown, Exit, Restart, StartupFails, Dies, Halt, JobsInv, TypeOK,
       SurroundingsOK, requestVars
  <2> QED BY <2>1, <2>2, <2>3 DEF SurroundingsOK
<1>4. CASE Shutdown
  <2>1. app = "up" /\ app' = "stopping" /\ UNCHANGED workerVars
    BY <1>4 DEF Shutdown
  <2>2. WorkerOK'
    BY <2>1 DEF JobsInv, TypeOK, WorkerOK, workerVars
  <2>3. LabelFacts' /\ OneJobRuns'
    BY <1>1, <2>1 DEF JobsInv, LabelFacts, OneJobRuns, workerVars, jobVars
  <2>4. JobStep /\ (ServedInv => ServedInv')
    BY <1>1, <2>1 DEF JobStep, Settled, Working, Terminal, ServedInv,
       CompletedJobsServeAnIndex, jobVars, workerVars
  <2> QED BY <1>2, <1>3, <2>2, <2>3, <2>4 DEF JobsInv, TypeOK, Kept
<1>5. CASE ~Shutdown
  <2>1. \/ pc' = "down" /\ app' = "down" /\ cur' = NoJob /\ known' = FALSE
        \/ pc' = "recover" /\ app' = "starting" /\ UNCHANGED <<cur, known>>
    BY <1>5 DEF Process, Crash, Exit, Restart, StartupFails, Dies, Halt
  <2>2. WorkerOK'
    BY <2>1 DEF JobsInv, TypeOK, WorkerOK, RecoveryLabels, ExecuteLabels, WorkerLabels
  <2>3. LabelFacts' /\ OneJobRuns'
    BY <1>1, <2>1 DEF JobsInv, LabelFacts, OneJobRuns, IdleLabels, UndecidedLabels, ExecuteLabels,
       jobVars
  <2>4. JobStep /\ (ServedInv => ServedInv')
    BY <1>1, <2>1 DEF JobStep, Settled, Working, Terminal, ExecuteLabels, ServedInv,
       CompletedJobsServeAnIndex, jobVars
  <2> QED BY <1>2, <1>3, <2>2, <2>3, <2>4 DEF JobsInv, TypeOK, Kept
<1> QED BY <1>4, <1>5

LEMMA StutterPreserves == JobsInv /\ UNCHANGED vars => Kept
BY DEF vars, jobVars, workerVars, requestVars, envVars, JobsInv, TypeOK, JobsOK, WorkerOK,
   SurroundingsOK, LabelFacts, OneJobRuns, ReservedNamesAreExclusive, Active, ServedInv,
   CompletedJobsServeAnIndex, Kept, JobStep, Settled, Working, Terminal

LEMMA Invariance == Spec => []IInv
<1>1. IInv /\ [Next]_vars => IInv'
  BY RequestsPreserve, CoordinatorPreserves, ProcessPreserves, StutterPreserves
     DEF Next, NothingLeft, IInv, Kept
<1> QED BY InitEstablishes, <1>1, PTL DEF Spec

(* The rows and the places of the worker, the recovery and the process     *)
(* always have their types, and agree on whether the application serves.   *)
THEOREM JobTypesHold == Spec => []TypeOK
<1>1. IInv => TypeOK
  BY DEF IInv, JobsInv
<1> QED BY Invariance, <1>1, PTL

(* However many jobs, crashes, cancellations and database errors there     *)
(* are, at most one BM25 job runs, and it is the one the worker executes.  *)
THEOREM AtMostOneJobRuns == Spec => []OneJobRuns
<1>1. IInv => OneJobRuns
  BY DEF IInv, JobsInv
<1> QED BY Invariance, <1>1, PTL

(* A completed job always points to a built index. *)
THEOREM CompletedMeansBuilt == Spec => []CompletedJobsServeAnIndex
<1>1. IInv => CompletedJobsServeAnIndex
  BY DEF IInv, ServedInv
<1> QED BY Invariance, <1>1, PTL

(* No two queued or running jobs hold the same artifact name. *)
THEOREM NamesAreReservedOnce == Spec => []ReservedNamesAreExclusive
<1>1. IInv => ReservedNamesAreExclusive
  BY DEF IInv, JobsInv
<1> QED BY Invariance, <1>1, PTL

-----------------------------------------------------------------------------
(* Artifacts. *)

(* All that the index of a failed job may be. *)
LeavesNoArtifact(j) ==
    \/ index_status[j] \in {"absent", "failed", "cancelled"}
    \/ index_status[j] = "created" /\ j \notin linked

(* What the place of the worker says about the index of its job while no  *)
(* database error has happened: linked before anything is built, built    *)
(* before it is served, and undone before the job is failed.              *)
IndexFacts ==
    /\ pc \in {"start", "validate", "reject", "create"} =>
           index_status[cur] = "absent"
    /\ pc \in {"link", "mark_building"} => index_status[cur] = "created"
    /\ pc \in {"build", "mark_built", "undo_failed", "undo_cancelled"} =>
           index_status[cur] = "building"
    /\ pc \in {"mark_building", "build", "mark_built", "recover_index"} =>
           cur \in linked
    /\ pc = "mark_failed" => index_status[cur] \in {"absent", "failed"}
    /\ pc = "recover_job" => LeavesNoArtifact(cur)

(* The inductive invariant of the artifacts, on top of IInv. *)
ArtifactsInv ==
    faults = 0 =>
        /\ \A j \in Jobs : job_status[j] \in {"absent", "queued"} =>
               index_status[j] = "absent"
        /\ \A j \in Jobs : j \notin linked =>
               index_status[j] \in {"absent", "created"}
        /\ \A j \in Jobs : job_status[j] = "failed" => LeavesNoArtifact(j)
        /\ IndexFacts

(* A step after which no error has happened met none. *)
LEMMA ErrorFreeSteps ==
    ASSUME TypeOK, faults' = 0, UNCHANGED faults \/ DatabaseError
    PROVE  faults = 0 /\ ~DatabaseError
  BY LimitsAssumption DEF TypeOK, SurroundingsOK, DatabaseError

(* A step of the execution touches its own job and index only. *)
LEMMA ExecutionKeepsArtifacts ==
    ASSUME ArtifactsInv, faults = 0, cur \in Jobs, cur' = cur,
           \A j \in Jobs \ {cur} :
               /\ job_status'[j] = job_status[j]
               /\ index_status'[j] = index_status[j]
               /\ j \in linked' <=> j \in linked,
           job_status'[cur] \notin {"absent", "queued"},
           cur \notin linked' => index_status'[cur] \in {"absent", "created"},
           job_status'[cur] = "failed" =>
               \/ index_status'[cur] \in {"absent", "failed", "cancelled"}
               \/ index_status'[cur] = "created" /\ cur \notin linked',
           IndexFacts'
    PROVE  ArtifactsInv'
<1>1. \A j \in Jobs : job_status'[j] \in {"absent", "queued"} =>
          index_status'[j] = "absent"
  BY DEF ArtifactsInv
<1>2. \A j \in Jobs : j \notin linked' => index_status'[j] \in {"absent", "created"}
  BY DEF ArtifactsInv
<1>3. \A j \in Jobs : job_status'[j] = "failed" => LeavesNoArtifact(j)'
  BY DEF ArtifactsInv, LeavesNoArtifact
<1> QED BY <1>1, <1>2, <1>3 DEF ArtifactsInv

(* The execution builds only what is linked, and undoes what it has built *)
(* before it fails its job.                                               *)
LEMMA ExecuteKeepsArtifacts ==
    ASSUME IInv, ArtifactsInv, Execute, faults' = 0
    PROVE  ArtifactsInv'
<1> USE DEF Executing, Continues, commit_and_refresh, KeepsJobs, KeepsIndexes,
        jobVars, WorkerDies
<1>1. UNCHANGED faults \/ DatabaseError
  BY DEF Execute, Start, Validate, Reject, CreateIndex, LinkIndex, MarkBuilding,
     Build, MarkBuilt, Undo, Persist, Complete, Cancel, Fail
<1>2. faults = 0 /\ ~DatabaseError
  BY <1>1, ErrorFreeSteps DEF IInv, JobsInv
<1>3. pc \in ExecuteLabels /\ cur' = cur
  BY DEF Execute, Start, Validate, Reject, CreateIndex, LinkIndex, MarkBuilding,
     Build, MarkBuilt, Undo, Persist, Complete, Cancel, Fail, ExecuteLabels
<1>4. /\ cur \in Jobs
      /\ job_status \in [Jobs -> {"absent"} \cup CORPUS_BM25_BUILD_JOB_STATUSES]
      /\ index_status \in [Jobs -> {"absent"} \cup CORPUS_BM25_INDEX_STATUSES]
      /\ pc # "mark_failed" => job_status[cur] \in {"running", "cancelled"}
  BY <1>3 DEF IInv, JobsInv, TypeOK, JobsOK, WorkerOK, LabelFacts, UndecidedLabels
<1>5. IndexFacts /\ (cur \notin linked => index_status[cur] \in {"absent", "created"})
  BY <1>2, <1>4 DEF ArtifactsInv
<1>6. CASE Start \/ Validate \/ Build \/ Persist
  <2>1. UNCHANGED <<job_status, index_status, linked>> /\ pc # "mark_failed"
    BY <1>6 DEF Start, Validate, Build, Persist
  <2>2. IndexFacts'
    <3>1. \/ pc \in {"start", "validate"}
             /\ pc' \in {"mark_cancelled", "validate", "create", "reject"}
          \/ pc = "build" /\ pc' \in {"undo_failed", "undo_cancelled", "mark_built"}
          \/ pc = "persist" /\ pc' \in {"cancel_at_persist", "complete"}
      BY <1>2, <1>6 DEF Start, Validate, Build, Persist
    <3> QED BY <1>3, <1>5, <2>1, <3>1 DEF IndexFacts
  <2> QED BY <1>2, <1>3, <1>4, <1>5, <2>1, <2>2, ExecutionKeepsArtifacts
<1>7. CASE CreateIndex
  <2>1. /\ UNCHANGED <<job_status, linked>> /\ pc = "create"
        /\ \/ /\ index_status' = [index_status EXCEPT ![cur] = "created"]
              /\ pc' = "link"
           \/ UNCHANGED index_status /\ pc' = "mark_failed"
    BY <1>2, <1>7 DEF CreateIndex
  <2>2. IndexFacts' /\ index_status'[cur] \in {"absent", "created"}
    BY <1>3, <1>4, <1>5, <2>1 DEF IndexFacts
  <2> QED BY <1>2, <1>3, <1>4, <2>1, <2>2, ExecutionKeepsArtifacts
<1>8. CASE LinkIndex
  <2>1. /\ UNCHANGED <<job_status, index_status>> /\ pc = "link"
        /\ linked' = linked \cup {cur} /\ pc' = "mark_building"
    BY <1>2, <1>8 DEF LinkIndex
  <2>2. IndexFacts' /\ cur \in linked'
    BY <1>3, <1>5, <2>1 DEF IndexFacts
  <2> QED BY <1>2, <1>3, <1>4, <2>1, <2>2, ExecutionKeepsArtifacts
<1>9. CASE MarkBuilding \/ MarkBuilt
  <2>1. /\ UNCHANGED <<job_status, linked>>
        /\ \/ /\ pc = "mark_building" /\ pc' = "build"
              /\ index_status' = [index_status EXCEPT ![cur] = "building"]
           \/ /\ pc = "mark_built" /\ pc' = "persist"
              /\ index_status' = [index_status EXCEPT ![cur] = "built"]
    BY <1>2, <1>9 DEF MarkBuilding, MarkBuilt, _conditional_lifecycle_update
  <2>2. IndexFacts' /\ cur \in linked'
    BY <1>3, <1>4, <1>5, <2>1 DEF IndexFacts
  <2> QED BY <1>2, <1>3, <1>4, <2>1, <2>2, ExecutionKeepsArtifacts
<1>10. CASE \/ Undo("undo_failed", "failed", "mark_failed")
            \/ Undo("undo_cancelled", "cancelled", "mark_cancelled")
  <2>1. /\ UNCHANGED <<job_status, linked>>
        /\ \/ /\ pc = "undo_failed" /\ pc' = "mark_failed"
              /\ index_status' = [index_status EXCEPT ![cur] = "failed"]
           \/ /\ pc = "undo_cancelled" /\ pc' = "mark_cancelled"
              /\ index_status' = [index_status EXCEPT ![cur] = "cancelled"]
    BY <1>2, <1>10 DEF Undo, _compensate_corpus_bm25_index_build,
       _conditional_lifecycle_update
  <2>2. IndexFacts'
    BY <1>3, <1>4, <2>1 DEF IndexFacts
  <2>3. index_status[cur] = "building"
    BY <1>5, <2>1 DEF IndexFacts
  <2>4. cur \in linked
    BY <1>5, <2>3
  <2> QED BY <1>2, <1>3, <1>4, <2>1, <2>2, <2>4, ExecutionKeepsArtifacts
<1>11. CASE \/ Reject \/ Complete \/ Fail
            \/ Cancel("cancel_at_persist", "mark_failed")
            \/ Cancel("mark_cancelled", "dead")
  <2>1. /\ UNCHANGED index_status /\ pc' = "loop"
        /\ \/ /\ pc \in {"reject", "mark_failed"} /\ UNCHANGED linked
              /\ job_status' = [job_status EXCEPT ![cur] = "failed"]
           \/ /\ linked' \in {linked, linked \cup {cur}}
              /\ \/ job_status' = [job_status EXCEPT ![cur] = "completed"]
                 \/ job_status' = [job_status EXCEPT ![cur] = "cancelled"]
    BY <1>2, <1>11 DEF Reject, Complete, Fail, Cancel,
       mark_corpus_bm25_build_job_failed, mark_corpus_bm25_build_job_completed,
       mark_corpus_bm25_build_job_cancelled
  <2>2. IndexFacts'
    BY <2>1 DEF IndexFacts
  <2>3. job_status'[cur] = "failed" => index_status'[cur] \in {"absent", "failed"}
    BY <1>4, <1>5, <2>1 DEF IndexFacts
  <2>4. job_status'[cur] \in {"failed", "completed", "cancelled"}
    BY <1>4, <2>1
  <2>5. \A j \in Jobs \ {cur} : job_status'[j] = job_status[j]
    BY <1>4, <2>1
  <2> QED BY <1>2, <1>3, <1>4, <1>5, <2>1, <2>2, <2>3, <2>4, <2>5,
             ExecutionKeepsArtifacts
<1> QED BY <1>6, <1>7, <1>8, <1>9, <1>10, <1>11 DEF Execute

(* The loop, a claim and the recovery. *)
LEMMA CoordinatorKeepsArtifacts ==
    ASSUME IInv, ArtifactsInv, Coordinator, faults' = 0
    PROVE  ArtifactsInv'
<1>1. CASE Execute
  BY <1>1, ExecuteKeepsArtifacts
<1>2. CASE LoopTop \/ ProcessReturns \/ WaitEnds
  <2>1. /\ UNCHANGED <<job_status, index_status, linked, faults>>
        /\ pc' \in {"stopped", "claim", "loop", "idle_wait"}
    BY <1>2 DEF LoopTop, ProcessReturns, WaitEnds, jobVars
  <2> QED BY <2>1 DEF ArtifactsInv, LeavesNoArtifact, IndexFacts
<1>3. CASE claim_next_corpus_bm25_build_job
  <2>1. faults = 0 /\ ~DatabaseError
    BY <1>3, ErrorFreeSteps DEF claim_next_corpus_bm25_build_job, WorkerDies, IInv, JobsInv
  <2>2. UNCHANGED <<index_status, linked>>
    BY <1>3 DEF claim_next_corpus_bm25_build_job
  <2>3. CASE UNCHANGED job_status /\ pc' = "nothing_claimed"
    BY <2>1, <2>2, <2>3 DEF ArtifactsInv, LeavesNoArtifact, IndexFacts
  <2>4. CASE /\ cur' \in Jobs /\ job_status[cur'] = "queued" /\ pc' = "start"
             /\ job_status' = [job_status EXCEPT ![cur'] = "running"]
    <3>1. \A j \in Jobs : job_status'[j] =
                              IF j = cur' THEN "running" ELSE job_status[j]
      BY <2>4 DEF IInv, JobsInv, TypeOK, JobsOK
    <3>2. index_status'[cur'] = "absent"
      BY <2>1, <2>2, <2>4 DEF ArtifactsInv
    <3>3. IndexFacts'
      BY <2>4, <3>2 DEF IndexFacts
    <3> QED BY <2>1, <2>2, <3>1, <3>3 DEF ArtifactsInv, LeavesNoArtifact
  <2> QED BY <1>3, <2>1, <2>3, <2>4 DEF claim_next_corpus_bm25_build_job,
             WorkerDies, ClaimableJobs
<1>4. CASE RecoverNext
  <2>1. UNCHANGED <<job_status, index_status, linked, faults>> /\ faults = 0
    BY <1>4 DEF RecoverNext, jobVars
  <2>2. \/ pc' = "loop"
        \/ pc' = "recover_index" /\ cur' \in linked
        \/ pc' = "recover_job" /\ cur' \in Jobs /\ cur' \notin linked
    BY <1>4 DEF RecoverNext
  <2>3. IndexFacts'
    BY <2>1, <2>2 DEF ArtifactsInv, IndexFacts, LeavesNoArtifact
  <2> QED BY <2>1, <2>3 DEF ArtifactsInv, LeavesNoArtifact
<1>5. CASE RecoverIndex
  <2>1. /\ UNCHANGED <<job_status, linked, cur, faults>> /\ faults = 0
        /\ pc = "recover_index" /\ pc' = "recover_job"
    BY <1>5 DEF RecoverIndex, jobVars
  <2>2. /\ cur \in Jobs /\ job_status[cur] \in {"running", "cancelled"}
        /\ index_status \in [Jobs -> {"absent"} \cup CORPUS_BM25_INDEX_STATUSES]
    BY <2>1 DEF IInv, JobsInv, TypeOK, JobsOK, WorkerOK, LabelFacts, UndecidedLabels
  <2>3. cur \in linked
    BY <2>1 DEF ArtifactsInv, IndexFacts
  <2>4. CASE index_status' = [index_status EXCEPT ![cur] = "failed"]
             /\ index_status[cur] \in {"created", "building", "built", "failed"}
    <3>1. \A j \in Jobs : index_status'[j] =
                              IF j = cur THEN "failed" ELSE index_status[j]
      BY <2>2, <2>4
    <3>2. IndexFacts'
      BY <2>1, <2>2, <3>1 DEF IndexFacts, LeavesNoArtifact
    <3>3. \A j \in Jobs : job_status'[j] \in {"absent", "queued"} =>
              index_status'[j] = "absent"
      BY <2>1, <2>2, <3>1 DEF ArtifactsInv
    <3>4. \A j \in Jobs : job_status'[j] = "failed" => LeavesNoArtifact(j)'
      BY <2>1, <2>2, <3>1 DEF ArtifactsInv, LeavesNoArtifact
    <3>5. \A j \in Jobs : j \notin linked' =>
              index_status'[j] \in {"absent", "created"}
      BY <2>1, <2>2, <3>1, <2>3 DEF ArtifactsInv
    <3> QED BY <3>2, <3>3, <3>4, <3>5 DEF ArtifactsInv
  <2>5. CASE UNCHANGED index_status
             /\ index_status[cur] \notin {"created", "building", "built", "failed"}
    <3>1. index_status[cur] \in {"absent", "cancelled"}
      BY <2>2, <2>5 DEF CORPUS_BM25_INDEX_STATUSES
    <3>2. IndexFacts'
      BY <2>1, <2>5, <3>1 DEF IndexFacts, LeavesNoArtifact
    <3> QED BY <2>1, <2>5, <3>2 DEF ArtifactsInv, LeavesNoArtifact
  <2> QED BY <1>5, <2>4, <2>5 DEF RecoverIndex, KeepsIndexes, CompensableStatuses,
             _compensate_corpus_bm25_index_build, _conditional_lifecycle_update
<1>6. CASE RecoverJob
  <2>1. /\ UNCHANGED <<index_status, linked, faults>> /\ faults = 0
        /\ pc = "recover_job" /\ pc' = "recover" /\ cur \in Jobs
        /\ job_status' = [job_status EXCEPT ![cur] = "failed"]
    BY <1>6 DEF RecoverJob, mark_corpus_bm25_build_job_failed, IInv, JobsInv, TypeOK, WorkerOK
  <2>2. \A j \in Jobs : job_status'[j] = IF j = cur THEN "failed" ELSE job_status[j]
    BY <2>1 DEF IInv, JobsInv, TypeOK, JobsOK
  <2>3. LeavesNoArtifact(cur)
    BY <2>1 DEF ArtifactsInv, IndexFacts
  <2>4. IndexFacts'
    BY <2>1 DEF IndexFacts
  <2>5. \A j \in Jobs : job_status'[j] = "failed" => LeavesNoArtifact(j)'
    BY <2>1, <2>2, <2>3 DEF ArtifactsInv, LeavesNoArtifact
  <2> QED BY <2>1, <2>2, <2>4, <2>5 DEF ArtifactsInv
<1> QED BY <1>1, <1>2, <1>3, <1>4, <1>5, <1>6 DEF Coordinator

(* Requests write no index; processes write no row. *)
LEMMA OthersKeepArtifacts ==
    ASSUME IInv, ArtifactsInv, Requests \/ Process \/ UNCHANGED vars, faults' = 0
    PROVE  ArtifactsInv'
<1>1. CASE Requests
  <2>1. PICK j \in Jobs : \/ queue_corpus_bm25_build_job(j)
                          \/ Notify(j)
                          \/ CancelReads(j)
                          \/ CancelCommits(j)
    BY <1>1 DEF Requests, retry_corpus_bm25_build_job
  <2>2. UNCHANGED <<index_status, linked, pc, cur, faults>> /\ faults = 0
    BY <2>1 DEF queue_corpus_bm25_build_job, Notify, CancelReads, CancelCommits,
       jobVars, workerVars
  <2>3. \A k \in Jobs : \/ job_status'[k] = job_status[k]
                        \/ job_status'[k] = "queued" /\ job_status[k] = "absent"
                        \/ job_status'[k] = "cancelled"
    BY <2>1 DEF queue_corpus_bm25_build_job, Notify, CancelReads, CancelCommits,
       jobVars, IInv, JobsInv, TypeOK, JobsOK
  <2>4. IndexFacts'
    BY <2>2 DEF ArtifactsInv, IndexFacts, LeavesNoArtifact
  <2> QED BY <2>2, <2>3, <2>4 DEF ArtifactsInv, LeavesNoArtifact
<1>2. CASE Process
  <2>1. UNCHANGED <<job_status, index_status, linked>> /\ faults = 0
    <3>1. UNCHANGED <<jobVars, index_status>>
      BY <1>2 DEF Process, Crash, Shutdown, Exit, Restart, StartupFails, Halt,
         KeepsJobs, KeepsIndexes
    <3>2. UNCHANGED faults \/ DatabaseError
      BY <1>2 DEF Process, Crash, Shutdown, Exit, Restart, StartupFails
    <3> QED BY <3>1, <3>2, ErrorFreeSteps DEF jobVars, IInv, JobsInv
  <2>2. UNCHANGED <<pc, cur>> \/ pc' \in {"down", "recover"}
    BY <1>2 DEF Process, Crash, Shutdown, Exit, Restart, StartupFails, Halt, workerVars
  <2>3. IndexFacts'
    BY <2>1, <2>2 DEF ArtifactsInv, IndexFacts, LeavesNoArtifact
  <2> QED BY <2>1, <2>3 DEF ArtifactsInv, LeavesNoArtifact
<1>3. CASE UNCHANGED vars
  BY <1>3 DEF vars, jobVars, workerVars, ArtifactsInv, IndexFacts, LeavesNoArtifact
<1> QED BY <1>1, <1>2, <1>3

LEMMA ArtifactsInvariance == Spec => [](IInv /\ ArtifactsInv)
<1>1. Init => ArtifactsInv
  BY DEF Init, ArtifactsInv, IndexFacts
<1>2. IInv /\ ArtifactsInv /\ [Next]_vars => ArtifactsInv'
  <2>1. ASSUME faults' # 0 PROVE ArtifactsInv'
    BY <2>1 DEF ArtifactsInv
  <2> QED BY <2>1, CoordinatorKeepsArtifacts, OthersKeepArtifacts DEF Next, NothingLeft
<1> QED BY Invariance, <1>1, <1>2, PTL DEF Spec

(* Whatever was stopped, crashed, cancelled or raised by a build, a failed *)
(* job leaves no artifact behind, as long as the database answers: the     *)
(* recovery and the compensation reach every index that was linked.        *)
THEOREM FailuresCleanUp == Spec => []FailedJobsLeaveNoArtifact
<1>1. ArtifactsInv => FailedJobsLeaveNoArtifact
  BY DEF ArtifactsInv, LeavesNoArtifact, FailedJobsLeaveNoArtifact
<1> QED BY ArtifactsInvariance, <1>1, PTL

-----------------------------------------------------------------------------
(* The pipes. *)

WorkLabels == BodyLabels \cup RollbackLabels

(* The worker, or the recovery, works on p. *)
On(p) == task.pipe = p /\ task.pc \in WorkLabels

Calm == stops = 0 /\ faults = 0

(* Awaits after the vectors were asked for, and after there is a candidate. *)
BuildLabels ==
    {"store_vectors", "index_chunks", "mark_built", "finalize", "activate",
     "complete"}
CandidateLabels ==
    {"candidate_ready", "queue_child", "link_child", "wait_child",
     "cancel_child", "own_index"} \cup BuildLabels

StartedStatuses == {"running"} \cup TERMINAL_CORPUS_BM25_BUILD_JOB_STATUSES

(* Nothing was produced for the row. *)
Fresh(r) ==
    /\ ~r.child /\ ~r.candidate /\ ~r.chunks /\ ~r.chunk_set /\ ~r.edited
    /\ r.dense = "absent" /\ ~r.vectors /\ ~r.indexed /\ r.used = {} /\ ~r.owned

Serves(p) == p \in linked /\ index_status[p] = "built"

(* What holds of the row r of p wherever the worker is: an index stands on *)
(* the chunk set, and the status tells what was produced.                  *)
Based(p, r) ==
    /\ index_status[p] # "absent" => r.chunk_set
    /\ r.dense # "absent" => r.chunk_set
    /\ r.indexed => r.dense # "absent"

StatusTells(p, r) ==
    /\ r.status \in {"absent", "queued"} => Fresh(r)
    /\ pipe_request[p] = "checked" => r.status = "absent"
    /\ r.status = "completed" /\ p \notin overtaken =>
          /\ r.dense = "active" /\ r.candidate
          /\ r.chunk_set /\ r.indexed /\ r.vectors
          /\ r.child => r.owned /\ Settled(p) /\ Serves(p)
    /\ r.status \in {"failed", "cancelled"} /\ p \notin overtaken =>
          ~r.chunk_set /\ (r.chunks => r.edited)

RowOK(p, r) == Based(p, r) /\ StatusTells(p, r)

(* Without a stop or an error the vectors have IndexedChunk rows, by which *)
(* the rollback finds them, except while these are stored.                 *)
VectorsOK(label, r) ==
    Calm /\ r.vectors => r.indexed \/ label = "index_chunks"

(* What the worker relies on at each await, of the row and of the child.   *)
StageOfBody(label, r) ==
    /\ label = "start" => r.status = "cancelled" \/ r.rolling_back \/ Fresh(r)
    /\ label \in {"process_documents", "fail_job", "create_chunk_set"} =>
          ~r.child /\ ~r.chunk_set
    /\ label = "fail_job" => ~r.chunks
    /\ label = "create_candidate" => ~r.child /\ r.chunk_set
    /\ label \in {"candidate_ready", "queue_child", "link_child"} => ~r.child
    /\ label \in CandidateLabels => r.candidate /\ r.chunk_set /\ r.dense # "absent"
    /\ label \in BuildLabels => (r.child => r.owned)
    /\ label \in BuildLabels \ {"store_vectors"} => r.vectors
    /\ label \in BuildLabels \ {"store_vectors", "index_chunks"} => r.indexed

StageOfRollback(label, r) ==
    /\ label = "delete_indexed_chunks" /\ Calm => ~r.vectors
    /\ label = "delete_dense" => ~r.indexed
    /\ label \in {"delete_set_chunks", "delete_job_chunks", "finish"} =>
          ~r.chunk_set
    /\ label = "finish" => (r.chunks => r.edited)

StageOfChild(label, p, r) ==
    /\ label = "own_index" => Settled(p)
    /\ label \in BuildLabels /\ r.child => Settled(p)
    /\ label \in {"activate", "complete"} /\ r.child => Serves(p)
    /\ label = "complete" /\ p \notin overtaken => r.dense = "active"

StatusAt(label, p, r) ==
    /\ r.status \in StartedStatuses
    /\ p \notin overtaken => r.status = "running" \/ label = "mark_rolling_back"

LabelOK(label, p, r) ==
    /\ StatusAt(label, p, r)
    /\ StageOfBody(label, r)
    /\ StageOfRollback(label, r)
    /\ StageOfChild(label, p, r)

(* The recovery, the shutdown and the worker exclude each other. *)
PhasesInv ==
    /\ interrupted # {} => phase = "recovering"
    /\ phase = "recovering" => task.pc \in RollbackLabels \cup {"recover"}
    /\ phase = "down" => task.pc = "down"
    /\ app = "stopping" => task.pc = "stopped"

PipeOK(p) ==
    /\ RowOK(p, pipe[p])
    /\ VectorsOK(IF On(p) THEN task.pc ELSE "down", pipe[p])
    /\ On(p) => LabelOK(task.pc, p, pipe[p])
    /\ p \in interrupted => pipe[p].status \in {"queued", "running"} /\ ~On(p)

(* The inductive invariant of the pipes. *)
PipeInv ==
    /\ JobsInv
    /\ PipeTypeOK
    /\ PhasesInv
    /\ \A p \in Jobs : PipeOK(p)

LEMMA PipeInitEstablishes == PipeInit => PipeInv
<1> SUFFICES ASSUME PipeInit PROVE PipeInv
  OBVIOUS
<1>1. JobsInv /\ index_status = [j \in Jobs |-> "absent"] /\ app = "up"
  BY InitEstablishes DEF PipeInit, IInv, Init
<1>2. /\ pipe = [p \in Jobs |-> NoPipe] /\ task = TaskAt("loop")
      /\ pipe_request = [p \in Jobs |-> "none"] /\ interrupted = {}
      /\ phase = "serving" /\ overtaken = {} /\ pipe_wake = FALSE
  BY DEF PipeInit
<1>3. NoPipe \in PipeRows /\ Fresh(NoPipe) /\ NoPipe.status = "absent"
  BY DEF NoPipe, PipeRows, Fresh
<1>4. task \in Tasks /\ task.pc = "loop" /\ task.pc \notin WorkLabels
  BY <1>2 DEF TaskAt, Tasks, LoopLabels, WorkLabels, BodyLabels, RollbackLabels
<1>5. PipeTypeOK
  BY <1>2, <1>3, <1>4 DEF PipeTypeOK, WorkLabels
<1>6. PhasesInv
  BY <1>1, <1>2 DEF PhasesInv
<1>7. ASSUME NEW p \in Jobs PROVE PipeOK(p)
  <2>1. pipe[p] = NoPipe /\ ~On(p)
    BY <1>2, <1>4 DEF On
  <2>2. RowOK(p, NoPipe)
    BY <1>1, <1>2, <1>3 DEF RowOK, Based, StatusTells, Fresh
  <2>3. VectorsOK(task.pc, NoPipe) /\ VectorsOK("down", NoPipe)
    BY <1>3 DEF VectorsOK, Fresh
  <2> QED BY <1>2, <2>1, <2>2, <2>3 DEF PipeOK
<1> QED BY <1>1, <1>5, <1>6, <1>7 DEF PipeInv

(* What is true of a row and a place of the worker stays true as long as   *)
(* the index of the child stays, or is settled, and its link is not taken  *)
(* away.                                                                   *)
LEMMA RowFrame ==
    ASSUME NEW p \in Jobs, NEW r, NEW label,
           index_status'[p] # "absent" => index_status[p] # "absent" \/ r.chunk_set,
           Settled(p) => Settled(p)' /\ index_status'[p] = index_status[p],
           p \in linked => p \in linked',
           overtaken' = overtaken,
           pipe_request'[p] = "checked" => pipe_request[p] = "checked",
           stops' = 0 /\ faults' = 0 => stops = 0 /\ faults = 0
    PROVE  /\ RowOK(p, r) => RowOK(p, r)'
           /\ VectorsOK(label, r) => VectorsOK(label, r)'
           /\ LabelOK(label, p, r) => LabelOK(label, p, r)'
<1>1. RowOK(p, r) => RowOK(p, r)'
  BY DEF RowOK, Based, StatusTells, Serves
<1>2. VectorsOK(label, r) => VectorsOK(label, r)'
  BY DEF VectorsOK, Calm
<1>3. StageOfChild(label, p, r) => StageOfChild(label, p, r)'
  <2>1. {"activate", "complete"} \subseteq BuildLabels
    BY DEF BuildLabels
  <2> QED BY <2>1 DEF StageOfChild, Serves
<1>4. StageOfRollback(label, r) => StageOfRollback(label, r)'
  BY DEF StageOfRollback, Calm
<1>5. /\ StageOfBody(label, r) => StageOfBody(label, r)'
      /\ StatusAt(label, p, r) => StatusAt(label, p, r)'
  BY DEF StageOfBody, StatusAt
<1> QED BY <1>1, <1>2, <1>3, <1>4, <1>5 DEF LabelOK

(* A step of the BM25 queue, of its worker, its requests or its process.   *)
LEMMA QueueStepKeeps ==
    ASSUME PipeInv, JobsInv', JobStep, UNCHANGED pipeVars,
           stops' = 0 /\ faults' = 0 => stops = 0 /\ faults = 0,
           app' = "stopping" => app = "stopping",
           UNCHANGED index_status \/ (pc = "create" => pipe[cur].chunk_set)
    PROVE  PipeInv'
<1>1. PipeTypeOK' /\ PhasesInv'
  BY DEF PipeInv, PipeTypeOK, PhasesInv, pipeVars
<1>2. ASSUME NEW p \in Jobs PROVE PipeOK(p)'
  <2>1. /\ index_status'[p] # "absent" => index_status[p] # "absent" \/ pipe[p].chunk_set
        /\ Settled(p) => Settled(p)' /\ index_status'[p] = index_status[p]
        /\ p \in linked => p \in linked'
    <3>1. Settled(p) /\ cur = p => pc \notin UndecidedLabels
      BY DEF Settled, Working, UndecidedLabels
    <3> QED BY <3>1 DEF JobStep
  <2>2. PICK label : label = IF On(p) THEN task.pc ELSE "down"
    OBVIOUS
  <2>3. PipeOK(p)
    BY DEF PipeInv
  <2>4. /\ RowOK(p, pipe[p]) => RowOK(p, pipe[p])'
        /\ VectorsOK(label, pipe[p]) => VectorsOK(label, pipe[p])'
        /\ LabelOK(label, p, pipe[p]) => LabelOK(label, p, pipe[p])'
    <3>1. PICK r : r = pipe[p]
      OBVIOUS
    <3>2. pipe' = pipe /\ overtaken' = overtaken /\ pipe_request' = pipe_request
      BY DEF pipeVars
    <3>3. /\ RowOK(p, r) => RowOK(p, r)'
          /\ VectorsOK(label, r) => VectorsOK(label, r)'
          /\ LabelOK(label, p, r) => LabelOK(label, p, r)'
      BY <2>1, <3>1, <3>2, RowFrame
    <3> QED BY <3>1, <3>2, <3>3
  <2>5. /\ On(p)' <=> On(p)
        /\ task' = task /\ pipe' = pipe /\ interrupted' = interrupted
    BY DEF On, pipeVars
  <2> QED BY <2>2, <2>3, <2>4, <2>5 DEF PipeOK
<1> QED BY <1>1, <1>2 DEF PipeInv

(* What the steps of the pipe worker do to the queue, all but two.         *)
LeavesIndexes ==
    /\ JobsInv'
    /\ UNCHANGED <<index_status, linked, app>>
    /\ \A q \in Jobs : Settled(q) => Settled(q)'
    /\ stops' = 0 /\ faults' = 0 => stops = 0 /\ faults = 0

(* A step of the pipe worker on p.                                         *)
LEMMA WorkerStepKeeps ==
    ASSUME PipeInv, NEW p \in Jobs, On(p), NEW new \in PipeRows,
           pipe' = [pipe EXCEPT ![p] = new],
           UNCHANGED lifespanVars,
           task' \in Tasks,
           task'.pc \in WorkLabels => task'.pipe = p,
           phase = "recovering" => task'.pc \in RollbackLabels \cup {"recover"},
           LeavesIndexes,
           RowOK(p, new),
           stops' = 0 /\ faults' = 0 /\ new.vectors =>
               new.indexed \/ task'.pc = "index_chunks",
           task'.pc \in WorkLabels => LabelOK(task'.pc, p, new)
    PROVE  PipeInv'
<1>1. pipe' \in [Jobs -> PipeRows] /\ pipe'[p] = new
      /\ \A q \in Jobs : q # p => pipe'[q] = pipe[q]
  BY DEF PipeInv, PipeTypeOK
<1>2. PipeTypeOK'
  BY <1>1 DEF PipeInv, PipeTypeOK, lifespanVars, WorkLabels
<1>3. PhasesInv'
  <2>1. task.pc \notin {"stopped", "down"}
    BY DEF On, WorkLabels, BodyLabels, RollbackLabels
  <2> QED BY <2>1 DEF PipeInv, PhasesInv, lifespanVars, LeavesIndexes
<1>4. ASSUME NEW q \in Jobs, NEW r, NEW label
      PROVE  /\ RowOK(q, r) => RowOK(q, r)'
             /\ VectorsOK(label, r) => VectorsOK(label, r)'
             /\ LabelOK(label, q, r) => LabelOK(label, q, r)'
  BY RowFrame DEF lifespanVars, LeavesIndexes
<1>5. ASSUME NEW q \in Jobs, q # p PROVE PipeOK(q)'
  <2>1. PipeOK(q) /\ ~On(q) /\ ~On(q)'
    BY <1>5 DEF PipeInv, On
  <2>2. PICK r : r = pipe[q]
    OBVIOUS
  <2>3. RowOK(q, r)' /\ VectorsOK("down", r)'
    BY <1>4, <2>1, <2>2 DEF PipeOK
  <2>4. RowOK(q, pipe[q])' /\ VectorsOK("down", pipe[q])'
    BY <1>1, <1>5, <2>2, <2>3
  <2> QED BY <1>1, <1>5, <2>1, <2>4 DEF PipeOK, lifespanVars
<1>6. PipeOK(p)'
  <2>1. RowOK(p, new)'
    BY <1>4
  <2>2. PICK label : label = task'.pc
    OBVIOUS
  <2>3. On(p)' <=> label \in WorkLabels
    BY <2>2 DEF On
  <2>4. label \in WorkLabels => LabelOK(label, p, new)'
    BY <1>4, <2>2
  <2>5. VectorsOK(label, new)' /\ (label \notin WorkLabels => VectorsOK("down", new)')
    BY <2>2 DEF VectorsOK, Calm, WorkLabels, BodyLabels
  <2>6. p \notin interrupted'
    BY DEF PipeInv, PipeOK, lifespanVars
  <2> QED BY <1>1, <2>1, <2>2, <2>3, <2>4, <2>5, <2>6 DEF PipeOK
<1> QED BY <1>2, <1>3, <1>5, <1>6 DEF PipeInv, LeavesIndexes

LEMMA ErrorsLeaveIndexes ==
    ASSUME JobsInv, UNCHANGED bm25Vars, UNCHANGED faults \/ DatabaseError
    PROVE  LeavesIndexes /\ (DatabaseError => faults' # 0)
<1> USE DEF bm25Vars, jobVars, workerVars, requestVars, envVars
<1>1. JobsInv'
  <2>1. faults' \in 0..MaxFaults
    BY FaultsBounded DEF JobsInv
  <2>2. TypeOK'
    BY <2>1 DEF JobsInv, TypeOK, JobsOK, WorkerOK, SurroundingsOK
  <2> QED BY <2>2 DEF JobsInv, LabelFacts, OneJobRuns, ReservedNamesAreExclusive, Active
<1>2. \A q \in Jobs : Settled(q) => Settled(q)'
  BY DEF Settled, Working, Terminal
<1>3. faults \in Nat
  BY LimitsAssumption DEF JobsInv, TypeOK, SurroundingsOK
<1>4. DatabaseError => faults' = faults + 1
  BY DEF DatabaseError
<1> QED BY <1>1, <1>2, <1>3, <1>4 DEF LeavesIndexes

LEMMA StillnessLeavesIndexes ==
    ASSUME JobsInv, UNCHANGED vars
    PROVE  LeavesIndexes
BY ErrorsLeaveIndexes DEF vars, bm25Vars

(* Where an error, an exception or a cancellation sends the worker.        *)
StepsAside ==
    /\ task' \in Tasks
    /\ \/ task'.pc = "mark_rolling_back" /\ task'.pipe = task.pipe
       \/ task'.pc = "loop" /\ phase # "recovering"
       \/ task'.pc = "recover"

LEMMA ErrorsStepAside ==
    ASSUME PipeTypeOK,
           \/ BodyFails
           \/ RollbackFails
           \/ Abandons \/ AbandonsExpired
           \/ LoadsRollback
           \/ \E status \in {"failed", "cancelled"} : RollsBack(status)
    PROVE  StepsAside
<1>1. task \in Tasks
  BY DEF PipeTypeOK
<1>2. {"mark_rolling_back", "loop", "recover"}
          \subseteq BodyLabels \cup RollbackLabels \cup LoopLabels
  BY DEF RollbackLabels, LoopLabels
<1>3. CASE Abandons \/ AbandonsExpired
  <2>1. /\ TaskAt("loop") \in Tasks /\ TaskAt("recover") \in Tasks
        /\ TaskAt("loop").pc = "loop" /\ TaskAt("recover").pc = "recover"
    BY <1>2 DEF TaskAt, Tasks
  <2>2. /\ [TaskAt("recover") EXCEPT !.candidate = "expired"] \in Tasks
        /\ [TaskAt("recover") EXCEPT !.candidate = "expired"].pc = "recover"
    BY <1>2 DEF TaskAt, Tasks
  <2>3. \/ task' \in {TaskAt("recover"), [TaskAt("recover") EXCEPT !.candidate = "expired"]}
        \/ task' = TaskAt("loop") /\ phase # "recovering"
    BY <1>3 DEF Abandons, AbandonsExpired
  <2> QED BY <2>1, <2>2, <2>3 DEF StepsAside
<1>4. CASE \E status \in {"failed", "cancelled"} : RollsBack(status)
  BY <1>1, <1>2, <1>4 DEF RollsBack, StepsAside, Tasks
<1>5. CASE LoadsRollback
  <2>1. PICK candidate \in {"loaded", "none"}, outcome \in {"cancelled", "failed"} :
            task' = [task EXCEPT !.pc = "mark_rolling_back",
                                 !.candidate = candidate, !.outcome = outcome]
    BY <1>5 DEF LoadsRollback
  <2> QED BY <1>1, <1>2, <2>1 DEF StepsAside, Tasks
<1>6. CASE BodyFails /\ ~Abandons
  <2>1. PICK candidate \in {"none", "expired"} :
            task' = [task EXCEPT !.pc = "mark_rolling_back",
                                 !.outcome = "failed", !.candidate = candidate]
    BY <1>1, <1>6 DEF BodyFails, Tasks
  <2> QED BY <1>1, <1>2, <2>1 DEF StepsAside, Tasks
<1> QED BY <1>3, <1>4, <1>5, <1>6 DEF BodyFails, RollbackFails

(* The row may have been written before; what it says holds.               *)
LEMMA AsideKeeps ==
    ASSUME PipeInv, NEW p \in Jobs, p = task.pipe, On(p), NEW new \in PipeRows,
           pipe' = [pipe EXCEPT ![p] = new],
           UNCHANGED lifespanVars, LeavesIndexes, StepsAside,
           RowOK(p, new), new.status \in StartedStatuses,
           stops' = 0 /\ faults' = 0 /\ new.vectors => new.indexed
    PROVE  PipeInv'
<1>1. {"loop", "recover"} \cap WorkLabels = {} /\ "mark_rolling_back" \in RollbackLabels
  BY DEF WorkLabels, BodyLabels, RollbackLabels
<1>2. LabelOK("mark_rolling_back", p, new)
  BY DEF LabelOK, StatusAt, StageOfBody, StageOfRollback, StageOfChild,
     CandidateLabels, BuildLabels
<1> QED BY <1>1, <1>2, WorkerStepKeeps DEF StepsAside

(* Nothing was written at all. *)
LEMMA RaisesKeep ==
    ASSUME PipeInv, NEW p \in Jobs, p = task.pipe, On(p), task.pc # "index_chunks",
           UNCHANGED pipe, UNCHANGED lifespanVars, LeavesIndexes, StepsAside
    PROVE  PipeInv'
<1>1. pipe[p] \in PipeRows /\ pipe' = [pipe EXCEPT ![p] = pipe[p]]
  BY DEF PipeInv, PipeTypeOK
<1>2. RowOK(p, pipe[p]) /\ pipe[p].status \in StartedStatuses
  BY DEF PipeInv, PipeOK, LabelOK, StatusAt
<1>3. Calm /\ pipe[p].vectors => pipe[p].indexed
  BY DEF PipeInv, PipeOK, VectorsOK
<1> QED BY <1>1, <1>2, <1>3, AsideKeeps DEF Calm, LeavesIndexes

(* While the worker is on a row its status says little, so a write that    *)
(* keeps the status has only the rest to respect.                          *)
LEMMA StatusOnDuty ==
    ASSUME PipeInv, NEW p \in Jobs, On(p), task.pc # "mark_rolling_back",
           NEW new, new.status = pipe[p].status, NEW label
    PROVE  StatusTells(p, new) /\ StatusAt(label, p, new)
<1>1. StatusAt(task.pc, p, pipe[p]) /\ StatusTells(p, pipe[p])
  BY DEF PipeInv, PipeOK, LabelOK, RowOK
<1> QED BY <1>1 DEF StatusAt, StatusTells, StartedStatuses,
           TERMINAL_CORPUS_BM25_BUILD_JOB_STATUSES

StageOK(label, p, r) ==
    /\ StageOfBody(label, r)
    /\ StageOfRollback(label, r)
    /\ StageOfChild(label, p, r)

(* The next await of the body, or of the rollback. *)
Follows(label) ==
    /\ label \in WorkLabels
    /\ task.pc \in RollbackLabels => label \in RollbackLabels

LEMMA MoveKeeps ==
    ASSUME PipeInv, NEW p \in Jobs, p = task.pipe, On(p),
           task.pc # "mark_rolling_back", NEW new \in PipeRows,
           pipe' = [pipe EXCEPT ![p] = new], new.status = pipe[p].status,
           UNCHANGED lifespanVars, LeavesIndexes,
           NEW label, Follows(label),
           task' \in Tasks, task'.pc = label, task'.pipe = p,
           Based(p, new), StageOK(label, p, new),
           stops' = 0 /\ faults' = 0 /\ new.vectors =>
               new.indexed \/ label = "index_chunks"
    PROVE  PipeInv'
<1>1. StatusTells(p, new) /\ StatusAt(label, p, new)
  BY StatusOnDuty
<1>2. RowOK(p, new) /\ LabelOK(label, p, new)
  BY <1>1 DEF RowOK, LabelOK, StageOK
<1>3. phase = "recovering" => label \in RollbackLabels
  <2>1. "recover" \notin WorkLabels
    BY DEF WorkLabels, BodyLabels, RollbackLabels
  <2> QED BY <2>1 DEF PipeInv, PhasesInv, Follows, On
<1> QED BY <1>2, <1>3, WorkerStepKeeps

LEMMA GoesOn ==
    ASSUME PipeTypeOK, NEW label, Follows(label), Goes(label)
    PROVE  task' \in Tasks /\ task'.pc = label /\ task'.pipe = task.pipe
BY DEF PipeTypeOK, Goes, Tasks, Follows, WorkLabels

(* A step that moves the worker and writes nothing. *)
LEMMA GoesKeeps ==
    ASSUME PipeInv, NEW p \in Jobs, p = task.pipe, On(p),
           task.pc \notin {"mark_rolling_back", "index_chunks"},
           UNCHANGED pipe, UNCHANGED lifespanVars, LeavesIndexes,
           NEW label, Follows(label),
           task' \in Tasks, task'.pc = label, task'.pipe = p,
           StageOK(label, p, pipe[p])
    PROVE  PipeInv'
<1>1. pipe[p] \in PipeRows /\ pipe' = [pipe EXCEPT ![p] = pipe[p]]
  BY DEF PipeInv, PipeTypeOK
<1>2. Based(p, pipe[p])
  BY DEF PipeInv, PipeOK, RowOK
<1>3. Calm /\ pipe[p].vectors => pipe[p].indexed
  BY DEF PipeInv, PipeOK, VectorsOK
<1> QED BY <1>1, <1>2, <1>3, MoveKeeps DEF Calm, LeavesIndexes

(* A commit that keeps the status: it passes, or raises before or after.   *)
LEMMA CommitKeeps ==
    ASSUME PipeInv, NEW p \in Jobs, p = task.pipe, On(p),
           task.pc \notin {"mark_rolling_back", "index_chunks"},
           UNCHANGED lifespanVars,
           NEW new \in PipeRows, new.status = pipe[p].status,
           NEW label, Follows(label),
           BodyCommits(new, label) \/ RollbackCommits(new, label),
           Based(p, new), StageOK(label, p, new),
           Calm /\ new.vectors => new.indexed \/ label = "index_chunks"
    PROVE  PipeInv'
<1>1. /\ UNCHANGED bm25Vars
      /\ \/ pipe' = [pipe EXCEPT ![p] = new] /\ Goes(label) /\ UNCHANGED faults
         \/ /\ UNCHANGED pipe \/ pipe' = [pipe EXCEPT ![p] = new]
            /\ BodyFails \/ RollbackFails
  BY DEF BodyCommits, RollbackCommits, Commits
<1>2. UNCHANGED faults \/ DatabaseError
  BY <1>1 DEF BodyFails, RollbackFails
<1>3. JobsInv /\ PipeTypeOK
  BY DEF PipeInv
<1>4. LeavesIndexes /\ (DatabaseError => faults' # 0)
  BY <1>1, <1>2, <1>3, ErrorsLeaveIndexes
<1>5. CASE pipe' = [pipe EXCEPT ![p] = new] /\ Goes(label) /\ UNCHANGED faults
  <2>1. task' \in Tasks /\ task'.pc = label /\ task'.pipe = p
    BY <1>3, <1>5, GoesOn
  <2>2. stops' = 0 /\ faults' = 0 /\ new.vectors => new.indexed \/ label = "index_chunks"
    BY <1>4 DEF LeavesIndexes, Calm
  <2> QED BY <1>4, <1>5, <2>1, <2>2, MoveKeeps
<1>6. CASE BodyFails \/ RollbackFails
  <2>1. StepsAside /\ faults' # 0
    BY <1>3, <1>4, <1>6, ErrorsStepAside DEF BodyFails, RollbackFails
  <2>2. CASE UNCHANGED pipe
    BY <1>4, <2>1, <2>2, RaisesKeep
  <2>3. CASE pipe' = [pipe EXCEPT ![p] = new]
    <3>1. RowOK(p, new) /\ new.status \in StartedStatuses
      BY StatusOnDuty DEF RowOK, StatusAt
    <3> QED BY <1>4, <2>1, <2>3, <3>1, AsideKeeps
  <2> QED BY <1>1, <1>6, <2>2, <2>3 DEF Goes, StepsAside, Follows
<1> QED BY <1>1, <1>5, <1>6

(* What a step of the worker may use. *)
LEMMA OnDuty ==
    ASSUME PipeInv, task.pc \in WorkLabels, NEW p, p = task.pipe
    PROVE  /\ p \in Jobs /\ On(p) /\ row = pipe[p] /\ pipe[p] \in PipeRows
           /\ StatusAt(task.pc, p, pipe[p]) /\ StageOK(task.pc, p, pipe[p])
           /\ Based(p, pipe[p]) /\ StatusTells(p, pipe[p])
           /\ Calm /\ pipe[p].vectors => pipe[p].indexed \/ task.pc = "index_chunks"
           /\ JobsInv /\ PipeTypeOK /\ task \in Tasks
<1>1. p \in Jobs /\ On(p)
  BY DEF PipeInv, PipeTypeOK, On, WorkLabels
<1>2. PipeOK(p) /\ pipe[p] \in PipeRows
  BY <1>1 DEF PipeInv, PipeTypeOK
<1> QED BY <1>1, <1>2 DEF PipeInv, PipeTypeOK, PipeOK, LabelOK, StageOK, RowOK,
           VectorsOK, row

(* An error or an exception before anything is written. *)
LEMMA GivingUpKeeps ==
    ASSUME PipeInv, task.pc \in WorkLabels, task.pc # "index_chunks",
           UNCHANGED lifespanVars, UNCHANGED pipe,
           \/ UNCHANGED bm25Vars /\ (BodyFails \/ RollbackFails)
           \/ /\ UNCHANGED vars
              /\ \/ Abandons \/ AbandonsExpired
                 \/ LoadsRollback
                 \/ \E status \in {"failed", "cancelled"} : RollsBack(status)
    PROVE  PipeInv'
<1>1. PICK p : p = task.pipe
  OBVIOUS
<1>2. JobsInv /\ PipeTypeOK /\ p \in Jobs /\ On(p)
  BY <1>1, OnDuty
<1>3. StepsAside
  BY <1>2, ErrorsStepAside
<1>4. LeavesIndexes
  <2>1. CASE UNCHANGED bm25Vars /\ (BodyFails \/ RollbackFails)
    BY <1>2, <2>1, ErrorsLeaveIndexes DEF BodyFails, RollbackFails
  <2>2. CASE UNCHANGED vars
    BY <1>2, <2>2, StillnessLeavesIndexes
  <2> QED BY <2>1, <2>2
<1> QED BY <1>1, <1>2, <1>3, <1>4, RaisesKeep

(* The worker goes on and nothing is written. *)
LEMMA QuietKeeps ==
    ASSUME PipeInv, task.pc \in WorkLabels,
           task.pc \notin {"mark_rolling_back", "index_chunks"},
           UNCHANGED lifespanVars,
           NEW label, Follows(label), Quietly(Goes(label)),
           StageOK(label, task.pipe, row)
    PROVE  PipeInv'
<1>1. PICK p : p = task.pipe
  OBVIOUS
<1>2. JobsInv /\ PipeTypeOK /\ p \in Jobs /\ On(p) /\ row = pipe[p]
  BY <1>1, OnDuty
<1>3. UNCHANGED pipe /\ Goes(label) /\ LeavesIndexes
  BY <1>2, StillnessLeavesIndexes DEF Quietly
<1>4. task' \in Tasks /\ task'.pc = label /\ task'.pipe = p
  BY <1>1, <1>2, <1>3, GoesOn
<1> QED BY <1>1, <1>2, <1>3, <1>4, GoesKeeps

LEMMA PollKeeps ==
    ASSUME PipeInv, task.pc \in WorkLabels, task.pc # "index_chunks",
           UNCHANGED lifespanVars, PollStops \/ BodyRaises
    PROVE  PipeInv'
BY GivingUpKeeps DEF PollStops, BodyRaises, Quietly

(* The labels of the body and of the rollback, for the steps below. *)
LEMMA LabelSets ==
    /\ {"process_documents", "fail_job", "create_chunk_set", "create_candidate",
        "candidate_ready", "queue_child", "link_child", "wait_child",
        "cancel_child", "own_index", "store_vectors", "index_chunks",
        "mark_built", "finalize", "activate", "complete", "start"} = BodyLabels
    /\ BodyLabels \cap RollbackLabels = {}
    /\ \A label \in BodyLabels : task.pc \in BodyLabels => Follows(label)
    /\ \A label \in RollbackLabels : Follows(label)
    /\ {"loop", "claim", "recover", "stopped", "down"} \cap WorkLabels = {}
BY DEF BodyLabels, RollbackLabels, WorkLabels, Follows

LEMMA StartPipeKeeps == ASSUME PipeInv, StartPipe PROVE PipeInv'
<1>1. task.pc = "start" /\ task.pc \in BodyLabels /\ task.pc \in WorkLabels
      /\ UNCHANGED lifespanVars
  BY LabelSets DEF StartPipe, At, WorkLabels
<1>2. CASE row.status = "running" /\ ~row.rolling_back /\ Quietly(Goes("process_documents"))
  <2>1. Fresh(row)
    BY <1>1, <1>2, OnDuty DEF StageOK, StageOfBody
  <2>2. StageOK("process_documents", task.pipe, row)
    BY <2>1 DEF StageOK, StageOfBody, StageOfRollback, StageOfChild, Fresh,
       CandidateLabels, BuildLabels
  <2> QED BY <1>1, <1>2, <2>2, LabelSets, QuietKeeps
<1>3. CASE /\ UNCHANGED pipe
           /\ \/ UNCHANGED bm25Vars /\ BodyFails
              \/ /\ UNCHANGED vars
                 /\ Abandons \/ LoadsRollback \/ RollsBack("cancelled")
  BY <1>1, <1>3, GivingUpKeeps
<1> QED BY <1>2, <1>3 DEF StartPipe, Quietly

LEMMA ProcessDocumentsKeeps == ASSUME PipeInv, ProcessDocuments PROVE PipeInv'
<1>1. task.pc = "process_documents" /\ task.pc \in BodyLabels /\ task.pc \in WorkLabels
      /\ UNCHANGED lifespanVars
  BY LabelSets DEF ProcessDocuments, At, WorkLabels
<1>2. PICK p : p = task.pipe
  OBVIOUS
<1>3. /\ p \in Jobs /\ On(p) /\ row = pipe[p] /\ row \in PipeRows
      /\ StageOK("process_documents", p, row) /\ Based(p, row)
      /\ Calm /\ row.vectors => row.indexed
  BY <1>1, <1>2, OnDuty
<1>4. CASE PollStops \/ BodyRaises
  BY <1>1, <1>4, PollKeeps
<1>5. CASE BodyCommits([row EXCEPT !.chunks = TRUE], "process_documents")
  <2>1. PICK new \in PipeRows : new = [row EXCEPT !.chunks = TRUE]
    BY <1>3 DEF PipeRows
  <2>2. Based(p, new) /\ StageOK("process_documents", p, new)
        /\ new.status = row.status /\ (Calm /\ new.vectors => new.indexed)
    BY <1>3, <2>1 DEF PipeRows, Based, StageOK, StageOfBody, StageOfRollback,
       StageOfChild, CandidateLabels, BuildLabels
  <2> QED BY <1>1, <1>2, <1>3, <1>5, <2>1, <2>2, LabelSets, CommitKeeps
<1>6. ASSUME NEW label \in {"create_chunk_set", "fail_job"}, Quietly(Goes(label)),
             label = "fail_job" => ~row.chunks
      PROVE  PipeInv'
  <2>1. StageOK(label, p, row)
    BY <1>3, <1>6 DEF StageOK, StageOfBody, StageOfRollback, StageOfChild,
       CandidateLabels, BuildLabels
  <2> QED BY <1>1, <1>2, <1>6, <2>1, LabelSets, QuietKeeps
<1> QED BY <1>4, <1>5, <1>6 DEF ProcessDocuments

LEMMA CreateChunkSetKeeps == ASSUME PipeInv, CreateChunkSet PROVE PipeInv'
<1>1. task.pc = "create_chunk_set" /\ task.pc \in BodyLabels /\ task.pc \in WorkLabels
      /\ UNCHANGED lifespanVars
  BY LabelSets DEF CreateChunkSet, At, WorkLabels
<1>2. PICK p : p = task.pipe
  OBVIOUS
<1>3. /\ p \in Jobs /\ On(p) /\ row = pipe[p] /\ row \in PipeRows
      /\ StageOK("create_chunk_set", p, row) /\ Based(p, row)
      /\ Calm /\ row.vectors => row.indexed
  BY <1>1, <1>2, OnDuty
<1>4. CASE BodyRaises
  BY <1>1, <1>4, PollKeeps
<1>5. CASE BodyCommits(set_full_corpus_index_pipe_job_chunk_set(row), "create_candidate")
  <2>1. PICK new \in PipeRows : new = [row EXCEPT !.chunk_set = TRUE]
    BY <1>3 DEF PipeRows
  <2>2. Based(p, new) /\ StageOK("create_candidate", p, new)
        /\ new.status = row.status /\ (Calm /\ new.vectors => new.indexed)
    BY <1>3, <2>1 DEF PipeRows, Based, StageOK, StageOfBody, StageOfRollback,
       StageOfChild, CandidateLabels, BuildLabels
  <2>3. BodyCommits(new, "create_candidate")
    BY <1>5, <2>1 DEF set_full_corpus_index_pipe_job_chunk_set
  <2> QED BY <1>1, <1>2, <1>3, <2>1, <2>2, <2>3, LabelSets, CommitKeeps
<1> QED BY <1>4, <1>5 DEF CreateChunkSet, create_corpus_chunk_set_srvc

(* The last write of a job, after which the worker leaves the row.         *)
LEMMA EndingKeeps ==
    ASSUME PipeInv, NEW p \in Jobs, p = task.pipe, On(p), task.pc # "index_chunks",
           UNCHANGED lifespanVars, NEW new \in PipeRows,
           RowOK(p, new), new.status \in StartedStatuses,
           Calm /\ new.vectors => new.indexed,
           \/ task.pc \in BodyLabels /\ BodyCommits(new, "loop")
           \/ Commits(new, task' = Finished, RollbackFails)
    PROVE  PipeInv'
<1>1. JobsInv /\ PipeTypeOK /\ task \in Tasks
  BY DEF PipeInv, PipeTypeOK
<1>2. /\ UNCHANGED bm25Vars
      /\ \/ /\ pipe' = [pipe EXCEPT ![p] = new] /\ UNCHANGED faults
            /\ \/ Goes("loop") /\ task.pc \in BodyLabels
               \/ task' = Finished
         \/ /\ UNCHANGED pipe \/ pipe' = [pipe EXCEPT ![p] = new]
            /\ BodyFails \/ RollbackFails
  BY DEF BodyCommits, Commits
<1>3. LeavesIndexes
  BY <1>1, <1>2, ErrorsLeaveIndexes DEF BodyFails, RollbackFails
<1>4. stops' = 0 /\ faults' = 0 /\ new.vectors => new.indexed
  BY <1>3 DEF LeavesIndexes, Calm
<1>5. StepsAside
  <2>1. "loop" \in LoopLabels /\ "recover" \in LoopLabels
    BY DEF LoopLabels
  <2>2. CASE Goes("loop") /\ task.pc \in BodyLabels
    <3>1. phase # "recovering"
      BY <2>2, LabelSets DEF PipeInv, PhasesInv, WorkLabels
    <3> QED BY <1>1, <2>1, <2>2, <3>1 DEF Goes, StepsAside, Tasks
  <2>3. CASE task' = Finished
    <3>1. Abandons
      BY <2>3 DEF Finished, Abandons
    <3> QED BY <1>1, <3>1, ErrorsStepAside
  <2>4. CASE BodyFails \/ RollbackFails
    BY <1>1, <2>4, ErrorsStepAside
  <2> QED BY <1>2, <2>2, <2>3, <2>4
<1>6. CASE UNCHANGED pipe
  BY <1>3, <1>5, <1>6, RaisesKeep
<1>7. CASE pipe' = [pipe EXCEPT ![p] = new]
  BY <1>3, <1>4, <1>5, <1>7, AsideKeeps
<1> QED BY <1>2, <1>6, <1>7

(* The rows differ in their status columns at most. *)
SameProducts(r, new) ==
    /\ new.child = r.child /\ new.candidate = r.candidate /\ new.chunks = r.chunks
    /\ new.chunk_set = r.chunk_set /\ new.edited = r.edited /\ new.dense = r.dense
    /\ new.vectors = r.vectors /\ new.indexed = r.indexed /\ new.used = r.used
    /\ new.owned = r.owned

LEMMA EndedRows ==
    ASSUME NEW r \in PipeRows
    PROVE  /\ mark_full_corpus_index_pipe_job_failed(r) \in PipeRows
           /\ mark_full_corpus_index_pipe_job_failed(r).status = "failed"
           /\ SameProducts(r, mark_full_corpus_index_pipe_job_failed(r))
           /\ mark_full_corpus_index_pipe_job_cancelled(r) \in PipeRows
           /\ mark_full_corpus_index_pipe_job_cancelled(r).status = "cancelled"
           /\ SameProducts(r, mark_full_corpus_index_pipe_job_cancelled(r))
<1> DEFINE to(status, flag) == [r EXCEPT !.status = status, !.rolling_back = FALSE,
                                         !.cancel_requested = flag]
<1>1. ASSUME NEW status \in {"failed", "cancelled"}, NEW flag \in BOOLEAN
      PROVE  to(status, flag) \in PipeRows
  BY DEF PipeRows, CORPUS_BM25_BUILD_JOB_STATUSES,
     TERMINAL_CORPUS_BM25_BUILD_JOB_STATUSES
<1>2. ASSUME NEW status, NEW flag
      PROVE  to(status, flag).status = status /\ SameProducts(r, to(status, flag))
  BY DEF PipeRows, SameProducts
<1> QED
  BY <1>1, <1>2 DEF mark_full_corpus_index_pipe_job_failed,
     mark_full_corpus_index_pipe_job_cancelled

LEMMA FailJobKeeps == ASSUME PipeInv, FailJob PROVE PipeInv'
<1>1. task.pc = "fail_job" /\ task.pc \in BodyLabels /\ task.pc \in WorkLabels
      /\ UNCHANGED lifespanVars
  BY LabelSets DEF FailJob, At, WorkLabels
<1>2. PICK p : p = task.pipe
  OBVIOUS
<1>3. /\ p \in Jobs /\ On(p) /\ row = pipe[p] /\ row \in PipeRows
      /\ StageOK("fail_job", p, row) /\ Based(p, row)
      /\ StatusAt("fail_job", p, row) /\ StatusTells(p, row)
      /\ Calm /\ row.vectors => row.indexed
  BY <1>1, <1>2, OnDuty
<1>4. PICK new \in PipeRows :
          /\ new = mark_full_corpus_index_pipe_job_failed(row)
          /\ new.status = "failed" /\ SameProducts(row, new)
  BY <1>3, EndedRows
<1>5. Based(p, new) /\ new.status \in StartedStatuses
  BY <1>3, <1>4 DEF Based, SameProducts, StartedStatuses,
     TERMINAL_CORPUS_BM25_BUILD_JOB_STATUSES
<1>6. StatusTells(p, new)
  BY <1>3, <1>4 DEF StatusTells, StatusAt, StageOK, StageOfBody, SameProducts,
     StartedStatuses, TERMINAL_CORPUS_BM25_BUILD_JOB_STATUSES
<1>7. BodyCommits(new, "loop")
  BY <1>4 DEF FailJob
<1>8. RowOK(p, new) /\ (Calm /\ new.vectors => new.indexed)
  BY <1>3, <1>4, <1>5, <1>6 DEF RowOK, SameProducts
<1> QED BY <1>1, <1>2, <1>3, <1>5, <1>7, <1>8, EndingKeeps

LEMMA CreateCandidateKeeps == ASSUME PipeInv, CreateCandidate PROVE PipeInv'
<1>1. task.pc = "create_candidate" /\ task.pc \in BodyLabels /\ task.pc \in WorkLabels
      /\ UNCHANGED lifespanVars
  BY LabelSets DEF CreateCandidate, At, WorkLabels
<1>2. PICK p : p = task.pipe
  OBVIOUS
<1>3. /\ p \in Jobs /\ On(p) /\ row = pipe[p] /\ row \in PipeRows
      /\ StageOK("create_candidate", p, row) /\ Based(p, row)
      /\ Calm /\ row.vectors => row.indexed
      /\ JobsInv /\ PipeTypeOK /\ task \in Tasks
  BY <1>1, <1>2, OnDuty
<1>4. PICK new \in PipeRows : new = [row EXCEPT !.dense = "building", !.candidate = TRUE]
  BY <1>3 DEF PipeRows
<1>5. /\ new.status = row.status /\ new.candidate /\ new.chunk_set = row.chunk_set
      /\ new.dense = "building" /\ new.child = row.child
      /\ new.vectors = row.vectors /\ new.indexed = row.indexed
  BY <1>3, <1>4 DEF PipeRows
<1>6. Based(p, new) /\ StageOK("candidate_ready", p, new)
  BY <1>3, <1>5 DEF Based, StageOK, StageOfBody, StageOfRollback,
     StageOfChild, CandidateLabels, BuildLabels
<1>7. /\ UNCHANGED bm25Vars
      /\ \/ /\ pipe' = [pipe EXCEPT ![p] = new] /\ UNCHANGED faults
            /\ task' = [task EXCEPT !.pc = "candidate_ready", !.candidate = "loaded"]
         \/ /\ UNCHANGED pipe \/ pipe' = [pipe EXCEPT ![p] = new]
            /\ BodyFails
  BY <1>2, <1>4 DEF CreateCandidate, Commits
<1>8. LeavesIndexes /\ (DatabaseError => faults' # 0)
  BY <1>3, <1>7, ErrorsLeaveIndexes DEF BodyFails
<1>9. stops' = 0 /\ faults' = 0 /\ new.vectors => new.indexed
  BY <1>3, <1>5, <1>8 DEF LeavesIndexes, Calm
<1>10. CASE BodyFails
  <2>1. StepsAside
    BY <1>3, <1>10, ErrorsStepAside
  <2>2. RowOK(p, new) /\ new.status \in StartedStatuses
    BY <1>1, <1>2, <1>3, <1>5, <1>6, StatusOnDuty DEF RowOK, StatusAt
  <2>3. CASE UNCHANGED pipe
    BY <1>1, <1>2, <1>3, <1>8, <2>1, <2>3, RaisesKeep
  <2>4. CASE pipe' = [pipe EXCEPT ![p] = new]
    BY <1>1, <1>2, <1>3, <1>8, <1>9, <2>1, <2>2, <2>4, AsideKeeps
  <2> QED BY <1>7, <1>10, <2>3, <2>4, LabelSets DEF StepsAside
<1>11. CASE /\ pipe' = [pipe EXCEPT ![p] = new]
            /\ task' = [task EXCEPT !.pc = "candidate_ready", !.candidate = "loaded"]
  <2>1. task' \in Tasks /\ task'.pc = "candidate_ready" /\ task'.pipe = p
    BY <1>2, <1>3, <1>11, LabelSets DEF Tasks
  <2>2. Follows("candidate_ready")
    BY <1>1, LabelSets
  <2> QED BY <1>1, <1>2, <1>3, <1>5, <1>6, <1>8, <1>9, <1>11, <2>1, <2>2, MoveKeeps
<1> QED BY <1>7, <1>10, <1>11

LEMMA CandidateReadyKeeps == ASSUME PipeInv, CandidateReady PROVE PipeInv'
<1>1. task.pc = "candidate_ready" /\ task.pc \in BodyLabels /\ task.pc \in WorkLabels
      /\ UNCHANGED lifespanVars
  BY LabelSets DEF CandidateReady, At, WorkLabels
<1>2. CASE PollStops
  BY <1>1, <1>2, PollKeeps
<1>3. ASSUME NEW label \in {"queue_child", "store_vectors"}, Quietly(Goes(label))
      PROVE  PipeInv'
  <2>1. StageOK("candidate_ready", task.pipe, row)
    BY <1>1, OnDuty
  <2>2. StageOK(label, task.pipe, row)
    BY <1>3, <2>1 DEF StageOK, StageOfBody, StageOfRollback, StageOfChild,
       CandidateLabels, BuildLabels
  <2>3. Follows(label)
    BY <1>1, <1>3, LabelSets
  <2> QED BY <1>1, <1>3, <2>2, <2>3, QuietKeeps
<1> QED BY <1>2, <1>3 DEF CandidateReady

(* Requests about the child: queued, cancelled, announced. *)
LEMMA RequestsLeaveIndexes ==
    ASSUME JobsInv, NEW p \in Jobs,
           queue_corpus_bm25_build_job(p) \/ CancelReads(p)
    PROVE  LeavesIndexes
<1>1. Kept
  BY RequestsPreserve DEF Requests
<1>2. UNCHANGED <<index_status, linked, envVars, faults>>
  BY DEF queue_corpus_bm25_build_job, CancelReads, jobVars
<1> QED BY <1>1, <1>2 DEF Kept, JobStep, LeavesIndexes, envVars

LEMMA QueueChildKeeps == ASSUME PipeInv, QueueChild PROVE PipeInv'
<1>1. task.pc = "queue_child" /\ task.pc \in BodyLabels /\ task.pc \in WorkLabels
      /\ UNCHANGED lifespanVars
  BY LabelSets DEF QueueChild, At, WorkLabels
<1>2. PICK p : p = task.pipe
  OBVIOUS
<1>3. /\ p \in Jobs /\ On(p) /\ row = pipe[p]
      /\ StageOK("queue_child", p, row) /\ JobsInv /\ PipeTypeOK
  BY <1>1, <1>2, OnDuty
<1>4. CASE BodyRaises
  BY <1>1, <1>4, PollKeeps
<1>5. CASE BodyFails /\ UNCHANGED <<pipe, bm25Vars>>
  BY <1>1, <1>5, GivingUpKeeps
<1>6. CASE queue_corpus_bm25_build_job(p) /\ Goes("link_child") /\ UNCHANGED pipe
  <2>1. LeavesIndexes
    BY <1>3, <1>6, RequestsLeaveIndexes
  <2>2. Follows("link_child")
    BY <1>1, LabelSets
  <2>3. task' \in Tasks /\ task'.pc = "link_child" /\ task'.pipe = p
    BY <1>2, <1>3, <1>6, <2>2, GoesOn
  <2>4. StageOK("link_child", p, pipe[p])
    BY <1>3 DEF StageOK, StageOfBody, StageOfRollback, StageOfChild,
       CandidateLabels, BuildLabels
  <2> QED BY <1>1, <1>2, <1>3, <1>6, <2>1, <2>2, <2>3, <2>4, GoesKeeps
<1> QED BY <1>2, <1>4, <1>5, <1>6 DEF QueueChild

LEMMA LinkChildKeeps == ASSUME PipeInv, LinkChild PROVE PipeInv'
<1>1. task.pc = "link_child" /\ task.pc \in BodyLabels /\ task.pc \in WorkLabels
      /\ UNCHANGED lifespanVars
  BY LabelSets DEF LinkChild, At, WorkLabels
<1>2. PICK p : p = task.pipe
  OBVIOUS
<1>3. /\ p \in Jobs /\ On(p) /\ row = pipe[p] /\ row \in PipeRows
      /\ StageOK("link_child", p, row) /\ Based(p, row)
      /\ Calm /\ row.vectors => row.indexed
      /\ JobsInv /\ PipeTypeOK
  BY <1>1, <1>2, OnDuty
<1>4. PICK new \in PipeRows : new = [row EXCEPT !.child = TRUE]
  BY <1>3 DEF PipeRows
<1>5. /\ new.status = row.status /\ new.candidate = row.candidate
      /\ new.chunk_set = row.chunk_set /\ new.dense = row.dense
      /\ new.vectors = row.vectors /\ new.indexed = row.indexed
  BY <1>3, <1>4 DEF PipeRows
<1>6. Based(p, new) /\ StageOK("wait_child", p, new)
  BY <1>3, <1>5 DEF Based, StageOK, StageOfBody, StageOfRollback,
     StageOfChild, CandidateLabels, BuildLabels
<1>7. /\ pipe' = [pipe EXCEPT ![p] = new] \/ UNCHANGED pipe
      /\ \/ BodyFails /\ UNCHANGED bm25Vars
         \/ /\ pipe' = [pipe EXCEPT ![p] = new] /\ Goes("wait_child")
            /\ wake_event' = TRUE /\ unnotified' = unnotified \ {p}
            /\ UNCHANGED <<jobVars, index_status, workerVars, pending_cancel,
                           envVars, faults>>
  <2>1. [pipe EXCEPT ![task.pipe].child = TRUE] = [pipe EXCEPT ![p] = new]
    BY <1>2, <1>3, <1>4 DEF PipeTypeOK
  <2> QED BY <1>2, <2>1 DEF LinkChild
<1>8. CASE BodyFails /\ UNCHANGED bm25Vars
  <2>1. LeavesIndexes /\ faults' # 0 /\ StepsAside
    BY <1>3, <1>8, ErrorsLeaveIndexes, ErrorsStepAside DEF BodyFails
  <2>2. RowOK(p, new) /\ new.status \in StartedStatuses
    BY <1>1, <1>2, <1>3, <1>5, <1>6, StatusOnDuty DEF RowOK, StatusAt
  <2>3. CASE UNCHANGED pipe
    BY <1>1, <1>2, <1>3, <2>1, <2>3, RaisesKeep
  <2>4. CASE pipe' = [pipe EXCEPT ![p] = new]
    BY <1>1, <1>2, <1>3, <2>1, <2>2, <2>4, AsideKeeps
  <2> QED BY <1>7, <2>3, <2>4
<1>9. CASE /\ pipe' = [pipe EXCEPT ![p] = new] /\ Goes("wait_child")
           /\ wake_event' = TRUE /\ unnotified' = unnotified \ {p}
           /\ UNCHANGED <<jobVars, index_status, workerVars, pending_cancel,
                          envVars, faults>>
  <2>1. LeavesIndexes
    <3>1. JobsInv'
      BY <1>3, <1>9 DEF JobsInv, TypeOK, JobsOK, WorkerOK, SurroundingsOK, jobVars,
         workerVars, envVars, LabelFacts, OneJobRuns, ReservedNamesAreExclusive, Active
    <3>2. \A q \in Jobs : Settled(q) => Settled(q)'
      BY <1>9 DEF Settled, Working, Terminal, jobVars, workerVars
    <3> QED BY <1>9, <3>1, <3>2 DEF LeavesIndexes, jobVars, envVars
  <2>2. Follows("wait_child")
    BY <1>1, LabelSets
  <2>3. task' \in Tasks /\ task'.pc = "wait_child" /\ task'.pipe = p
    BY <1>2, <1>3, <1>9, <2>2, GoesOn
  <2>4. stops' = 0 /\ faults' = 0 /\ new.vectors => new.indexed
    BY <1>3, <1>5, <2>1 DEF LeavesIndexes, Calm
  <2> QED BY <1>1, <1>2, <1>3, <1>5, <1>6, <1>9, <2>1, <2>2, <2>3, <2>4, MoveKeeps
<1> QED BY <1>7, <1>8, <1>9

(* A completed child has settled: the worker may only fail it once more.   *)
LEMMA CompletedIsSettled ==
    ASSUME JobsInv, NEW p \in Jobs, job_status[p] = "completed"
    PROVE  Settled(p)
BY DEF JobsInv, LabelFacts, UndecidedLabels, Settled, Working, Terminal,
   TERMINAL_CORPUS_BM25_BUILD_JOB_STATUSES

LEMMA WaitChildKeeps == ASSUME PipeInv, WaitChild PROVE PipeInv'
<1>1. task.pc = "wait_child" /\ task.pc \in BodyLabels /\ task.pc \in WorkLabels
      /\ UNCHANGED lifespanVars
  BY LabelSets DEF WaitChild, At, WorkLabels
<1>2. PICK p : p = task.pipe
  OBVIOUS
<1>3. /\ p \in Jobs /\ On(p) /\ row = pipe[p]
      /\ StageOK("wait_child", p, row) /\ JobsInv /\ PipeTypeOK /\ task \in Tasks
  BY <1>1, <1>2, OnDuty
<1>4. CASE BodyRaises \/ Quietly(RollsBack("cancelled"))
  BY <1>1, <1>4, GivingUpKeeps DEF BodyRaises, Quietly
<1>5. CASE DatabaseError /\ RollsBack("failed") /\ UNCHANGED <<pipe, bm25Vars>>
  <2>1. StepsAside /\ LeavesIndexes
    BY <1>3, <1>5, ErrorsStepAside, ErrorsLeaveIndexes
  <2> QED BY <1>1, <1>2, <1>3, <1>5, <2>1, RaisesKeep
<1>6. CASE job_status[p] = "completed" /\ Quietly(Goes("own_index"))
  <2>1. Settled(p)
    BY <1>3, <1>6, CompletedIsSettled
  <2>2. StageOK("own_index", p, row)
    BY <1>3, <2>1 DEF StageOK, StageOfBody, StageOfRollback, StageOfChild,
       CandidateLabels, BuildLabels
  <2>3. Follows("own_index")
    BY <1>1, LabelSets
  <2> QED BY <1>1, <1>2, <1>6, <2>2, <2>3, QuietKeeps
<1>7. CASE /\ task' = [task EXCEPT !.asked = TRUE, !.pc = "cancel_child"]
           /\ UNCHANGED pipe /\ (UNCHANGED vars \/ CancelReads(p))
  <2>1. LeavesIndexes
    BY <1>3, <1>7, StillnessLeavesIndexes, RequestsLeaveIndexes
  <2>2. Follows("cancel_child")
    BY <1>1, LabelSets
  <2>3. task' \in Tasks /\ task'.pc = "cancel_child" /\ task'.pipe = p
    BY <1>2, <1>3, <1>7, LabelSets DEF Tasks
  <2>4. StageOK("cancel_child", p, pipe[p])
    BY <1>3 DEF StageOK, StageOfBody, StageOfRollback, StageOfChild,
       CandidateLabels, BuildLabels
  <2> QED BY <1>1, <1>2, <1>3, <1>7, <2>1, <2>2, <2>3, <2>4, GoesKeeps
<1> QED BY <1>2, <1>4, <1>5, <1>6, <1>7 DEF WaitChild

LEMMA CancelChildKeeps == ASSUME PipeInv, CancelChild PROVE PipeInv'
<1>1. task.pc = "cancel_child" /\ task.pc \in BodyLabels /\ task.pc \in WorkLabels
      /\ UNCHANGED lifespanVars /\ Quietly(Goes("wait_child"))
  BY LabelSets DEF CancelChild, At, WorkLabels
<1>2. StageOK("cancel_child", task.pipe, row)
  BY <1>1, OnDuty
<1>3. StageOK("wait_child", task.pipe, row) /\ Follows("wait_child")
  BY <1>1, <1>2, LabelSets DEF StageOK, StageOfBody, StageOfRollback, StageOfChild,
     CandidateLabels, BuildLabels
<1> QED BY <1>1, <1>3, QuietKeeps

LEMMA OwnIndexKeeps == ASSUME PipeInv, OwnIndex PROVE PipeInv'
<1>1. task.pc = "own_index" /\ task.pc \in BodyLabels /\ task.pc \in WorkLabels
      /\ UNCHANGED lifespanVars
  BY LabelSets DEF OwnIndex, At, WorkLabels
<1>2. PICK p : p = task.pipe
  OBVIOUS
<1>3. /\ p \in Jobs /\ On(p) /\ row = pipe[p] /\ row \in PipeRows
      /\ StageOK("own_index", p, row) /\ Based(p, row)
      /\ Calm /\ row.vectors => row.indexed
  BY <1>1, <1>2, OnDuty
<1>4. PICK new \in PipeRows : new = [row EXCEPT !.owned = TRUE]
  BY <1>3 DEF PipeRows
<1>5. Based(p, new) /\ StageOK("store_vectors", p, new)
      /\ new.status = row.status /\ (Calm /\ new.vectors => new.indexed)
  BY <1>3, <1>4 DEF PipeRows, Based, StageOK, StageOfBody, StageOfRollback,
     StageOfChild, CandidateLabels, BuildLabels
<1>6. BodyCommits(new, "store_vectors") /\ Follows("store_vectors")
  BY <1>1, <1>4, LabelSets DEF OwnIndex
<1> QED BY <1>1, <1>2, <1>3, <1>5, <1>6, CommitKeeps

LEMMA StoreVectorsKeeps == ASSUME PipeInv, StoreVectors PROVE PipeInv'
<1>1. task.pc = "store_vectors" /\ task.pc \in BodyLabels /\ task.pc \in WorkLabels
      /\ UNCHANGED lifespanVars
  BY LabelSets DEF StoreVectors, At, WorkLabels
<1>2. PICK p : p = task.pipe
  OBVIOUS
<1>3. /\ p \in Jobs /\ On(p) /\ row = pipe[p] /\ row \in PipeRows
      /\ StageOK("store_vectors", p, row) /\ Based(p, row)
      /\ JobsInv /\ PipeTypeOK
  BY <1>1, <1>2, OnDuty
<1>4. CASE PollStops \/ BodyRaises
  BY <1>1, <1>4, PollKeeps
<1>5. CASE /\ pipe' = [pipe EXCEPT ![task.pipe].vectors = TRUE]
           /\ Goes("index_chunks") /\ UNCHANGED vars
  <2>1. PICK new \in PipeRows : new = [row EXCEPT !.vectors = TRUE]
    BY <1>3 DEF PipeRows
  <2>2. pipe' = [pipe EXCEPT ![p] = new]
    BY <1>2, <1>3, <1>5, <2>1 DEF PipeTypeOK
  <2>3. Based(p, new) /\ StageOK("index_chunks", p, new) /\ new.status = row.status
    BY <1>3, <2>1 DEF PipeRows, Based, StageOK, StageOfBody, StageOfRollback,
       StageOfChild, CandidateLabels, BuildLabels
  <2>4. Follows("index_chunks")
    BY <1>1, LabelSets
  <2>5. task' \in Tasks /\ task'.pc = "index_chunks" /\ task'.pipe = p
    BY <1>2, <1>3, <1>5, <2>4, GoesOn
  <2>6. LeavesIndexes
    BY <1>3, <1>5, StillnessLeavesIndexes
  <2> QED BY <1>1, <1>2, <1>3, <2>2, <2>3, <2>4, <2>5, <2>6, MoveKeeps
<1> QED BY <1>4, <1>5 DEF StoreVectors

(* When the rows cannot be stored, the vectors go as well. *)
LEMMA IndexChunksKeeps == ASSUME PipeInv, IndexChunks PROVE PipeInv'
<1>1. task.pc = "index_chunks" /\ task.pc \in BodyLabels /\ task.pc \in WorkLabels
      /\ UNCHANGED lifespanVars /\ UNCHANGED bm25Vars
  BY LabelSets DEF IndexChunks, At, WorkLabels
<1>2. PICK p : p = task.pipe
  OBVIOUS
<1>3. /\ p \in Jobs /\ On(p) /\ row = pipe[p] /\ row \in PipeRows
      /\ StageOK("index_chunks", p, row) /\ Based(p, row)
      /\ JobsInv /\ PipeTypeOK
  BY <1>1, <1>2, OnDuty
<1>4. LeavesIndexes
  BY <1>1, <1>3, ErrorsLeaveIndexes DEF IndexChunks, BodyFails
<1>5. CASE /\ pipe' = [pipe EXCEPT ![task.pipe].indexed = TRUE]
           /\ Goes("mark_built")
  <2>1. PICK new \in PipeRows : new = [row EXCEPT !.indexed = TRUE]
    BY <1>3 DEF PipeRows
  <2>2. pipe' = [pipe EXCEPT ![p] = new]
    BY <1>2, <1>3, <1>5, <2>1 DEF PipeTypeOK
  <2>3. Based(p, new) /\ StageOK("mark_built", p, new)
        /\ new.status = row.status /\ new.indexed
    BY <1>3, <2>1 DEF PipeRows, Based, StageOK, StageOfBody, StageOfRollback,
       StageOfChild, CandidateLabels, BuildLabels
  <2>4. Follows("mark_built")
    BY <1>1, LabelSets
  <2>5. task' \in Tasks /\ task'.pc = "mark_built" /\ task'.pipe = p
    BY <1>2, <1>3, <1>5, <2>4, GoesOn
  <2> QED BY <1>1, <1>2, <1>3, <1>4, <2>2, <2>3, <2>4, <2>5, MoveKeeps
<1>6. ASSUME NEW committed \in BOOLEAN, BodyFails,
             pipe' = [pipe EXCEPT ![task.pipe].indexed = committed,
                                  ![task.pipe].vectors = FALSE]
      PROVE  PipeInv'
  <2>1. PICK new \in PipeRows :
            new = [row EXCEPT !.indexed = committed, !.vectors = FALSE]
    BY <1>3, ZenonT(40) DEF PipeRows
  <2>2. /\ new.status = row.status /\ new.dense = row.dense
        /\ new.chunk_set = row.chunk_set /\ ~new.vectors
    BY <1>3, <2>1 DEF PipeRows
  <2>3. pipe' = [pipe EXCEPT ![p] = new]
    BY <1>2, <1>3, <1>6, <2>1 DEF PipeTypeOK
  <2>4. Based(p, new)
    BY <1>3, <2>2 DEF Based, StageOK, StageOfBody, CandidateLabels, BuildLabels
  <2>5. RowOK(p, new) /\ new.status \in StartedStatuses
    BY <1>1, <1>3, <2>2, <2>4, StatusOnDuty DEF RowOK, StatusAt
  <2>6. StepsAside
    BY <1>3, <1>6, ErrorsStepAside
  <2> QED BY <1>1, <1>2, <1>3, <1>4, <2>2, <2>3, <2>5, <2>6, AsideKeeps
<1> QED BY <1>5, <1>6 DEF IndexChunks

LEMMA MarkDenseBuiltKeeps == ASSUME PipeInv, MarkDenseBuilt PROVE PipeInv'
<1>1. task.pc = "mark_built" /\ task.pc \in BodyLabels /\ task.pc \in WorkLabels
      /\ UNCHANGED lifespanVars
  BY LabelSets DEF MarkDenseBuilt, At, WorkLabels
<1>2. PICK p : p = task.pipe
  OBVIOUS
<1>3. /\ p \in Jobs /\ On(p) /\ row = pipe[p] /\ row \in PipeRows
      /\ StageOK("mark_built", p, row) /\ Based(p, row)
  BY <1>1, <1>2, OnDuty
<1>4. PICK new \in PipeRows : new = [row EXCEPT !.dense = "built"]
  BY <1>3 DEF PipeRows
<1>5. Based(p, new) /\ StageOK("finalize", p, new)
      /\ new.status = row.status /\ new.indexed
  BY <1>3, <1>4 DEF PipeRows, Based, StageOK, StageOfBody, StageOfRollback,
     StageOfChild, CandidateLabels, BuildLabels
<1>6. BodyCommits(new, "finalize") /\ Follows("finalize")
  BY <1>1, <1>4, LabelSets DEF MarkDenseBuilt
<1> QED BY <1>1, <1>2, <1>3, <1>5, <1>6, CommitKeeps

(* The last look: the child serves its index, and nothing takes it away.   *)
LEMMA FinalizeKeeps == ASSUME PipeInv, Finalize PROVE PipeInv'
<1>1. task.pc = "finalize" /\ task.pc \in BodyLabels /\ task.pc \in WorkLabels
      /\ UNCHANGED lifespanVars
  BY LabelSets DEF Finalize, At, WorkLabels
<1>2. CASE PollStops \/ BodyRaises
  BY <1>1, <1>2, PollKeeps
<1>3. CASE _ensure_parent_pair_compatible /\ Quietly(Goes("activate"))
  <2>1. StageOK("finalize", task.pipe, row)
    BY <1>1, OnDuty
  <2>2. row.child => Serves(task.pipe)
    BY <1>3 DEF _ensure_parent_pair_compatible, Serves
  <2>3. StageOK("activate", task.pipe, row) /\ Follows("activate")
    BY <1>1, <2>1, <2>2, LabelSets DEF StageOK, StageOfBody, StageOfRollback,
       StageOfChild, CandidateLabels, BuildLabels
  <2> QED BY <1>1, <1>3, <2>3, QuietKeeps
<1> QED BY <1>2, <1>3 DEF Finalize

LEMMA ActivateKeeps == ASSUME PipeInv, Activate PROVE PipeInv'
<1>1. task.pc = "activate" /\ task.pc \in BodyLabels /\ task.pc \in WorkLabels
      /\ UNCHANGED lifespanVars
  BY LabelSets DEF Activate, At, WorkLabels
<1>2. PICK p : p = task.pipe
  OBVIOUS
<1>3. /\ p \in Jobs /\ On(p) /\ row = pipe[p] /\ row \in PipeRows
      /\ StageOK("activate", p, row) /\ Based(p, row)
  BY <1>1, <1>2, OnDuty
<1>4. PICK new \in PipeRows : new = [row EXCEPT !.dense = "active"]
  BY <1>3 DEF PipeRows
<1>5. Based(p, new) /\ StageOK("complete", p, new)
      /\ new.status = row.status /\ new.indexed
  BY <1>3, <1>4 DEF PipeRows, Based, StageOK, StageOfBody, StageOfRollback,
     StageOfChild, CandidateLabels, BuildLabels
<1>6. BodyCommits(new, "complete") /\ Follows("complete")
  BY <1>1, <1>4, LabelSets DEF Activate
<1> QED BY <1>1, <1>2, <1>3, <1>5, <1>6, CommitKeeps

LEMMA CompletePipeKeeps == ASSUME PipeInv, CompletePipe PROVE PipeInv'
<1>1. task.pc = "complete" /\ task.pc \in BodyLabels /\ task.pc \in WorkLabels
      /\ UNCHANGED lifespanVars
  BY LabelSets DEF CompletePipe, At, WorkLabels
<1>2. PICK p : p = task.pipe
  OBVIOUS
<1>3. /\ p \in Jobs /\ On(p) /\ row = pipe[p] /\ row \in PipeRows
      /\ StageOK("complete", p, row) /\ Based(p, row)
      /\ StatusAt("complete", p, row) /\ StatusTells(p, row)
  BY <1>1, <1>2, OnDuty
<1>4. PICK new \in PipeRows : new = [row EXCEPT !.status = "completed"]
  BY <1>3 DEF PipeRows, CORPUS_BM25_BUILD_JOB_STATUSES,
     TERMINAL_CORPUS_BM25_BUILD_JOB_STATUSES
<1> /\ new.status = "completed" /\ SameProducts(row, new)
  BY <1>3, <1>4 DEF PipeRows, SameProducts
<1>5. /\ row.candidate /\ row.chunk_set /\ row.vectors /\ row.indexed
      /\ row.child => row.owned /\ Settled(p) /\ Serves(p)
      /\ p \notin overtaken => row.dense = "active"
  BY <1>3 DEF StageOK, StageOfBody, StageOfChild, CandidateLabels, BuildLabels
<1>6. StatusTells(p, new) /\ Based(p, new)
  BY <1>3, <1>4, <1>5 DEF StatusTells, Based, SameProducts, StatusAt, StartedStatuses,
     TERMINAL_CORPUS_BM25_BUILD_JOB_STATUSES
<1>7. new.status \in StartedStatuses /\ new.indexed
  BY <1>4, <1>5 DEF SameProducts, StartedStatuses, TERMINAL_CORPUS_BM25_BUILD_JOB_STATUSES
<1>8. BodyCommits(new, "loop")
  BY <1>4 DEF CompletePipe
<1> QED BY <1>1, <1>2, <1>3, <1>6, <1>7, <1>8, EndingKeeps DEF RowOK

LEMMA BodyKeeps == ASSUME PipeInv, Body PROVE PipeInv'
BY StartPipeKeeps, ProcessDocumentsKeeps, FailJobKeeps, CreateChunkSetKeeps,
   CreateCandidateKeeps, CandidateReadyKeeps, QueueChildKeeps, LinkChildKeeps,
   WaitChildKeeps, CancelChildKeeps, OwnIndexKeeps, StoreVectorsKeeps,
   IndexChunksKeeps, MarkDenseBuiltKeeps, FinalizeKeeps, ActivateKeeps,
   CompletePipeKeeps DEF Body

(* A child that has ended is failed, in the row of the queue. *)
LEMMA TerminalizeKeeps ==
    ASSUME PipeInv, NEW p \in Jobs, p = task.pipe, On(p),
           task.pc \in {"rollback_child", "child_cancelling"},
           UNCHANGED lifespanVars, ChildTerminal, TerminalizeChild
    PROVE  PipeInv'
<1>1. JobsInv /\ PipeTypeOK /\ task \in Tasks /\ pipe' = pipe
  BY DEF PipeInv, PipeTypeOK, TerminalizeChild
<1>2. Terminal(p)
  BY DEF ChildTerminal
<1>3. /\ UNCHANGED <<cancel_requested, artifact_name, linked, index_status,
                     workerVars, requestVars, envVars>>
      /\ UNCHANGED faults \/ DatabaseError
      /\ \/ /\ job_status' = [job_status EXCEPT
                   ![p] = IF @ = "completed" THEN "failed" ELSE @]
            /\ \E found \in BOOLEAN :
                   task' = [task EXCEPT !.pc = "unlink_candidate", !.result = found]
            /\ UNCHANGED faults
         \/ UNCHANGED job_status /\ RollbackFails
  <2>1. (p \in linked) \in BOOLEAN
    OBVIOUS
  <2>2. UNCHANGED faults \/ DatabaseError
    BY DEF TerminalizeChild, RollbackFails
  <2> QED BY <2>1, <2>2 DEF TerminalizeChild
<1>4. LeavesIndexes
  <2> PICK ended : ended = IF job_status[p] = "completed" THEN "failed" ELSE job_status[p]
    OBVIOUS
  <2> JobsOK /\ ended \in {"absent"} \cup CORPUS_BM25_BUILD_JOB_STATUSES
    BY <1>1 DEF JobsInv, TypeOK, JobsOK, CORPUS_BM25_BUILD_JOB_STATUSES,
       TERMINAL_CORPUS_BM25_BUILD_JOB_STATUSES
  <2> job_status' = [job_status EXCEPT ![p] = ended] \/ UNCHANGED job_status
    BY <1>3 DEF JobsOK
  <2>1. \A j \in Jobs :
            \/ job_status'[j] = job_status[j]
            \/ job_status[j] = "completed" /\ job_status'[j] = "failed"
    BY DEF JobsOK
  <2> /\ UNCHANGED <<cancel_requested, artifact_name, linked, index_status>>
      /\ UNCHANGED <<pc, cur, known>> /\ UNCHANGED <<requestVars, envVars>>
      /\ UNCHANGED faults \/ DatabaseError
    BY <1>3 DEF workerVars
  <2>2. JobsOK'
    BY DEF JobsOK
  <2>3. WorkerOK' /\ SurroundingsOK'
    BY <1>1, FaultsBounded DEF JobsInv, TypeOK, WorkerOK, SurroundingsOK,
       requestVars, envVars
  <2>4. LabelFacts'
    <3>1. pc \in UndecidedLabels => cur \in Jobs
      BY <1>1 DEF JobsInv, TypeOK, WorkerOK, UndecidedLabels
    <3> QED BY <1>1, <2>1, <3>1 DEF JobsInv, LabelFacts
  <2>5. OneJobRuns' /\ ReservedNamesAreExclusive'
    BY <1>1, <2>1 DEF JobsInv, OneJobRuns, ReservedNamesAreExclusive, Active
  <2>6. \A q \in Jobs : Settled(q) => Settled(q)'
    BY <2>1 DEF Settled, Working, Terminal, TERMINAL_CORPUS_BM25_BUILD_JOB_STATUSES
  <2>7. stops' = 0 /\ faults' = 0 => stops = 0 /\ faults = 0
    <3>1. faults \in Nat
      BY <1>1, LimitsAssumption DEF JobsInv, TypeOK, SurroundingsOK
    <3> QED BY <3>1 DEF DatabaseError, envVars
  <2> QED BY <2>2, <2>3, <2>4, <2>5, <2>6, <2>7
             DEF LeavesIndexes, JobsInv, TypeOK, envVars
<1>5. CASE RollbackFails
  BY <1>1, <1>4, <1>5, ErrorsStepAside, RaisesKeep
<1>6. CASE \E found \in BOOLEAN :
               task' = [task EXCEPT !.pc = "unlink_candidate", !.result = found]
  <2>1. task' \in Tasks /\ task'.pc = "unlink_candidate" /\ task'.pipe = p
    BY <1>1, <1>6 DEF Tasks, RollbackLabels
  <2>2. Follows("unlink_candidate")
    BY LabelSets DEF RollbackLabels
  <2>3. StageOK("unlink_candidate", p, pipe[p])
    BY DEF StageOK, StageOfBody, StageOfRollback, StageOfChild, CandidateLabels,
       BuildLabels
  <2> QED BY <1>1, <1>4, <2>1, <2>2, <2>3, GoesKeeps
<1> QED BY <1>3, <1>5, <1>6

LEMMA MarkRollingBackKeeps == ASSUME PipeInv, MarkRollingBack PROVE PipeInv'
<1>1. /\ task.pc = "mark_rolling_back" /\ task.pc \in RollbackLabels
      /\ task.pc \in WorkLabels /\ UNCHANGED lifespanVars
  BY DEF MarkRollingBack, At, WorkLabels, RollbackLabels
<1>2. PICK p : p = task.pipe
  OBVIOUS
<1>3. /\ p \in Jobs /\ On(p) /\ row = pipe[p] /\ row \in PipeRows
      /\ Based(p, row) /\ StatusAt("mark_rolling_back", p, row) /\ StatusTells(p, row)
      /\ Calm /\ row.vectors => row.indexed
      /\ JobsInv /\ PipeTypeOK /\ task \in Tasks
  BY <1>1, <1>2, OnDuty
<1>4. PICK new \in PipeRows : new = [row EXCEPT !.status = "running", !.rolling_back = TRUE]
  BY <1>3 DEF PipeRows, CORPUS_BM25_BUILD_JOB_STATUSES
<1>5. new.status = "running" /\ SameProducts(row, new)
  BY <1>3, <1>4 DEF PipeRows, SameProducts
<1>6. RowOK(p, new) /\ new.status \in StartedStatuses
  BY <1>3, <1>5 DEF RowOK, Based, StatusTells, SameProducts, StatusAt, StartedStatuses,
     TERMINAL_CORPUS_BM25_BUILD_JOB_STATUSES
<1>7. /\ UNCHANGED bm25Vars
      /\ UNCHANGED pipe \/ pipe' = [pipe EXCEPT ![p] = new]
      /\ \/ pipe' = [pipe EXCEPT ![p] = new] /\ Goes("rollback_child") /\ UNCHANGED faults
         \/ RollbackFails
  BY <1>2, <1>4 DEF MarkRollingBack, RollbackCommits, Commits
<1>8. LeavesIndexes
  BY <1>3, <1>7, ErrorsLeaveIndexes DEF RollbackFails
<1>9. stops' = 0 /\ faults' = 0 /\ new.vectors => new.indexed
  BY <1>3, <1>5, <1>8 DEF LeavesIndexes, Calm, SameProducts
<1>10. CASE RollbackFails
  <2>1. StepsAside
    BY <1>3, <1>10, ErrorsStepAside
  <2>2. CASE UNCHANGED pipe
    BY <1>1, <1>2, <1>3, <1>8, <2>1, <2>2, RaisesKeep
  <2>3. CASE pipe' = [pipe EXCEPT ![p] = new]
    BY <1>1, <1>2, <1>3, <1>6, <1>8, <1>9, <2>1, <2>3, AsideKeeps
  <2> QED BY <1>7, <2>2, <2>3
<1>11. CASE pipe' = [pipe EXCEPT ![p] = new] /\ Goes("rollback_child")
  <2>1. Follows("rollback_child") /\ "rollback_child" \in RollbackLabels
    BY LabelSets DEF RollbackLabels
  <2>2. task' \in Tasks /\ task'.pc = "rollback_child" /\ task'.pipe = p
    BY <1>2, <1>3, <1>11, <2>1, GoesOn
  <2>3. LabelOK("rollback_child", p, new)
    BY <1>5, <1>6 DEF LabelOK, StatusAt, StageOfBody, StageOfRollback, StageOfChild,
       CandidateLabels, BuildLabels
  <2> QED BY <1>1, <1>3, <1>6, <1>8, <1>9, <1>11, <2>1, <2>2, <2>3, WorkerStepKeeps
<1> QED BY <1>7, <1>10, <1>11

LEMMA RollbackChildKeeps ==
    ASSUME PipeInv, RollbackChild \/ ChildCancelling
    PROVE  PipeInv'
<1>1. /\ task.pc \in {"rollback_child", "child_cancelling"}
      /\ task.pc \in RollbackLabels /\ task.pc \in WorkLabels /\ UNCHANGED lifespanVars
  BY DEF RollbackChild, ChildCancelling, At, WorkLabels, RollbackLabels
<1>2. PICK p : p = task.pipe
  OBVIOUS
<1>3. /\ p \in Jobs /\ On(p) /\ row = pipe[p] /\ JobsInv /\ PipeTypeOK
  BY <1>1, <1>2, OnDuty
<1>4. ASSUME NEW label \in {"unlink_candidate", "child_cancelling"}
      PROVE  Follows(label) /\ StageOK(label, p, row)
  BY <1>4, LabelSets DEF RollbackLabels, StageOK, StageOfBody, StageOfRollback,
     StageOfChild, CandidateLabels, BuildLabels
<1>5. CASE Quietly(Goes("unlink_candidate"))
  BY <1>1, <1>2, <1>4, <1>5, QuietKeeps
<1>6. CASE ChildTerminal /\ TerminalizeChild
  BY <1>1, <1>2, <1>3, <1>6, TerminalizeKeeps
<1>7. CASE RollbackRaises
  BY <1>1, <1>7, GivingUpKeeps DEF RollbackRaises, Quietly
<1>8. CASE CancelReads(p) /\ Goes("child_cancelling") /\ UNCHANGED pipe
  <2>1. LeavesIndexes
    BY <1>3, <1>8, RequestsLeaveIndexes
  <2>2. task' \in Tasks /\ task'.pc = "child_cancelling" /\ task'.pipe = p
    BY <1>2, <1>3, <1>4, <1>8, GoesOn
  <2> QED BY <1>1, <1>2, <1>3, <1>4, <1>8, <2>1, <2>2, GoesKeeps
<1> QED BY <1>2, <1>5, <1>6, <1>7, <1>8 DEF RollbackChild, ChildCancelling

(* The commits of the rollback that change one column of the row, and what *)
(* the next await relies on.                                               *)
LEMMA RollbackCommitKeeps ==
    ASSUME PipeInv, NEW p, p = task.pipe,
           task.pc \in RollbackLabels \ {"mark_rolling_back"},
           UNCHANGED lifespanVars,
           NEW new \in PipeRows, new.status = row.status,
           NEW label \in RollbackLabels, RollbackCommits(new, label),
           Based(p, row) => Based(p, new), StageOfRollback(label, new),
           Calm /\ new.vectors => new.indexed \/ ~(row.vectors => row.indexed)
    PROVE  PipeInv'
<1>1. task.pc \in WorkLabels /\ task.pc # "index_chunks"
      /\ task.pc # "mark_rolling_back"
  BY LabelSets DEF WorkLabels
<1>2. /\ p \in Jobs /\ On(p) /\ row = pipe[p] /\ Based(p, row)
      /\ Calm /\ row.vectors => row.indexed
  BY <1>1, OnDuty
<1>3. StageOK(label, p, new)
  <2>1. label \notin BodyLabels
    BY LabelSets
  <2> QED BY <2>1 DEF StageOK, StageOfBody, StageOfChild, CandidateLabels, BuildLabels,
             BodyLabels
<1>4. Follows(label)
  BY LabelSets
<1> QED BY <1>1, <1>2, <1>3, <1>4, CommitKeeps

LEMMA UnlinkCandidateKeeps == ASSUME PipeInv, UnlinkCandidate PROVE PipeInv'
<1>1. /\ task.pc = "unlink_candidate" /\ task.pc \in RollbackLabels
      /\ task.pc \in WorkLabels /\ UNCHANGED lifespanVars
  BY DEF UnlinkCandidate, At, WorkLabels, RollbackLabels
<1>2. CASE Quietly(Goes("rollback_artifact"))
  <2>1. StageOK("rollback_artifact", task.pipe, row) /\ Follows("rollback_artifact")
    BY LabelSets DEF StageOK, StageOfBody, StageOfRollback, StageOfChild,
       CandidateLabels, BuildLabels, RollbackLabels
  <2> QED BY <1>1, <1>2, <2>1, QuietKeeps
<1>3. CASE RollbackRaises
  BY <1>1, <1>3, GivingUpKeeps DEF RollbackRaises, Quietly
<1>4. CASE RollbackCommits([row EXCEPT !.candidate = FALSE], "delete_vectors")
  <2>1. row \in PipeRows
    BY <1>1, OnDuty
  <2>2. PICK new \in PipeRows : new = [row EXCEPT !.candidate = FALSE]
    BY <2>1 DEF PipeRows
  <2>3. /\ new.status = row.status /\ new.vectors = row.vectors
        /\ new.indexed = row.indexed
        /\ \A p : Based(p, row) => Based(p, new)
    BY <2>1, <2>2 DEF PipeRows, Based
  <2>4. StageOfRollback("delete_vectors", new) /\ "delete_vectors" \in RollbackLabels
    BY DEF StageOfRollback, RollbackLabels
  <2> QED BY <1>1, <1>4, <2>2, <2>3, <2>4, RollbackCommitKeeps
<1> QED BY <1>2, <1>3, <1>4 DEF UnlinkCandidate

(* Without a stop or an error no vectors are left behind here. *)
LEMMA DeleteVectorsKeeps == ASSUME PipeInv, DeleteVectors PROVE PipeInv'
<1>1. /\ task.pc = "delete_vectors" /\ task.pc \in RollbackLabels
      /\ task.pc \in WorkLabels /\ UNCHANGED lifespanVars
  BY DEF DeleteVectors, At, WorkLabels, RollbackLabels
<1>2. row \in PipeRows /\ (Calm /\ row.vectors => row.indexed)
  BY <1>1, OnDuty
<1>3. PICK new \in PipeRows : new = [row EXCEPT !.vectors = @ /\ ~row.indexed]
  <2>1. PICK kept \in BOOLEAN : kept <=> row.vectors /\ ~row.indexed
    OBVIOUS
  <2> QED BY <1>2, <2>1 DEF PipeRows
<1>4. /\ new.status = row.status /\ \A p : Based(p, row) => Based(p, new)
      /\ new.vectors <=> row.vectors /\ ~row.indexed
  BY <1>2, <1>3 DEF PipeRows, Based
<1>5. /\ Calm => ~new.vectors
      /\ StageOfRollback("delete_indexed_chunks", new)
      /\ "delete_indexed_chunks" \in RollbackLabels
  BY <1>2, <1>4 DEF StageOfRollback, RollbackLabels
<1>6. RollbackCommits(new, "delete_indexed_chunks")
  BY <1>3 DEF DeleteVectors
<1> QED BY <1>1, <1>4, <1>5, <1>6, RollbackCommitKeeps

LEMMA DeleteIndexedChunksKeeps == ASSUME PipeInv, DeleteIndexedChunks PROVE PipeInv'
<1>1. /\ task.pc = "delete_indexed_chunks" /\ task.pc \in RollbackLabels
      /\ task.pc \in WorkLabels /\ UNCHANGED lifespanVars
  BY DEF DeleteIndexedChunks, At, WorkLabels, RollbackLabels
<1>2. row \in PipeRows /\ (Calm => ~row.vectors)
  BY <1>1, OnDuty DEF StageOK, StageOfRollback
<1>3. PICK new \in PipeRows : new = [row EXCEPT !.indexed = FALSE]
  BY <1>2 DEF PipeRows
<1>4. /\ new.status = row.status /\ \A p : Based(p, row) => Based(p, new)
      /\ ~new.indexed /\ new.vectors = row.vectors
  BY <1>2, <1>3 DEF PipeRows, Based
<1>5. StageOfRollback("delete_dense", new) /\ "delete_dense" \in RollbackLabels
  BY <1>4 DEF StageOfRollback, RollbackLabels
<1>6. RollbackCommits(new, "delete_dense")
  BY <1>3 DEF DeleteIndexedChunks
<1> QED BY <1>1, <1>2, <1>4, <1>5, <1>6, RollbackCommitKeeps

LEMMA DeleteDenseKeeps == ASSUME PipeInv, DeleteDense PROVE PipeInv'
<1>1. /\ task.pc = "delete_dense" /\ task.pc \in RollbackLabels
      /\ task.pc \in WorkLabels /\ UNCHANGED lifespanVars
  BY DEF DeleteDense, At, WorkLabels, RollbackLabels
<1>2. row \in PipeRows /\ ~row.indexed /\ (Calm /\ row.vectors => row.indexed)
  BY <1>1, OnDuty DEF StageOK, StageOfRollback
<1>3. CASE RollbackRaises
  BY <1>1, <1>3, GivingUpKeeps DEF RollbackRaises, Quietly
<1>4. CASE RollbackCommits([row EXCEPT !.dense = "absent"], "rollback_artifact")
  <2>1. PICK new \in PipeRows : new = [row EXCEPT !.dense = "absent"]
    BY <1>2 DEF PipeRows
  <2>2. /\ new.status = row.status /\ \A p : Based(p, row) => Based(p, new)
        /\ new.vectors = row.vectors /\ new.indexed = row.indexed
    BY <1>2, <2>1 DEF PipeRows, Based
  <2>3. StageOfRollback("rollback_artifact", new) /\ "rollback_artifact" \in RollbackLabels
    BY DEF StageOfRollback, RollbackLabels
  <2> QED BY <1>1, <1>2, <1>4, <2>1, <2>2, <2>3, RollbackCommitKeeps
<1> QED BY <1>3, <1>4 DEF DeleteDense

LEMMA RollbackArtifactKeeps == ASSUME PipeInv, RollbackArtifact PROVE PipeInv'
<1>1. /\ task.pc = "rollback_artifact" /\ task.pc \in RollbackLabels
      /\ task.pc \in WorkLabels /\ UNCHANGED lifespanVars
  BY DEF RollbackArtifact, At, WorkLabels, RollbackLabels
<1>2. PICK label \in {"own_artifact", "delete_set"} : Quietly(Goes(label))
  BY DEF RollbackArtifact
<1>3. StageOK(label, task.pipe, row) /\ Follows(label)
  BY <1>2, LabelSets DEF StageOK, StageOfBody, StageOfRollback, StageOfChild,
     CandidateLabels, BuildLabels, RollbackLabels
<1> QED BY <1>1, <1>2, <1>3, QuietKeeps

LEMMA OwnArtifactKeeps == ASSUME PipeInv, OwnArtifact PROVE PipeInv'
<1>1. /\ task.pc = "own_artifact" /\ task.pc \in RollbackLabels
      /\ task.pc \in WorkLabels /\ UNCHANGED lifespanVars
  BY DEF OwnArtifact, At, WorkLabels, RollbackLabels
<1>2. row \in PipeRows /\ (Calm /\ row.vectors => row.indexed)
  BY <1>1, OnDuty
<1>3. PICK new \in PipeRows : new = [row EXCEPT !.owned = TRUE]
  BY <1>2 DEF PipeRows
<1>4. /\ new.status = row.status /\ \A p : Based(p, row) => Based(p, new)
      /\ new.vectors = row.vectors /\ new.indexed = row.indexed
  BY <1>2, <1>3 DEF PipeRows, Based
<1>5. StageOfRollback("clear_result", new) /\ "clear_result" \in RollbackLabels
  BY DEF StageOfRollback, RollbackLabels
<1>6. RollbackCommits(new, "clear_result")
  BY <1>3 DEF OwnArtifact
<1> QED BY <1>1, <1>2, <1>4, <1>5, <1>6, RollbackCommitKeeps

(* The two steps that take the index of the child away: only a rollback    *)
(* takes them, and then no row claims what they take.                      *)
LEMMA TakingKeeps ==
    ASSUME PipeInv, NEW p \in Jobs, p = task.pipe, On(p),
           task.pc \in {"clear_result", "delete_artifact"},
           UNCHANGED lifespanVars,
           UNCHANGED <<job_status, cancel_requested, artifact_name, workerVars,
                       requestVars, envVars>>,
           UNCHANGED faults \/ DatabaseError,
           linked' \in {linked, linked \ {p}},
           index_status' \in {index_status, [index_status EXCEPT ![p] = "absent"]},
           NEW new \in PipeRows, pipe' = [pipe EXCEPT ![p] = new],
           new.status = pipe[p].status, new.chunk_set = pipe[p].chunk_set,
           new.dense = pipe[p].dense, new.indexed = pipe[p].indexed,
           new.vectors = pipe[p].vectors,
           \/ StepsAside
           \/ /\ task' \in Tasks /\ task'.pipe = p
              /\ task'.pc \in {"delete_artifact", "delete_set"}
    PROVE  PipeInv'
<1>1. /\ JobsInv /\ PipeTypeOK /\ PipeOK(p)
      /\ job_status' = job_status /\ pc' = pc /\ cur' = cur /\ app' = app
      /\ stops' = stops /\ artifact_name' = artifact_name
  BY DEF PipeInv, workerVars, envVars
<1>2. JobsInv'
  <2>1. faults' \in 0..MaxFaults
    BY <1>1, FaultsBounded DEF JobsInv
  <2>2. linked' \subseteq Jobs
        /\ index_status' \in [Jobs -> {"absent"} \cup CORPUS_BM25_INDEX_STATUSES]
    BY <1>1 DEF JobsInv, TypeOK, JobsOK
  <2>3. TypeOK'
    BY <1>1, <2>1, <2>2 DEF JobsInv, TypeOK, JobsOK, WorkerOK, SurroundingsOK,
       workerVars, requestVars, envVars
  <2> QED BY <1>1, <2>3 DEF JobsInv, LabelFacts, OneJobRuns, ReservedNamesAreExclusive, Active
<1>3. stops' = 0 /\ faults' = 0 => stops = 0 /\ faults = 0
  <2>1. faults \in Nat
    BY <1>1, LimitsAssumption DEF JobsInv, TypeOK, SurroundingsOK
  <2> QED BY <1>1, <2>1 DEF DatabaseError
<1>4. pipe' \in [Jobs -> PipeRows] /\ pipe'[p] = new
      /\ \A q \in Jobs : q # p => pipe'[q] = pipe[q]
  BY <1>1 DEF PipeTypeOK
<1>5. /\ task' \in Tasks /\ task'.pc \in RollbackLabels \cup {"loop", "recover"}
      /\ task'.pc \in WorkLabels => task'.pipe = p
      /\ phase = "recovering" => task'.pc \in RollbackLabels \cup {"recover"}
      /\ task'.pc # "index_chunks"
  BY DEF StepsAside, RollbackLabels, WorkLabels, BodyLabels
<1>6. PipeTypeOK'
  BY <1>1, <1>4, <1>5 DEF PipeTypeOK, lifespanVars, WorkLabels
<1>7. PhasesInv'
  BY <1>1, <1>5 DEF PipeInv, PhasesInv, lifespanVars, On
<1>8. ASSUME NEW q \in Jobs, q # p PROVE PipeOK(q)'
  <2>1. PipeOK(q) /\ ~On(q) /\ ~On(q)'
    BY <1>5, <1>8 DEF PipeInv, On
  <2>2. PICK r : r = pipe[q]
    OBVIOUS
  <2>3. /\ index_status'[q] = index_status[q]
        /\ q \in linked => q \in linked'
        /\ Settled(q) => Settled(q)'
    BY <1>1, <1>8 DEF Settled, Working, Terminal, JobsInv, TypeOK, JobsOK
  <2>4. RowOK(q, r)' /\ VectorsOK("down", r)'
    <3>1. RowOK(q, r) /\ VectorsOK("down", r)
      BY <2>1, <2>2 DEF PipeOK
    <3> QED BY <1>3, <2>3, <3>1, RowFrame DEF lifespanVars
  <2>5. RowOK(q, pipe[q])' /\ VectorsOK("down", pipe[q])'
    BY <1>4, <1>8, <2>2, <2>4
  <2> QED BY <1>4, <1>8, <2>1, <2>5 DEF PipeOK, lifespanVars
<1>9. PipeOK(p)'
  <2>1. /\ new.status \in StartedStatuses
        /\ p \notin overtaken => new.status = "running"
        /\ Based(p, pipe[p]) /\ pipe_request[p] # "checked"
        /\ p \notin interrupted
    BY <1>1 DEF PipeOK, LabelOK, StatusAt, RowOK, StatusTells, StartedStatuses,
       TERMINAL_CORPUS_BM25_BUILD_JOB_STATUSES
  <2>2. index_status'[p] \in {index_status[p], "absent"}
    BY <1>1 DEF JobsInv, TypeOK, JobsOK
  <2>3. RowOK(p, new)'
    BY <2>1, <2>2 DEF RowOK, Based, StatusTells, lifespanVars, StartedStatuses,
       TERMINAL_CORPUS_BM25_BUILD_JOB_STATUSES
  <2>4. ASSUME NEW label PROVE VectorsOK(label, new)'
    <3>1. Calm /\ pipe[p].vectors => pipe[p].indexed
      BY <1>1 DEF PipeOK, VectorsOK
    <3> QED BY <1>3, <3>1 DEF VectorsOK, Calm
  <2>5. ASSUME NEW label \in {"mark_rolling_back", "delete_artifact", "delete_set"}
        PROVE  LabelOK(label, p, new)'
    BY <2>1, <2>5 DEF LabelOK, StatusAt, StageOfBody, StageOfRollback, StageOfChild,
       CandidateLabels, BuildLabels, lifespanVars
  <2>6. PICK label : label = task'.pc
    OBVIOUS
  <2>7. On(p)' => label \in {"mark_rolling_back", "delete_artifact", "delete_set"}
    BY <2>6 DEF On, StepsAside, WorkLabels, BodyLabels, RollbackLabels
  <2>8. RowOK(p, pipe[p])' /\ VectorsOK(IF On(p) THEN task.pc ELSE "down", pipe[p])'
    BY <1>4, <2>3, <2>4
  <2>9. On(p)' => LabelOK(task.pc, p, pipe[p])'
    BY <1>4, <2>5, <2>6, <2>7
  <2> QED BY <2>1, <2>8, <2>9 DEF PipeOK, lifespanVars
<1> QED BY <1>2, <1>6, <1>7, <1>8, <1>9 DEF PipeInv

LEMMA ClearResultKeeps == ASSUME PipeInv, ClearResult PROVE PipeInv'
<1>1. /\ task.pc = "clear_result" /\ task.pc \in WorkLabels /\ UNCHANGED lifespanVars
  BY DEF ClearResult, At, WorkLabels, RollbackLabels
<1>2. PICK p : p = task.pipe
  OBVIOUS
<1>3. /\ p \in Jobs /\ On(p) /\ row = pipe[p] /\ row \in PipeRows /\ PipeTypeOK
  BY <1>1, <1>2, OnDuty
<1>4. pipe' = [pipe EXCEPT ![p] = row] /\ linked' \in {linked, linked \ {p}}
  BY <1>2, <1>3 DEF ClearResult, PipeTypeOK
<1>5. /\ UNCHANGED <<job_status, cancel_requested, artifact_name, workerVars,
                     requestVars, envVars, index_status>>
      /\ UNCHANGED faults \/ DatabaseError
  BY DEF ClearResult, RollbackFails
<1>6. \/ StepsAside
      \/ task' \in Tasks /\ task'.pc = "delete_artifact" /\ task'.pipe = p
  <2>1. CASE Goes("delete_artifact")
    <3>1. Follows("delete_artifact")
      BY LabelSets DEF RollbackLabels
    <3> QED BY <1>2, <1>3, <2>1, <3>1, GoesOn
  <2>2. CASE RollbackFails
    BY <1>3, <2>2, ErrorsStepAside
  <2> QED BY <2>1, <2>2 DEF ClearResult
<1> QED BY <1>1, <1>2, <1>3, <1>4, <1>5, <1>6, TakingKeeps

LEMMA DeleteArtifactKeeps == ASSUME PipeInv, DeleteArtifact PROVE PipeInv'
<1>1. /\ task.pc = "delete_artifact" /\ task.pc \in WorkLabels /\ UNCHANGED lifespanVars
  BY DEF DeleteArtifact, At, WorkLabels, RollbackLabels
<1>2. PICK p : p = task.pipe
  OBVIOUS
<1>3. /\ p \in Jobs /\ On(p) /\ row = pipe[p] /\ row \in PipeRows /\ PipeTypeOK
  BY <1>1, <1>2, OnDuty
<1> DEFINE Deletes ==
        /\ (Goes("delete_set") /\ UNCHANGED faults) \/ RollbackFails
        /\ index_status' = [index_status EXCEPT ![task.pipe] = "absent"]
        /\ pipe' = [pipe EXCEPT ![task.pipe].owned = FALSE]
        /\ UNCHANGED <<jobVars, workerVars, requestVars, envVars>>
<1>4. PICK new \in PipeRows : new = [row EXCEPT !.owned = FALSE]
  BY <1>3, ZenonT(40) DEF PipeRows
<1>5. /\ new.status = row.status /\ new.chunk_set = row.chunk_set
      /\ new.dense = row.dense /\ new.indexed = row.indexed
      /\ new.vectors = row.vectors
  BY <1>3, <1>4 DEF PipeRows
<1>6. CASE Quietly(AbandonsExpired)
  BY <1>1, <1>6, GivingUpKeeps DEF Quietly
<1>7. CASE Deletes
  <2>1. /\ pipe' = [pipe EXCEPT ![p] = new]
        /\ index_status' = [index_status EXCEPT ![p] = "absent"]
    BY <1>2, <1>3, <1>4, <1>7 DEF PipeTypeOK
  <2>2. /\ UNCHANGED <<job_status, cancel_requested, artifact_name, workerVars,
                       requestVars, envVars, linked>>
        /\ UNCHANGED faults \/ DatabaseError
    BY <1>7 DEF RollbackFails, jobVars
  <2>3. \/ StepsAside
        \/ task' \in Tasks /\ task'.pc = "delete_set" /\ task'.pipe = p
    <3>1. CASE Goes("delete_set")
      <4>1. Follows("delete_set")
        BY LabelSets DEF RollbackLabels
      <4> QED BY <1>2, <1>3, <3>1, <4>1, GoesOn
    <3>2. CASE RollbackFails
      BY <1>3, <3>2, ErrorsStepAside
    <3> QED BY <1>7, <3>1, <3>2
  <2> QED BY <1>1, <1>2, <1>3, <1>5, <2>1, <2>2, <2>3, TakingKeeps
<1> QED BY <1>6, <1>7 DEF DeleteArtifact

(* The set goes last: no index refers to it then. *)
LEMMA DeleteSetKeeps == ASSUME PipeInv, DeleteSet PROVE PipeInv'
<1>1. /\ task.pc = "delete_set" /\ task.pc \in RollbackLabels
      /\ task.pc \in WorkLabels /\ UNCHANGED lifespanVars
  BY DEF DeleteSet, At, WorkLabels, RollbackLabels
<1>2. row \in PipeRows /\ (Calm /\ row.vectors => row.indexed)
      /\ Based(task.pipe, row)
  BY <1>1, OnDuty
<1>3. CASE ~row.chunk_set /\ Quietly(Goes("delete_job_chunks"))
  <2>1. /\ StageOK("delete_job_chunks", task.pipe, row)
        /\ Follows("delete_job_chunks")
    BY <1>3, LabelSets DEF StageOK, StageOfBody, StageOfRollback, StageOfChild,
       CandidateLabels, BuildLabels, RollbackLabels
  <2> QED BY <1>1, <1>3, <2>1, QuietKeeps
<1>4. CASE RollbackRaises
  BY <1>1, <1>4, GivingUpKeeps DEF RollbackRaises, Quietly
<1>5. CASE /\ row.dense = "absent" /\ ~ChildIndexExists
           /\ RollbackCommits(delete_corpus_chunk_set(row), "delete_set_chunks")
  <2>1. PICK new \in PipeRows : new = [row EXCEPT !.chunk_set = FALSE]
    BY <1>2 DEF PipeRows
  <2>2. /\ new.status = row.status /\ ~new.chunk_set /\ new.dense = row.dense
        /\ new.vectors = row.vectors /\ new.indexed = row.indexed
    BY <1>2, <2>1 DEF PipeRows
  <2>3. Based(task.pipe, new)
    BY <1>2, <1>5, <2>2 DEF Based, ChildIndexExists
  <2>4. StageOfRollback("delete_set_chunks", new) /\ "delete_set_chunks" \in RollbackLabels
    BY <2>2 DEF StageOfRollback, RollbackLabels
  <2>5. RollbackCommits(new, "delete_set_chunks")
    BY <1>5, <2>1 DEF delete_corpus_chunk_set
  <2> QED BY <1>1, <1>2, <2>2, <2>3, <2>4, <2>5, RollbackCommitKeeps
<1> QED BY <1>3, <1>4, <1>5 DEF DeleteSet

LEMMA DeleteChunksKeeps ==
    ASSUME PipeInv, \/ DeleteChunks("delete_set_chunks", row.edited)
                    \/ DeleteChunks("delete_job_chunks", FALSE)
    PROVE  PipeInv'
<1>1. /\ task.pc \in {"delete_set_chunks", "delete_job_chunks"}
      /\ task.pc \in RollbackLabels
      /\ task.pc \in WorkLabels /\ UNCHANGED lifespanVars
  BY DEF DeleteChunks, At, WorkLabels, RollbackLabels
<1>2. row \in PipeRows /\ (Calm /\ row.vectors => row.indexed) /\ ~row.chunk_set
  BY <1>1, OnDuty DEF StageOK, StageOfRollback
<1>3. PICK kept \in BOOLEAN :
          /\ kept => row.edited
          /\ RollbackCommits([row EXCEPT !.chunks = @ /\ kept], "finish")
  BY <1>2 DEF DeleteChunks, PipeRows
<1>4. PICK new \in PipeRows : new = [row EXCEPT !.chunks = @ /\ kept]
  <2>1. PICK left \in BOOLEAN : left <=> row.chunks /\ kept
    OBVIOUS
  <2> QED BY <1>2, <2>1 DEF PipeRows
<1>5. /\ new.status = row.status /\ ~new.chunk_set
      /\ new.vectors = row.vectors /\ new.indexed = row.indexed
      /\ new.edited = row.edited /\ (new.chunks => kept)
      /\ \A p : Based(p, row) => Based(p, new)
  BY <1>2, <1>4 DEF PipeRows, Based
<1>6. StageOfRollback("finish", new) /\ "finish" \in RollbackLabels
  BY <1>3, <1>5 DEF StageOfRollback, RollbackLabels
<1>7. RollbackCommits(new, "finish")
  BY <1>3, <1>4
<1>8. task.pc # "mark_rolling_back"
  BY <1>1
<1> QED BY <1>1, <1>2, <1>5, <1>6, <1>7, <1>8, RollbackCommitKeeps

LEMMA FinishRollbackKeeps == ASSUME PipeInv, FinishRollback PROVE PipeInv'
<1>1. /\ task.pc = "finish" /\ task.pc \in WorkLabels /\ UNCHANGED lifespanVars
  BY DEF FinishRollback, At, WorkLabels, RollbackLabels
<1>2. PICK p : p = task.pipe
  OBVIOUS
<1>3. /\ p \in Jobs /\ On(p) /\ row = pipe[p] /\ row \in PipeRows
      /\ StageOK("finish", p, row) /\ Based(p, row)
      /\ StatusAt("finish", p, row) /\ StatusTells(p, row)
      /\ Calm /\ row.vectors => row.indexed
  BY <1>1, <1>2, OnDuty
<1>4. PICK new \in PipeRows :
          /\ new.status \in {"failed", "cancelled"} /\ SameProducts(row, new)
          /\ Commits(new, task' = Finished, RollbackFails)
  BY <1>3, EndedRows DEF FinishRollback
<1>5. Based(p, new) /\ new.status \in StartedStatuses
  BY <1>3, <1>4 DEF Based, SameProducts, StartedStatuses,
     TERMINAL_CORPUS_BM25_BUILD_JOB_STATUSES
<1>6. StatusTells(p, new)
  BY <1>3, <1>4 DEF StatusTells, StatusAt, StageOK, StageOfRollback, SameProducts,
     StartedStatuses, TERMINAL_CORPUS_BM25_BUILD_JOB_STATUSES
<1>7. RowOK(p, new) /\ (Calm /\ new.vectors => new.indexed)
  BY <1>3, <1>4, <1>5, <1>6 DEF RowOK, SameProducts
<1> QED BY <1>1, <1>2, <1>3, <1>4, <1>5, <1>7, EndingKeeps

LEMMA RollbackKeeps == ASSUME PipeInv, Rollback PROVE PipeInv'
BY MarkRollingBackKeeps, RollbackChildKeeps, UnlinkCandidateKeeps,
   DeleteVectorsKeeps, DeleteIndexedChunksKeeps, DeleteDenseKeeps,
   RollbackArtifactKeeps, OwnArtifactKeeps, ClearResultKeeps,
   DeleteArtifactKeeps, DeleteSetKeeps, DeleteChunksKeeps, FinishRollbackKeeps
   DEF Rollback

-----------------------------------------------------------------------------
(* Requests about a pipe, the loop, and the lifespan. *)

(* A request writes one row, and nobody is recovered meanwhile.            *)
LEMMA RequestKeeps ==
    ASSUME PipeInv, NEW p \in Jobs, NEW new \in PipeRows,
           pipe' = [pipe EXCEPT ![p] = new], RequestFrame, phase = "serving",
           NEW progress \in {"none", "checked", "inserted", "cancel", "mark_cancelled"},
           pipe_request' = [pipe_request EXCEPT ![p] = progress],
           pipe_wake' \in BOOLEAN,
           overtaken' \in {overtaken, overtaken \cup {p}},
           Based(p, new), StatusTells(p, new)',
           new.vectors = pipe[p].vectors, new.indexed = pipe[p].indexed,
           On(p) => LabelOK(task.pc, p, new)'
    PROVE  PipeInv'
<1>1. /\ JobsInv /\ PipeTypeOK /\ PhasesInv /\ PipeOK(p)
      /\ UNCHANGED vars /\ task' = task /\ interrupted' = interrupted /\ phase' = phase
  BY DEF PipeInv, RequestFrame
<1>2. interrupted = {}
  BY <1>1 DEF PhasesInv
<1>3. LeavesIndexes
  BY <1>1, StillnessLeavesIndexes
<1>4. pipe' \in [Jobs -> PipeRows] /\ pipe'[p] = new
      /\ \A q \in Jobs : q # p => pipe'[q] = pipe[q] /\ pipe_request'[q] = pipe_request[q]
  BY <1>1 DEF PipeTypeOK
<1>5. PipeTypeOK'
  BY <1>1, <1>4 DEF PipeTypeOK
<1>6. PhasesInv'
  BY <1>1, <1>3 DEF PhasesInv, LeavesIndexes
<1>7. ASSUME NEW q \in Jobs, q # p PROVE PipeOK(q)'
  <2>1. PICK r, label : r = pipe[q] /\ label = task.pc
    OBVIOUS
  <2>2. /\ PipeOK(q) /\ pipe'[q] = pipe[q] /\ pipe_request'[q] = pipe_request[q]
        /\ (q \in overtaken' <=> q \in overtaken)
    BY <1>4, <1>7 DEF PipeInv
  <2>3. /\ (RowOK(q, r) => RowOK(q, r)')
        /\ (VectorsOK(label, r) => VectorsOK(label, r)')
        /\ (VectorsOK("down", r) => VectorsOK("down", r)')
        /\ (LabelOK(label, q, r) => LabelOK(label, q, r)')
    <3>1. UNCHANGED <<index_status, linked, stops, faults>> /\ (Settled(q) => Settled(q)')
      BY <1>1, <1>3 DEF LeavesIndexes, vars, jobVars, envVars
    <3>2. /\ (StatusTells(q, r) => StatusTells(q, r)')
          /\ (StageOfChild(label, q, r) => StageOfChild(label, q, r)')
          /\ (StatusAt(label, q, r) => StatusAt(label, q, r)')
      <4>1. StageOfChild(label, q, r) => StageOfChild(label, q, r)'
        BY <2>2, <3>1 DEF StageOfChild, Serves, BuildLabels
      <4> QED BY <2>2, <3>1, <4>1 DEF StatusTells, StatusAt, Serves
    <3> QED BY <2>2, <3>1, <3>2 DEF RowOK, Based, VectorsOK, Calm, LabelOK, StageOfBody,
               StageOfRollback
  <2>4. On(q)' <=> On(q)
    BY <1>1 DEF On
  <2> QED BY <1>1, <2>1, <2>2, <2>3, <2>4 DEF PipeOK
<1>8. PipeOK(p)'
  <2>1. RowOK(p, new)'
    BY <1>3 DEF RowOK, Based, LeavesIndexes
  <2>2. On(p)' <=> On(p)
    BY <1>1 DEF On
  <2>3. PICK label : label = IF On(p) THEN task.pc ELSE "down"
    OBVIOUS
  <2>4. VectorsOK(label, new)'
    BY <1>1, <1>3, <2>3 DEF PipeOK, VectorsOK, Calm, LeavesIndexes
  <2> QED BY <1>1, <1>2, <1>4, <2>1, <2>2, <2>3, <2>4 DEF PipeOK
<1> QED BY <1>3, <1>5, <1>6, <1>7, <1>8 DEF PipeInv, LeavesIndexes

(* The request leaves what is known of the row, and of the worker on it.   *)
LEMMA MildRequestKeeps ==
    ASSUME PipeInv, NEW p \in Jobs, NEW new \in PipeRows,
           pipe' = [pipe EXCEPT ![p] = new], RequestFrame, phase = "serving",
           NEW progress \in {"none", "checked", "inserted", "cancel", "mark_cancelled"},
           pipe_request' = [pipe_request EXCEPT ![p] = progress],
           progress = "checked" => new.status = "absent",
           pipe_wake' \in BOOLEAN, UNCHANGED overtaken,
           RowOK(p, pipe[p]) => RowOK(p, new),
           new.vectors = pipe[p].vectors, new.indexed = pipe[p].indexed,
           On(p) /\ LabelOK(task.pc, p, pipe[p]) => LabelOK(task.pc, p, new)
    PROVE  PipeInv'
<1>1. JobsInv /\ PipeTypeOK /\ PipeOK(p) /\ UNCHANGED vars /\ task' = task
  BY DEF PipeInv, RequestFrame
<1>2. LeavesIndexes
  BY <1>1, StillnessLeavesIndexes
<1>3. RowOK(p, new)
  BY <1>1 DEF PipeOK
<1>4. StatusTells(p, new)'
  <2>1. UNCHANGED <<index_status, linked>> /\ (Settled(p) => Settled(p)')
    BY <1>2 DEF LeavesIndexes
  <2>2. pipe_request'[p] = progress
    BY <1>1 DEF PipeTypeOK
  <2> QED BY <1>3, <2>1, <2>2 DEF RowOK, StatusTells, Serves
<1>5. On(p) => LabelOK(task.pc, p, new)'
  <2>1. PICK label : label = task.pc
    OBVIOUS
  <2>2. On(p) => LabelOK(label, p, new)
    BY <1>1, <2>1 DEF PipeOK
  <2>3. StageOfChild(label, p, new) => StageOfChild(label, p, new)'
    <3>1. UNCHANGED <<index_status, linked>> /\ (Settled(p) => Settled(p)')
      BY <1>2 DEF LeavesIndexes
    <3> QED BY <3>1 DEF StageOfChild, Serves, BuildLabels
  <2>4. LabelOK(label, p, new) => LabelOK(label, p, new)'
    BY <1>2, <2>3 DEF LabelOK, StatusAt, StageOfBody, StageOfRollback, Calm, LeavesIndexes
  <2> QED BY <1>1, <2>1, <2>2, <2>4
<1> QED BY <1>3, <1>4, <1>5, RequestKeeps DEF RowOK

LEMMA QueuePipeKeeps ==
    ASSUME PipeInv, NEW p \in Jobs,
           \/ queue_full_corpus_index_pipe_job_checks(p)
           \/ wake_full_corpus_index_pipe_coordinator(p)
           \/ CancelLoadsPipe(p)
    PROVE  PipeInv'
<1>1. pipe[p] \in PipeRows /\ pipe' = [pipe EXCEPT ![p] = pipe[p]] /\ pipe_wake' \in BOOLEAN
  BY DEF PipeInv, PipeTypeOK, queue_full_corpus_index_pipe_job_checks,
     wake_full_corpus_index_pipe_coordinator, CancelLoadsPipe
<1>2. /\ RequestFrame /\ phase = "serving" /\ UNCHANGED overtaken
      /\ \/ pipe_request' = [pipe_request EXCEPT ![p] = "checked"]
            /\ pipe[p].status = "absent"
         \/ pipe_request' = [pipe_request EXCEPT ![p] = "none"]
         \/ pipe_request' = [pipe_request EXCEPT ![p] = "cancel"]
  BY DEF queue_full_corpus_index_pipe_job_checks, Asks,
     wake_full_corpus_index_pipe_coordinator, CancelLoadsPipe
<1> QED BY <1>1, <1>2, MildRequestKeeps

LEMMA CreatePipeKeeps ==
    ASSUME PipeInv, NEW p \in Jobs, create_full_corpus_index_pipe_job(p)
    PROVE  PipeInv'
<1>1. PipeOK(p) /\ PipeTypeOK /\ pipe[p] \in PipeRows
  BY DEF PipeInv, PipeTypeOK
<1>2. pipe_request[p] = "checked" /\ pipe_request' = [pipe_request EXCEPT ![p] = "inserted"]
      /\ RequestFrame /\ phase = "serving" /\ UNCHANGED <<pipe_wake, overtaken>>
  BY DEF create_full_corpus_index_pipe_job, Asks
<1>3. pipe[p].status = "absent" /\ Fresh(pipe[p])
  BY <1>1, <1>2 DEF PipeOK, RowOK, StatusTells
<1>4. ~On(p)
  BY <1>1, <1>3 DEF PipeOK, LabelOK, StatusAt, StartedStatuses,
     TERMINAL_CORPUS_BM25_BUILD_JOB_STATUSES
<1>5. PICK new \in PipeRows : new = [pipe[p] EXCEPT !.status = "queued"]
  BY <1>1 DEF PipeRows, CORPUS_BM25_BUILD_JOB_STATUSES
<1>6. new.status = "queued" /\ SameProducts(pipe[p], new)
  BY <1>1, <1>5 DEF PipeRows, SameProducts
<1>7. pipe' = [pipe EXCEPT ![p] = new]
  BY <1>1, <1>5 DEF create_full_corpus_index_pipe_job, PipeTypeOK
<1>8. Fresh(new) /\ Based(p, new)
  BY <1>1, <1>3, <1>6 DEF Fresh, SameProducts, PipeOK, RowOK, Based
<1>9. StatusTells(p, new)'
  <2>1. pipe_request'[p] # "checked"
    BY <1>1, <1>2 DEF PipeTypeOK
  <2> QED BY <1>6, <1>8, <2>1 DEF StatusTells
<1> QED BY <1>1, <1>2, <1>4, <1>6, <1>7, <1>8, <1>9, RequestKeeps DEF SameProducts, PipeTypeOK

(* What no part of the invariant looks at. *)
LEMMA CancelPipeKeeps ==
    ASSUME PipeInv, NEW p \in Jobs, request_full_corpus_index_pipe_job_cancel(p)
    PROVE  PipeInv'
<1>1. PipeTypeOK /\ pipe[p] \in PipeRows
  BY DEF PipeInv, PipeTypeOK
<1>2. PICK progress \in {"none", "mark_cancelled"} :
          pipe_request' = [pipe_request EXCEPT ![p] = progress]
  BY DEF request_full_corpus_index_pipe_job_cancel, Asks
<1>3. RequestFrame /\ phase = "serving" /\ UNCHANGED <<pipe_wake, overtaken>>
  BY DEF request_full_corpus_index_pipe_job_cancel, Asks
<1>4. PICK new \in PipeRows : new = [pipe[p] EXCEPT !.cancel_requested = TRUE]
  BY <1>1 DEF PipeRows
<1>5. /\ new.status = pipe[p].status /\ new.rolling_back = pipe[p].rolling_back
      /\ SameProducts(pipe[p], new)
  BY <1>1, <1>4 DEF PipeRows, SameProducts
<1>6. pipe' = [pipe EXCEPT ![p] = new]
  BY <1>1, <1>4 DEF request_full_corpus_index_pipe_job_cancel, PipeTypeOK
<1>7. RowOK(p, pipe[p]) => RowOK(p, new)
  BY <1>5 DEF RowOK, Based, StatusTells, Fresh, SameProducts
<1>8. LabelOK(task.pc, p, pipe[p]) => LabelOK(task.pc, p, new)
  BY <1>5 DEF LabelOK, StatusAt, StageOfBody, StageOfRollback, StageOfChild, Fresh, SameProducts
<1> QED BY <1>1, <1>2, <1>3, <1>5, <1>6, <1>7, <1>8, MildRequestKeeps
       DEF SameProducts, PipeTypeOK

(* A late cancellation marks the row as overtaken, whatever it had become. *)
LEMMA MarkPipeKeeps ==
    ASSUME PipeInv, NEW p \in Jobs, CancelMarksPipe(p)
    PROVE  PipeInv'
<1>1. PipeTypeOK /\ pipe[p] \in PipeRows /\ PipeOK(p) /\ JobsInv
  BY DEF PipeInv, PipeTypeOK
<1>2. /\ pipe_request' = [pipe_request EXCEPT ![p] = "none"]
      /\ RequestFrame /\ phase = "serving" /\ UNCHANGED pipe_wake
      /\ overtaken' = IF pipe[p].status = "queued" THEN overtaken ELSE overtaken \cup {p}
  BY DEF CancelMarksPipe, Asks
<1>3. PICK dense \in {"absent", "building", "built", "active", "cancelled"} :
          /\ cancel_corpus_index_build(pipe[p]) = [pipe[p] EXCEPT !.dense = dense]
          /\ dense = "absent" <=> pipe[p].dense = "absent"
  BY <1>1 DEF cancel_corpus_index_build, PipeRows
<1>4. PICK r \in PipeRows : r = [pipe[p] EXCEPT !.dense = dense]
  BY <1>1 DEF PipeRows
<1>5. PICK new \in PipeRows :
          /\ new = mark_full_corpus_index_pipe_job_cancelled(r)
          /\ new.status = "cancelled" /\ SameProducts(r, new)
  BY EndedRows
<1>6. pipe' = [pipe EXCEPT ![p] = new]
  BY <1>1, <1>3, <1>4, <1>5 DEF CancelMarksPipe, PipeTypeOK
<1>7. /\ new.child = pipe[p].child /\ new.candidate = pipe[p].candidate
      /\ new.chunks = pipe[p].chunks /\ new.chunk_set = pipe[p].chunk_set
      /\ new.edited = pipe[p].edited /\ new.vectors = pipe[p].vectors
      /\ new.indexed = pipe[p].indexed /\ new.used = pipe[p].used
      /\ new.owned = pipe[p].owned
      /\ new.dense = "absent" <=> pipe[p].dense = "absent"
  BY <1>1, <1>3, <1>4, <1>5 DEF PipeRows, SameProducts
<1>8. Based(p, new)
  BY <1>1, <1>7 DEF PipeOK, RowOK, Based
<1>9. pipe[p].status = "queued" => Fresh(pipe[p]) /\ ~On(p)
  BY <1>1 DEF PipeOK, RowOK, StatusTells, LabelOK, StatusAt, StartedStatuses,
     TERMINAL_CORPUS_BM25_BUILD_JOB_STATUSES
<1>10. StatusTells(p, new)'
  <2>1. pipe_request'[p] # "checked"
    BY <1>1, <1>2 DEF PipeTypeOK
  <2>2. p \in overtaken' \/ (~new.chunk_set /\ ~new.chunks)
    BY <1>2, <1>7, <1>9 DEF Fresh
  <2> QED BY <1>5, <2>1, <2>2 DEF StatusTells
<1>11. On(p) => LabelOK(task.pc, p, new)'
  <2>1. PICK label : label = task.pc
    OBVIOUS
  <2>2. SUFFICES ASSUME On(p) PROVE LabelOK(label, p, new)'
    BY <1>2, <2>1 DEF RequestFrame
  <2>3. LabelOK(label, p, pipe[p]) /\ p \in overtaken'
    BY <1>1, <1>2, <1>9, <2>1, <2>2 DEF PipeOK
  <2>4. LeavesIndexes
    BY <1>1, <1>2, StillnessLeavesIndexes DEF RequestFrame
  <2>5. StageOfBody(label, new)
    BY <1>5, <1>7, <2>3 DEF LabelOK, StageOfBody
  <2>6. StageOfRollback(label, new)'
    BY <1>7, <2>3, <2>4 DEF LabelOK, StageOfRollback, LeavesIndexes, Calm
  <2>7. StageOfChild(label, p, new)'
    <3>1. UNCHANGED <<index_status, linked>> /\ (Settled(p) => Settled(p)')
      BY <2>4 DEF LeavesIndexes
    <3> QED BY <1>7, <2>3, <3>1 DEF LabelOK, StageOfChild, Serves, BuildLabels
  <2>8. StatusAt(label, p, new)'
    BY <1>5, <2>3 DEF StatusAt, StartedStatuses, TERMINAL_CORPUS_BM25_BUILD_JOB_STATUSES
  <2> QED BY <2>5, <2>6, <2>7, <2>8 DEF LabelOK, StageOfBody
<1> QED BY <1>1, <1>2, <1>6, <1>7, <1>8, <1>10, <1>11, RequestKeeps DEF PipeTypeOK

(* Users touch only what a worker has made. *)
LEMMA UsersKeep ==
    ASSUME PipeInv, NEW p \in Jobs,
           \/ update_corpus_chunk_set(p)
           \/ _get_valid_built_corpus_index(p)
           \/ _get_valid_built_bm25_index(p)
    PROVE  PipeInv'
<1>1. PipeTypeOK /\ pipe[p] \in PipeRows /\ PipeOK(p) /\ pipe_request[p] \in
          {"none", "checked", "inserted", "cancel", "mark_cancelled"}
  BY DEF PipeInv, PipeTypeOK
<1>2. /\ RequestFrame /\ phase = "serving" /\ UNCHANGED <<pipe_wake, overtaken>>
      /\ pipe_request' = [pipe_request EXCEPT ![p] = pipe_request[p]]
  BY <1>1 DEF update_corpus_chunk_set, _get_valid_built_corpus_index,
     _get_valid_built_bm25_index, Selects, PipeTypeOK
<1>3. PICK new \in PipeRows :
          /\ pipe' = [pipe EXCEPT ![p] = new]
          /\ \/ new = [pipe[p] EXCEPT !.edited = TRUE] /\ pipe[p].chunk_set
             \/ \E index : /\ new = [pipe[p] EXCEPT !.used = @ \cup {index}]
                           /\ pipe[p].dense # "absent" \/ index_status[p] # "absent"
  <2>1. CASE update_corpus_chunk_set(p)
    <3>1. PICK new \in PipeRows : new = [pipe[p] EXCEPT !.edited = TRUE]
      BY <1>1 DEF PipeRows
    <3> QED BY <1>1, <2>1, <3>1 DEF update_corpus_chunk_set, PipeTypeOK,
               replace_corpus_chunk_set_members
  <2>2. ASSUME NEW index \in {"dense", "bm25"}, Selects(p, index),
               pipe[p].dense # "absent" \/ index_status[p] # "absent"
        PROVE  \E new \in PipeRows :
                   /\ pipe' = [pipe EXCEPT ![p] = new]
                   /\ new = [pipe[p] EXCEPT !.used = @ \cup {index}]
                   /\ pipe[p].dense # "absent" \/ index_status[p] # "absent"
    <3>1. PICK used \in SUBSET {"dense", "bm25"} : used = pipe[p].used \cup {index}
      BY <1>1 DEF PipeRows
    <3>2. PICK new \in PipeRows : new = [pipe[p] EXCEPT !.used = used]
      BY <1>1 DEF PipeRows
    <3> QED BY <1>1, <2>2, <3>1, <3>2 DEF Selects, PipeTypeOK
  <2>3. CASE _get_valid_built_corpus_index(p)
    BY <2>2, <2>3 DEF _get_valid_built_corpus_index
  <2>4. CASE _get_valid_built_bm25_index(p)
    BY <2>2, <2>4 DEF _get_valid_built_bm25_index
  <2> QED BY <2>1, <2>3, <2>4
<1>4. /\ new.status = pipe[p].status /\ new.rolling_back = pipe[p].rolling_back
      /\ new.child = pipe[p].child /\ new.candidate = pipe[p].candidate
      /\ new.chunks = pipe[p].chunks /\ new.chunk_set = pipe[p].chunk_set
      /\ new.dense = pipe[p].dense /\ new.vectors = pipe[p].vectors
      /\ new.indexed = pipe[p].indexed /\ new.owned = pipe[p].owned
      /\ pipe[p].edited => new.edited
  BY <1>1, <1>3 DEF PipeRows
<1>5. ~Fresh(pipe[p])
  BY <1>3, <1>1 DEF Fresh, PipeOK, RowOK, Based
<1>6. RowOK(p, pipe[p]) => RowOK(p, new)
  BY <1>4, <1>5 DEF RowOK, Based, StatusTells
<1>7. LabelOK(task.pc, p, pipe[p]) => LabelOK(task.pc, p, new)
  BY <1>4, <1>5 DEF LabelOK, StatusAt, StageOfBody, StageOfRollback, StageOfChild
<1>8. pipe_request[p] = "checked" => new.status = "absent"
  BY <1>1, <1>4 DEF PipeOK, RowOK, StatusTells
<1>9. pipe_wake' \in BOOLEAN
  BY <1>1, <1>2 DEF PipeTypeOK
<1> QED BY <1>1, <1>2, <1>3, <1>4, <1>6, <1>7, <1>8, <1>9, MildRequestKeeps

LEMMA PipeRequestsKeep == ASSUME PipeInv, PipeRequests PROVE PipeInv'
BY QueuePipeKeeps, CreatePipeKeeps, CancelPipeKeeps, MarkPipeKeeps, UsersKeep
   DEF PipeRequests

(* Nobody is at work afterwards, and no row was written.                   *)
LEMMA IdleKeeps ==
    ASSUME PipeInv, JobsInv', PipeTypeOK', PhasesInv',
           UNCHANGED <<pipe, overtaken, index_status>>, linked \subseteq linked',
           \A q \in Jobs : Settled(q) => Settled(q)',
           stops' = 0 /\ faults' = 0 => stops = 0 /\ faults = 0,
           \A q \in Jobs : pipe_request'[q] = "checked" => pipe_request[q] = "checked",
           task'.pc \notin WorkLabels,
           task.pc = "index_chunks" => stops' # 0 \/ faults' # 0,
           \A q \in interrupted' : pipe[q].status \in {"queued", "running"}
    PROVE  PipeInv'
<1>1. ASSUME NEW p \in Jobs PROVE PipeOK(p)'
  <2>1. PipeOK(p) /\ ~On(p)'
    BY DEF PipeInv, On
  <2>2. PICK r : r = pipe[p]
    OBVIOUS
  <2>3. RowOK(p, r)'
    <3>1. RowOK(p, r)
      BY <2>1, <2>2 DEF PipeOK
    <3> QED BY <3>1, RowFrame
  <2>4. VectorsOK("down", r)'
    BY <2>1, <2>2 DEF PipeOK, VectorsOK, Calm
  <2> QED BY <2>1, <2>2, <2>3, <2>4 DEF PipeOK
<1> QED BY <1>1 DEF PipeInv

(* A step of the coordinator between two jobs. *)
LEMMA LoopKeeps ==
    ASSUME PipeInv, task.pc \notin WorkLabels, LeavesIndexes,
           UNCHANGED <<pipe, overtaken, pipe_request>>, pipe_wake' \in BOOLEAN,
           interrupted' \in SUBSET Jobs, phase' \in {"recovering", "serving", "stopping"},
           task' \in Tasks, task'.pc \notin WorkLabels,
           interrupted' # {} => phase' = "recovering",
           phase' = "recovering" => task'.pc = "recover",
           app = "stopping" => task'.pc = "stopped",
           \A q \in interrupted' : pipe[q].status \in {"queued", "running"}
    PROVE  PipeInv'
<1>1. PipeTypeOK'
  BY DEF PipeInv, PipeTypeOK, WorkLabels
<1>2. PhasesInv'
  BY DEF PhasesInv, LeavesIndexes
<1>3. task.pc # "index_chunks"
  BY DEF WorkLabels, BodyLabels
<1> QED BY <1>1, <1>2, <1>3, IdleKeeps DEF LeavesIndexes

(* The worker, or the recovery, takes a row up. *)
LEMMA StartKeeps ==
    ASSUME PipeInv, task.pc \notin WorkLabels, task.pc # "stopped", phase # "down",
           NEW p \in Jobs, NEW new \in PipeRows, pipe' = [pipe EXCEPT ![p] = new],
           LeavesIndexes, UNCHANGED <<pipe_wake, pipe_request, phase, overtaken>>,
           interrupted' \subseteq interrupted \ {p},
           task' \in Tasks, task'.pipe = p,
           task'.pc \in WorkLabels \ {"index_chunks"},
           phase = "recovering" => task'.pc \in RollbackLabels,
           RowOK(p, new), LabelOK(task'.pc, p, new), Calm /\ new.vectors => new.indexed
    PROVE  PipeInv'
<1>1. /\ pipe' \in [Jobs -> PipeRows] /\ pipe'[p] = new
      /\ \A q \in Jobs : q # p => pipe'[q] = pipe[q]
  BY DEF PipeInv, PipeTypeOK
<1>2. PipeTypeOK'
  BY <1>1 DEF PipeInv, PipeTypeOK
<1>3. PhasesInv'
  BY DEF PipeInv, PhasesInv, LeavesIndexes
<1>4. ASSUME NEW q \in Jobs, NEW r, NEW label
      PROVE  /\ RowOK(q, r) => RowOK(q, r)'
             /\ VectorsOK(label, r) => VectorsOK(label, r)'
             /\ LabelOK(label, q, r) => LabelOK(label, q, r)'
  BY RowFrame DEF LeavesIndexes
<1>5. ASSUME NEW q \in Jobs, q # p PROVE PipeOK(q)'
  <2>1. PipeOK(q) /\ ~On(q) /\ ~On(q)'
    BY <1>5 DEF PipeInv, On
  <2>2. PICK r : r = pipe[q]
    OBVIOUS
  <2>3. RowOK(q, r)' /\ VectorsOK("down", r)'
    BY <1>4, <2>1, <2>2 DEF PipeOK
  <2>4. RowOK(q, pipe[q])' /\ VectorsOK("down", pipe[q])'
    BY <1>1, <1>5, <2>2, <2>3
  <2> QED BY <1>1, <1>5, <2>1, <2>4 DEF PipeOK
<1>6. PipeOK(p)'
  <2>1. PICK label : label = task'.pc
    OBVIOUS
  <2>2. RowOK(p, new)' /\ LabelOK(label, p, new)' /\ VectorsOK(label, new)'
    BY <1>4, <2>1 DEF VectorsOK
  <2>3. On(p)' /\ p \notin interrupted'
    BY DEF On
  <2> QED BY <1>1, <2>1, <2>2, <2>3 DEF PipeOK
<1> QED BY <1>2, <1>3, <1>5, <1>6 DEF PipeInv, LeavesIndexes

LEMMA OffDuty ==
    ASSUME PipeInv, task.pc \notin WorkLabels, NEW p \in Jobs
    PROVE  /\ RowOK(p, pipe[p]) /\ (Calm /\ pipe[p].vectors => pipe[p].indexed)
           /\ pipe[p] \in PipeRows /\ PipeTypeOK /\ JobsInv
<1>1. PipeOK(p) /\ ~On(p)
  BY DEF PipeInv, On
<1> QED BY <1>1 DEF PipeInv, PipeTypeOK, PipeOK, VectorsOK

LEMMA Places ==
    /\ \A label \in LoopLabels : TaskAt(label) \in Tasks /\ TaskAt(label).pc = label
    /\ LoopLabels \cap WorkLabels = {}
    /\ {"loop", "claim", "idle_wait", "stopped", "recover", "down"} = LoopLabels
BY DEF TaskAt, Tasks, LoopLabels, WorkLabels, BodyLabels, RollbackLabels

(* A claim that raises after its commit: nobody works on the row.          *)
LEMMA OrphanKeeps ==
    ASSUME PipeInv, task.pc = "claim", phase \in {"serving", "stopping"},
           app # "stopping", interrupted = {}, UNCHANGED lifespanVars,
           NEW p \in Jobs, NEW new \in PipeRows, pipe' = [pipe EXCEPT ![p] = new],
           LeavesIndexes, RowOK(p, new), Calm /\ new.vectors => new.indexed, Abandons
    PROVE  PipeInv'
<1>1. /\ task.pc \notin WorkLabels /\ task' \in Tasks /\ task'.pc = "loop"
      /\ task'.pc \notin WorkLabels
  BY Places DEF Abandons
<1>2. /\ pipe' \in [Jobs -> PipeRows] /\ pipe'[p] = new
      /\ \A q \in Jobs : q # p => pipe'[q] = pipe[q]
  BY DEF PipeInv, PipeTypeOK
<1>3. PipeTypeOK' /\ PhasesInv'
  BY <1>1, <1>2 DEF PipeInv, PipeTypeOK, PhasesInv, LeavesIndexes, lifespanVars, WorkLabels
<1>4. ASSUME NEW q \in Jobs PROVE PipeOK(q)'
  <2>1. /\ RowOK(q, pipe[q]) /\ VectorsOK("down", pipe[q])
        /\ VectorsOK("down", new) /\ ~On(q)'
    BY <1>1, OffDuty DEF VectorsOK, On
  <2>2. PICK r : r = pipe'[q]
    OBVIOUS
  <2>3. RowOK(q, r) /\ VectorsOK("down", r)
    BY <1>2, <2>1, <2>2
  <2>4. RowOK(q, r)' /\ VectorsOK("down", r)'
    BY <2>3, RowFrame DEF LeavesIndexes, lifespanVars
  <2>5. q \notin interrupted'
    BY DEF lifespanVars
  <2> QED BY <2>1, <2>2, <2>4, <2>5 DEF PipeOK
<1> QED BY <1>3, <1>4 DEF PipeInv, LeavesIndexes

LEMMA ClaimKeeps ==
    ASSUME PipeInv, claim_next_full_corpus_index_pipe_job
    PROVE  PipeInv'
<1>1. /\ task.pc = "claim" /\ task.pc \notin WorkLabels /\ task.pc # "stopped"
      /\ UNCHANGED lifespanVars /\ UNCHANGED bm25Vars
  BY Places DEF claim_next_full_corpus_index_pipe_job, At
<1>2. /\ JobsInv /\ PipeTypeOK /\ task \in Tasks /\ interrupted = {}
      /\ phase \in {"serving", "stopping"} /\ app # "stopping"
  BY <1>1, Places DEF PipeInv, PipeTypeOK, PhasesInv, WorkLabels
<1>3. LeavesIndexes
  BY <1>1, <1>2, ErrorsLeaveIndexes DEF claim_next_full_corpus_index_pipe_job
<1>4. "start" \in WorkLabels /\ "start" \in BodyLabels
  BY DEF WorkLabels, BodyLabels
<1>5. ASSUME NEW p \in Jobs, NEW new \in PipeRows, pipe' = [pipe EXCEPT ![p] = new],
             task' = [TaskAt("start") EXCEPT !.pipe = p], new.status = "running",
             RowOK(p, new), new.rolling_back \/ Fresh(new),
             Calm /\ new.vectors => new.indexed
      PROVE  PipeInv'
  <2>1. task' \in Tasks /\ task'.pc = "start" /\ task'.pipe = p
    BY <1>4, <1>5 DEF TaskAt, Tasks
  <2>2. LabelOK("start", p, new)
    BY <1>5 DEF LabelOK, StatusAt, StartedStatuses, StageOfBody, StageOfRollback,
       StageOfChild, CandidateLabels, BuildLabels
  <2>3. UNCHANGED <<pipe_wake, pipe_request, phase, overtaken>>
        /\ interrupted' \subseteq interrupted \ {p}
    BY <1>1, <1>2 DEF lifespanVars
  <2> QED BY <1>1, <1>2, <1>3, <1>4, <1>5, <2>1, <2>2, <2>3, StartKeeps
<1>6. ASSUME NEW p \in RollingBack, UNCHANGED pipe,
             task' = [TaskAt("start") EXCEPT !.pipe = p]
      PROVE  PipeInv'
  <2>1. p \in Jobs /\ pipe[p].status = "running" /\ pipe[p].rolling_back
    BY <1>6 DEF RollingBack
  <2>2. pipe' = [pipe EXCEPT ![p] = pipe[p]]
    BY <1>2, <1>6, <2>1 DEF PipeTypeOK
  <2> QED BY <1>1, <1>5, <1>6, <2>1, <2>2, OffDuty
<1>7. ASSUME NEW p \in QueuedPipes,
             pipe' = [pipe EXCEPT ![p].status = "running", ![p].cancel_requested = FALSE],
             task' = [TaskAt("start") EXCEPT !.pipe = p] \/ Abandons
      PROVE  PipeInv'
  <2>1. /\ p \in Jobs /\ pipe[p] \in PipeRows /\ pipe[p].status = "queued"
        /\ RowOK(p, pipe[p])
    BY <1>1, <1>7, OffDuty DEF QueuedPipes
  <2>2. PICK new \in PipeRows :
            new = [pipe[p] EXCEPT !.status = "running", !.cancel_requested = FALSE]
    BY <2>1 DEF PipeRows, CORPUS_BM25_BUILD_JOB_STATUSES
  <2>3. pipe' = [pipe EXCEPT ![p] = new]
    BY <1>2, <1>7, <2>1, <2>2 DEF PipeTypeOK
  <2>4. new.status = "running" /\ SameProducts(pipe[p], new)
    BY <2>1, <2>2 DEF PipeRows, SameProducts
  <2>5. Fresh(new) /\ (Calm /\ new.vectors => new.indexed)
    BY <2>1, <2>4 DEF RowOK, StatusTells, Fresh, SameProducts
  <2>6. RowOK(p, new)
    BY <2>1, <2>4, <2>5 DEF RowOK, Based, StatusTells, SameProducts
  <2>7. CASE task' = [TaskAt("start") EXCEPT !.pipe = p]
    BY <1>5, <2>1, <2>3, <2>4, <2>5, <2>6, <2>7
  <2>8. CASE Abandons
    BY <1>1, <1>2, <1>3, <2>1, <2>3, <2>5, <2>6, <2>8, OrphanKeeps
  <2> QED BY <1>7, <2>7, <2>8
<1>8. ASSUME UNCHANGED pipe, Goes("idle_wait") \/ Abandons PROVE PipeInv'
  <2>1. task' \in Tasks /\ task'.pc \in {"idle_wait", "loop"}
    BY <1>2, <1>8, Places DEF Goes, Abandons, Tasks
  <2>2. task'.pc \notin WorkLabels /\ UNCHANGED <<pipe, overtaken, pipe_request>>
        /\ pipe_wake' \in BOOLEAN /\ phase' \in {"serving", "stopping"}
        /\ interrupted' = {}
    BY <1>1, <1>2, <1>8, <2>1, Places DEF lifespanVars, PipeTypeOK
  <2> QED BY <1>1, <1>2, <1>3, <2>1, <2>2, LoopKeeps
<1> QED BY <1>6, <1>7, <1>8 DEF claim_next_full_corpus_index_pipe_job, First

LEMMA CoordinatorLoopKeeps ==
    ASSUME PipeInv, PipeLoopTop \/ PipeWaitEnds
    PROVE  PipeInv'
<1>1. /\ task.pc \in {"loop", "idle_wait"} /\ task.pc \notin WorkLabels
      /\ UNCHANGED <<vars, pipe, pipe_request, interrupted, phase, overtaken>>
  BY Places DEF PipeLoopTop, PipeWaitEnds, At, Quietly, lifespanVars
<1>2. /\ JobsInv /\ PipeTypeOK /\ task \in Tasks /\ interrupted = {}
      /\ phase \in {"serving", "stopping"} /\ app # "stopping"
  BY <1>1, Places DEF PipeInv, PipeTypeOK, PhasesInv, WorkLabels
<1>3. LeavesIndexes
  BY <1>1, <1>2, StillnessLeavesIndexes
<1>4. task' \in Tasks /\ task'.pc \in {"stopped", "claim", "loop"}
      /\ task'.pc \notin WorkLabels
  BY <1>2, Places DEF PipeLoopTop, PipeWaitEnds, Quietly, Goes, Tasks
<1>5. pipe_wake' \in BOOLEAN
  BY <1>2 DEF PipeLoopTop, PipeWaitEnds, At, lifespanVars, PipeTypeOK
<1>6. UNCHANGED <<pipe, overtaken, pipe_request>> /\ interrupted' = {}
      /\ phase' \in {"serving", "stopping"}
  BY <1>1, <1>2
<1> QED BY <1>1, <1>2, <1>3, <1>4, <1>5, <1>6, LoopKeeps

LEMMA ListInterruptedKeeps == ASSUME PipeInv, ListInterrupted PROVE PipeInv'
<1>1. /\ JobsInv /\ PipeTypeOK /\ task.pc = "down" /\ interrupted = {} /\ app = "up"
      /\ task.pc \notin WorkLabels
  BY Places DEF PipeInv, PhasesInv, ListInterrupted
<1>2. /\ UNCHANGED bm25Vars /\ (UNCHANGED faults \/ DatabaseError)
      /\ UNCHANGED <<pipe, overtaken, pipe_request, pipe_wake>>
  BY DEF ListInterrupted
<1>3. LeavesIndexes
  BY <1>1, <1>2, ErrorsLeaveIndexes
<1>4. /\ interrupted' \in SUBSET Jobs
      /\ \A q \in interrupted' : pipe[q].status \in {"queued", "running"}
      /\ \/ phase' = "recovering" /\ task' = TaskAt("recover")
         \/ phase' = "serving" /\ task' = TaskAt("loop") /\ interrupted' = {}
  <2>1. \A q \in ActivePipes : q \in Jobs /\ pipe[q].status \in {"queued", "running"}
    BY DEF ActivePipes
  <2> QED BY <1>1, <2>1 DEF ListInterrupted
<1>5. task' \in Tasks /\ task'.pc \in {"recover", "loop"} /\ task'.pc \notin WorkLabels
      /\ (phase' = "recovering" => task'.pc = "recover")
  BY <1>4, Places
<1>6. pipe_wake' \in BOOLEAN
  BY <1>1, <1>2 DEF PipeTypeOK
<1> QED BY <1>1, <1>2, <1>3, <1>4, <1>5, <1>6, LoopKeeps

(* The recovery rolls back what was running, whoever had claimed it.       *)
LEMMA RecoveryKeeps ==
    ASSUME PipeInv, fail_interrupted_full_corpus_index_pipe_jobs
    PROVE  PipeInv'
<1>1. /\ task.pc = "recover" /\ task.pc \notin WorkLabels
      /\ UNCHANGED <<vars, pipe, pipe_wake, pipe_request, overtaken>>
  BY Places DEF fail_interrupted_full_corpus_index_pipe_jobs
<1>2. JobsInv /\ PipeTypeOK /\ app # "stopping" /\ phase # "down"
      /\ pipe_wake' \in BOOLEAN
  BY <1>1 DEF PipeInv, PhasesInv, PipeTypeOK
<1>3. LeavesIndexes
  BY <1>1, <1>2, StillnessLeavesIndexes
<1>4. CASE interrupted = {} /\ phase' = "serving" /\ task' = TaskAt("loop")
           /\ UNCHANGED interrupted
  <2>1. task' \in Tasks /\ task'.pc = "loop" /\ task'.pc \notin WorkLabels
    BY <1>4, Places
  <2> QED BY <1>1, <1>2, <1>3, <1>4, <2>1, LoopKeeps
<1>5. ASSUME NEW p \in interrupted, pipe[p].status # "queued",
             interrupted' = interrupted \ {p}, UNCHANGED phase,
             NEW candidate \in {"loaded", "none"}, NEW outcome \in {"cancelled", "failed"},
             task' = [TaskAt("mark_rolling_back") EXCEPT
                          !.pipe = p, !.candidate = candidate, !.outcome = outcome]
      PROVE  PipeInv'
  <2>1. "mark_rolling_back" \in RollbackLabels
        /\ "mark_rolling_back" \in WorkLabels \ {"index_chunks"}
    BY DEF RollbackLabels, WorkLabels
  <2>2. p \in Jobs /\ pipe[p].status = "running"
    BY <1>2, <1>5 DEF PipeInv, PipeOK, PipeTypeOK
  <2>3. task' \in Tasks /\ task'.pc = "mark_rolling_back" /\ task'.pipe = p
    BY <1>5, <2>1, <2>2 DEF TaskAt, Tasks
  <2>4. /\ RowOK(p, pipe[p]) /\ (Calm /\ pipe[p].vectors => pipe[p].indexed)
        /\ pipe[p] \in PipeRows
    BY <1>1, <2>2, OffDuty
  <2>5. LabelOK("mark_rolling_back", p, pipe[p])
    BY <2>2 DEF LabelOK, StatusAt, StartedStatuses, StageOfBody, StageOfRollback,
       StageOfChild, CandidateLabels, BuildLabels
  <2>6. pipe' = [pipe EXCEPT ![p] = pipe[p]]
    BY <1>1, <1>2, <2>2 DEF PipeTypeOK
  <2> QED BY <1>1, <1>2, <1>3, <1>5, <2>1, <2>2, <2>3, <2>4, <2>5, <2>6, StartKeeps
<1>6. ASSUME NEW p \in interrupted, interrupted' = interrupted \ {p}, UNCHANGED phase,
             UNCHANGED task
      PROVE  PipeInv'
  <2>1. /\ task' \in Tasks /\ task'.pc = "recover" /\ task'.pc \notin WorkLabels
        /\ phase = "recovering" /\ phase' = "recovering"
        /\ interrupted' \in SUBSET Jobs
        /\ \A q \in interrupted' : pipe[q].status \in {"queued", "running"}
    BY <1>1, <1>2, <1>6 DEF PipeInv, PhasesInv, PipeOK, PipeTypeOK
  <2> QED BY <1>1, <1>2, <1>3, <2>1, LoopKeeps
<1> QED BY <1>4, <1>5, <1>6 DEF fail_interrupted_full_corpus_index_pipe_jobs, First

-----------------------------------------------------------------------------
(* The BM25 queue beside the pipes. *)

(* The coordinator never stops the process, and only an error counts.      *)
LEMMA CoordinatorStays ==
    ASSUME Coordinator
    PROVE  /\ stops' = stops /\ app' \in {app, "up"}
           /\ UNCHANGED faults \/ DatabaseError
<1> USE DEF envVars
<1>1. CASE Execute
  BY <1>1 DEF Execute, Executing, Start, Validate, Reject, CreateIndex, LinkIndex,
     MarkBuilding, Build, MarkBuilt, Undo, Persist, Complete, Cancel, Fail,
     commit_and_refresh, WorkerDies
<1>2. CASE Coordinator /\ ~Execute
  BY <1>2 DEF Coordinator, LoopTop, claim_next_corpus_bm25_build_job, ProcessReturns,
     WaitEnds, RecoverNext, RecoverIndex, RecoverJob, WorkerDies
<1> QED BY <1>1, <1>2

LEMMA LosingRowsKeeps ==
    ASSUME JobsInv, ChildLosesItsRows
    PROVE  JobsInv' /\ JobStep
<1>1. /\ pc \in {"create", "mark_building", "mark_built", "undo_failed",
                 "undo_cancelled", "complete"}
      /\ pc' \in {"undo_failed", "mark_cancelled", "mark_failed"}
  BY DEF ChildLosesItsRows, ChildRowsGone
<1>2. pc \in ExecuteLabels /\ pc' \in ExecuteLabels /\ pc \in UndecidedLabels
      /\ pc # "mark_failed" /\ pc' \notin RecoveryLabels /\ pc \notin RecoveryLabels
      /\ pc # "down" /\ pc' # "down" /\ pc' \notin IdleLabels
  BY <1>1 DEF ExecuteLabels, UndecidedLabels, RecoveryLabels, IdleLabels
<1>3. UNCHANGED <<jobVars, index_status, cur, known, requestVars, envVars, faults>>
  BY DEF ChildLosesItsRows
<1>4. TypeOK'
  BY <1>2, <1>3 DEF JobsInv, TypeOK, JobsOK, WorkerOK, SurroundingsOK, jobVars,
     requestVars, envVars, WorkerLabels
<1>5. LabelFacts' /\ OneJobRuns' /\ ReservedNamesAreExclusive'
  BY <1>2, <1>3 DEF JobsInv, LabelFacts, OneJobRuns, ReservedNamesAreExclusive, Active,
     jobVars
<1>6. JobStep
  BY <1>2, <1>3 DEF JobStep, Settled, Working, Terminal, jobVars
<1> QED BY <1>4, <1>5, <1>6 DEF JobsInv

LEMMA Bm25Keeps ==
    ASSUME PipeInv, Bm25Steps \/ Bm25Requests \/ UNCHANGED allVars
    PROVE  PipeInv'
<1>1. JobsInv /\ UNCHANGED pipeVars
  BY DEF PipeInv, Bm25Steps, Bm25Requests, allVars
<1>2. faults \in Nat
  BY <1>1, LimitsAssumption DEF JobsInv, TypeOK, SurroundingsOK
<1>3. CASE Coordinator /\ ~ChildRowsGone
  <2>1. Kept
    BY <1>1, <1>3, CoordinatorPreserves
  <2>2. stops' = stops /\ app' \in {app, "up"} /\ (UNCHANGED faults \/ DatabaseError)
    BY <1>3, CoordinatorStays
  <2>3. stops' = 0 /\ faults' = 0 => stops = 0 /\ faults = 0
    BY <1>2, <2>2 DEF DatabaseError
  <2>4. pc = "create" => pipe[cur].chunk_set
    BY <1>3 DEF ChildRowsGone
  <2> QED BY <1>1, <2>1, <2>2, <2>3, <2>4, QueueStepKeeps DEF Kept
<1>4. CASE ChildLosesItsRows
  <2>1. JobsInv' /\ JobStep
    BY <1>1, <1>4, LosingRowsKeeps
  <2>2. UNCHANGED <<index_status, stops, app, faults>>
    BY <1>4 DEF ChildLosesItsRows, envVars
  <2> QED BY <1>1, <2>1, <2>2, QueueStepKeeps
<1>5. CASE Bm25Requests
  <2>1. Kept
    BY <1>1, <1>5, RequestsPreserve DEF Bm25Requests, Requests
  <2>2. UNCHANGED <<index_status, stops, app, faults>>
    BY <1>5 DEF Bm25Requests, CancelReads, CancelCommits, envVars
  <2> QED BY <1>1, <2>1, <2>2, QueueStepKeeps DEF Kept
<1>6. CASE UNCHANGED allVars
  <2>1. UNCHANGED vars
    BY <1>6 DEF allVars
  <2>2. Kept
    BY <1>1, <2>1, StutterPreserves
  <2>3. UNCHANGED <<index_status, stops, app, faults>>
    BY <2>1 DEF vars, envVars
  <2> QED BY <1>1, <2>2, <2>3, QueueStepKeeps DEF Kept
<1> QED BY <1>3, <1>4, <1>5, <1>6 DEF Bm25Steps

(* The process ends, and with it both workers. *)
LEMMA HaltKeeps ==
    ASSUME PipeInv, PipeHalts, Crash \/ Exit \/ StartupFails \/ RecoveryFails
    PROVE  PipeInv'
<1>1. JobsInv /\ PipeTypeOK /\ PhasesInv
  BY DEF PipeInv
<1>2. Kept
  BY <1>1, ProcessPreserves DEF Process, RecoveryFails, Dies
<1>3. stops \in Nat /\ faults \in Nat
  BY <1>1, LimitsAssumption DEF JobsInv, TypeOK, SurroundingsOK
<1> app = "stopping" \/ RecoveryFails => task.pc # "index_chunks"
  BY <1>1 DEF PhasesInv, RecoveryFails
<1>4. /\ UNCHANGED <<index_status>> /\ app' = "down"
      /\ \/ stops' = stops + 1 /\ faults' = faults
         \/ stops' = stops /\ faults' = faults + 1
         \/ stops' = stops /\ faults' = faults /\ task.pc # "index_chunks"
  BY DEF Crash, Exit, StartupFails, RecoveryFails, Halt, KeepsIndexes, DatabaseError
<1>5. /\ task' \in Tasks /\ task'.pc = "down" /\ task'.pc \notin WorkLabels
      /\ interrupted' = {} /\ phase' = "down" /\ UNCHANGED <<pipe, overtaken>>
      /\ pipe_wake' = FALSE /\ pipe_request' = [p \in Jobs |-> "none"]
  BY Places DEF PipeHalts
<1>6. PipeTypeOK'
  BY <1>1, <1>5 DEF PipeTypeOK, WorkLabels
<1>7. PhasesInv'
  BY <1>4, <1>5 DEF PhasesInv
<1>8. stops' = 0 /\ faults' = 0 => stops = 0 /\ faults = 0
  BY <1>3, <1>4
<1>9. task.pc = "index_chunks" => stops' # 0 \/ faults' # 0
  BY <1>1, <1>3, <1>4 DEF PhasesInv
<1>10. \A q \in Jobs : pipe_request'[q] = "checked" => pipe_request[q] = "checked"
  BY <1>5
<1>11. JobsInv' /\ linked \subseteq linked' /\ \A q \in Jobs : Settled(q) => Settled(q)'
  BY <1>2 DEF Kept, JobStep
<1> QED BY <1>4, <1>5, <1>6, <1>7, <1>8, <1>9, <1>10, <1>11, IdleKeeps

LEMMA RestartKeeps ==
    ASSUME PipeInv, Restart, UNCHANGED pipeVars
    PROVE  PipeInv'
<1>1. JobsInv
  BY DEF PipeInv
<1>2. Kept
  BY <1>1, ProcessPreserves DEF Process
<1>3. UNCHANGED <<index_status, stops, faults>> /\ app' = "starting"
  BY DEF Restart
<1> QED BY <1>2, <1>3, QueueStepKeeps DEF Kept

(* The pipe worker finishes its job before the other one is told to.       *)
LEMMA ShutdownKeeps ==
    ASSUME PipeInv, ShutdownPipe \/ ShutdownBm25
    PROVE  PipeInv'
<1>1. JobsInv /\ PipeTypeOK /\ PhasesInv
  BY DEF PipeInv
<1>2. stops \in 0..MaxStops /\ MaxStops \in Nat
  BY <1>1, LimitsAssumption DEF JobsInv, TypeOK, SurroundingsOK
<1>3. CASE ShutdownPipe
  <2>1. /\ UNCHANGED <<jobVars, index_status, workerVars, requestVars, app, faults>>
        /\ UNCHANGED <<pipe, task, pipe_request, interrupted, overtaken>>
        /\ stops' = stops + 1 /\ stops < MaxStops /\ phase = "serving"
        /\ phase' = "stopping" /\ pipe_wake' = TRUE
    BY <1>3 DEF ShutdownPipe
  <2>2. stops' \in 0..MaxStops /\ stops' # 0
    BY <1>2, <2>1
  <2>3. JobsInv'
    BY <1>1, <2>1, <2>2 DEF JobsInv, TypeOK, JobsOK, WorkerOK, SurroundingsOK, LabelFacts,
       OneJobRuns, ReservedNamesAreExclusive, Active, jobVars, workerVars, requestVars
  <2>4. PipeTypeOK' /\ PhasesInv'
    BY <1>1, <2>1 DEF PipeTypeOK, PhasesInv
  <2>5. ASSUME NEW p \in Jobs PROVE PipeOK(p)'
    <3>1. PipeOK(p) /\ interrupted' = interrupted /\ (On(p)' <=> On(p))
      BY <2>1 DEF PipeInv, On
    <3>2. PICK r, label : r = pipe[p] /\ label = task.pc
      OBVIOUS
    <3>3. linked' = linked /\ (Settled(p) => Settled(p)')
      BY <2>1 DEF Settled, Working, Terminal, jobVars, workerVars
    <3>4. /\ RowOK(p, r) => RowOK(p, r)'
          /\ LabelOK(label, p, r) => LabelOK(label, p, r)'
      BY <2>1, <2>2, <3>3, RowFrame
    <3>5. VectorsOK(label, r)' /\ VectorsOK("down", r)'
      BY <2>2 DEF VectorsOK, Calm
    <3> QED BY <2>1, <3>1, <3>2, <3>4, <3>5 DEF PipeOK
  <2> QED BY <2>3, <2>4, <2>5 DEF PipeInv
<1>4. CASE ShutdownBm25
  <2>1. /\ UNCHANGED <<jobVars, index_status, workerVars, unnotified, pending_cancel,
                       stops, faults, pipeVars>>
        /\ app = "up" /\ app' = "stopping" /\ wake_event' = TRUE /\ task.pc = "stopped"
    BY <1>4 DEF ShutdownBm25
  <2>2. JobsInv'
    BY <1>1, <2>1 DEF JobsInv, TypeOK, JobsOK, WorkerOK, SurroundingsOK, LabelFacts,
       OneJobRuns, ReservedNamesAreExclusive, Active, jobVars, workerVars
  <2>3. /\ UNCHANGED <<pipe, overtaken, task, interrupted, pipe_request>>
        /\ linked' = linked /\ \A q \in Jobs : Settled(q) => Settled(q)'
    BY <2>1 DEF Settled, Working, Terminal, jobVars, workerVars, pipeVars
  <2>4. PipeTypeOK' /\ PhasesInv'
    BY <1>1, <2>1 DEF PipeTypeOK, PhasesInv, pipeVars
  <2>5. \A q \in interrupted : pipe[q].status \in {"queued", "running"}
    BY <1>1 DEF PipeInv, PipeOK, PipeTypeOK
  <2>6. task.pc \notin WorkLabels /\ task.pc # "index_chunks"
    BY <2>1, Places
  <2> QED BY <2>1, <2>2, <2>3, <2>4, <2>5, <2>6, IdleKeeps
<1> QED BY <1>3, <1>4

LEMMA PipeStepKeeps == ASSUME PipeInv, [PipeNext]_allVars PROVE PipeInv'
<1>1. CASE PipeWorker
  BY <1>1, CoordinatorLoopKeeps, ClaimKeeps, BodyKeeps, RollbackKeeps,
     ListInterruptedKeeps, RecoveryKeeps DEF PipeWorker
<1>2. CASE PipeRequests
  BY <1>2, PipeRequestsKeep
<1>3. CASE Bm25Steps \/ Bm25Requests \/ UNCHANGED allVars
  BY <1>3, Bm25Keeps
<1>4. CASE PipeProcess
  BY <1>4, HaltKeeps, RestartKeeps, ShutdownKeeps DEF PipeProcess, RecoveryFails
<1> QED BY <1>1, <1>2, <1>3, <1>4 DEF PipeNext

LEMMA PipeInvariance == PipeSpec => []PipeInv
<1>1. PipeInv /\ [PipeNext]_allVars => PipeInv'
  BY PipeStepKeeps
<1> QED BY PipeInitEstablishes, <1>1, PTL DEF PipeSpec

(* Rows, tasks and requests keep their types, across crashes, rollbacks    *)
(* and the recovery of the pipes and of the queue they share.              *)
THEOREM PipeTypesHold == PipeSpec => [](TypeOK /\ PipeTypeOK)
<1>1. PipeInv => TypeOK /\ PipeTypeOK
  BY DEF PipeInv, JobsInv
<1> QED BY PipeInvariance, <1>1, PTL

(* A pipe that has completed serves a dense index, and the BM25 index of   *)
(* its child where it has one, over the chunk set it made: nothing that    *)
(* runs, crashes or is cancelled elsewhere takes them away again.          *)
THEOREM CompletedPipesKeepServing == PipeSpec => []CompletedPipesServeBoth
<1>1. PipeInv => CompletedPipesServeBoth
  BY DEF PipeInv, PipeOK, RowOK, StatusTells, Serves, CompletedPipesServeBoth, ServesBoth
<1> QED BY PipeInvariance, <1>1, PTL

(* A failed or cancelled pipe has left no index, no set and no chunk but   *)
(* what a user changed, however often its rollback was interrupted.        *)
THEOREM RollbacksAreComplete == PipeSpec => []RolledBackPipesLeaveNothing
<1>1. ASSUME PipeInv, NEW p \in Jobs, RolledBack(p)
      PROVE  /\ HasNothing(p)
             /\ pipe[p].chunks => pipe[p].edited
             /\ pipe[p].vectors => stops > 0 \/ faults > 0
  <2>1. PipeOK(p) /\ ~pipe[p].chunk_set /\ (pipe[p].chunks => pipe[p].edited)
    BY <1>1 DEF PipeInv, PipeOK, RowOK, StatusTells, RolledBack
  <2>2. index_status[p] = "absent" /\ pipe[p].dense = "absent" /\ ~pipe[p].indexed
    BY <2>1 DEF PipeOK, RowOK, Based
  <2>3. ~(On(p) /\ task.pc = "index_chunks")
    BY <1>1, <2>1, <2>2 DEF PipeOK, LabelOK, StageOfBody, CandidateLabels, BuildLabels
  <2>4. Calm => ~pipe[p].vectors
    BY <2>1, <2>2, <2>3 DEF PipeOK, VectorsOK
  <2>5. stops \in Nat /\ faults \in Nat
    BY <1>1, LimitsAssumption DEF PipeInv, JobsInv, TypeOK, SurroundingsOK
  <2> QED BY <2>1, <2>2, <2>4, <2>5 DEF Calm, HasNothing
<1>2. PipeInv => RolledBackPipesLeaveNothing
  BY <1>1 DEF RolledBackPipesLeaveNothing
<1> QED BY PipeInvariance, <1>2, PTL

(* The queue promises the same when the pipes queue, cancel, fail and      *)
(* delete its jobs and indexes.                                            *)
THEOREM ChildrenRunOneByOne == PipeSpec => [](OneJobRuns /\ ReservedNamesAreExclusive)
<1>1. PipeInv => OneJobRuns /\ ReservedNamesAreExclusive
  BY DEF PipeInv, JobsInv
<1> QED BY PipeInvariance, <1>1, PTL

-----------------------------------------------------------------------------
(* The pipes implement their protocol.                                     *)

(* How the abstract stage follows from a row and from the worker's place.  *)
StagesTell ==
    \A p \in Jobs :
        /\ StageOf(p) \in {"none", "waiting", "withdrawn"} => ProductOf(p) = "nothing"
        /\ StageOf(p) = "served" => ProductOf(p) = "whole"
        /\ ProductOf(p) \in {"nothing", "partial", "whole"}

StagesAre ==
    \A p \in Jobs :
        IF p \in overtaken THEN StageOf(p) = "overtaken"
        ELSE /\ On(p) => StageOf(p) = "working"
             /\ \/ pipe[p].status = "absent" /\ StageOf(p) = "none"
                \/ pipe[p].status = "queued" /\ StageOf(p) = "waiting"
                \/ pipe[p].status = "running" /\ StageOf(p) = "working"
                \/ /\ pipe[p].status \in {"completed", "failed", "cancelled"}
                   /\ StageOf(p) = IF Reconsidered(p) THEN "working"
                                   ELSE IF pipe[p].status = "completed" THEN "served"
                                   ELSE "withdrawn"

LEMMA StagesFollow == PipeInv => StagesTell /\ StagesAre
<1> SUFFICES ASSUME PipeInv, NEW p \in Jobs
             PROVE  /\ StageOf(p) \in {"none", "waiting", "withdrawn"} => HasNothing(p)
                    /\ StageOf(p) = "served" => ~HasNothing(p) /\ ServesBoth(p)
                    /\ IF p \in overtaken THEN StageOf(p) = "overtaken"
                       ELSE /\ On(p) => StageOf(p) = "working"
                            /\ \/ pipe[p].status = "absent" /\ StageOf(p) = "none"
                               \/ pipe[p].status = "queued" /\ StageOf(p) = "waiting"
                               \/ pipe[p].status = "running" /\ StageOf(p) = "working"
                               \/ /\ pipe[p].status \in {"completed", "failed", "cancelled"}
                                  /\ StageOf(p) =
                                         IF Reconsidered(p) THEN "working"
                                         ELSE IF pipe[p].status = "completed" THEN "served"
                                         ELSE "withdrawn"
  BY DEF StagesTell, StagesAre, ProductOf
<1>1. PipeOK(p) /\ pipe[p].status \in {"absent"} \cup CORPUS_BM25_BUILD_JOB_STATUSES
  BY DEF PipeInv, PipeTypeOK, PipeRows
<1>2. Reconsidered(p) => On(p)
  BY DEF Reconsidered, On, WorkLabels, RollbackLabels
<1>3. pipe[p].status = "completed" /\ p \notin overtaken => ServesBoth(p)
  BY <1>1 DEF PipeOK, RowOK, StatusTells, ServesBoth, Serves
<1>4. ServesBoth(p) => ~HasNothing(p)
  BY DEF ServesBoth, HasNothing
<1>5. pipe[p].status \in {"absent", "queued"} \/ RolledBack(p) => HasNothing(p)
  <2>1. pipe[p].status \in {"absent", "queued"} \/ RolledBack(p) => ~pipe[p].chunk_set
    BY <1>1 DEF PipeOK, RowOK, StatusTells, Fresh, RolledBack
  <2> QED BY <1>1, <2>1 DEF PipeOK, RowOK, Based, HasNothing
<1>6. On(p) => StatusAt(task.pc, p, pipe[p])
  BY <1>1 DEF PipeOK, LabelOK
<1>7. On(p) /\ p \notin overtaken => pipe[p].status = "running" \/ (Ended(p) /\ Reconsidered(p))
  BY <1>6 DEF StatusAt, StartedStatuses, Ended, Reconsidered, On
<1>8. p \notin overtaken =>
          \/ pipe[p].status = "absent" /\ StageOf(p) = "none"
          \/ pipe[p].status = "queued" /\ StageOf(p) = "waiting"
          \/ pipe[p].status = "running" /\ StageOf(p) = "working"
          \/ Ended(p) /\ Reconsidered(p) /\ StageOf(p) = "working"
          \/ pipe[p].status = "completed" /\ StageOf(p) = "served" /\ ~Reconsidered(p)
          \/ RolledBack(p) /\ StageOf(p) = "withdrawn" /\ ~Reconsidered(p)
  BY <1>1 DEF StageOf, Ended, RolledBack, CORPUS_BM25_BUILD_JOB_STATUSES,
     TERMINAL_CORPUS_BM25_BUILD_JOB_STATUSES
<1>9. p \in overtaken => StageOf(p) = "overtaken"
  BY DEF StageOf
<1>10. Ended(p) \/ RolledBack(p) =>
           pipe[p].status \in {"completed", "failed", "cancelled"}
  BY DEF Ended, RolledBack, TERMINAL_CORPUS_BM25_BUILD_JOB_STATUSES
<1> QED BY <1>2, <1>3, <1>4, <1>5, <1>7, <1>8, <1>9, <1>10 DEF RolledBack

LEMMA StagesFollowAfter == PipeInv' => StagesTell' /\ StagesAre'
BY StagesFollow, PTL


(* A step changes what there is of at most one pipe, whose stage it moves  *)
(* as the protocol does.                                                   *)
Touches(p) ==
    \A q \in Jobs \ {p} :
        /\ pipe'[q] = pipe[q]
        /\ q \in overtaken' <=> q \in overtaken
        /\ index_status'[q] = index_status[q]
        /\ q \in linked' <=> q \in linked
        /\ Reconsidered(q)' <=> Reconsidered(q)

Advances(p) ==
    \/ StageOf(p)' = StageOf(p)
    \/ StageOf(p) = "none" /\ StageOf(p)' = "waiting"
    \/ StageOf(p) = "waiting" /\ StageOf(p)' = "withdrawn"
    \/ /\ StageOf(p) = "waiting" /\ StageOf(p)' = "working"
       /\ ProductOf(p)' = ProductOf(p)
       /\ \A q \in Jobs : StageOf(q) = "waiting" => p <= q
    \/ StageOf(p) = "working" /\ StageOf(p)' \in {"served", "withdrawn"}
    \/ StageOf(p) \in {"working", "served", "withdrawn"} /\ StageOf(p)' = "overtaken"

LEMMA MovesImplement ==
    ASSUME PipeInv, PipeInv', NEW p \in Jobs, Touches(p), Advances(p)
    PROVE  [Protocol!ProtocolNext]_(Protocol!pipeStates)
<1>1. StagesTell /\ StagesTell' /\ StagesAre /\ StagesAre'
  BY StagesFollow, StagesFollowAfter
<1>2. PICK stage, product, stageThen, productThen :
          /\ stage = [q \in Jobs |-> StageOf(q)]
          /\ product = [q \in Jobs |-> ProductOf(q)]
          /\ stageThen = [q \in Jobs |-> StageOf(q)']
          /\ productThen = [q \in Jobs |-> ProductOf(q)']
  OBVIOUS
<1>3. ASSUME NEW q \in Jobs \ {p}
      PROVE  StageOf(q)' = StageOf(q) /\ ProductOf(q)' = ProductOf(q)
  <2>1. Ended(q)' = Ended(q) /\ RolledBack(q)' = RolledBack(q) /\ HasNothing(q)' = HasNothing(q)
        /\ ServesBoth(q)' = ServesBoth(q)
    BY DEF Touches, Ended, RolledBack, HasNothing, ServesBoth
  <2>2. ProductOf(q)' = ProductOf(q)
    BY <2>1 DEF ProductOf
  <2>3. StageOf(q)' = StageOf(q)
    BY <1>1 DEF StagesAre, Touches
  <2> QED BY <2>2, <2>3
<1>4. /\ stageThen = [stage EXCEPT ![p] = StageOf(p)']
      /\ productThen = [product EXCEPT ![p] = ProductOf(p)']
  BY <1>2, <1>3
<1>5. ProductOf(p)' \in {"nothing", "partial", "whole"}
  BY <1>1 DEF StagesTell
<1>6. /\ Protocol!pipeStates = <<stage, product>>
      /\ Protocol!pipeStates' = <<stageThen, productThen>>
  BY <1>2 DEF Protocol!pipeStates
<1>7. CASE StageOf(p)' = StageOf(p)
  <2>1. stageThen = stage
    BY <1>2, <1>4, <1>7
  <2>2. CASE StageOf(p) \in {"working", "overtaken"}
    <3>1. Protocol!Work(p)
      BY <1>2, <1>4, <1>5, <2>1, <2>2 DEF Protocol!Work
    <3> QED BY <3>1 DEF Protocol!ProtocolNext
  <2>3. CASE StageOf(p) \notin {"working", "overtaken"}
    <3>1. ProductOf(p)' = ProductOf(p)
      BY <1>1, <1>7, <2>3 DEF StagesTell, StagesAre
    <3> QED BY <1>2, <1>4, <1>6, <2>1, <3>1
  <2> QED BY <2>2, <2>3
<1>8. CASE \/ StageOf(p) = "none" /\ StageOf(p)' = "waiting"
           \/ StageOf(p) = "waiting" /\ StageOf(p)' = "withdrawn"
  <2>1. productThen = product
    BY <1>1, <1>2, <1>4, <1>8 DEF StagesTell
  <2>2. Protocol!Ask(p) \/ Protocol!Withdraw(p)
    BY <1>2, <1>4, <1>8, <2>1 DEF Protocol!Ask, Protocol!Withdraw, Protocol!Moves
  <2> QED BY <2>2 DEF Protocol!ProtocolNext
<1>9. CASE /\ StageOf(p) = "waiting" /\ StageOf(p)' = "working"
           /\ ProductOf(p)' = ProductOf(p)
           /\ \A q \in Jobs : StageOf(q) = "waiting" => p <= q
  <2>1. productThen = product
    BY <1>2, <1>4, <1>9
  <2>2. Protocol!Begin(p)
    BY <1>2, <1>4, <1>9, <2>1 DEF Protocol!Begin, Protocol!Moves
  <2> QED BY <2>2 DEF Protocol!ProtocolNext
<1>10. CASE StageOf(p) = "working" /\ StageOf(p)' \in {"served", "withdrawn"}
  <2>1. Protocol!Serve(p) \/ Protocol!GiveUp(p)
    BY <1>1, <1>2, <1>4, <1>10
       DEF StagesTell, Protocol!Serve, Protocol!GiveUp, Protocol!Moves
  <2> QED BY <2>1 DEF Protocol!ProtocolNext
<1>11. CASE StageOf(p) \in {"working", "served", "withdrawn"} /\ StageOf(p)' = "overtaken"
  <2>1. Protocol!Overtake(p)
    BY <1>2, <1>4, <1>5, <1>11 DEF Protocol!Overtake, Protocol!Moves
  <2> QED BY <2>1 DEF Protocol!ProtocolNext
<1> QED BY <1>7, <1>8, <1>9, <1>10, <1>11 DEF Advances

(* A late cancellation is about a row that exists.                         *)
Asked(p) == pipe_request[p] \in {"cancel", "mark_cancelled"}
AskedInv == \A p \in Jobs : Asked(p) => pipe[p].status # "absent"

(* What a step does to the pipes, seen from one of them. *)
StepOn(p) ==
    /\ p \in Jobs /\ Touches(p) /\ Advances(p)
    /\ pipe'[p].status = "absent" => pipe[p].status = "absent"
    /\ \A q \in Jobs : Asked(q)' => Asked(q) \/ pipe[q].status # "absent"

LEMMA StepsKeepAsked ==
    ASSUME AskedInv, NEW p, StepOn(p)
    PROVE  AskedInv'
BY DEF AskedInv, StepOn, Touches

(* The worker, the recovery or the end of the process, at work on p. *)
LEMMA WorkIsAStep ==
    ASSUME PipeInv, PipeInv', NEW p \in Jobs, On(p),
           \A q \in Jobs \ {p} : /\ pipe'[q] = pipe[q]
                                 /\ index_status'[q] = index_status[q]
                                 /\ q \in linked' <=> q \in linked,
           UNCHANGED overtaken, pipe'[p].status \in StartedStatuses,
           \A q \in Jobs : Asked(q)' => Asked(q),
           task'.pc = "mark_rolling_back" => task'.pipe = p
    PROVE  StepOn(p)
<1>1. StagesAre /\ StagesAre'
  BY StagesFollow, StagesFollowAfter
<1>2. Touches(p)
  BY DEF Touches, Reconsidered, On
<1>3. "absent" \notin StartedStatuses /\ "queued" \notin StartedStatuses
  BY DEF StartedStatuses, TERMINAL_CORPUS_BM25_BUILD_JOB_STATUSES
<1>4. Advances(p)
  BY <1>1, <1>3 DEF StagesAre, Advances
<1> QED BY <1>2, <1>3, <1>4 DEF StepOn

(* A step that changes no row of a pipe and turns to no other. *)
LEMMA SideStepIsAStep ==
    ASSUME PipeInv, PipeInv', UNCHANGED <<pipe, overtaken>>, NEW p \in Jobs,
           \A q \in Jobs \ {p} : /\ index_status'[q] = index_status[q]
                                 /\ q \in linked' <=> q \in linked,
           \A q \in Jobs : Reconsidered(q)' <=> Reconsidered(q),
           \A q \in Jobs : Asked(q)' => Asked(q) \/ pipe[q].status # "absent"
    PROVE  StepOn(p)
<1>1. Touches(p)
  BY DEF Touches
<1>2. StagesAre /\ StagesAre'
  BY StagesFollow, StagesFollowAfter
<1>3. StageOf(p)' = StageOf(p)
  BY <1>2 DEF StagesAre
<1> QED BY <1>1, <1>3 DEF StepOn, Advances


(* What the worker does to others and to the status of its own row.        *)
KeepsItsPipe == task'.pc = "mark_rolling_back" => task'.pipe = task.pipe

WorksAlone(p) ==
    /\ KeepsItsPipe
    /\ pipe'[p].status \in StartedStatuses
    /\ \A q \in Jobs \ {p} : /\ pipe'[q] = pipe[q]
                             /\ index_status'[q] = index_status[q]
                             /\ q \in linked' <=> q \in linked

(* Every way in which a step leaves the worker. *)
Proceeds ==
    \/ \E label : Goes(label)
    \/ BodyFails \/ RollbackFails \/ Abandons \/ AbandonsExpired \/ LoadsRollback
    \/ \E status \in {"failed", "cancelled"} : RollsBack(status)
    \/ task' = Finished

LEMMA ProceedingKeepsThePipe ==
    ASSUME task \in Tasks, Proceeds
    PROVE  KeepsItsPipe
<1>1. CASE Abandons \/ AbandonsExpired \/ task' = Finished
  BY <1>1 DEF Abandons, AbandonsExpired, Finished, TaskAt, KeepsItsPipe
<1>2. CASE \/ (\E label : Goes(label)) \/ (BodyFails /\ ~Abandons) \/ LoadsRollback
           \/ \E status \in {"failed", "cancelled"} : RollsBack(status)
  BY <1>2 DEF Goes, BodyFails, LoadsRollback, RollsBack, KeepsItsPipe, Tasks
<1> QED BY <1>1, <1>2 DEF Proceeds, RollbackFails

LEMMA CommitsWorkAlone ==
    ASSUME PipeInv, NEW p \in Jobs, On(p), NEW new, new.status \in StartedStatuses,
           UNCHANGED <<index_status, linked>>, Proceeds,
           UNCHANGED pipe \/ pipe' = [pipe EXCEPT ![p] = new]
    PROVE  WorksAlone(p)
<1>1. PipeTypeOK /\ task \in Tasks /\ p = task.pipe /\ pipe[p].status \in StartedStatuses
  BY DEF PipeInv, PipeTypeOK, PipeOK, LabelOK, StatusAt, On
<1>2. KeepsItsPipe
  BY <1>1, ProceedingKeepsThePipe
<1> QED BY <1>1, <1>2 DEF WorksAlone, PipeTypeOK

LEMMA BodyWorksAlone ==
    ASSUME PipeInv, Body, NEW p \in Jobs, On(p), p = task.pipe
    PROVE  WorksAlone(p)
<1> USE DEF At, Quietly, vars, jobVars, bm25Vars, Commits, BodyCommits, PollStops,
            BodyRaises, Proceeds
<1>1. /\ row = pipe[p] /\ row \in PipeRows /\ row.status \in StartedStatuses
      /\ PipeTypeOK /\ task \in Tasks /\ pipe \in [Jobs -> PipeRows]
  BY OnDuty DEF On, StatusAt, PipeTypeOK
<1>2. {"failed", "cancelled", "completed", "running"} \subseteq StartedStatuses
  BY DEF StartedStatuses, TERMINAL_CORPUS_BM25_BUILD_JOB_STATUSES
<1>3. CASE StartPipe \/ CandidateReady \/ Finalize \/ CancelChild
  <2>1. UNCHANGED <<pipe, index_status, linked>> /\ Proceeds
    BY <1>3 DEF StartPipe, CandidateReady, Finalize, CancelChild
  <2> QED BY <1>1, <2>1, CommitsWorkAlone
<1>4. CASE QueueChild \/ WaitChild
  <2>1. UNCHANGED <<pipe, index_status, linked>>
    BY <1>4 DEF QueueChild, WaitChild, queue_corpus_bm25_build_job, CancelReads
  <2>2. KeepsItsPipe
    BY <1>1, <1>4, ProceedingKeepsThePipe DEF QueueChild, WaitChild, KeepsItsPipe, Tasks
  <2> QED BY <1>1, <2>1, <2>2 DEF WorksAlone
<1>5. CASE ProcessDocuments \/ FailJob \/ CreateChunkSet \/ OwnIndex \/ StoreVectors
           \/ MarkDenseBuilt \/ Activate \/ CompletePipe
  <2>1. UNCHANGED <<index_status, linked>> /\ Proceeds
    BY <1>5 DEF ProcessDocuments, FailJob, CreateChunkSet, OwnIndex, StoreVectors,
       MarkDenseBuilt, Activate, CompletePipe, create_corpus_chunk_set_srvc
  <2>2. \E new : /\ new.status \in StartedStatuses
                 /\ UNCHANGED pipe \/ pipe' = [pipe EXCEPT ![p] = new]
    BY <1>1, <1>2, <1>5 DEF ProcessDocuments, FailJob, CreateChunkSet, OwnIndex, StoreVectors,
       MarkDenseBuilt, Activate, CompletePipe, create_corpus_chunk_set_srvc, PipeRows,
       mark_full_corpus_index_pipe_job_failed, set_full_corpus_index_pipe_job_chunk_set
  <2> QED BY <2>1, <2>2, CommitsWorkAlone
<1>6. CASE CreateCandidate \/ LinkChild \/ IndexChunks
  <2>1. UNCHANGED <<index_status, linked>>
    BY <1>6 DEF CreateCandidate, LinkChild, IndexChunks
  <2>2. KeepsItsPipe
    BY <1>1, <1>6, ProceedingKeepsThePipe
       DEF CreateCandidate, LinkChild, IndexChunks, KeepsItsPipe, Tasks
  <2>3. pipe'[p].status = row.status /\ \A q \in Jobs \ {p} : pipe'[q] = pipe[q]
    <3>1. ASSUME NEW new, new.status = row.status,
                 UNCHANGED pipe \/ pipe' = [pipe EXCEPT ![p] = new]
          PROVE  pipe'[p].status = row.status /\ \A q \in Jobs \ {p} : pipe'[q] = pipe[q]
      BY <1>1, <3>1
    <3>2. CASE CreateCandidate
      <4>1. PICK new : new = [row EXCEPT !.dense = "building", !.candidate = TRUE]
        OBVIOUS
      <4>2. UNCHANGED pipe \/ pipe' = [pipe EXCEPT ![p] = new]
        BY <1>1, <3>2, <4>1 DEF CreateCandidate
      <4>3. new.status = row.status
        BY <1>1, <4>1 DEF PipeRows
      <4> QED BY <3>1, <4>2, <4>3
    <3>3. CASE LinkChild
      <4>1. PICK new : new = [row EXCEPT !.child = TRUE]
        OBVIOUS
      <4>2. UNCHANGED pipe \/ pipe' = [pipe EXCEPT ![p] = new]
        BY <1>1, <3>3, <4>1 DEF LinkChild
      <4>3. new.status = row.status
        BY <1>1, <4>1 DEF PipeRows
      <4> QED BY <3>1, <4>2, <4>3
    <3>4. CASE IndexChunks
      <4>1. ASSUME NEW indexed, NEW vectors,
                   pipe' = [pipe EXCEPT ![p] =
                               [row EXCEPT !.indexed = indexed, !.vectors = vectors]]
            PROVE  pipe'[p].status = row.status /\ \A q \in Jobs \ {p} : pipe'[q] = pipe[q]
        <5>1. PICK new : new = [row EXCEPT !.indexed = indexed, !.vectors = vectors]
          OBVIOUS
        <5>2. new.status = row.status
          BY <1>1, <5>1 DEF PipeRows
        <5> QED BY <3>1, <4>1, <5>1, <5>2
      <4>2. CASE pipe' = [pipe EXCEPT ![p].indexed = TRUE]
        <5>1. pipe' = [pipe EXCEPT ![p] =
                          [row EXCEPT !.indexed = TRUE, !.vectors = row.vectors]]
          BY <1>1, <4>2 DEF PipeRows
        <5> QED BY <4>1, <5>1
      <4>3. ASSUME NEW committed \in BOOLEAN,
                   pipe' = [pipe EXCEPT ![p].indexed = committed, ![p].vectors = FALSE]
            PROVE  pipe'[p].status = row.status /\ \A q \in Jobs \ {p} : pipe'[q] = pipe[q]
        <5>1. pipe' = [pipe EXCEPT ![p] =
                          [row EXCEPT !.indexed = committed, !.vectors = FALSE]]
          BY <1>1, <4>3
        <5> QED BY <4>1, <5>1
      <4>4. \/ pipe' = [pipe EXCEPT ![p].indexed = TRUE]
            \/ \E committed \in BOOLEAN :
                   pipe' = [pipe EXCEPT ![p].indexed = committed, ![p].vectors = FALSE]
        <5> HIDE DEF Commits, BodyCommits, Proceeds, BodyRaises
        <5> QED BY <1>1, <3>4 DEF IndexChunks
      <4> QED BY <4>2, <4>3, <4>4
    <3> QED BY <1>6, <3>2, <3>3, <3>4
  <2> QED BY <1>1, <2>1, <2>2, <2>3 DEF WorksAlone
<1> QED BY <1>3, <1>4, <1>5, <1>6 DEF Body

LEMMA RollbackWorksAlone ==
    ASSUME PipeInv, Rollback, NEW p \in Jobs, On(p), p = task.pipe
    PROVE  WorksAlone(p)
<1> USE DEF At, Quietly, vars, jobVars, bm25Vars, Commits, RollbackCommits,
            RollbackRaises, Proceeds
<1>1. /\ row = pipe[p] /\ row \in PipeRows /\ row.status \in StartedStatuses
      /\ PipeTypeOK /\ task \in Tasks /\ pipe \in [Jobs -> PipeRows]
      /\ linked \subseteq Jobs /\ index_status = [q \in Jobs |-> index_status[q]]
  BY OnDuty DEF On, StatusAt, PipeTypeOK, JobsInv, TypeOK, JobsOK
<1>2. {"failed", "cancelled", "completed", "running"} \subseteq StartedStatuses
  BY DEF StartedStatuses, TERMINAL_CORPUS_BM25_BUILD_JOB_STATUSES
<1>3. CASE RollbackChild \/ ChildCancelling \/ RollbackArtifact
  <2>1. UNCHANGED <<pipe, index_status, linked>>
    BY <1>3 DEF RollbackChild, ChildCancelling, RollbackArtifact, TerminalizeChild,
       CancelReads
  <2>2. KeepsItsPipe
    BY <1>1, <1>3, ProceedingKeepsThePipe
       DEF RollbackChild, ChildCancelling, RollbackArtifact, TerminalizeChild, KeepsItsPipe,
       Tasks
  <2> QED BY <1>1, <2>1, <2>2 DEF WorksAlone
<1>4. CASE \/ MarkRollingBack \/ UnlinkCandidate \/ DeleteVectors \/ DeleteIndexedChunks
           \/ DeleteDense \/ OwnArtifact \/ DeleteSet \/ FinishRollback
           \/ DeleteChunks("delete_set_chunks", row.edited)
           \/ DeleteChunks("delete_job_chunks", FALSE)
  <2>1. UNCHANGED <<index_status, linked>> /\ Proceeds
    BY <1>4 DEF MarkRollingBack, UnlinkCandidate, DeleteVectors, DeleteIndexedChunks,
       DeleteDense, OwnArtifact, DeleteSet, FinishRollback, DeleteChunks
  <2>2. \E new : /\ new.status \in StartedStatuses
                 /\ UNCHANGED pipe \/ pipe' = [pipe EXCEPT ![p] = new]
    BY <1>1, <1>2, <1>4, ZenonT(40) DEF MarkRollingBack, UnlinkCandidate, DeleteVectors,
       DeleteIndexedChunks, DeleteDense, OwnArtifact, DeleteSet, FinishRollback, DeleteChunks,
       PipeRows, mark_full_corpus_index_pipe_job_failed,
       mark_full_corpus_index_pipe_job_cancelled, delete_corpus_chunk_set
  <2> QED BY <2>1, <2>2, CommitsWorkAlone
<1>5. CASE ClearResult \/ DeleteArtifact
  <2>1. KeepsItsPipe
    BY <1>1, <1>5, ProceedingKeepsThePipe DEF ClearResult, DeleteArtifact
  <2>2. /\ pipe'[p].status = row.status
        /\ \A q \in Jobs \ {p} : /\ pipe'[q] = pipe[q]
                                 /\ index_status'[q] = index_status[q]
                                 /\ q \in linked' <=> q \in linked
    BY <1>1, <1>5 DEF ClearResult, DeleteArtifact, PipeRows
  <2> QED BY <1>1, <2>1, <2>2 DEF WorksAlone
<1> QED BY <1>3, <1>4, <1>5 DEF Rollback

LEMMA WorkerSteps ==
    ASSUME PipeInv, PipeInv', Body \/ Rollback
    PROVE  \E p : StepOn(p)
<1>1. task.pc \in WorkLabels /\ UNCHANGED lifespanVars
  BY DEF Body, Rollback, StartPipe, ProcessDocuments, FailJob, CreateChunkSet,
     CreateCandidate, CandidateReady, QueueChild, LinkChild, WaitChild, CancelChild, OwnIndex,
     StoreVectors, IndexChunks, MarkDenseBuilt, Finalize, Activate, CompletePipe,
     MarkRollingBack, RollbackChild, ChildCancelling, UnlinkCandidate, DeleteVectors,
     DeleteIndexedChunks, DeleteDense, RollbackArtifact, OwnArtifact, ClearResult,
     DeleteArtifact, DeleteSet, DeleteChunks, FinishRollback, At, WorkLabels, BodyLabels,
     RollbackLabels
<1>2. PICK p \in Jobs : p = task.pipe /\ On(p)
  BY <1>1, OnDuty
<1>3. WorksAlone(p)
  BY <1>2, BodyWorksAlone, RollbackWorksAlone
<1>4. UNCHANGED overtaken /\ \A q \in Jobs : Asked(q)' => Asked(q)
  BY <1>1 DEF lifespanVars, Asked
<1> QED BY <1>2, <1>3, <1>4, WorkIsAStep DEF WorksAlone, KeepsItsPipe

(* The worker between two pipes. *)
LEMMA ClaimSteps ==
    ASSUME PipeInv, PipeInv', claim_next_full_corpus_index_pipe_job
    PROVE  \E p : StepOn(p)
<1>1. /\ task.pc = "claim" /\ UNCHANGED <<index_status, linked, overtaken, pipe_request>>
      /\ task \in Tasks /\ pipe \in [Jobs -> PipeRows]
  BY DEF claim_next_full_corpus_index_pipe_job, At, bm25Vars, jobVars, lifespanVars, PipeInv,
     PipeTypeOK
<1>2. task'.pc \in {"start", "idle_wait", "loop", "recover"}
  <2>1. CASE Goes("idle_wait")
    BY <1>1, <2>1 DEF Goes, Tasks
  <2>2. CASE Abandons
    BY <2>2 DEF Abandons, TaskAt
  <2>3. ASSUME NEW p, task' = [TaskAt("start") EXCEPT !.pipe = p] PROVE task'.pc = "start"
    BY <2>3 DEF TaskAt
  <2> QED BY <2>1, <2>2, <2>3 DEF claim_next_full_corpus_index_pipe_job
<1>3. \A q \in Jobs : ~Reconsidered(q) /\ ~Reconsidered(q)' /\ (Asked(q)' <=> Asked(q))
  BY <1>1, <1>2 DEF Reconsidered, Asked
<1>4. CASE UNCHANGED pipe
  <2>1. 1 \in Jobs
    BY JobsAssumption DEF Jobs
  <2> QED BY <1>1, <1>3, <1>4, <2>1, SideStepIsAStep
<1>5. ASSUME NEW p \in First(QueuedPipes),
             pipe' = [pipe EXCEPT ![p].status = "running", ![p].cancel_requested = FALSE]
      PROVE  StepOn(p)
  <2>1. p \in Jobs /\ pipe[p].status = "queued" /\ \A q \in QueuedPipes : p <= q
    BY <1>5 DEF First, QueuedPipes
  <2>2. PICK new : /\ new = [pipe[p] EXCEPT !.status = "running", !.cancel_requested = FALSE]
                   /\ pipe' = [pipe EXCEPT ![p] = new]
    BY <1>1, <1>5, <2>1
  <2>3. new.status = "running" /\ SameProducts(pipe[p], new)
    BY <1>1, <2>1, <2>2 DEF PipeRows, SameProducts
  <2>4. pipe'[p] = new /\ \A q \in Jobs \ {p} : pipe'[q] = pipe[q]
    BY <1>1, <2>1, <2>2
  <2>5. Touches(p)
    BY <1>1, <1>3, <2>4 DEF Touches
  <2>6. StagesAre /\ StagesAre'
    BY StagesFollow, StagesFollowAfter
  <2>7. ProductOf(p)' = ProductOf(p)
    BY <1>1, <2>3, <2>4 DEF ProductOf, HasNothing, ServesBoth, SameProducts
  <2>8. \A q \in Jobs : StageOf(q) = "waiting" => q \in QueuedPipes
    BY <2>6 DEF StagesAre, QueuedPipes
  <2>9. Advances(p)
    BY <1>1, <2>1, <2>3, <2>4, <2>6, <2>7, <2>8 DEF Advances, StagesAre
  <2> QED BY <1>3, <2>1, <2>3, <2>4, <2>5, <2>9 DEF StepOn
<1> QED BY <1>4, <1>5 DEF claim_next_full_corpus_index_pipe_job

LEMMA IdleSteps ==
    ASSUME PipeInv, PipeInv', PipeLoopTop \/ PipeWaitEnds \/ ListInterrupted
    PROVE  \E p : StepOn(p)
<1>1. /\ UNCHANGED <<pipe, index_status, linked, overtaken, pipe_request>>
      /\ task.pc \in {"loop", "idle_wait", "down"}
  BY DEF PipeLoopTop, PipeWaitEnds, ListInterrupted, At, Quietly, vars, bm25Vars, jobVars,
     lifespanVars, PipeInv, PhasesInv
<1>2. task'.pc \in LoopLabels
  BY DEF PipeLoopTop, PipeWaitEnds, ListInterrupted, Quietly, Goes, TaskAt, LoopLabels,
     PipeInv, PipeTypeOK, Tasks
<1>3. \A q \in Jobs : ~Reconsidered(q) /\ ~Reconsidered(q)' /\ (Asked(q)' <=> Asked(q))
  BY <1>1, <1>2 DEF Reconsidered, Asked, LoopLabels
<1>4. 1 \in Jobs
  BY JobsAssumption DEF Jobs
<1> QED BY <1>1, <1>3, <1>4, SideStepIsAStep

(* The recovery takes up pipes that are running. *)
LEMMA RecoverySteps ==
    ASSUME PipeInv, PipeInv', fail_interrupted_full_corpus_index_pipe_jobs
    PROVE  \E p : StepOn(p)
<1>1. /\ UNCHANGED <<pipe, index_status, linked, overtaken, pipe_request>>
      /\ task.pc = "recover"
  BY DEF fail_interrupted_full_corpus_index_pipe_jobs, vars, jobVars
<1>2. \A q \in Jobs : ~Reconsidered(q) /\ (Asked(q)' <=> Asked(q))
  BY <1>1 DEF Reconsidered, Asked
<1>3. CASE task' = TaskAt("loop")
  <2>1. \A q \in Jobs : ~Reconsidered(q)'
    BY <1>3 DEF Reconsidered, TaskAt
  <2>2. 1 \in Jobs
    BY JobsAssumption DEF Jobs
  <2> QED BY <1>1, <1>2, <2>1, <2>2, SideStepIsAStep
<1>4. ASSUME NEW p \in interrupted, pipe[p].status # "queued",
             NEW candidate \in {"loaded", "none"}, NEW outcome \in {"cancelled", "failed"},
             task' = [TaskAt("mark_rolling_back") EXCEPT
                          !.pipe = p, !.candidate = candidate, !.outcome = outcome]
      PROVE  StepOn(p)
  <2>1. p \in Jobs /\ pipe[p].status = "running"
    BY <1>4 DEF PipeInv, PipeOK, PipeTypeOK
  <2>2. task'.pipe = p
    BY <1>4 DEF TaskAt
  <2>3. Touches(p)
    BY <1>1, <1>2, <2>2 DEF Touches, Reconsidered
  <2>4. StageOf(p)' = StageOf(p)
    BY <1>1, <2>1, StagesFollow, StagesFollowAfter DEF StagesAre
  <2> QED BY <1>1, <1>2, <2>1, <2>3, <2>4 DEF StepOn, Advances
<1>5. CASE UNCHANGED task
  <2>1. 1 \in Jobs /\ \A q \in Jobs : Reconsidered(q)' <=> Reconsidered(q)
    BY <1>5, JobsAssumption DEF Jobs, Reconsidered
  <2> QED BY <1>1, <1>2, <2>1, SideStepIsAStep
<1> QED BY <1>3, <1>4, <1>5 DEF fail_interrupted_full_corpus_index_pipe_jobs, First

(* What users and the routes do. *)
LEMMA RequestSteps ==
    ASSUME PipeInv, PipeInv', AskedInv, PipeRequests
    PROVE  \E p : StepOn(p)
<1> USE DEF Asks, RequestFrame, vars, jobVars
<1>1. StagesAre /\ StagesAre' /\ pipe \in [Jobs -> PipeRows]
      /\ pipe_request = [q \in Jobs |-> pipe_request[q]]
  BY StagesFollow, StagesFollowAfter DEF PipeInv, PipeTypeOK
<1>2. UNCHANGED <<index_status, linked>> /\ UNCHANGED task
  BY DEF PipeRequests, queue_full_corpus_index_pipe_job_checks,
     create_full_corpus_index_pipe_job, wake_full_corpus_index_pipe_coordinator,
     CancelLoadsPipe, request_full_corpus_index_pipe_job_cancel, CancelMarksPipe,
     update_corpus_chunk_set, _get_valid_built_corpus_index, _get_valid_built_bm25_index,
     Selects
<1>3. \A q \in Jobs : Reconsidered(q)' <=> Reconsidered(q)
  BY <1>2 DEF Reconsidered
<1>4. ASSUME NEW p \in Jobs, \/ queue_full_corpus_index_pipe_job_checks(p)
                             \/ wake_full_corpus_index_pipe_coordinator(p)
                             \/ CancelLoadsPipe(p)
      PROVE  StepOn(p)
  <2>1. UNCHANGED <<pipe, overtaken>>
    BY <1>4 DEF queue_full_corpus_index_pipe_job_checks,
       wake_full_corpus_index_pipe_coordinator, CancelLoadsPipe
  <2>2. \A q \in Jobs : Asked(q)' => Asked(q) \/ pipe[q].status # "absent"
    BY <1>1, <1>4 DEF queue_full_corpus_index_pipe_job_checks, ActivePipes,
       wake_full_corpus_index_pipe_coordinator, CancelLoadsPipe, Asked
  <2> QED BY <1>2, <1>3, <2>1, <2>2, SideStepIsAStep
<1>5. ASSUME NEW p \in Jobs, NEW new, pipe' = [pipe EXCEPT ![p] = new],
             overtaken \subseteq overtaken', overtaken' \subseteq overtaken \cup {p},
             \A q \in Jobs : Asked(q)' => Asked(q), new.status # "absent", Advances(p)
      PROVE  StepOn(p)
  BY <1>1, <1>2, <1>3, <1>5 DEF StepOn, Touches
<1>6. ASSUME NEW p \in Jobs, create_full_corpus_index_pipe_job(p)
      PROVE  StepOn(p)
  <2>1. pipe[p].status = "absent"
    BY <1>6 DEF create_full_corpus_index_pipe_job, PipeInv, PipeOK, RowOK, StatusTells
  <2>2. PICK new : /\ new = [pipe[p] EXCEPT !.status = "queued"]
                   /\ pipe' = [pipe EXCEPT ![p] = new] /\ UNCHANGED overtaken
    BY <1>1, <1>6 DEF create_full_corpus_index_pipe_job
  <2>3. new.status = "queued" /\ pipe'[p] = new
    BY <1>1, <2>2 DEF PipeRows
  <2>4. Advances(p)
    BY <1>1, <2>1, <2>2, <2>3 DEF StagesAre, Advances
  <2>5. \A q \in Jobs : Asked(q)' => Asked(q)
    BY <1>1, <1>6 DEF create_full_corpus_index_pipe_job, Asked
  <2> QED BY <1>5, <2>2, <2>3, <2>4, <2>5
<1>7. ASSUME NEW p \in Jobs, \/ request_full_corpus_index_pipe_job_cancel(p)
                             \/ update_corpus_chunk_set(p)
                             \/ _get_valid_built_corpus_index(p)
                             \/ _get_valid_built_bm25_index(p)
      PROVE  StepOn(p)
  <2>1. PICK new : /\ new.status = pipe[p].status
                   /\ pipe' = [pipe EXCEPT ![p] = new] /\ UNCHANGED overtaken
    BY <1>1, <1>7 DEF request_full_corpus_index_pipe_job_cancel, update_corpus_chunk_set,
       _get_valid_built_corpus_index, _get_valid_built_bm25_index, Selects,
       replace_corpus_chunk_set_members, PipeRows
  <2>2. Advances(p)
    BY <1>1, <1>2, <1>3, <2>1 DEF StagesAre, Advances
  <2>3. \A q \in Jobs : Asked(q)' => Asked(q)
    BY <1>1, <1>7 DEF request_full_corpus_index_pipe_job_cancel, update_corpus_chunk_set,
       _get_valid_built_corpus_index, _get_valid_built_bm25_index, Selects, Asked
  <2>4. Touches(p)
    BY <1>1, <1>2, <1>3, <2>1 DEF Touches
  <2> QED BY <1>1, <2>1, <2>2, <2>3, <2>4 DEF StepOn
<1>8. ASSUME NEW p \in Jobs, CancelMarksPipe(p)
      PROVE  StepOn(p)
  <2>1. pipe[p].status # "absent"
    BY <1>8 DEF CancelMarksPipe, AskedInv, Asked
  <2>2. PICK new : /\ new.status = "cancelled"
                   /\ pipe' = [pipe EXCEPT ![p] = new]
                   /\ overtaken' = IF pipe[p].status = "queued" THEN overtaken
                                   ELSE overtaken \cup {p}
    <3>1. PICK r \in PipeRows : r = cancel_corpus_index_build(pipe[p])
      BY <1>1, ZenonT(40) DEF cancel_corpus_index_build, PipeRows
    <3>2. mark_full_corpus_index_pipe_job_cancelled(r).status = "cancelled"
      BY EndedRows
    <3> QED BY <1>1, <1>8, <3>1, <3>2 DEF CancelMarksPipe
  <2>3. pipe[p].status = "queued" => ~Reconsidered(p)
    BY DEF PipeInv, PipeOK, LabelOK, StatusAt, StartedStatuses, Reconsidered, On,
       WorkLabels, RollbackLabels, TERMINAL_CORPUS_BM25_BUILD_JOB_STATUSES
  <2>4. Advances(p)
    BY <1>1, <1>3, <2>1, <2>2, <2>3 DEF StagesAre, Advances
  <2>5. \A q \in Jobs : Asked(q)' => Asked(q)
    BY <1>1, <1>8 DEF CancelMarksPipe, Asked
  <2> QED BY <1>5, <2>2, <2>4, <2>5
<1> QED BY <1>4, <1>6, <1>7, <1>8 DEF PipeRequests

(* The queue writes the index and the link of the job it works on. *)
LEMMA CoordinatorWritesItsJob ==
    ASSUME JobsInv, Coordinator, NEW q \in Jobs, q # cur
    PROVE  index_status'[q] = index_status[q] /\ (q \in linked' <=> q \in linked)
<1> USE DEF jobVars, KeepsJobs, KeepsIndexes, Continues, WorkerDies
<1>1. JobsOK
  BY DEF JobsInv, TypeOK
<1>2. CASE Execute
  <2>1. index_status'[q] = index_status[q]
    BY <1>1, <1>2 DEF Execute, Start, Validate, Reject, CreateIndex, LinkIndex, MarkBuilding,
       Build, MarkBuilt, Undo, Persist, Complete, Cancel, Fail, commit_and_refresh,
       _conditional_lifecycle_update, _compensate_corpus_bm25_index_build, JobsOK
  <2>2. q \in linked' <=> q \in linked
    BY <1>2 DEF Execute, Start, Validate, Reject, CreateIndex, LinkIndex, MarkBuilding,
       Build, MarkBuilt, Undo, Persist, Complete, Cancel, Fail, commit_and_refresh,
       mark_corpus_bm25_build_job_completed, mark_corpus_bm25_build_job_failed,
       mark_corpus_bm25_build_job_cancelled
  <2> QED BY <2>1, <2>2
<1>3. CASE Coordinator /\ ~Execute
  BY <1>1, <1>3 DEF Coordinator, LoopTop, claim_next_corpus_bm25_build_job, ProcessReturns,
     WaitEnds, RecoverNext, RecoverIndex, RecoverJob, mark_corpus_bm25_build_job_failed,
     _conditional_lifecycle_update, _compensate_corpus_bm25_index_build, JobsOK
<1> QED BY <1>2, <1>3

LEMMA QueueSteps ==
    ASSUME PipeInv, PipeInv', Bm25Steps \/ Bm25Requests \/ UNCHANGED allVars
    PROVE  \E p : StepOn(p)
<1>1. JobsInv /\ UNCHANGED pipeVars
  BY DEF PipeInv, Bm25Steps, Bm25Requests, allVars
<1>2. /\ UNCHANGED <<pipe, overtaken>>
      /\ \A q \in Jobs : (Reconsidered(q)' <=> Reconsidered(q)) /\ (Asked(q)' <=> Asked(q))
  BY <1>1 DEF pipeVars, Reconsidered, Asked
<1>3. \A q \in Jobs \ {cur} :
          index_status'[q] = index_status[q] /\ (q \in linked' <=> q \in linked)
  <2>1. CASE Coordinator
    BY <1>1, <2>1, CoordinatorWritesItsJob
  <2>2. CASE Bm25Requests \/ ChildLosesItsRows \/ UNCHANGED allVars
    <3>1. UNCHANGED <<index_status, linked>>
      BY <2>2 DEF Bm25Requests, CancelReads, CancelCommits, ChildLosesItsRows, allVars, vars,
         jobVars
    <3> QED BY <3>1
  <2> QED BY <2>1, <2>2 DEF Bm25Steps
<1>4. PICK p \in Jobs : cur \in Jobs => p = cur
  <2>1. 1 \in Jobs
    BY JobsAssumption DEF Jobs
  <2> QED BY <2>1
<1> QED BY <1>2, <1>3, <1>4, SideStepIsAStep

(* The process, and with it the worker of a pipe, stops or starts. *)
LEMMA ProcessSteps ==
    ASSUME PipeInv, PipeInv', PipeProcess
    PROVE  \E p : StepOn(p)
<1>1. /\ UNCHANGED <<pipe, index_status, linked, overtaken>>
      /\ \A q \in Jobs : Asked(q)' => Asked(q)
  BY DEF PipeProcess, PipeHalts, Crash, Exit, StartupFails, RecoveryFails, Halt, KeepsJobs, KeepsIndexes,
     Restart, ShutdownPipe, ShutdownBm25, jobVars, pipeVars, Asked
<1>2. CASE UNCHANGED task
  <2>1. 1 \in Jobs /\ \A q \in Jobs : Reconsidered(q)' <=> Reconsidered(q)
    BY <1>2, JobsAssumption DEF Jobs, Reconsidered
  <2> QED BY <1>1, <2>1, SideStepIsAStep
<1>3. CASE task' = TaskAt("down")
  <2>1. task'.pc = "down"
    BY <1>3 DEF TaskAt
  <2>2. CASE task.pc \in WorkLabels
    <3>1. PICK p \in Jobs : p = task.pipe /\ On(p)
      BY <2>2, OnDuty
    <3>2. pipe[p].status \in StartedStatuses
      BY <3>1 DEF PipeInv, PipeOK, LabelOK, StatusAt
    <3> QED BY <1>1, <2>1, <3>1, <3>2, WorkIsAStep
  <2>3. CASE task.pc \notin WorkLabels
    <3>1. 1 \in Jobs /\ \A q \in Jobs : Reconsidered(q)' <=> Reconsidered(q)
      BY <2>1, <2>3, JobsAssumption DEF Jobs, Reconsidered, WorkLabels, RollbackLabels
    <3> QED BY <1>1, <3>1, SideStepIsAStep
  <2> QED BY <2>2, <2>3
<1> QED BY <1>2, <1>3 DEF PipeProcess, PipeHalts, RecoveryFails, ShutdownPipe,
           ShutdownBm25, pipeVars

LEMMA PipeStepImplements ==
    ASSUME PipeInv, PipeInv', AskedInv, [PipeNext]_allVars
    PROVE  AskedInv' /\ [Protocol!ProtocolNext]_(Protocol!pipeStates)
<1>1. PICK p : StepOn(p)
  <2>1. CASE PipeWorker
    BY <2>1, WorkerSteps, ClaimSteps, IdleSteps, RecoverySteps DEF PipeWorker
  <2>2. CASE PipeRequests
    BY <2>2, RequestSteps
  <2>3. CASE Bm25Steps \/ Bm25Requests \/ UNCHANGED allVars
    BY <2>3, QueueSteps
  <2>4. CASE PipeProcess
    BY <2>4, ProcessSteps
  <2> QED BY <2>1, <2>2, <2>3, <2>4 DEF PipeNext
<1> QED BY <1>1, StepsKeepAsked, MovesImplement DEF StepOn

(* Pipes start in order and end once, serving both their indexes or with   *)
(* nothing left, and a pipe that has ended changes no more unless a cancel *)
(* request overtakes it: whatever the worker, the recovery, the queue of   *)
(* the children, users and crashes do in between, for any number of pipes. *)
THEOREM PipesImplementProtocol == PipeSpec => ImplementsPipeProtocol
<1>1. PipeInit => AskedInv /\ Protocol!ProtocolInit
  <2> SUFFICES ASSUME PipeInit PROVE AskedInv /\ Protocol!ProtocolInit
    OBVIOUS
  <2>1. StagesTell /\ StagesAre
    BY PipeInitEstablishes, StagesFollow
  <2>2. \A p \in Jobs : StageOf(p) = "none"
    BY <2>1 DEF PipeInit, NoPipe, StagesAre
  <2>3. \A p \in Jobs : ProductOf(p) = "nothing"
    BY <2>1, <2>2 DEF StagesTell
  <2> QED BY <2>2, <2>3 DEF PipeInit, AskedInv, Asked, Protocol!ProtocolInit
<1>2. /\ PipeInv /\ PipeInv' /\ AskedInv /\ [PipeNext]_allVars
      => AskedInv' /\ [Protocol!ProtocolNext]_(Protocol!pipeStates)
  BY PipeStepImplements
<1> QED BY PipeInvariance, <1>1, <1>2, PTL DEF PipeSpec, ImplementsPipeProtocol,
        Protocol!ProtocolSpec

=============================================================================

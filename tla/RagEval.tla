------------------------------- MODULE RagEval -------------------------------
(***************************************************************************)
(* The persistent RAG evaluation queue: the rows of RagEvalRun in          *)
(* PostgreSQL, the run-scoped graph generations in Neo4j, the one          *)
(* RagEvalCoordinator task of the application process, and the requests    *)
(* that enqueue and cancel runs while the task is between two awaits.      *)
(*                                                                         *)
(* A step of the coordinator is what it does between two awaits: one       *)
(* database transaction, one cancellation poll through a fresh session,    *)
(* or one unit of work (chunking, building, answering, scoring, cleaning)  *)
(* that may raise.  pc names the await the task is suspended at.           *)
(***************************************************************************)
EXTENDS Naturals

CONSTANTS NumRuns,      \* runs that may ever be enqueued (a bound)
          NumExamples,  \* len(corpus.examples)
          NumSuites,    \* versions of the evaluation suite a deployment may ship
          MaxStops,     \* crashes and shutdowns together (a bound)
          MaxFaults     \* database errors the coordinator meets (a bound)

ASSUME RunsAssumption   == NumRuns \in Nat \ {0}
ASSUME SuiteAssumption  == NumExamples \in Nat \ {0} /\ NumSuites \in Nat \ {0}
ASSUME BoundsAssumption == MaxStops \in Nat /\ MaxFaults \in Nat

(* Runs are numbered in the order of the queue, (queued_at, id). *)
Runs       == 1..NumRuns
Suites     == 1..NumSuites
Strategies == {"crag", "graphrag"}
NoRun      == 0
NoSuite    == 0

TERMINAL_RAG_EVAL_RUN_STATUSES == {"completed", "failed", "cancelled"}
RAG_EVAL_RUN_STATUSES ==
    {"queued", "running"} \cup TERMINAL_RAG_EVAL_RUN_STATUSES
RAG_EVAL_RUN_STAGES ==
    {"queued", "preparing", "chunking", "building_index", "building_graph",
     "evaluating", "scoring", "cleaning_up", "persisting", "finished",
     "cleanup_pending"}

(* Where the coordinator can be suspended while it executes a run, grouped *)
(* by the exception handler that encloses the await.                       *)
SetupLabels ==      \* no resources yet: an exception goes straight to _execute
    {"validate", "evaluate_check", "report_preparing", "chunking_check",
     "report_chunking", "chunk", "report_chunked", "chunked_check",
     "report_index", "index_check", "build_index", "report_index_built"}
BuildLabels ==      \* the try of GraphRagEvaluationAdapter.prepare
    {"wipe", "report_graph", "graph_check", "build_graph", "built_check",
     "report_built"}
EvaluateLabels ==   \* the try of FullPipelineEvaluator.evaluate
    {"prepared_check", "build_pipeline", "report_evaluating",
     "evaluating_check", "example_check", "answer", "report_answer",
     "answered_check"}
CleanupLabels ==    \* its finally
    {"report_cleanup", "cleanup", "report_cleaned"}
FinishLabels ==     \* after the runtime returned its results
    {"runtime_check", "report_scoring", "score_check", "score",
     "scored_check", "report_persisting", "persisting_check", "finalize"}
ExecuteLabels ==
    SetupLabels \cup BuildLabels \cup EvaluateLabels \cup CleanupLabels
        \cup FinishLabels \cup {"undo_build", "handle"}
RecoverLabels == {"recover_cleanup", "recover_block", "recover_fail"}
LoopLabels ==
    {"loop", "list", "recover", "claim", "processed", "nothing_to_do",
     "retry_wait", "idle_wait", "stopped", "dead", "down"}

VARIABLES
    \* RagEvalRun rows
    status, stage, progress, completed_examples, cancel_requested,
    snapshot,         \* the strategy in configuration_snapshot
    suite,            \* suite_version and suite_content_hash
    resolved,         \* the suite named in resolved_pipeline_snapshot
    query_results,    \* number of RagEvalQueryResult rows
    \* Neo4j
    scope,            \* runs whose evaluation generation holds data
    \* the coordinator of the running process
    pc, cur,
    active_stage,     \* the local of _execute
    exc,              \* the exception in flight
    expired,          \* a rollback expired the attributes of the ORM run
    answered,         \* len(results) of the engine
    interrupted,      \* rows list_interrupted_rag_eval_runs returned
    recovery_blocked, \* _last_recovery_blocked
    wake_event,
    unnotified,       \* requests that committed a run and have not called wake()
    \* the surroundings
    app,              \* "up", "stopping" or "down"
    corpus,           \* the suite the deployed code ships
    stops, faults,
    cleanup_failed    \* runs whose latest graph cleanup raised (history)

rowVars   == <<status, stage, progress, completed_examples, cancel_requested,
               snapshot, suite, resolved, query_results>>
workVars  == <<cur, active_stage, expired, answered, interrupted,
               recovery_blocked>>
requestVars == <<wake_event, unnotified>>
envVars   == <<app, corpus, stops>>
graphVars == <<scope, cleanup_failed>>
vars == <<rowVars, graphVars, pc, exc, workVars, requestVars, envVars, faults>>

Labels == ExecuteLabels \cup RecoverLabels \cup LoopLabels

RowsOK ==
    /\ status \in [Runs -> RAG_EVAL_RUN_STATUSES \cup {"absent"}]
    /\ stage \in [Runs -> RAG_EVAL_RUN_STAGES]
    /\ progress \in [Runs -> 0..100]
    /\ completed_examples \in [Runs -> 0..NumExamples]
    /\ cancel_requested \in [Runs -> BOOLEAN]
    /\ snapshot \in [Runs -> Strategies]
    /\ suite \in [Runs -> Suites \cup {NoSuite}]
    /\ resolved \in [Runs -> Suites \cup {NoSuite}]
    /\ query_results \in [Runs -> 0..NumExamples]

CoordinatorOK ==
    /\ pc \in Labels
    /\ cur \in Runs \cup {NoRun}
    /\ pc \in ExecuteLabels \cup RecoverLabels => cur \in Runs
    /\ active_stage \in RAG_EVAL_RUN_STAGES
    /\ exc \in {"none", "cancelled", "error"}
    /\ expired \in BOOLEAN
    /\ pc \in {"handle", "undo_build"} \/ expired => exc # "none"
    /\ answered \in 0..NumExamples
    /\ interrupted \subseteq Runs
    /\ recovery_blocked \in BOOLEAN

SurroundingsOK ==
    /\ scope \subseteq Runs
    /\ cleanup_failed \subseteq Runs
    /\ wake_event \in BOOLEAN
    /\ unnotified \subseteq Runs
    /\ app \in {"up", "stopping", "down"}
    /\ corpus \in Suites
    /\ stops \in 0..MaxStops
    /\ faults \in 0..MaxFaults

(* Every variable has its type. *)
TypeOK == RowsOK /\ CoordinatorOK /\ SurroundingsOK

Init ==
    /\ status = [r \in Runs |-> "absent"]
    /\ stage = [r \in Runs |-> "queued"]
    /\ progress = [r \in Runs |-> 0]
    /\ completed_examples = [r \in Runs |-> 0]
    /\ cancel_requested = [r \in Runs |-> FALSE]
    /\ snapshot = [r \in Runs |-> "crag"]
    /\ suite = [r \in Runs |-> NoSuite]
    /\ resolved = [r \in Runs |-> NoSuite]
    /\ query_results = [r \in Runs |-> 0]
    /\ scope = {}
    /\ cleanup_failed = {}
    /\ pc = "loop"
    /\ cur = NoRun
    /\ active_stage = "preparing"
    /\ exc = "none"
    /\ expired = FALSE
    /\ answered = 0
    /\ interrupted = {}
    /\ recovery_blocked = FALSE
    /\ wake_event = FALSE
    /\ unnotified = {}
    /\ app = "up"
    /\ corpus \in Suites
    /\ stops = 0
    /\ faults = 0

-----------------------------------------------------------------------------
(* The repository: statements on one row, each one transaction. *)

(* UPDATE ... WHERE id = r AND status = 'running': every caller holds a row *)
(* it has read as running.                                                  *)
transition_rag_eval_run(r, next_status, next_stage) ==
    /\ status[r] = "running"
    /\ status' = [status EXCEPT ![r] = next_status]
    /\ stage' = [stage EXCEPT ![r] = next_stage]

update_rag_eval_run_progress(r, next_stage, percent, done) ==
    /\ transition_rag_eval_run(r, "running", next_stage)
    /\ progress' = [progress EXCEPT ![r] = percent]
    /\ completed_examples' = [completed_examples EXCEPT ![r] = done]
    /\ UNCHANGED <<cancel_requested, snapshot, suite, resolved, query_results>>

(* The graph cleanup of a run is to be retried. *)
AwaitsCleanup(r) ==
    update_rag_eval_run_progress(r, "cleanup_pending", progress[r],
                                 completed_examples[r])

mark_rag_eval_run_failed(r) ==
    /\ transition_rag_eval_run(r, "failed", "finished")
    /\ cancel_requested' = [cancel_requested EXCEPT ![r] = FALSE]
    /\ UNCHANGED <<progress, completed_examples, snapshot, suite, resolved,
                   query_results>>

mark_rag_eval_run_cancelled(r) ==
    /\ transition_rag_eval_run(r, "cancelled", "finished")
    /\ cancel_requested' = [cancel_requested EXCEPT ![r] = FALSE]
    /\ UNCHANGED <<progress, completed_examples, snapshot, suite, resolved,
                   query_results>>

(* Fault: a claim that does not order the queue. *)
ClaimsAnyQueued ==
    {r \in Runs : /\ status[r] = "queued"
                  /\ \A q \in Runs : status[q] # "running"}

(* The oldest queued row, unless some row is running. *)
ClaimableRuns ==
    {r \in Runs : /\ status[r] = "queued"
                  /\ \A q \in Runs : status[q] # "running"
                  /\ \A q \in Runs : status[q] = "queued" => r <= q}

list_interrupted_rag_eval_runs ==
    {r \in Runs : status[r] = "running" \/ stage[r] = "cleanup_pending"}

(* Fault: finalization trusts the polls made before it. *)
RefusesOnlyIncomplete(r) == answered # NumExamples

(* Success is refused under the row lock: the cancellation flag and the    *)
(* number of results are read there, not from the coordinator's copy.      *)
FinalizeRefused(r) == cancel_requested[r] \/ answered # NumExamples

finalize_rag_eval_run_success(r) ==
    /\ status[r] = "running"
    /\ ~FinalizeRefused(r)
    /\ query_results' = [query_results EXCEPT ![r] = answered]
    /\ status' = [status EXCEPT ![r] = "completed"]
    /\ stage' = [stage EXCEPT ![r] = "finished"]
    /\ progress' = [progress EXCEPT ![r] = 100]
    /\ completed_examples' = [completed_examples EXCEPT ![r] = NumExamples]
    /\ cancel_requested' = [cancel_requested EXCEPT ![r] = FALSE]
    /\ resolved' = [resolved EXCEPT ![r] = corpus]
    /\ UNCHANGED <<snapshot, suite>>

-----------------------------------------------------------------------------
(* Requests. Each runs while the coordinator is suspended. *)

(* enqueue_rag_eval_run copies a configuration, of either strategy, and    *)
(* commits the row; two requests in flight may commit in either order.     *)
(* coordinator.wake() follows the commit, in Notify.                       *)
enqueue_rag_eval_run(r) ==
    /\ app = "up"
    /\ status[r] = "absent"
    /\ status' = [status EXCEPT ![r] = "queued"]
    /\ \E strategy \in Strategies :
           snapshot' = [snapshot EXCEPT ![r] = strategy]
    /\ suite' = [suite EXCEPT ![r] = corpus]
    /\ unnotified' = unnotified \cup {r}
    /\ UNCHANGED <<stage, progress, completed_examples, cancel_requested,
                   resolved, query_results, graphVars, pc, exc, workVars,
                   wake_event, envVars, faults>>

Notify(r) ==
    /\ r \in unnotified
    /\ unnotified' = unnotified \ {r}
    /\ wake_event' = TRUE
    /\ UNCHANGED <<rowVars, graphVars, pc, exc, workVars,
                   envVars, faults>>

(* Fault: a running row is cancelled under the coordinator. *)
CancelsRunningRow(r) ==
    /\ app = "up"
    /\ status[r] \in {"queued", "running"}
    /\ status' = [status EXCEPT ![r] = "cancelled"]
    /\ stage' = [stage EXCEPT ![r] = "finished"]
    /\ wake_event' = TRUE
    /\ UNCHANGED <<cancel_requested, progress, completed_examples, snapshot,
                   suite, resolved, query_results, graphVars, pc, exc,
                   workVars, unnotified, envVars, faults>>

(* A queued run is cancelled at once; for a running one the flag asks the *)
(* coordinator to stop.  A finished run is refused.                        *)
request_rag_eval_run_cancel(r) ==
    /\ app = "up"
    /\ \/ /\ status[r] = "queued"
          /\ status' = [status EXCEPT ![r] = "cancelled"]
          /\ stage' = [stage EXCEPT ![r] = "finished"]
          /\ cancel_requested' = [cancel_requested EXCEPT ![r] = FALSE]
       \/ /\ status[r] = "running"
          /\ cancel_requested' = [cancel_requested EXCEPT ![r] = TRUE]
          /\ UNCHANGED <<status, stage>>
    /\ wake_event' = TRUE
    /\ UNCHANGED <<progress, completed_examples, snapshot, suite, resolved,
                   query_results, graphVars, pc, exc, workVars, unnotified, envVars, faults>>

-----------------------------------------------------------------------------
(* The worker loop. *)

DatabaseError == faults < MaxFaults /\ faults' = faults + 1

(* Nothing between process_once and the task catches: the task ends with  *)
(* the exception while the application keeps serving requests.            *)
WorkerDies == pc' = "dead"

LoopTop ==
    /\ pc = "loop"
    /\ IF app = "stopping"
       THEN pc' = "stopped" /\ UNCHANGED wake_event
       ELSE pc' = "list" /\ wake_event' = FALSE
    /\ UNCHANGED <<rowVars, graphVars, exc, workVars, unnotified, envVars, faults>>

ListInterrupted ==
    /\ pc = "list"
    /\ \/ /\ interrupted' = list_interrupted_rag_eval_runs
          /\ pc' = "recover"
          /\ UNCHANGED faults
       \/ /\ DatabaseError
          /\ WorkerDies
          /\ UNCHANGED interrupted
    /\ UNCHANGED <<rowVars, graphVars, exc, cur, active_stage, expired,
                   answered, recovery_blocked, requestVars, envVars>>

RecoverNext ==
    /\ pc = "recover"
    /\ interrupted # {}
    /\ cur' \in interrupted
    /\ \A r \in interrupted : cur' <= r
    /\ interrupted' = interrupted \ {cur'}
    /\ pc' = IF snapshot[cur'] = "graphrag" THEN "recover_cleanup"
                                            ELSE "recover_fail"
    /\ UNCHANGED <<rowVars, graphVars, exc, active_stage, expired, answered,
                   recovery_blocked, requestVars, envVars, faults>>

RecoverDone ==
    /\ pc = "recover"
    /\ interrupted = {}
    /\ recovery_blocked' = FALSE
    /\ pc' = "claim"
    /\ UNCHANGED <<rowVars, graphVars, exc, cur, active_stage, expired,
                   answered, interrupted, requestVars, envVars, faults>>

(* delete_generation of the scope of cur, or its failure. *)
DeletesGeneration ==
    /\ scope' = scope \ {cur}
    /\ cleanup_failed' = cleanup_failed \ {cur}

DeletionRaises ==
    /\ cleanup_failed' = cleanup_failed \cup {cur}
    /\ UNCHANGED scope

RecoverCleanup ==
    /\ pc = "recover_cleanup"
    /\ DeletesGeneration
    /\ pc' = "recover_fail"
    /\ UNCHANGED <<rowVars, exc, workVars, requestVars, envVars, faults>>

RecoverCleanupFails ==
    /\ pc = "recover_cleanup"
    /\ DeletionRaises
    /\ pc' = "recover_block"
    /\ UNCHANGED <<rowVars, exc, workVars, requestVars, envVars, faults>>

RecoverBlock ==
    /\ pc = "recover_block"
    /\ \/ /\ AwaitsCleanup(cur)
          /\ recovery_blocked' = TRUE
          /\ pc' = "processed"
          /\ UNCHANGED faults
       \/ /\ DatabaseError
          /\ WorkerDies
          /\ UNCHANGED rowVars \/ AwaitsCleanup(cur)
          /\ UNCHANGED recovery_blocked
    /\ UNCHANGED <<graphVars, exc, cur, active_stage, expired, answered,
                   interrupted, requestVars, envVars>>

RecoverFail ==
    /\ pc = "recover_fail"
    /\ \/ /\ mark_rag_eval_run_failed(cur)
          /\ pc' = "recover"
          /\ UNCHANGED faults
       \/ /\ DatabaseError
          /\ WorkerDies
          /\ UNCHANGED rowVars \/ mark_rag_eval_run_failed(cur)
    /\ UNCHANGED <<graphVars, exc, workVars, requestVars, envVars>>

StartsRunning(r) ==
    /\ status' = [status EXCEPT ![r] = "running"]
    /\ stage' = [stage EXCEPT ![r] = "preparing"]
    /\ cancel_requested' = [cancel_requested EXCEPT ![r] = FALSE]

claim_next_rag_eval_run ==
    /\ pc = "claim"
    /\ \/ /\ cur' \in ClaimableRuns
          /\ StartsRunning(cur')
          /\ active_stage' = "preparing"
          /\ exc' = "none"
          /\ expired' = FALSE
          /\ answered' = 0
          /\ pc' = "validate"
          /\ UNCHANGED faults
       \/ /\ ClaimableRuns = {}
          /\ pc' = "nothing_to_do"
          /\ UNCHANGED <<status, stage, cancel_requested, cur, active_stage,
                         exc, expired, answered, faults>>
       \/ /\ DatabaseError
          /\ WorkerDies
          /\ \/ UNCHANGED <<status, stage, cancel_requested>>
             \/ \E r \in ClaimableRuns : StartsRunning(r)
          /\ UNCHANGED <<cur, active_stage, exc, expired, answered>>
    /\ UNCHANGED <<progress, completed_examples, snapshot, suite, resolved,
                   query_results, graphVars, interrupted, recovery_blocked,
                   requestVars, envVars>>

(* The locals of process_once and _execute go out of scope. *)
ForgetsExecution ==
    /\ cur' = NoRun
    /\ active_stage' = "preparing"
    /\ exc' = "none"
    /\ expired' = FALSE
    /\ answered' = 0

(* Fault: the event is cleared before the wait, not before the work. *)
ClearsBeforeWaiting ==
    /\ pc \in {"processed", "nothing_to_do"}
    /\ pc' = IF app = "stopping" THEN "stopped"
             ELSE IF recovery_blocked THEN "retry_wait"
             ELSE IF pc = "processed" THEN "loop" ELSE "idle_wait"
    /\ wake_event' = FALSE
    /\ ForgetsExecution
    /\ UNCHANGED <<rowVars, graphVars, interrupted, recovery_blocked,
                   unnotified, envVars, faults>>

ProcessReturns ==
    /\ pc \in {"processed", "nothing_to_do"}
    /\ pc' = IF app = "stopping" THEN "stopped"
             ELSE IF recovery_blocked THEN "retry_wait"
             ELSE IF pc = "processed" THEN "loop" ELSE "idle_wait"
    /\ ForgetsExecution
    /\ UNCHANGED <<rowVars, graphVars, interrupted, recovery_blocked,
                   requestVars, envVars, faults>>

(* Fault: the retry wait has no timeout. *)
WaitsForWakeOnly ==
    /\ pc \in {"retry_wait", "idle_wait"}
    /\ wake_event
    /\ pc' = "loop"
    /\ UNCHANGED <<rowVars, graphVars, exc, workVars, requestVars, envVars,
                   faults>>

(* A wake ends either wait; the retry wait also ends after a timeout. *)
WaitEnds ==
    /\ pc = "retry_wait" \/ (pc = "idle_wait" /\ wake_event)
    /\ pc' = "loop"
    /\ UNCHANGED <<rowVars, graphVars, exc, workVars, requestVars, envVars,
                   faults>>

-----------------------------------------------------------------------------
(* _execute, with FullPipelineEvaluator.evaluate and the adapters inlined. *)

(* Fault: prepare has no handler that deletes a half-built graph. *)
UnwindKeepsGraph(label) ==
    CASE label \in EvaluateLabels   -> "report_cleanup"
      [] label = "report_cleanup"   -> "cleanup"
      [] OTHER                      -> "handle"

(* The handler that an exception raised at a label reaches first. *)
Unwind(label) ==
    CASE label \in BuildLabels      -> "undo_build"
      [] label \in EvaluateLabels   -> "report_cleanup"
      [] label = "report_cleanup"   -> "cleanup"
      [] OTHER                      -> "handle"

Raise(e) ==
    /\ exc' = e
    /\ pc' = Unwind(pc)

(* check_cancellation: should_cancel reads the row through a new session. *)
Check(from, to) ==
    /\ pc = from
    /\ \/ /\ cancel_requested[cur]
          /\ Raise("cancelled")
          /\ UNCHANGED faults
       \/ /\ ~cancel_requested[cur]
          /\ pc' = to
          /\ UNCHANGED <<exc, faults>>
       \/ /\ DatabaseError
          /\ Raise("error")
    /\ UNCHANGED <<rowVars, graphVars, workVars, requestVars, envVars>>

(* Fault: the ranges of two stages overlap. *)
OverlappingRange(s) ==
    CASE s = "preparing"                            -> <<0, 5>>
      [] s = "chunking"                             -> <<5, 15>>
      [] s \in {"building_index", "building_graph"} -> <<15, 25>>
      [] s = "evaluating"                           -> <<5, 80>>
      [] s = "cleaning_up"                          -> <<80, 85>>

StageRange(s) ==
    CASE s = "preparing"                            -> <<0, 5>>
      [] s = "chunking"                             -> <<5, 15>>
      [] s \in {"building_index", "building_graph"} -> <<15, 25>>
      [] s = "evaluating"                           -> <<25, 80>>
      [] s = "cleaning_up"                          -> <<80, 85>>

(* A stage that is done / of complete, mapped into the range of the stage. *)
overall_progress(s, done, of) ==
    StageRange(s)[1] + ((StageRange(s)[2] - StageRange(s)[1]) * done) \div of

(* One progress write: active_stage moves first, then the row.  A failed   *)
(* write, or a failed refresh after its commit, is rolled back, which      *)
(* expires the ORM run: its next reader raises.                            *)
ReportProgress(from, s, percent, done, to) ==
    /\ pc = from
    /\ active_stage' = s
    /\ \/ /\ ~expired
          /\ update_rag_eval_run_progress(cur, s, percent, done)
          /\ pc' = to
          /\ UNCHANGED <<exc, expired, faults>>
       \/ /\ ~expired
          /\ DatabaseError
          /\ expired' = TRUE
          /\ Raise("error")
          /\ \/ UNCHANGED rowVars
             \/ update_rag_eval_run_progress(cur, s, percent, done)
       \/ /\ expired
          /\ Raise("error")
          /\ UNCHANGED <<rowVars, expired, faults>>
    /\ UNCHANGED <<graphVars, cur, answered, interrupted, recovery_blocked,
                   requestVars, envVars>>

report_progress(from, s, done, of, to) ==
    ReportProgress(from, s, overall_progress(s, done, of),
                   completed_examples[cur], to)

(* Work that touches nothing shared and may raise. *)
Work(from, to) ==
    /\ pc = from
    /\ \/ pc' = to /\ UNCHANGED exc
       \/ Raise("error")
    /\ UNCHANGED <<rowVars, graphVars, workVars, requestVars, envVars, faults>>

(* Fault: the deployed suite is not compared with the queued one. *)
ValidatesAnySuite ==
    /\ pc = "validate"
    /\ \/ pc' = "evaluate_check" /\ UNCHANGED exc
       \/ Raise("error")
    /\ UNCHANGED <<rowVars, graphVars, workVars, requestVars, envVars, faults>>

(* The snapshot must parse and the deployed suite be the one that was queued. *)
Validate ==
    /\ pc = "validate"
    /\ \/ /\ suite[cur] = corpus
          /\ pc' = "evaluate_check"
          /\ UNCHANGED exc
       \/ Raise("error")
    /\ UNCHANGED <<rowVars, graphVars, workVars, requestVars, envVars, faults>>

Prepare ==
    \/ Check("evaluate_check", "report_preparing")
    \/ report_progress("report_preparing", "preparing", 0, 1, "chunking_check")
    \/ Check("chunking_check", "report_chunking")
    \/ report_progress("report_chunking", "chunking", 0, 1, "chunk")
    \/ Work("chunk", "report_chunked")
    \/ report_progress("report_chunked", "chunking", 1, 1, "chunked_check")
    \/ Check("chunked_check",
             IF snapshot[cur] = "graphrag" THEN "wipe" ELSE "report_index")

CragPrepare ==
    \/ report_progress("report_index", "building_index", 0, 1, "index_check")
    \/ Check("index_check", "build_index")
    \/ Work("build_index", "report_index_built")
    \/ report_progress("report_index_built", "building_index", 1, 1,
                       "prepared_check")

(* The first statement of the try deletes what an earlier process left; the *)
(* store is opened before the try, so failing to open it undoes nothing.     *)
WipeGraph ==
    /\ pc = "wipe"
    /\ \/ /\ DeletesGeneration
          /\ pc' = "report_graph"
          /\ UNCHANGED exc
       \/ /\ DeletionRaises
          /\ Raise("error")
       \/ /\ pc' = "handle"
          /\ exc' = "error"
          /\ UNCHANGED graphVars
    /\ UNCHANGED <<rowVars, workVars, requestVars, envVars, faults>>

(* The extraction writes node by node, so a failure may leave what it wrote. *)
build_property_graph_index ==
    /\ pc = "build_graph"
    /\ \/ /\ scope' = scope \cup {cur}
          /\ pc' = "built_check"
          /\ UNCHANGED exc
       \/ /\ scope' \in {scope, scope \cup {cur}}
          /\ Raise("error")
    /\ UNCHANGED <<rowVars, cleanup_failed, workVars, requestVars, envVars,
                   faults>>

(* except BaseException: await cleanup(); raise -- unless cleanup raises. *)
UndoBuild ==
    /\ pc = "undo_build"
    /\ \/ DeletesGeneration /\ UNCHANGED exc
       \/ DeletionRaises /\ exc' = "error"
    /\ pc' = "handle"
    /\ UNCHANGED <<rowVars, workVars, requestVars, envVars, faults>>

GraphRagPrepare ==
    \/ WipeGraph
    \/ report_progress("report_graph", "building_graph", 0, 1, "graph_check")
    \/ Check("graph_check", "build_graph")
    \/ build_property_graph_index
    \/ Check("built_check", "report_built")
    \/ report_progress("report_built", "building_graph", 1, 1, "prepared_check")
    \/ UndoBuild

(* pipeline.ainvoke for one example, appended to results. *)
Answer ==
    /\ pc = "answer"
    /\ \/ /\ answered' = answered + 1
          /\ pc' = "report_answer"
          /\ UNCHANGED exc
       \/ /\ Raise("error")
          /\ UNCHANGED answered
    /\ UNCHANGED <<rowVars, graphVars, cur, active_stage, expired, interrupted,
                   recovery_blocked, requestVars, envVars, faults>>

EvaluateExamples ==
    \/ Check("prepared_check", "build_pipeline")
    \/ Work("build_pipeline", "report_evaluating")
    \/ report_progress("report_evaluating", "evaluating", 0, 1,
                       "evaluating_check")
    \/ Check("evaluating_check", "example_check")
    \/ Check("example_check", "answer")
    \/ Answer
    \/ ReportProgress("report_answer", "evaluating",
           overall_progress("evaluating", answered, NumExamples), answered,
           "answered_check")
    \/ Check("answered_check",
             IF answered < NumExamples THEN "example_check"
                                       ELSE "report_cleanup")

(* resources.cleanup(): nothing to do for CRAG.  The scope is deleted even *)
(* when the report before it failed; then no report follows.               *)
CleanupResources ==
    /\ pc = "cleanup"
    /\ \/ /\ IF snapshot[cur] = "graphrag" THEN DeletesGeneration
                                           ELSE UNCHANGED graphVars
          /\ pc' = IF expired THEN "handle" ELSE "report_cleaned"
          /\ UNCHANGED exc
       \/ /\ snapshot[cur] = "graphrag"
          /\ DeletionRaises
          /\ Raise("error")
    /\ UNCHANGED <<rowVars, workVars, requestVars, envVars, faults>>

CleanUp ==
    \/ report_progress("report_cleanup", "cleaning_up", 0, 1, "cleanup")
    \/ CleanupResources
    \/ report_progress("report_cleaned", "cleaning_up", 1, 1,
                       IF exc = "none" THEN "runtime_check" ELSE "handle")

(* A refresh that fails after the commit leaves a completed row to a       *)
(* handler.                                                                *)
Finalize ==
    /\ pc = "finalize"
    /\ \/ /\ finalize_rag_eval_run_success(cur)
          /\ pc' = "processed"
          /\ UNCHANGED <<exc, expired, faults>>
       \/ /\ FinalizeRefused(cur)
          /\ \/ cancel_requested[cur] /\ Raise("cancelled")
             \/ ~cancel_requested[cur] /\ Raise("error")
          /\ expired' = TRUE
          /\ UNCHANGED <<rowVars, faults>>
       \/ /\ DatabaseError
          /\ Raise("error")
          /\ expired' = TRUE
          /\ UNCHANGED rowVars \/ finalize_rag_eval_run_success(cur)
    /\ UNCHANGED <<graphVars, cur, active_stage, answered, interrupted,
                   recovery_blocked, requestVars, envVars>>

ScoreAndPersist ==
    \/ Check("runtime_check", "report_scoring")
    \/ ReportProgress("report_scoring", "scoring", 85, NumExamples,
                      "score_check")
    \/ Check("score_check", "score")
    \/ Work("score", "scored_check")
    \/ Check("scored_check", "report_persisting")
    \/ ReportProgress("report_persisting", "persisting", 95, NumExamples,
                      "persisting_check")
    \/ Check("persisting_check", "finalize")
    \/ Finalize

(* The except clauses of _execute. run.id and run.progress of an expired   *)
(* run are lazy loads outside a greenlet: they raise, and nothing catches. *)
CleanupFailure ==
    /\ exc = "error"
    /\ snapshot[cur] = "graphrag"
    /\ active_stage = "cleaning_up"

HandleExpired ==
    /\ pc = "handle"
    /\ expired
    /\ WorkerDies
    /\ UNCHANGED <<rowVars, graphVars, exc, workVars, requestVars, envVars,
                   faults>>

HandleCancelled ==
    /\ exc = "cancelled"
    /\ mark_rag_eval_run_cancelled(cur)
    /\ UNCHANGED recovery_blocked

HandleCleanupFailure ==
    /\ CleanupFailure
    /\ recovery_blocked' = TRUE
    /\ AwaitsCleanup(cur)

HandleFailure ==
    /\ exc = "error"
    /\ ~CleanupFailure
    /\ mark_rag_eval_run_failed(cur)
    /\ UNCHANGED recovery_blocked

Handles == HandleCancelled \/ HandleCleanupFailure \/ HandleFailure

Handle ==
    /\ pc = "handle"
    /\ ~expired
    /\ \/ Handles /\ pc' = "processed" /\ UNCHANGED faults
       \/ /\ DatabaseError
          /\ WorkerDies
          /\ Handles \/ UNCHANGED <<rowVars, recovery_blocked>>
    /\ UNCHANGED <<graphVars, exc, cur, active_stage, expired, answered,
                   interrupted, requestVars, envVars>>

Execute ==
    \/ Validate
    \/ Prepare
    \/ CragPrepare
    \/ GraphRagPrepare
    \/ EvaluateExamples
    \/ CleanUp
    \/ ScoreAndPersist
    \/ Handle
    \/ HandleExpired

-----------------------------------------------------------------------------
(* The application process. *)

(* What a process that ends forgets; the rows and the graph data stay. *)
Halt ==
    /\ app' = "down"
    /\ pc' = "down"
    /\ ForgetsExecution
    /\ interrupted' = {}
    /\ recovery_blocked' = FALSE
    /\ wake_event' = FALSE
    /\ unnotified' = {}
    /\ UNCHANGED <<rowVars, graphVars, corpus, faults>>

Crash ==
    /\ app # "down"
    /\ stops < MaxStops
    /\ stops' = stops + 1
    /\ Halt

(* stop(): requests have drained; the worker finishes what it is doing. *)
Shutdown ==
    /\ app = "up"
    /\ stops < MaxStops
    /\ unnotified = {}
    /\ stops' = stops + 1
    /\ app' = "stopping"
    /\ wake_event' = TRUE
    /\ UNCHANGED <<rowVars, graphVars, pc, exc, workVars, unnotified, corpus, faults>>

Exit ==
    /\ app = "stopping"
    /\ pc \in {"stopped", "dead"}
    /\ Halt
    /\ UNCHANGED stops

(* start(), in a process that may ship another suite. *)
Restart ==
    /\ app = "down"
    /\ app' = "up"
    /\ pc' = "loop"
    /\ corpus' \in Suites
    /\ UNCHANGED <<rowVars, graphVars, exc, workVars, requestVars, stops,
                   faults>>

Coordinator ==
    \/ LoopTop
    \/ ListInterrupted
    \/ RecoverNext
    \/ RecoverDone
    \/ RecoverCleanup
    \/ RecoverCleanupFails
    \/ RecoverBlock
    \/ RecoverFail
    \/ claim_next_rag_eval_run
    \/ ProcessReturns
    \/ WaitEnds
    \/ Execute

Requests ==
    \E r \in Runs : \/ enqueue_rag_eval_run(r)
                    \/ Notify(r)
                    \/ request_rag_eval_run_cancel(r)

Process == Crash \/ Shutdown \/ Exit \/ Restart

(* The bound on runs is used up and all have ended: nothing is left to do. *)
AllRunsEnded ==
    /\ pc \in {"idle_wait", "dead"}
    /\ \A r \in Runs : status[r] \in TERMINAL_RAG_EVAL_RUN_STATUSES
    /\ UNCHANGED vars

Next == Coordinator \/ Requests \/ Process \/ AllRunsEnded

Spec == Init /\ [][Next]_vars

(* The event loop resumes the task and the requests; the container is      *)
(* restarted; Neo4j does not refuse every deletion for ever.               *)
Fairness ==
    /\ WF_vars(Coordinator)
    /\ \A r \in Runs : WF_vars(Notify(r))
    /\ WF_vars(Exit)
    /\ WF_vars(Restart)
    /\ SF_vars(RecoverCleanup)

FairSpec == Spec /\ Fairness

-----------------------------------------------------------------------------
(* Properties. *)

Terminal(r) == status[r] \in TERMINAL_RAG_EVAL_RUN_STATUSES

RunningRuns == {r \in Runs : status[r] = "running"}

(* Finalization was committed, and raised only then. *)
HasCompleted == pc = "handle" /\ expired /\ status[cur] = "completed"

(* While the coordinator executes a run, that row and no other is running: *)
(* no request, recovery or restart takes the row away under the execution, *)
(* and no second row starts (uq_rag_eval_run_global_running never fires).  *)
(* The handler of an execution that completed all the same has none.       *)
ExecutionOwnsTheRunningRow ==
    pc \in ExecuteLabels =>
        RunningRuns = IF HasCompleted THEN {} ELSE {cur}

(* finalize_rag_eval_run_success publishes everything or nothing: a        *)
(* completed run has one result for every example, full progress, and the  *)
(* suite it was queued for, whatever was deployed in between; any other    *)
(* run has no result.                                                      *)
ResultsAreAllOrNothing ==
    \A r \in Runs :
        IF status[r] = "completed"
        THEN /\ query_results[r] = NumExamples
             /\ completed_examples[r] = NumExamples
             /\ progress[r] = 100
             /\ resolved[r] = suite[r]
        ELSE query_results[r] = 0 /\ resolved[r] = NoSuite

(* Graph data of an evaluation survives only under a run that is still     *)
(* running (recovery will delete it) or under a failed run whose own       *)
(* cleanup raised: completed and cancelled runs never leave any.           *)
LeftoverScopesAreFailedCleanups ==
    \A r \in scope : \/ status[r] = "running"
                     \/ status[r] = "failed" /\ r \in cleanup_failed

(* The progress a client polls never goes back, through stages, failures,  *)
(* cleanup, cancellation and recovery.                                     *)
ProgressNeverGoesBack ==
    [][\A r \in Runs : /\ progress'[r] >= progress[r]
                       /\ completed_examples'[r] >= completed_examples[r]]_vars

(* A cancellation accepted for a running run is never lost: the flag stays *)
(* until the run ends, and the run does not end as completed.              *)
AcceptedCancellationHolds ==
    [][\A r \in Runs : cancel_requested[r] =>
           \/ cancel_requested'[r] /\ status'[r] = "running"
           \/ status'[r] \in {"failed", "cancelled"}]_vars

(* The queue that users see (EvaluationQueue): FIFO starts, one at a time, *)
(* one outcome, no result after an accepted cancellation, and "cancelled"  *)
(* only for runs that were asked to stop.                                  *)
Queue == INSTANCE EvaluationQueue
    WITH FullResult <- NumExamples, state <- status,
         asked <- cancel_requested, results <- query_results
ImplementsQueue == Queue!QueueSpec

(* Every enqueued run ends, across lost wakes, restarts and failed         *)
(* cleanups, unless an exception killed the worker task of a process that  *)
(* keeps running.                                                          *)
QueueDrains ==
    \A r \in Runs : status[r] = "queued" ~> (Terminal(r) \/ pc = "dead")

(* A run that waits for its graph cleanup is retried, without any request  *)
(* waking the worker, until its scope is gone and it is marked failed.     *)
PendingCleanupsAreRetried ==
    \A r \in Runs : stage[r] = "cleanup_pending" ~>
        (status[r] = "failed" /\ r \notin scope) \/ pc = "dead"

=============================================================================

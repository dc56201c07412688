--------------------------- MODULE RagEvalProofs ---------------------------
(***************************************************************************)
(* Theorems about RagEval for every number of runs, examples, suites,      *)
(* restarts and database errors.                                           *)
(***************************************************************************)
EXTENDS RagEval, TLAPS

(* Awaits at which the run under execution owns no graph data: before the *)
(* build writes, and after the cleanup.                                   *)
CleanLabels ==
    (SetupLabels \cup FinishLabels
        \cup {"wipe", "report_graph", "graph_check", "build_graph",
              "report_cleaned", "recover_fail"})

(* Awaits of an execution that has not answered an example yet. *)
UnansweredLabels ==
    SetupLabels \cup BuildLabels
        \cup {"prepared_check", "build_pipeline", "report_evaluating",
              "evaluating_check"}

(* Graph data belongs to a run that is still running or to a failed one *)
(* whose cleanup raised, and only GraphRAG runs own any.                *)
ScopesHaveOwners ==
    /\ LeftoverScopesAreFailedCleanups
    /\ \A r \in scope : snapshot[r] = "graphrag"

(* What the place of the coordinator says about the run under execution:   *)
(* whether it owns graph data, which strategy it has, how many examples it *)
(* has answered.                                                           *)
LabelFacts ==
    /\ pc \in CleanLabels => cur \notin scope
    /\ pc = "handle" /\ cur \in scope => exc = "error" /\ cur \in cleanup_failed
    /\ pc \in BuildLabels \cup {"undo_build"} => snapshot[cur] = "graphrag"
    /\ pc \in UnansweredLabels => answered = 0
    /\ pc \in {"example_check", "answer"} => answered < NumExamples

(* Only a running row carries the cancellation flag, and an execution is *)
(* unwound as cancelled only under that flag.                            *)
CancellationsWereAsked ==
    /\ \A r \in Runs : cancel_requested[r] => status[r] = "running"
    /\ pc \in ExecuteLabels /\ exc = "cancelled" => cancel_requested[cur]

(* The inductive invariant.  None of its parts but the first is inductive *)
(* alone: that a finished run owns no graph data depends on where the     *)
(* coordinator stands when it ends the run.                               *)
IInv ==
    /\ TypeOK
    /\ ExecutionOwnsTheRunningRow
    /\ ScopesHaveOwners
    /\ LabelFacts
    /\ CancellationsWereAsked

(* Where a step that raises nothing may lead, short of the handlers. *)
TargetLabels == ExecuteLabels \ {"handle", "undo_build"}

(* The handler an exception reaches first, for each group of awaits. *)
LEMMA Unwinding ==
    /\ \A label \in BuildLabels : Unwind(label) = "undo_build"
    /\ \A label \in EvaluateLabels : Unwind(label) = "report_cleanup"
    /\ Unwind("report_cleanup") = "cleanup"
    /\ \A label \in SetupLabels \cup FinishLabels
                       \cup {"cleanup", "report_cleaned", "undo_build"} :
           Unwind(label) = "handle"
<1>1. ASSUME NEW label \in BuildLabels
      PROVE  label \notin EvaluateLabels /\ label # "report_cleanup"
  BY <1>1 DEF BuildLabels, EvaluateLabels
<1>2. ASSUME NEW label \in EvaluateLabels
      PROVE  label \notin BuildLabels /\ label # "report_cleanup"
  BY <1>2 DEF BuildLabels, EvaluateLabels
<1>3. "report_cleanup" \notin BuildLabels \cup EvaluateLabels
  BY DEF BuildLabels, EvaluateLabels
<1>4. ASSUME NEW label \in SetupLabels \cup FinishLabels
                       \cup {"cleanup", "report_cleaned", "undo_build"}
      PROVE  label \notin BuildLabels \cup EvaluateLabels /\ label # "report_cleanup"
  BY <1>4 DEF SetupLabels, FinishLabels, BuildLabels, EvaluateLabels
<1> QED BY <1>1, <1>2, <1>3, <1>4 DEF Unwind

(* Before its handler an execution holds the one running row. *)
LEMMA ExecutedRowRuns ==
    ASSUME TypeOK, ExecutionOwnsTheRunningRow, pc \in ExecuteLabels,
           pc # "handle" \/ ~expired
    PROVE  cur \in Runs /\ RunningRuns = {cur} /\ status[cur] = "running"
<1>1. RunningRuns = {cur}
  BY DEF ExecutionOwnsTheRunningRow, HasCompleted
<1>2. cur \in RunningRuns
  BY <1>1
<1> QED BY <1>1, <1>2 DEF RunningRuns

(* A step of an execution that writes no status keeps the row running. *)
LEMMA MovesKeepTheRow ==
    ASSUME TypeOK, ExecutionOwnsTheRunningRow,
           pc \in ExecuteLabels \ {"handle"}, UNCHANGED <<status, cur>>
    PROVE  ExecutionOwnsTheRunningRow'
<1>1. RunningRuns = {cur} /\ status[cur] = "running"
  BY ExecutedRowRuns
<1>2. RunningRuns' = {cur'} /\ status'[cur'] = "running"
  BY <1>1 DEF RunningRuns
<1> QED BY <1>2 DEF ExecutionOwnsTheRunningRow, HasCompleted

(* A cancellation poll keeps the types and stays in the execution. *)
LEMMA CheckTypes ==
    ASSUME TypeOK, ExecutionOwnsTheRunningRow,
           NEW from \in ExecuteLabels \ {"handle"},
           NEW to \in TargetLabels, Check(from, to)
    PROVE  TypeOK' /\ ExecutionOwnsTheRunningRow'
<1>1. RowsOK'
  BY DEF TypeOK, RowsOK, Check, rowVars
<1>2. cur' = cur /\ cur \in Runs /\ pc' \in ExecuteLabels
  BY DEF TypeOK, CoordinatorOK, Check, Raise, Unwind, workVars, ExecuteLabels, TargetLabels,
         EvaluateLabels, BuildLabels, CleanupLabels
<1>3. CoordinatorOK'
  BY <1>2 DEF TypeOK, CoordinatorOK, Check, Raise, workVars, Labels,
         TargetLabels
<1>4. SurroundingsOK'
  BY BoundsAssumption
     DEF TypeOK, SurroundingsOK, Check, DatabaseError, graphVars, requestVars, envVars
<1>5. ExecutionOwnsTheRunningRow'
  BY <1>2, MovesKeepTheRow DEF Check, rowVars
<1> QED BY <1>1, <1>3, <1>4, <1>5 DEF TypeOK

(* A progress report keeps the types and stays in the execution. *)
LEMMA ReportTypes ==
    ASSUME TypeOK, ExecutionOwnsTheRunningRow,
           NEW from \in ExecuteLabels \ {"handle"},
           NEW to \in TargetLabels \cup {"handle"},
           to = "handle" => exc # "none",
           NEW s \in RAG_EVAL_RUN_STAGES, NEW percent \in 0..100,
           NEW done \in 0..NumExamples,
           ReportProgress(from, s, percent, done, to)
    PROVE  TypeOK' /\ ExecutionOwnsTheRunningRow'
<1>1. cur' = cur /\ cur \in Runs /\ pc = from
      /\ {pc, pc'} \subseteq ExecuteLabels
  BY DEF TypeOK, CoordinatorOK, ReportProgress, Raise, Unwind, ExecuteLabels, TargetLabels,
         EvaluateLabels, BuildLabels, CleanupLabels
<1>2. RowsOK' /\ status' = status
  <2>1. CASE UNCHANGED rowVars
    BY <2>1 DEF TypeOK, RowsOK, rowVars
  <2>2. CASE update_rag_eval_run_progress(cur, s, percent, done)
    BY <2>2, <1>1 DEF TypeOK, RowsOK, update_rag_eval_run_progress,
       transition_rag_eval_run, RAG_EVAL_RUN_STATUSES
  <2> QED BY <2>1, <2>2 DEF ReportProgress
<1>3. CoordinatorOK'
  <2>1. exc' \in {"none", "cancelled", "error"} /\ expired' \in BOOLEAN
        /\ (pc' \in {"handle", "undo_build"} \/ expired' => exc' # "none")
    <3>1. CASE exc' = "error"
      BY <3>1 DEF TypeOK, CoordinatorOK, ReportProgress
    <3>2. CASE pc' = to /\ UNCHANGED <<exc, expired>>
      BY <3>2 DEF TypeOK, CoordinatorOK, TargetLabels
    <3> QED BY <3>1, <3>2 DEF ReportProgress, Raise
  <2>2. cur' = cur /\ active_stage' = s /\ answered' = answered
        /\ interrupted' = interrupted /\ recovery_blocked' = recovery_blocked
    BY DEF ReportProgress
  <2> QED BY <1>1, <2>1, <2>2 DEF TypeOK, CoordinatorOK, Labels
<1>4. SurroundingsOK'
  BY BoundsAssumption
     DEF TypeOK, SurroundingsOK, ReportProgress, DatabaseError, graphVars, requestVars, envVars
<1>5. ExecutionOwnsTheRunningRow'
  BY <1>1, <1>2, MovesKeepTheRow
<1> QED BY <1>2, <1>3, <1>4, <1>5 DEF TypeOK

(* A unit of work keeps the types and stays in the execution. *)
LEMMA WorkTypes ==
    ASSUME TypeOK, ExecutionOwnsTheRunningRow,
           NEW from \in ExecuteLabels \ {"handle"},
           NEW to \in TargetLabels, Work(from, to)
    PROVE  TypeOK' /\ ExecutionOwnsTheRunningRow'
<1>1. cur' = cur /\ cur \in Runs /\ pc = from
      /\ {pc, pc'} \subseteq ExecuteLabels
  BY DEF TypeOK, CoordinatorOK, Work, Raise, Unwind, workVars, ExecuteLabels, TargetLabels,
         EvaluateLabels, BuildLabels, CleanupLabels
<1>2. RowsOK' /\ status' = status
  BY DEF TypeOK, RowsOK, Work, rowVars
<1>3. CoordinatorOK'
  BY <1>1 DEF TypeOK, CoordinatorOK, Work, Raise, workVars, Labels,
         TargetLabels
<1>4. SurroundingsOK'
  BY DEF TypeOK, SurroundingsOK, Work, graphVars, requestVars, envVars
<1>5. ExecutionOwnsTheRunningRow'
  BY <1>1, <1>2, MovesKeepTheRow
<1> QED BY <1>2, <1>3, <1>4, <1>5 DEF TypeOK

(* The integer arithmetic of _overall_progress stays between 0 and 100 for *)
(* every stage and every count of examples.                                *)
LEMMA ProgressInRange ==
    /\ \A s \in {"preparing", "chunking", "building_index", "building_graph",
                 "evaluating", "cleaning_up"}, d \in {0, 1} :
           overall_progress(s, d, 1) \in 0..100
    /\ \A k \in 0..NumExamples :
           overall_progress("evaluating", k, NumExamples) \in 0..100
<1>1. \A s \in {"preparing", "chunking", "building_index", "building_graph",
                "evaluating", "cleaning_up"}, d \in {0, 1} :
           overall_progress(s, d, 1) \in 0..100
  <2>1. ASSUME NEW s \in {"preparing", "chunking", "building_index",
                          "building_graph", "evaluating", "cleaning_up"}
        PROVE  /\ StageRange(s)[1] \in 0..100
               /\ StageRange(s)[2] \in StageRange(s)[1]..100
    BY <2>1 DEF StageRange
  <2>2. ASSUME NEW a \in 0..100, NEW b \in a..100, NEW d \in {0, 1}
        PROVE  a + ((b - a) * d) \div 1 \in 0..100
    <3>1. CASE d = 0
      BY <3>1
    <3>2. CASE d = 1
      BY <3>2
    <3> QED BY <3>1, <3>2
  <2>3. ASSUME NEW s \in {"preparing", "chunking", "building_index",
                          "building_graph", "evaluating", "cleaning_up"},
               NEW d \in {0, 1}
        PROVE  overall_progress(s, d, 1) \in 0..100
    <3> DEFINE a == StageRange(s)[1]
               b == StageRange(s)[2]
    <3>1. a \in 0..100 /\ b \in a..100
      BY <2>1
    <3>2. overall_progress(s, d, 1) = a + ((b - a) * d) \div 1
      BY DEF overall_progress
    <3> HIDE DEF a, b
    <3> QED BY <2>2, <3>1, <3>2
  <2> QED BY <2>3
<1>2. ASSUME NEW k \in 0..NumExamples
      PROVE  overall_progress("evaluating", k, NumExamples) \in 0..100
  <2> DEFINE q == (55 * k) \div NumExamples
  <2>1. overall_progress("evaluating", k, NumExamples) = 25 + q
    BY DEF overall_progress, StageRange
  <2>2. q \in Nat /\ NumExamples * q <= 55 * k
    BY SuiteAssumption
  <2>3. q <= 55
    <3>1. NumExamples * q <= 55 * NumExamples
      BY <2>2, SuiteAssumption
    <3>2. ASSUME q >= 56 PROVE FALSE
      <4>1. NumExamples * q >= NumExamples * 56
        BY <2>2, <3>2, SuiteAssumption
      <4> QED BY <3>1, <4>1, <2>2, SuiteAssumption
    <3> QED BY <2>2, <3>2
  <2> QED BY <2>1, <2>2, <2>3
<1> QED BY <1>1, <1>2

(* The groups of awaits are parts of the execution, apart from the loop. *)
LEMMA LabelSets ==
    /\ SetupLabels \cup BuildLabels \cup EvaluateLabels \cup CleanupLabels
          \cup FinishLabels \subseteq TargetLabels
    /\ TargetLabels \cup {"undo_build"} \subseteq ExecuteLabels \ {"handle"}
    /\ ExecuteLabels \cap (RecoverLabels \cup LoopLabels) = {}
    /\ RecoverLabels \cap LoopLabels = {}
  BY DEF ExecuteLabels, SetupLabels, BuildLabels, EvaluateLabels,
         CleanupLabels, FinishLabels, RecoverLabels, LoopLabels, TargetLabels

(* Every step of _execute keeps the types, and it ends in the loop or *)
(* stays in the execution.                                            *)
LEMMA ExecuteTypes ==
    ASSUME TypeOK, ExecutionOwnsTheRunningRow, LabelFacts, Execute
    PROVE  TypeOK' /\ ExecutionOwnsTheRunningRow'
<1> USE LabelSets
<1> DEFINE TO == TypeOK' /\ ExecutionOwnsTheRunningRow'
<1>0. pc \in ExecuteLabels => /\ cur \in Runs
                              /\ completed_examples[cur] \in 0..NumExamples
                              /\ progress[cur] \in 0..100
  BY DEF TypeOK, RowsOK, CoordinatorOK
<1>a. ASSUME NEW from, NEW to, from \in ExecuteLabels \ {"handle"},
             to \in TargetLabels, Check(from, to)
      PROVE TO
  BY <1>a, CheckTypes
<1>b. ASSUME NEW from, NEW to, from \in ExecuteLabels \ {"handle"},
             to \in TargetLabels \cup {"handle"},
             to = "handle" => exc # "none",
             NEW s \in {"preparing", "chunking", "building_index",
                        "building_graph", "evaluating", "cleaning_up"},
             NEW d \in {0, 1}, report_progress(from, s, d, 1, to)
      PROVE TO
  <2>1. s \in RAG_EVAL_RUN_STAGES
    BY DEF RAG_EVAL_RUN_STAGES
  <2>2. pc \in ExecuteLabels
    BY <1>b DEF report_progress, ReportProgress
  <2> DEFINE percent == overall_progress(s, d, 1)
             done    == completed_examples[cur]
  <2>3. percent \in 0..100 /\ done \in 0..NumExamples
    BY <1>0, <2>2, ProgressInRange
  <2>4. ReportProgress(from, s, percent, done, to)
    BY <1>b DEF report_progress
  <2> HIDE DEF percent, done
  <2> QED BY <1>b, <2>1, <2>3, <2>4, ReportTypes
<1>1. CASE Validate
  <2>1. cur' = cur /\ cur \in Runs /\ {pc, pc'} \subseteq ExecuteLabels
        /\ pc # "handle" /\ pc' # "undo_build"
    BY <1>0, <1>1 DEF Validate, Raise, Unwind, workVars, SetupLabels,
       EvaluateLabels, BuildLabels, ExecuteLabels
  <2>2. CoordinatorOK'
    BY <1>1, <2>1 DEF TypeOK, CoordinatorOK, Validate, Raise, workVars, Labels
  <2>3. RowsOK' /\ status' = status /\ SurroundingsOK'
    BY <1>1 DEF TypeOK, RowsOK, SurroundingsOK, Validate, rowVars, graphVars,
       requestVars, envVars
  <2> QED BY <2>1, <2>2, <2>3, MovesKeepTheRow DEF TypeOK
<1>2. CASE Prepare
  BY <1>2, <1>a, <1>b, WorkTypes DEF Prepare, SetupLabels, BuildLabels
<1>3. CASE CragPrepare
  BY <1>3, <1>a, <1>b, WorkTypes DEF CragPrepare, SetupLabels, EvaluateLabels
<1>4. CASE GraphRagPrepare
  <2>1. CASE WipeGraph \/ build_property_graph_index \/ UndoBuild
    <3>1. cur' = cur /\ cur \in Runs /\ {pc, pc'} \subseteq ExecuteLabels
          /\ pc # "handle"
      <4>2. CASE WipeGraph
        BY <4>2, <1>0, Unwinding DEF WipeGraph, Raise, workVars, BuildLabels, ExecuteLabels
      <4>3. CASE build_property_graph_index
        BY <4>3, <1>0, Unwinding DEF build_property_graph_index, Raise, workVars,
           BuildLabels, ExecuteLabels
      <4>4. CASE UndoBuild
        BY <4>4, <1>0 DEF UndoBuild, workVars, ExecuteLabels
      <4> QED BY <2>1, <4>2, <4>3, <4>4
    <3>2. CoordinatorOK'
      BY <2>1, <3>1 DEF TypeOK, CoordinatorOK, WipeGraph,
         build_property_graph_index, UndoBuild, Raise, Unwind, workVars, Labels,
         BuildLabels
    <3>3. RowsOK' /\ status' = status
      BY <2>1 DEF TypeOK, RowsOK, WipeGraph, build_property_graph_index,
         UndoBuild, rowVars
    <3>4. SurroundingsOK'
      BY <2>1, <3>1 DEF TypeOK, SurroundingsOK, WipeGraph,
         build_property_graph_index, UndoBuild, DeletesGeneration,
         DeletionRaises, graphVars, requestVars, envVars
    <3> QED BY <3>1, <3>2, <3>3, <3>4, MovesKeepTheRow DEF TypeOK
  <2> QED BY <1>4, <2>1, <1>a, <1>b DEF GraphRagPrepare, BuildLabels, EvaluateLabels
<1>5. CASE EvaluateExamples
  <2>1. CASE Answer
    <3>1. cur' = cur /\ cur \in Runs /\ {pc, pc'} \subseteq ExecuteLabels
          /\ pc # "handle"
      BY <1>0, <2>1 DEF Answer, Raise, Unwind, EvaluateLabels, CleanupLabels,
         BuildLabels, ExecuteLabels
    <3>2. answered' \in 0..NumExamples
      BY <2>1, SuiteAssumption DEF TypeOK, CoordinatorOK, Answer, LabelFacts
    <3>3. CoordinatorOK'
      BY <2>1, <3>1, <3>2 DEF TypeOK, CoordinatorOK, Answer, Raise, Unwind,
         Labels, BuildLabels, EvaluateLabels
    <3>4. RowsOK' /\ status' = status /\ SurroundingsOK'
      BY <2>1 DEF TypeOK, RowsOK, SurroundingsOK, Answer, rowVars, graphVars,
         requestVars, envVars
    <3> QED BY <3>1, <3>3, <3>4, MovesKeepTheRow DEF TypeOK
  <2>2. CASE ReportProgress("report_answer", "evaluating",
               overall_progress("evaluating", answered, NumExamples), answered,
               "answered_check")
    <3>1. answered \in 0..NumExamples
      BY DEF TypeOK, CoordinatorOK
    <3> QED BY <2>2, <3>1, ProgressInRange, ReportTypes DEF EvaluateLabels,
               RAG_EVAL_RUN_STAGES
  <2> QED BY <1>5, <2>1, <2>2, <1>a, <1>b, WorkTypes DEF EvaluateExamples, EvaluateLabels,
             CleanupLabels
<1>6. CASE CleanUp
  <2>1. CASE CleanupResources
    <3>1. cur' = cur /\ cur \in Runs /\ {pc, pc'} \subseteq ExecuteLabels
          /\ pc # "handle"
      BY <1>0, <2>1 DEF CleanupResources, Raise, Unwind, workVars,
         CleanupLabels, BuildLabels, EvaluateLabels, ExecuteLabels
    <3>2. CoordinatorOK'
      BY <2>1, <3>1 DEF TypeOK, CoordinatorOK, CleanupResources,
         Raise, workVars, Labels
    <3>3. RowsOK' /\ status' = status
      BY <2>1 DEF TypeOK, RowsOK, CleanupResources, rowVars
    <3>4. SurroundingsOK'
      BY <2>1, <3>1 DEF TypeOK, SurroundingsOK, CleanupResources, graphVars,
         DeletesGeneration, DeletionRaises, requestVars, envVars
    <3> QED BY <3>1, <3>2, <3>3, <3>4, MovesKeepTheRow DEF TypeOK
  <2> QED BY <1>6, <2>1, <1>b DEF CleanUp, CleanupLabels, FinishLabels,
             ExecuteLabels
<1>7. CASE ScoreAndPersist
  <2>1. CASE Finalize
    <3>1. pc = "finalize" /\ cur' = cur /\ cur \in Runs
      BY <1>0, <2>1 DEF Finalize, FinishLabels, ExecuteLabels
    <3>4. Unwind(pc) = "handle"
      BY <3>1 DEF Unwind, BuildLabels, EvaluateLabels
    <3>5. DatabaseError \/ UNCHANGED faults => faults' \in 0..MaxFaults
      BY BoundsAssumption DEF DatabaseError, TypeOK, SurroundingsOK
    <3>2. CASE finalize_rag_eval_run_success(cur)
      <4>a. answered \in 0..NumExamples /\ NumExamples \in 0..NumExamples
            /\ corpus \in Suites
        BY SuiteAssumption DEF TypeOK, CoordinatorOK, SurroundingsOK
      <4>b. "completed" \in RAG_EVAL_RUN_STATUSES /\ "finished" \in RAG_EVAL_RUN_STAGES
        BY DEF RAG_EVAL_RUN_STATUSES, TERMINAL_RAG_EVAL_RUN_STATUSES,
               RAG_EVAL_RUN_STAGES
      <4>1. RowsOK'
        BY <3>1, <3>2, <4>a, <4>b DEF TypeOK, RowsOK,
           finalize_rag_eval_run_success
      <4>2. RunningRuns = {cur}
        BY <3>1, ExecutedRowRuns DEF FinishLabels, ExecuteLabels
      <4>3. RunningRuns' = {} /\ status'[cur'] = "completed"
        <5>1. status' = [status EXCEPT ![cur] = "completed"]
              /\ status \in [Runs -> RAG_EVAL_RUN_STATUSES \cup {"absent"}]
          BY <3>2 DEF finalize_rag_eval_run_success, TypeOK, RowsOK
        <5> QED BY <3>1, <4>2, <5>1 DEF RunningRuns
      <4>4. CASE pc' = "processed" /\ UNCHANGED <<exc, expired, faults>>
        <5>1. CoordinatorOK' /\ SurroundingsOK' /\ pc' \notin ExecuteLabels
          BY <2>1, <3>1, <4>4 DEF TypeOK, CoordinatorOK, SurroundingsOK, Finalize,
             graphVars, requestVars, envVars, Labels, LoopLabels
        <5> QED BY <4>1, <5>1 DEF TypeOK, ExecutionOwnsTheRunningRow
      <4>5. CASE pc' = "handle" /\ expired' = TRUE /\ exc' = "error"
                 /\ faults' \in 0..MaxFaults
        <5>1. CoordinatorOK' /\ SurroundingsOK'
          BY <2>1, <3>1, <4>5 DEF TypeOK, CoordinatorOK, SurroundingsOK, Finalize,
             graphVars, requestVars, envVars, Labels, ExecuteLabels
        <5>2. ExecutionOwnsTheRunningRow'
          BY <4>3, <4>5 DEF ExecutionOwnsTheRunningRow, HasCompleted
        <5> QED BY <4>1, <5>1, <5>2 DEF TypeOK
      <4> QED BY <2>1, <3>2, <3>4, <3>5, <4>4, <4>5 DEF Finalize, Raise,
                 finalize_rag_eval_run_success
    <3>3. CASE UNCHANGED rowVars /\ expired' = TRUE /\ pc' = "handle"
               /\ exc' \in {"cancelled", "error"} /\ faults' \in 0..MaxFaults
      <4>1. RowsOK' /\ status' = status
        BY <3>3 DEF TypeOK, RowsOK, rowVars
      <4>2. CoordinatorOK' /\ SurroundingsOK' /\ pc \in ExecuteLabels \ {"handle"}
        BY <2>1, <3>1, <3>3 DEF TypeOK, CoordinatorOK, SurroundingsOK, Finalize,
           graphVars, requestVars, envVars, Labels, ExecuteLabels, FinishLabels
      <4> QED BY <4>1, <4>2, <3>1, MovesKeepTheRow DEF TypeOK
    <3> QED BY <2>1, <3>2, <3>3, <3>4, <3>5 DEF Finalize, Raise
  <2>a. /\ {"scoring", "persisting"} \subseteq RAG_EVAL_RUN_STAGES
        /\ 85 \in 0..100 /\ 95 \in 0..100 /\ NumExamples \in 0..NumExamples
        /\ {"report_scoring", "score_check", "report_persisting",
             "persisting_check"} \subseteq TargetLabels
    BY SuiteAssumption DEF RAG_EVAL_RUN_STAGES, FinishLabels
  <2>2. CASE ReportProgress("report_scoring", "scoring", 85, NumExamples,
                            "score_check")
    BY <2>2, <2>a, ReportTypes
  <2>3. CASE ReportProgress("report_persisting", "persisting", 95, NumExamples,
                            "persisting_check")
    BY <2>3, <2>a, ReportTypes
  <2> QED BY <1>7, <2>1, <2>2, <2>3, <1>a, WorkTypes DEF ScoreAndPersist, FinishLabels
<1>8. CASE Handle
  <2>1. pc = "handle" /\ cur' = cur /\ cur \in Runs
    BY <1>0, <1>8 DEF Handle, ExecuteLabels
  <2>2. RowsOK'
    <3>1. CASE UNCHANGED rowVars
      BY <3>1 DEF TypeOK, RowsOK, rowVars
    <3>2. CASE mark_rag_eval_run_cancelled(cur) \/ mark_rag_eval_run_failed(cur)
      BY <2>1, <3>2 DEF TypeOK, RowsOK, mark_rag_eval_run_cancelled,
         mark_rag_eval_run_failed, transition_rag_eval_run, RAG_EVAL_RUN_STATUSES,
         TERMINAL_RAG_EVAL_RUN_STATUSES, RAG_EVAL_RUN_STAGES
    <3>3. CASE AwaitsCleanup(cur)
      BY <2>1, <3>3 DEF TypeOK, RowsOK, AwaitsCleanup, update_rag_eval_run_progress,
         transition_rag_eval_run, RAG_EVAL_RUN_STATUSES, RAG_EVAL_RUN_STAGES
    <3> QED BY <1>8, <3>1, <3>2, <3>3 DEF Handle, Handles, HandleCancelled,
               HandleCleanupFailure, HandleFailure
  <2>3. pc' \in {"processed", "dead"} /\ recovery_blocked' \in BOOLEAN
    BY <1>8 DEF TypeOK, CoordinatorOK, Handle, Handles, HandleCancelled,
       HandleCleanupFailure, HandleFailure, WorkerDies
  <2>4. CoordinatorOK' /\ pc' \notin ExecuteLabels
    BY <1>8, <2>1, <2>3 DEF TypeOK, CoordinatorOK, Handle, Labels, LoopLabels
  <2>5. SurroundingsOK'
    BY <1>8, BoundsAssumption DEF TypeOK, SurroundingsOK, Handle, DatabaseError,
       graphVars, requestVars, envVars
  <2> QED BY <2>2, <2>4, <2>5 DEF TypeOK, ExecutionOwnsTheRunningRow
<1>9. CASE HandleExpired
  <2>1. RowsOK' /\ CoordinatorOK' /\ SurroundingsOK' /\ pc' \notin ExecuteLabels
    BY <1>9 DEF TypeOK, RowsOK, CoordinatorOK, SurroundingsOK, HandleExpired,
       WorkerDies, rowVars, graphVars, workVars, requestVars, envVars, Labels,
       LoopLabels
  <2> QED BY <2>1 DEF TypeOK, ExecutionOwnsTheRunningRow
<1> QED
  BY <1>1, <1>2, <1>3, <1>4, <1>5, <1>6, <1>7, <1>8, <1>9 DEF Execute

(* The steps of the worker loop other than claim and execution. *)
RecoveryLoop ==
    \/ LoopTop
    \/ ListInterrupted
    \/ RecoverNext
    \/ RecoverDone
    \/ RecoverCleanup
    \/ RecoverCleanupFails
    \/ RecoverBlock
    \/ RecoverFail
    \/ ProcessReturns
    \/ WaitEnds

(* The locals a process forgets have their types. *)
LEMMA FreshExecution ==
    /\ "preparing" \in RAG_EVAL_RUN_STAGES
    /\ 0 \in 0..NumExamples
    /\ {"loop", "down", "validate"} \cap {"handle", "undo_build"} = {}
  BY SuiteAssumption DEF RAG_EVAL_RUN_STAGES

(* Every step of the worker loop and of recovery keeps the types and *)
(* starts no execution.                                              *)
LEMMA LoopTypes ==
    ASSUME TypeOK, RecoveryLoop
    PROVE  TypeOK' /\ pc' \notin ExecuteLabels
<1>1. /\ pc' \in Labels \ ExecuteLabels
      /\ pc' \in RecoverLabels => cur' \in Runs
      /\ cur' \in Runs \cup {NoRun}
  <2>1. {"stopped", "list", "recover", "claim", "processed", "dead",
         "retry_wait", "loop", "idle_wait"} \subseteq LoopLabels
    BY DEF LoopLabels
  <2>2. LoopLabels \cap RecoverLabels = {} /\ LoopLabels \cap ExecuteLabels = {}
        /\ RecoverLabels \cap ExecuteLabels = {}
        /\ LoopLabels \cup RecoverLabels \subseteq Labels
    BY LabelSets DEF Labels
  <2>3. {"recover_cleanup", "recover_block", "recover_fail"} = RecoverLabels
    BY DEF RecoverLabels
  <2>4. CASE RecoverNext
    <3>1. cur' \in Runs /\ pc' \in RecoverLabels
      BY <2>3, <2>4 DEF RecoverNext, TypeOK, CoordinatorOK
    <3> QED BY <2>2, <3>1
  <2>5. CASE RecoverCleanup \/ RecoverCleanupFails
    <3>1. pc \in RecoverLabels /\ pc' \in RecoverLabels /\ cur' = cur
      BY <2>3, <2>5 DEF RecoverCleanup, RecoverCleanupFails, workVars
    <3> QED BY <2>2, <3>1 DEF TypeOK, CoordinatorOK
  <2>6. CASE ~(RecoverNext \/ RecoverCleanup \/ RecoverCleanupFails)
    <3>1. pc' \in LoopLabels
      BY <2>1, <2>6 DEF RecoveryLoop, LoopTop, ListInterrupted, RecoverDone,
         RecoverBlock, RecoverFail, ProcessReturns, WaitEnds, WorkerDies
    <3>2. cur' \in {cur, NoRun}
      BY <2>6 DEF RecoveryLoop, LoopTop, ListInterrupted, RecoverDone,
         RecoverBlock, RecoverFail, ProcessReturns, WaitEnds, ForgetsExecution,
         workVars
    <3>3. cur \in Runs \cup {NoRun}
      BY DEF TypeOK, CoordinatorOK
    <3> QED BY <2>2, <3>1, <3>2, <3>3
  <2> QED BY <2>4, <2>5, <2>6
<1>2. pc' \notin {"handle", "undo_build"}
  BY <1>1 DEF ExecuteLabels
<1>3. /\ active_stage' \in {active_stage, "preparing"}
      /\ \/ UNCHANGED <<exc, expired>>
         \/ exc' = "none" /\ expired' = FALSE
      /\ answered' \in {answered, 0}
      /\ interrupted' \subseteq Runs
      /\ recovery_blocked' \in BOOLEAN
  BY DEF TypeOK, CoordinatorOK, RecoveryLoop, LoopTop, ListInterrupted,
     RecoverNext, RecoverDone, RecoverCleanup, RecoverCleanupFails, RecoverBlock,
     RecoverFail, ProcessReturns, WaitEnds, ForgetsExecution, workVars,
     list_interrupted_rag_eval_runs
<1>4. CoordinatorOK'
  <2>1. exc' \in {"none", "cancelled", "error"} /\ expired' \in BOOLEAN
        /\ (expired' => exc' # "none")
    <3>1. CASE UNCHANGED <<exc, expired>>
      BY <3>1 DEF TypeOK, CoordinatorOK
    <3>2. CASE exc' = "none" /\ expired' = FALSE
      BY <3>2
    <3> QED BY <1>3, <3>1, <3>2
  <2>2. active_stage' \in RAG_EVAL_RUN_STAGES /\ answered' \in 0..NumExamples
    BY <1>3, FreshExecution DEF TypeOK, CoordinatorOK
  <2> QED BY <1>1, <1>2, <1>3, <2>1, <2>2 DEF CoordinatorOK
<1>5. RowsOK'
  <2>1. CASE UNCHANGED rowVars
    BY <2>1 DEF TypeOK, RowsOK, rowVars
  <2>2. CASE RecoverBlock
    <3>1. cur \in Runs
      BY <2>2 DEF RecoverBlock, TypeOK, CoordinatorOK, RecoverLabels
    <3> QED BY <2>1, <2>2, <3>1 DEF RecoverBlock, AwaitsCleanup, TypeOK, RowsOK,
               update_rag_eval_run_progress, transition_rag_eval_run,
               RAG_EVAL_RUN_STATUSES, RAG_EVAL_RUN_STAGES
  <2>3. CASE RecoverFail
    <3>1. cur \in Runs
      BY <2>3 DEF RecoverFail, TypeOK, CoordinatorOK, RecoverLabels
    <3> QED BY <2>1, <2>3, <3>1 DEF RecoverFail, TypeOK, RowsOK,
               mark_rag_eval_run_failed, transition_rag_eval_run,
               RAG_EVAL_RUN_STATUSES, TERMINAL_RAG_EVAL_RUN_STATUSES,
               RAG_EVAL_RUN_STAGES
  <2> QED BY <2>1, <2>2, <2>3 DEF RecoveryLoop, LoopTop, ListInterrupted,
             RecoverNext, RecoverDone, RecoverCleanup, RecoverCleanupFails,
             ProcessReturns, WaitEnds
<1>6. SurroundingsOK'
  <2>1. scope' \subseteq Runs /\ cleanup_failed' \subseteq Runs
    <3>1. CASE UNCHANGED graphVars
      BY <3>1 DEF TypeOK, SurroundingsOK, graphVars
    <3>2. CASE RecoverCleanup \/ RecoverCleanupFails
      <4>1. cur \in Runs
        BY <3>2 DEF RecoverCleanup, RecoverCleanupFails, TypeOK, CoordinatorOK,
           RecoverLabels
      <4> QED BY <3>2, <4>1 DEF RecoverCleanup, RecoverCleanupFails, TypeOK,
                 SurroundingsOK, DeletesGeneration, DeletionRaises
    <3> QED BY <3>1, <3>2 DEF RecoveryLoop, LoopTop, ListInterrupted,
               RecoverNext, RecoverDone, RecoverBlock, RecoverFail,
               ProcessReturns, WaitEnds
  <2>2. faults' \in 0..MaxFaults
    BY BoundsAssumption DEF TypeOK, SurroundingsOK, RecoveryLoop, LoopTop,
       ListInterrupted, RecoverNext, RecoverDone, RecoverCleanup,
       RecoverCleanupFails, RecoverBlock, RecoverFail, ProcessReturns, WaitEnds,
       DatabaseError
  <2>3. UNCHANGED <<unnotified, envVars>> /\ wake_event' \in BOOLEAN
    BY DEF TypeOK, SurroundingsOK, RecoveryLoop, LoopTop,
       ListInterrupted, RecoverNext, RecoverDone, RecoverCleanup,
       RecoverCleanupFails, RecoverBlock, RecoverFail, ProcessReturns, WaitEnds,
       requestVars
  <2> QED BY <2>1, <2>2, <2>3 DEF TypeOK, SurroundingsOK, envVars
<1> QED BY <1>1, <1>4, <1>5, <1>6 DEF TypeOK

(* A claim keeps the types. *)
LEMMA ClaimTypes ==
    ASSUME TypeOK, claim_next_rag_eval_run
    PROVE  TypeOK' /\ ExecutionOwnsTheRunningRow'
<1>1. {"nothing_to_do", "dead"} \subseteq Labels \ (ExecuteLabels \cup RecoverLabels)
      /\ "validate" \in ExecuteLabels /\ "validate" \in Labels
  BY LabelSets DEF Labels, LoopLabels, ExecuteLabels, SetupLabels
<1>r. ASSUME NEW r \in ClaimableRuns, StartsRunning(r)
      PROVE  RowsOK' /\ RunningRuns' = {r}
  <2>1. r \in Runs /\ \A q \in Runs : status[q] # "running"
    BY <1>r DEF ClaimableRuns
  <2>2. RowsOK'
    BY <1>r, <2>1 DEF StartsRunning, claim_next_rag_eval_run, TypeOK, RowsOK,
       RAG_EVAL_RUN_STATUSES, RAG_EVAL_RUN_STAGES
  <2>3. status'[r] = "running" /\ \A q \in Runs \ {r} : status'[q] = status[q]
    BY <1>r, <2>1 DEF StartsRunning, TypeOK, RowsOK
  <2> QED BY <2>1, <2>2, <2>3 DEF RunningRuns
<1>s. UNCHANGED faults \/ DatabaseError => SurroundingsOK'
  BY BoundsAssumption DEF claim_next_rag_eval_run, TypeOK, SurroundingsOK,
     graphVars, requestVars, envVars, DatabaseError
<1>2. CASE UNCHANGED <<cur, active_stage, exc, expired, answered>>
           /\ pc' \in {"nothing_to_do", "dead"}
           /\ (UNCHANGED faults \/ DatabaseError)
           /\ \/ UNCHANGED <<status, stage, cancel_requested>>
              \/ \E r \in ClaimableRuns : StartsRunning(r)
  <2>1. RowsOK'
    BY <1>2, <1>r DEF claim_next_rag_eval_run, TypeOK, RowsOK
  <2>2. CoordinatorOK'
    BY <1>1, <1>2 DEF claim_next_rag_eval_run, TypeOK, CoordinatorOK
  <2> QED BY <1>1, <1>2, <1>s, <2>1, <2>2 DEF TypeOK, ExecutionOwnsTheRunningRow
<1>3. CASE /\ cur' \in ClaimableRuns
           /\ StartsRunning(cur')
           /\ active_stage' = "preparing"
           /\ exc' = "none"
           /\ expired' = FALSE
           /\ answered' = 0
           /\ pc' = "validate"
           /\ UNCHANGED faults
  <2>1. cur' \in Runs /\ RowsOK' /\ RunningRuns' = {cur'}
    BY <1>3, <1>r DEF ClaimableRuns
  <2>3. CoordinatorOK'
    BY <1>1, <1>3, <2>1, FreshExecution
       DEF claim_next_rag_eval_run, TypeOK, CoordinatorOK
  <2>4. ExecutionOwnsTheRunningRow'
    BY <1>3, <2>1 DEF ExecutionOwnsTheRunningRow, HasCompleted
  <2> QED BY <1>3, <1>s, <2>1, <2>3, <2>4 DEF TypeOK
<1> QED BY <1>2, <1>3 DEF claim_next_rag_eval_run, WorkerDies

(* Every request keeps the types. *)
LEMMA RequestTypes ==
    ASSUME TypeOK, ExecutionOwnsTheRunningRow, Requests
    PROVE  TypeOK' /\ ExecutionOwnsTheRunningRow'
<1>1. PICK r \in Runs : \/ enqueue_rag_eval_run(r)
                        \/ Notify(r)
                        \/ request_rag_eval_run_cancel(r)
  BY DEF Requests
<1>2. UNCHANGED <<pc, exc, workVars>>
  BY <1>1 DEF enqueue_rag_eval_run, Notify, request_rag_eval_run_cancel
<1>3. CoordinatorOK'
  BY <1>2 DEF TypeOK, CoordinatorOK, workVars
<1>4. \A q \in Runs : (status'[q] = "running") <=> (status[q] = "running")
  BY <1>1 DEF enqueue_rag_eval_run, Notify, request_rag_eval_run_cancel, rowVars,
     TypeOK, RowsOK
<1>5. ExecutionOwnsTheRunningRow'
  <2>1. RunningRuns' = RunningRuns
    BY <1>4 DEF RunningRuns
  <2>2. \A q \in Runs : status[q] = "completed" <=> status'[q] = "completed"
    BY <1>1 DEF enqueue_rag_eval_run, Notify, request_rag_eval_run_cancel, rowVars,
       TypeOK, RowsOK
  <2>3. pc \in ExecuteLabels => (HasCompleted' <=> HasCompleted)
    BY <1>2, <2>2 DEF HasCompleted, workVars, TypeOK, CoordinatorOK
  <2> QED BY <1>2, <2>1, <2>3 DEF ExecutionOwnsTheRunningRow, workVars
<1>6. CASE enqueue_rag_eval_run(r)
  <2>1. RowsOK'
    BY <1>6 DEF enqueue_rag_eval_run, TypeOK, RowsOK, SurroundingsOK,
       RAG_EVAL_RUN_STATUSES
  <2>2. SurroundingsOK'
    BY <1>6 DEF enqueue_rag_eval_run, TypeOK, SurroundingsOK, graphVars, envVars
  <2> QED BY <1>3, <1>5, <2>1, <2>2 DEF TypeOK
<1>7. CASE Notify(r)
  <2>1. RowsOK' /\ SurroundingsOK'
    BY <1>7 DEF Notify, TypeOK, RowsOK, SurroundingsOK, rowVars, graphVars, envVars
  <2> QED BY <1>3, <1>5, <2>1 DEF TypeOK
<1>8. CASE request_rag_eval_run_cancel(r)
  <2>1. RowsOK'
    BY <1>8 DEF request_rag_eval_run_cancel, TypeOK, RowsOK,
       RAG_EVAL_RUN_STATUSES, TERMINAL_RAG_EVAL_RUN_STATUSES, RAG_EVAL_RUN_STAGES
  <2>2. SurroundingsOK'
    BY <1>8 DEF request_rag_eval_run_cancel, TypeOK, SurroundingsOK, graphVars,
       envVars
  <2> QED BY <1>3, <1>5, <2>1, <2>2 DEF TypeOK
<1> QED BY <1>1, <1>6, <1>7, <1>8

(* Crashes, shutdowns, exits and restarts keep the types. *)
LEMMA ProcessTypes ==
    ASSUME TypeOK, ExecutionOwnsTheRunningRow, Process
    PROVE  TypeOK' /\ ExecutionOwnsTheRunningRow'
<1>1. {"down", "loop"} \subseteq Labels \ (ExecuteLabels \cup RecoverLabels)
  BY LabelSets DEF Labels, LoopLabels
<1>2. "undo_build" \in ExecuteLabels /\ "handle" \in ExecuteLabels
  BY DEF ExecuteLabels
<1>3. UNCHANGED <<rowVars, graphVars, faults>>
  BY DEF Process, Crash, Shutdown, Exit, Restart, Halt
<1>4. RowsOK'
  BY <1>3 DEF TypeOK, RowsOK, rowVars
<1>5. SurroundingsOK'
  <2>1. app' \in {"up", "stopping", "down"} /\ wake_event' \in BOOLEAN
        /\ unnotified' \subseteq Runs /\ corpus' \in Suites
    BY DEF Process, Crash, Shutdown, Exit, Restart, Halt, TypeOK,
       SurroundingsOK, requestVars
  <2>2. stops' \in 0..MaxStops
    BY BoundsAssumption DEF Process, Crash, Shutdown, Exit, Restart, TypeOK,
       SurroundingsOK
  <2> QED BY <1>3, <2>1, <2>2 DEF TypeOK, SurroundingsOK, graphVars
<1>6. CASE Shutdown
  <2>1. CoordinatorOK' /\ ExecutionOwnsTheRunningRow'
    BY <1>3, <1>6 DEF Shutdown, TypeOK, CoordinatorOK, ExecutionOwnsTheRunningRow,
       RunningRuns, HasCompleted, workVars, rowVars
  <2> QED BY <1>4, <1>5, <2>1 DEF TypeOK
<1>7. CASE Restart
  <2>1. CoordinatorOK' /\ pc' \notin ExecuteLabels
    BY <1>1, <1>2, <1>7 DEF Restart, TypeOK, CoordinatorOK, workVars
  <2> QED BY <1>4, <1>5, <2>1 DEF TypeOK, ExecutionOwnsTheRunningRow
<1>8. CASE Halt
  <2>1. CoordinatorOK' /\ pc' \notin ExecuteLabels
    BY <1>1, <1>2, <1>8, FreshExecution DEF Halt, ForgetsExecution, TypeOK,
       CoordinatorOK
  <2> QED BY <1>4, <1>5, <2>1 DEF TypeOK, ExecutionOwnsTheRunningRow
<1> QED BY <1>6, <1>7, <1>8 DEF Process, Crash, Exit


(* A move from label to label that keeps LabelFacts true of the same run. *)
Follows(from, to) ==
    /\ from \in (ExecuteLabels \ {"handle", "undo_build", "cleanup"})
    /\ to \in CleanLabels \cup {"handle"} => cur \notin scope
    /\ to \in BuildLabels \cup {"undo_build"} => snapshot[cur] = "graphrag"
    /\ to \in UnansweredLabels => answered = 0
    /\ to \in {"example_check", "answer"} => answered < NumExamples

(* A step that moves along Follows and leaves the scopes, the snapshots *)
(* and the count of answers alone keeps LabelFacts.                     *)
LEMMA MovesKeepFacts ==
    ASSUME TypeOK, LabelFacts, NEW to, Follows(pc, to),
           UNCHANGED <<cur, snapshot, scope, cleanup_failed, answered>>,
           pc' \in {to, Unwind(pc)}
    PROVE  LabelFacts'
<1>1. CASE pc' = to
  BY <1>1 DEF Follows, LabelFacts
<1>2. CASE pc' = Unwind(pc)
  <2>1. CASE pc \in BuildLabels
    <3>1. pc' = "undo_build" /\ snapshot[cur] = "graphrag"
      BY <1>2, <2>1, Unwinding DEF LabelFacts
    <3>2. "undo_build" \notin CleanLabels \cup UnansweredLabels
      BY DEF CleanLabels, UnansweredLabels, SetupLabels, BuildLabels, FinishLabels
    <3> QED BY <3>1, <3>2 DEF LabelFacts
  <2>2. CASE pc \in EvaluateLabels \cup {"report_cleanup"}
    <3>1. pc' \in {"report_cleanup", "cleanup"}
      BY <1>2, <2>2, Unwinding
    <3>2. {"report_cleanup", "cleanup"}
              \cap (CleanLabels \cup UnansweredLabels \cup BuildLabels) = {}
      BY DEF CleanLabels, UnansweredLabels, SetupLabels, BuildLabels, FinishLabels
    <3> QED BY <3>1, <3>2 DEF LabelFacts
  <2>3. CASE pc \in SetupLabels \cup FinishLabels \cup {"report_cleaned"}
    <3>1. pc' = "handle" /\ cur \notin scope
      BY <1>2, <2>3, Unwinding DEF LabelFacts, CleanLabels
    <3>2. "handle" \notin CleanLabels \cup UnansweredLabels \cup BuildLabels
      BY DEF CleanLabels, UnansweredLabels, SetupLabels, BuildLabels, FinishLabels
    <3> QED BY <3>1, <3>2 DEF LabelFacts
  <2> QED BY <2>1, <2>2, <2>3 DEF Follows, ExecuteLabels, CleanupLabels
<1> QED BY <1>1, <1>2

(* A step of an execution that only moves: rows and graph data keep their  *)
(* owner, and a cancellation is raised only where one was requested.       *)
QuietStep ==
    /\ pc \in ExecuteLabels
    /\ UNCHANGED <<cur, status, snapshot, cancel_requested, scope, cleanup_failed>>
    /\ \/ exc' = exc
       \/ exc' = "error"
       \/ exc' = "cancelled" /\ cancel_requested[cur]

(* A step that changes no scope, owner or flag keeps the parts of the *)
(* invariant about them.                                              *)
LEMMA QuietStepsKeepOwners ==
    ASSUME ScopesHaveOwners, CancellationsWereAsked, QuietStep
    PROVE  ScopesHaveOwners' /\ CancellationsWereAsked'
<1>1. ScopesHaveOwners'
  BY DEF QuietStep, ScopesHaveOwners, LeftoverScopesAreFailedCleanups
<1>2. CancellationsWereAsked'
  BY DEF QuietStep, CancellationsWereAsked
<1> QED BY <1>1, <1>2

(* The parts of the inductive invariant that TypeOK and *)
(* ExecutionOwnsTheRunningRow support.                  *)
OwnersAndFacts == ScopesHaveOwners /\ LabelFacts /\ CancellationsWereAsked

(* A cancellation poll keeps the invariant: it raises only under the flag. *)
LEMMA CheckKeeps ==
    ASSUME IInv, NEW from, NEW to, Follows(from, to), Check(from, to)
    PROVE  OwnersAndFacts'
<1>1. QuietStep /\ pc = from /\ pc' \in {to, Unwind(pc)} /\ UNCHANGED answered
  BY DEF Check, Raise, QuietStep, Follows, rowVars, graphVars, workVars
<1> QED BY <1>1, QuietStepsKeepOwners, MovesKeepFacts
           DEF IInv, OwnersAndFacts, QuietStep

(* A unit of work that writes no row and no graph keeps the invariant. *)
LEMMA WorkKeeps ==
    ASSUME IInv, NEW from, NEW to, Follows(from, to), Work(from, to)
    PROVE  OwnersAndFacts'
<1>1. QuietStep /\ pc = from /\ pc' \in {to, Unwind(pc)} /\ UNCHANGED answered
  BY DEF Work, Raise, QuietStep, Follows, rowVars, graphVars, workVars
<1> QED BY <1>1, QuietStepsKeepOwners, MovesKeepFacts
           DEF IInv, OwnersAndFacts, QuietStep

(* A progress report keeps the invariant: it writes no status and no flag. *)
LEMMA ReportKeeps ==
    ASSUME IInv, NEW from, NEW to, Follows(from, to), NEW s, NEW percent,
           NEW done, ReportProgress(from, s, percent, done, to)
    PROVE  OwnersAndFacts'
<1>1. pc = from /\ pc \in ExecuteLabels /\ cur \in Runs
  BY DEF ReportProgress, Follows, IInv, TypeOK, CoordinatorOK
<1>2. UNCHANGED <<status, snapshot, cancel_requested>>
  <2>1. CASE UNCHANGED rowVars
    BY <2>1 DEF rowVars
  <2>2. CASE update_rag_eval_run_progress(cur, s, percent, done)
    BY <1>1, <2>2 DEF update_rag_eval_run_progress, transition_rag_eval_run,
       IInv, TypeOK, RowsOK
  <2> QED BY <2>1, <2>2 DEF ReportProgress
<1>3. QuietStep /\ pc' \in {to, Unwind(pc)} /\ UNCHANGED answered
  BY <1>1, <1>2 DEF ReportProgress, Raise, QuietStep, graphVars
<1> QED BY <1>1, <1>3, QuietStepsKeepOwners, MovesKeepFacts
           DEF IInv, OwnersAndFacts, QuietStep


(* Deleting the generation of a run, or failing to, keeps the owners. *)
LEMMA DeletionsKeepOwners ==
    ASSUME ScopesHaveOwners, UNCHANGED <<status, snapshot>>,
           DeletesGeneration \/ DeletionRaises
    PROVE  ScopesHaveOwners'
  BY DEF ScopesHaveOwners, LeftoverScopesAreFailedCleanups, DeletesGeneration,
     DeletionRaises

(* Every move of an execution that raises nothing follows. *)
LEMMA MovesFollow ==
    ASSUME IInv
    PROVE  /\ \A from, to \in SetupLabels : pc = from => Follows(from, to)
           /\ \A from, to \in FinishLabels : pc = from => Follows(from, to)
           /\ pc = "chunked_check" =>
                  Follows(pc, IF snapshot[cur] = "graphrag" THEN "wipe"
                                                            ELSE "report_index")
           /\ pc \in {"report_index_built", "report_built"} =>
                  Follows(pc, "prepared_check")
           /\ pc = "report_graph" => Follows(pc, "graph_check")
           /\ pc = "graph_check" => Follows(pc, "build_graph")
           /\ pc = "built_check" => Follows(pc, "report_built")
           /\ pc = "prepared_check" => Follows(pc, "build_pipeline")
           /\ pc = "build_pipeline" => Follows(pc, "report_evaluating")
           /\ pc = "report_evaluating" => Follows(pc, "evaluating_check")
           /\ pc = "evaluating_check" => Follows(pc, "example_check")
           /\ pc = "example_check" => Follows(pc, "answer")
           /\ pc = "answer" => Follows(pc, "report_answer")
           /\ pc = "report_answer" => Follows(pc, "answered_check")
           /\ pc = "answered_check" =>
                  Follows(pc, IF answered < NumExamples THEN "example_check"
                                                        ELSE "report_cleanup")
           /\ pc = "report_cleanup" => Follows(pc, "cleanup")
           /\ pc = "report_cleaned" =>
                  Follows(pc, IF exc = "none" THEN "runtime_check" ELSE "handle")
<1>1. ASSUME NEW from \in SetupLabels, NEW to \in SetupLabels, pc = from
      PROVE  Follows(from, to)
  <2>1. from \in (ExecuteLabels \ {"handle", "undo_build", "cleanup"})
    BY DEF ExecuteLabels, SetupLabels
  <2>2. cur \notin scope /\ answered = 0
    BY <1>1 DEF IInv, LabelFacts, CleanLabels, UnansweredLabels
  <2>3. to \notin BuildLabels \cup {"undo_build", "example_check", "answer"}
    BY DEF SetupLabels, BuildLabels
  <2> QED BY <2>1, <2>2, <2>3 DEF Follows
<1>2. ASSUME NEW from \in FinishLabels, NEW to \in FinishLabels, pc = from
      PROVE  Follows(from, to)
  <2>1. from \in (ExecuteLabels \ {"handle", "undo_build", "cleanup"})
    BY DEF ExecuteLabels, FinishLabels
  <2>2. cur \notin scope
    BY <1>2 DEF IInv, LabelFacts, CleanLabels
  <2>3. to \notin UnansweredLabels \cup BuildLabels
                     \cup {"undo_build", "example_check", "answer"}
    BY DEF FinishLabels, BuildLabels, UnansweredLabels, SetupLabels
  <2> QED BY <2>1, <2>2, <2>3 DEF Follows
<1>3. ASSUME pc = "chunked_check"
      PROVE  Follows(pc, IF snapshot[cur] = "graphrag" THEN "wipe"
                                                       ELSE "report_index")
  <2>1. pc \in (ExecuteLabels \ {"handle", "undo_build", "cleanup"})
    BY <1>3 DEF ExecuteLabels, SetupLabels
  <2>2. cur \notin scope /\ answered = 0
    BY <1>3 DEF IInv, LabelFacts, CleanLabels, UnansweredLabels, SetupLabels
  <2>3. "report_index" \notin BuildLabels
    BY DEF BuildLabels
  <2> QED BY <2>1, <2>2, <2>3 DEF Follows
<1>4. ASSUME pc \in {"report_index_built", "report_built"}
      PROVE  Follows(pc, "prepared_check")
  <2>1. pc \in (ExecuteLabels \ {"handle", "undo_build", "cleanup"})
        /\ answered = 0
    BY <1>4 DEF ExecuteLabels, SetupLabels, BuildLabels, UnansweredLabels,
       IInv, LabelFacts
  <2>2. "prepared_check" \notin CleanLabels \cup BuildLabels
    BY DEF CleanLabels, SetupLabels, FinishLabels, BuildLabels
  <2> QED BY <2>1, <2>2 DEF Follows
<1>5. ASSUME pc \in {"report_graph", "graph_check", "built_check"}
      PROVE  /\ pc \in (ExecuteLabels \ {"handle", "undo_build", "cleanup"})
             /\ answered = 0
             /\ snapshot[cur] = "graphrag"
             /\ pc # "built_check" => cur \notin scope
  BY <1>5 DEF ExecuteLabels, BuildLabels, UnansweredLabels, CleanLabels,
     IInv, LabelFacts
<1>6. "report_built" \notin CleanLabels
  BY DEF CleanLabels, SetupLabels, FinishLabels
<1>7. pc \in {"report_graph", "graph_check", "built_check"} =>
          \A to \in {"graph_check", "build_graph", "report_built"} :
              (pc = "built_check" => to = "report_built") => Follows(pc, to)
  BY <1>5, <1>6 DEF Follows
<1>8. ASSUME pc \in EvaluateLabels \cup {"report_cleanup"}
      PROVE  /\ pc \in (ExecuteLabels \ {"handle", "undo_build", "cleanup"})
             /\ pc \in {"prepared_check", "build_pipeline",
                        "report_evaluating", "evaluating_check"}
                    => answered = 0 /\ answered < NumExamples
             /\ pc = "example_check" => answered < NumExamples
  BY <1>8, SuiteAssumption DEF ExecuteLabels, EvaluateLabels, CleanupLabels,
     UnansweredLabels, IInv, LabelFacts
<1>9. /\ {"prepared_check", "build_pipeline", "report_evaluating",
          "evaluating_check", "example_check", "answer", "report_answer", "answered_check"}
             = EvaluateLabels
      /\ (EvaluateLabels \cup {"report_cleanup", "cleanup"})
             \cap (CleanLabels \cup BuildLabels \cup {"handle", "undo_build"}) = {}
      /\ {"example_check", "answer", "report_answer", "answered_check",
          "report_cleanup", "cleanup"} \cap UnansweredLabels = {}
  BY DEF EvaluateLabels, CleanLabels, SetupLabels, FinishLabels, BuildLabels,
     UnansweredLabels
<1>10. ASSUME pc = "report_cleaned"
       PROVE  Follows(pc, IF exc = "none" THEN "runtime_check" ELSE "handle")
  <2>1. pc \in (ExecuteLabels \ {"handle", "undo_build", "cleanup"})
        /\ cur \notin scope
    BY <1>10 DEF ExecuteLabels, CleanupLabels, CleanLabels, IInv, LabelFacts
  <2>2. {"runtime_check", "handle"} \cap
            (BuildLabels \cup UnansweredLabels
                \cup {"undo_build", "example_check", "answer"}) = {}
    BY DEF UnansweredLabels, SetupLabels, BuildLabels
  <2> QED BY <2>1, <2>2 DEF Follows
<1>11. /\ pc = "prepared_check" => Follows(pc, "build_pipeline")
       /\ pc = "build_pipeline" => Follows(pc, "report_evaluating")
       /\ pc = "report_evaluating" => Follows(pc, "evaluating_check")
       /\ pc = "evaluating_check" => Follows(pc, "example_check")
       /\ pc = "example_check" => Follows(pc, "answer")
  BY <1>8, <1>9 DEF Follows
<1>12. /\ pc = "answer" => Follows(pc, "report_answer")
       /\ pc = "report_answer" => Follows(pc, "answered_check")
       /\ pc = "answered_check" =>
              Follows(pc, IF answered < NumExamples THEN "example_check"
                                                    ELSE "report_cleanup")
       /\ pc = "report_cleanup" => Follows(pc, "cleanup")
  BY <1>8, <1>9 DEF Follows
<1> QED BY <1>1, <1>2, <1>3, <1>4, <1>7, <1>10, <1>11, <1>12

(* Every step of an execution leaves graph data only where recovery will   *)
(* find it, or under a run whose own cleanup raised.                       *)
LEMMA ExecuteKeeps ==
    ASSUME IInv, Execute
    PROVE  OwnersAndFacts'
<1>a. ASSUME NEW from, NEW to, pc = from => Follows(from, to),
             \/ Check(from, to)
             \/ Work(from, to)
             \/ \E s, d : report_progress(from, s, d, 1, to)
             \/ \E s, n, d : ReportProgress(from, s, n, d, to)
      PROVE  OwnersAndFacts'
  <2>1. Follows(from, to)
    BY <1>a DEF Check, Work, report_progress, ReportProgress
  <2> QED BY <1>a, <2>1, CheckKeeps, WorkKeeps, ReportKeeps DEF report_progress
<1>1. CASE Validate
  <2>1. QuietStep /\ pc = "validate" /\ UNCHANGED answered
        /\ pc' \in {"evaluate_check", Unwind(pc)}
    BY <1>1 DEF Validate, Raise, QuietStep, rowVars, graphVars, workVars,
       ExecuteLabels, SetupLabels
  <2>2. Follows(pc, "evaluate_check")
    BY <2>1, MovesFollow DEF SetupLabels
  <2> QED BY <2>1, <2>2, QuietStepsKeepOwners, MovesKeepFacts
             DEF IInv, OwnersAndFacts, QuietStep
<1>2. CASE Prepare
  <2>1. {"evaluate_check", "report_preparing", "chunking_check",
         "report_chunking", "chunk", "report_chunked", "chunked_check"}
            \subseteq SetupLabels
    BY DEF SetupLabels
  <2> QED BY <1>2, <1>a, <2>1, MovesFollow DEF Prepare
<1>3. CASE CragPrepare
  <2>1. {"report_index", "index_check", "build_index", "report_index_built"}
            \subseteq SetupLabels
    BY DEF SetupLabels
  <2> QED BY <1>3, <1>a, <2>1, MovesFollow DEF CragPrepare
<1>4. CASE EvaluateExamples
  <2>1. CASE Answer
    <3>1. Follows(pc, "report_answer")
      BY <2>1, MovesFollow DEF Answer
    <3>2. QuietStep
      BY <2>1 DEF Answer, Raise, QuietStep, rowVars, graphVars, ExecuteLabels,
         EvaluateLabels
    <3>3. pc' \in {"report_answer", "report_cleanup"}
      BY <2>1, Unwinding DEF Answer, Raise, EvaluateLabels
    <3>4. {"report_answer", "report_cleanup"} \cap
              (CleanLabels \cup UnansweredLabels \cup BuildLabels
                   \cup {"handle", "undo_build", "example_check", "answer"}) = {}
      BY DEF CleanLabels, UnansweredLabels, SetupLabels, BuildLabels, FinishLabels
    <3> QED BY <3>2, <3>3, <3>4, QuietStepsKeepOwners
               DEF IInv, OwnersAndFacts, LabelFacts
  <2> QED BY <1>4, <1>a, <2>1, MovesFollow DEF EvaluateExamples
<1>5. CASE ScoreAndPersist /\ ~Finalize
  <2>1. {"runtime_check", "report_scoring", "score_check", "score",
         "scored_check", "report_persisting", "persisting_check", "finalize"}
            \subseteq FinishLabels
    BY DEF FinishLabels
  <2> QED BY <1>5, <1>a, <2>1, MovesFollow DEF ScoreAndPersist
<1>b. pc \in ExecuteLabels =>
          cur \in Runs /\ (pc # "handle" => status[cur] = "running")
  BY ExecutedRowRuns DEF IInv, TypeOK, CoordinatorOK
<1>6. CASE GraphRagPrepare
  <2>1. CASE WipeGraph
    <3>1. pc = "wipe" /\ pc' \in {"report_graph", "undo_build", "handle"}
          /\ snapshot[cur] = "graphrag" /\ answered = 0
          /\ UNCHANGED <<rowVars, workVars>>
      BY <2>1, Unwinding DEF WipeGraph, Raise, IInv, LabelFacts, BuildLabels,
         UnansweredLabels
    <3>2. pc' \in {"report_graph", "handle"} => cur \notin scope'
      BY <2>1, <3>1, Unwinding DEF WipeGraph, DeletesGeneration, Raise, BuildLabels,
         IInv, LabelFacts, CleanLabels, graphVars
    <3>3. {"undo_build", "handle"} \cap (CleanLabels \cup UnansweredLabels) = {}
      BY DEF CleanLabels, UnansweredLabels, SetupLabels, BuildLabels, FinishLabels
    <3>4. LabelFacts'
      BY <3>1, <3>2, <3>3 DEF LabelFacts, rowVars, workVars
    <3>5. ScopesHaveOwners'
      BY <2>1, <3>1, DeletionsKeepOwners DEF WipeGraph, IInv, rowVars,
         graphVars, ScopesHaveOwners, LeftoverScopesAreFailedCleanups
    <3>6. exc' \in {exc, "error"}
      BY <2>1 DEF WipeGraph, Raise
    <3>7. CancellationsWereAsked'
      BY <3>1, <3>6 DEF CancellationsWereAsked, IInv, rowVars, workVars,
         BuildLabels, ExecuteLabels
    <3> QED BY <3>4, <3>5, <3>7 DEF OwnersAndFacts
  <2>2. CASE build_property_graph_index
    <3>1. pc = "build_graph" /\ pc' \in {"built_check", "undo_build"}
          /\ snapshot[cur] = "graphrag" /\ answered = 0
          /\ UNCHANGED <<rowVars, workVars, cleanup_failed>>
          /\ scope' \in {scope, scope \cup {cur}} /\ exc' \in {exc, "error"}
      BY <2>2, Unwinding DEF build_property_graph_index, Raise, IInv, LabelFacts,
         BuildLabels, UnansweredLabels
    <3>2. {"undo_build", "built_check"} \cap CleanLabels = {}
      BY DEF CleanLabels, SetupLabels, FinishLabels
    <3>3. LabelFacts'
      BY <3>1, <3>2 DEF LabelFacts, rowVars, workVars
    <3>4. status[cur] = "running"
      BY <1>b, <3>1 DEF ExecuteLabels, BuildLabels
    <3>5. ScopesHaveOwners'
      BY <3>1, <3>4 DEF ScopesHaveOwners, LeftoverScopesAreFailedCleanups, IInv,
         rowVars, workVars
    <3>6. CancellationsWereAsked'
      BY <3>1 DEF CancellationsWereAsked, IInv, rowVars, workVars,
         BuildLabels, ExecuteLabels
    <3> QED BY <3>3, <3>5, <3>6 DEF OwnersAndFacts
  <2>3. CASE UndoBuild
    <3>1. pc = "undo_build" /\ pc' = "handle" /\ UNCHANGED <<rowVars, workVars>>
      BY <2>3 DEF UndoBuild
    <3>2. exc' \in {exc, "error"}
          /\ (cur \in scope' => exc' = "error" /\ cur \in cleanup_failed')
      BY <2>3 DEF UndoBuild, DeletesGeneration, DeletionRaises
    <3>3. "handle" \notin CleanLabels \cup UnansweredLabels \cup BuildLabels
      BY DEF CleanLabels, UnansweredLabels, SetupLabels, BuildLabels, FinishLabels
    <3>4. LabelFacts'
      BY <3>1, <3>2, <3>3 DEF LabelFacts, workVars
    <3>5. ScopesHaveOwners'
      BY <2>3, <3>1, DeletionsKeepOwners DEF UndoBuild, IInv, rowVars
    <3>6. CancellationsWereAsked'
      BY <3>1, <3>2 DEF CancellationsWereAsked, IInv, rowVars, workVars,
         ExecuteLabels
    <3> QED BY <3>4, <3>5, <3>6 DEF OwnersAndFacts
  <2> QED BY <1>6, <1>a, <2>1, <2>2, <2>3, MovesFollow DEF GraphRagPrepare
<1>7. CASE CleanUp
  <2>1. CASE CleanupResources
    <3>1. pc = "cleanup" /\ pc' \in {"handle", "report_cleaned"}
          /\ UNCHANGED <<rowVars, workVars>> /\ exc' \in {exc, "error"}
      BY <2>1, Unwinding DEF CleanupResources, Raise
    <3>2. cur \in scope' =>
              exc' = "error" /\ cur \in cleanup_failed' /\ pc' = "handle"
      <4>1. CASE DeletesGeneration
        BY <4>1 DEF DeletesGeneration
      <4>2. CASE snapshot[cur] # "graphrag" /\ UNCHANGED graphVars
        BY <4>2 DEF IInv, ScopesHaveOwners, graphVars
      <4>3. CASE DeletionRaises /\ Raise("error")
        BY <3>1, <4>3, Unwinding DEF DeletionRaises, Raise
      <4> QED BY <2>1, <4>1, <4>2, <4>3 DEF CleanupResources
    <3>3. {"handle", "report_cleaned"} \cap
              (UnansweredLabels \cup BuildLabels
                  \cup {"undo_build", "example_check", "answer"}) = {}
      BY DEF UnansweredLabels, SetupLabels, BuildLabels
    <3>4. LabelFacts'
      BY <3>1, <3>2, <3>3 DEF LabelFacts, workVars, CleanLabels, SetupLabels,
         FinishLabels
    <3>5. ScopesHaveOwners'
      <4>1. CASE UNCHANGED graphVars
        BY <3>1, <4>1 DEF ScopesHaveOwners, LeftoverScopesAreFailedCleanups,
           IInv, graphVars, rowVars
      <4> QED BY <2>1, <3>1, <4>1, DeletionsKeepOwners
                 DEF CleanupResources, IInv, rowVars
    <3>6. CancellationsWereAsked'
      BY <3>1 DEF CancellationsWereAsked, IInv, rowVars, workVars,
         ExecuteLabels, CleanupLabels
    <3> QED BY <3>4, <3>5, <3>6 DEF OwnersAndFacts
  <2> QED BY <1>7, <1>a, <2>1, MovesFollow DEF CleanUp
<1>c. {"processed", "dead"} \cap
          (ExecuteLabels \cup CleanLabels \cup UnansweredLabels) = {}
  BY DEF ExecuteLabels, CleanLabels, UnansweredLabels, SetupLabels, BuildLabels,
     EvaluateLabels, CleanupLabels, FinishLabels
<1>d. BuildLabels \cup {"handle", "undo_build", "example_check", "answer"}
          \subseteq ExecuteLabels
  BY DEF ExecuteLabels, EvaluateLabels
<1>8. CASE Finalize
  <2>1. pc = "finalize" /\ cur \in Runs /\ cur \notin scope /\ cur' = cur
        /\ UNCHANGED graphVars
    BY <1>8, <1>b DEF Finalize, IInv, LabelFacts, CleanLabels, FinishLabels,
       ExecuteLabels
  <2>4. Unwind(pc) = "handle"
    BY <2>1, Unwinding DEF FinishLabels
  <2>5. "handle" \notin CleanLabels \cup UnansweredLabels \cup BuildLabels
    BY DEF CleanLabels, UnansweredLabels, SetupLabels, BuildLabels, FinishLabels
  <2>6. LabelFacts'
    <3>1. pc' \in {"processed", "handle"}
      BY <1>8, <2>4 DEF Finalize, Raise
    <3> QED BY <1>c, <1>d, <2>1, <2>5, <3>1 DEF LabelFacts, graphVars
  <2>2. CASE /\ finalize_rag_eval_run_success(cur)
             /\ pc' = "processed" \/ exc' = "error"
    <3>1. ScopesHaveOwners'
      BY <2>1, <2>2 DEF finalize_rag_eval_run_success, ScopesHaveOwners,
         LeftoverScopesAreFailedCleanups, IInv, TypeOK, RowsOK, SurroundingsOK,
         graphVars
    <3>3. CancellationsWereAsked'
      BY <1>c, <2>1, <2>2 DEF finalize_rag_eval_run_success,
         CancellationsWereAsked, IInv, TypeOK, RowsOK
    <3> QED BY <2>6, <3>1, <3>3 DEF OwnersAndFacts
  <2>3. CASE /\ UNCHANGED rowVars
             /\ exc' = "error" \/ (exc' = "cancelled" /\ cancel_requested[cur])
    <3>1. QuietStep
      BY <2>1, <2>3 DEF QuietStep, rowVars, graphVars, ExecuteLabels, FinishLabels
    <3> QED BY <2>6, <3>1, QuietStepsKeepOwners DEF OwnersAndFacts, IInv
  <2> QED BY <1>8, <2>2, <2>3, Zenon DEF Finalize, Raise
<1>9. CASE Handle
  <2>1. pc = "handle" /\ cur \in Runs /\ cur' = cur /\ UNCHANGED graphVars
        /\ pc' \in {"processed", "dead"}
    BY <1>9, <1>b DEF Handle, WorkerDies, ExecuteLabels
  <2>2. LabelFacts'
    BY <1>c, <1>d, <2>1 DEF LabelFacts
  <2>3. CASE HandleCancelled \/ HandleFailure
    <3>1. /\ snapshot' = snapshot
          /\ \E outcome \in {"failed", "cancelled"} :
                 /\ status' = [status EXCEPT ![cur] = outcome]
                 /\ cur \in scope => outcome = "failed" /\ cur \in cleanup_failed
          /\ cancel_requested' = [cancel_requested EXCEPT ![cur] = FALSE]
      BY <2>1, <2>3 DEF HandleCancelled, HandleFailure, IInv, LabelFacts,
         mark_rag_eval_run_failed, mark_rag_eval_run_cancelled,
         transition_rag_eval_run
    <3>2. ScopesHaveOwners'
      BY <2>1, <3>1 DEF ScopesHaveOwners, LeftoverScopesAreFailedCleanups, IInv,
         TypeOK, RowsOK, SurroundingsOK, graphVars
    <3>3. CancellationsWereAsked'
      BY <1>c, <2>1, <3>1 DEF CancellationsWereAsked, IInv, TypeOK, RowsOK
    <3> QED BY <2>2, <3>2, <3>3 DEF OwnersAndFacts
  <2>4. CASE UNCHANGED <<status, snapshot, cancel_requested>>
    BY <1>c, <2>1, <2>2, <2>4 DEF OwnersAndFacts, CancellationsWereAsked,
       ScopesHaveOwners, LeftoverScopesAreFailedCleanups, IInv, graphVars
  <2>5. HandleCleanupFailure => UNCHANGED <<status, snapshot, cancel_requested>>
    BY <2>1 DEF HandleCleanupFailure, AwaitsCleanup, update_rag_eval_run_progress,
       transition_rag_eval_run, IInv, TypeOK, RowsOK
  <2> QED BY <1>9, <2>3, <2>4, <2>5 DEF Handle, Handles, rowVars
<1>10. CASE HandleExpired
  <2>1. pc' = "dead" /\ UNCHANGED <<rowVars, graphVars, cur>>
    BY <1>10 DEF HandleExpired, WorkerDies, workVars
  <2>2. LabelFacts'
    BY <1>c, <1>d, <2>1 DEF LabelFacts
  <2> QED BY <1>c, <2>1, <2>2 DEF OwnersAndFacts, CancellationsWereAsked,
             ScopesHaveOwners, LeftoverScopesAreFailedCleanups, IInv, graphVars,
             rowVars
<1> QED
  BY <1>1, <1>2, <1>3, <1>4, <1>5, <1>6, <1>7, <1>8, <1>9, <1>10
     DEF Execute, ScoreAndPersist
(* The loop, recovery included, keeps the owners; recovery marks a run     *)
(* failed only when its scope is gone.                                     *)
LEMMA LoopKeeps ==
    ASSUME IInv, RecoveryLoop
    PROVE  OwnersAndFacts'
<1>1. pc' \notin ExecuteLabels /\ TypeOK
  BY LoopTypes DEF IInv
<1>2. BuildLabels \cup UnansweredLabels \cup {"handle", "undo_build", "example_check", "answer"}
          \subseteq ExecuteLabels
      /\ CleanLabels \subseteq ExecuteLabels \cup {"recover_fail"}
  BY DEF ExecuteLabels, EvaluateLabels, UnansweredLabels, CleanLabels, BuildLabels,
     CleanupLabels
<1>3. pc' = "recover_fail" => cur' \notin scope'
  <2>1. CASE RecoverNext
    BY <2>1 DEF RecoverNext, IInv, ScopesHaveOwners, graphVars
  <2>2. CASE RecoverCleanup
    BY <2>2 DEF RecoverCleanup, DeletesGeneration, workVars
  <2>3. CASE ~(RecoverNext \/ RecoverCleanup)
    BY <2>3 DEF RecoveryLoop, LoopTop, ListInterrupted, RecoverDone,
       RecoverCleanupFails, RecoverBlock, RecoverFail, ProcessReturns, WaitEnds,
       WorkerDies
  <2> QED BY <2>1, <2>2, <2>3
<1>4. LabelFacts'
  BY <1>1, <1>2, <1>3 DEF LabelFacts
<1>5. CASE UNCHANGED rowVars
  <2>1. CancellationsWereAsked'
    BY <1>1, <1>5 DEF CancellationsWereAsked, IInv, rowVars
  <2>2. CASE UNCHANGED graphVars
    BY <1>4, <1>5, <2>1, <2>2 DEF OwnersAndFacts, ScopesHaveOwners,
       LeftoverScopesAreFailedCleanups, IInv, rowVars, graphVars
  <2>3. CASE RecoverCleanup \/ RecoverCleanupFails
    BY <1>4, <1>5, <2>1, <2>3, DeletionsKeepOwners DEF RecoverCleanup,
       RecoverCleanupFails, OwnersAndFacts, IInv, rowVars
  <2> QED BY <2>2, <2>3 DEF RecoveryLoop, LoopTop, ListInterrupted, RecoverNext,
             RecoverDone, RecoverBlock, RecoverFail, ProcessReturns, WaitEnds
<1>6. CASE RecoverBlock /\ ~UNCHANGED rowVars
  <2>1. cur \in Runs /\ UNCHANGED graphVars
    BY <1>6 DEF RecoverBlock, IInv, TypeOK, CoordinatorOK, RecoverLabels
  <2>2. UNCHANGED <<status, snapshot, cancel_requested>>
    BY <1>6, <2>1 DEF RecoverBlock, AwaitsCleanup, update_rag_eval_run_progress,
       transition_rag_eval_run, IInv, TypeOK, RowsOK
  <2> QED BY <1>1, <1>4, <2>1, <2>2 DEF OwnersAndFacts, CancellationsWereAsked,
             ScopesHaveOwners, LeftoverScopesAreFailedCleanups, IInv, graphVars
<1>7. CASE RecoverFail /\ ~UNCHANGED rowVars
  <2>1. cur \in Runs /\ cur \notin scope /\ UNCHANGED graphVars
    BY <1>7 DEF RecoverFail, IInv, TypeOK, CoordinatorOK, RecoverLabels,
       LabelFacts, CleanLabels
  <2>2. /\ snapshot' = snapshot
        /\ status' = [status EXCEPT ![cur] = "failed"]
        /\ cancel_requested' = [cancel_requested EXCEPT ![cur] = FALSE]
    BY <1>7 DEF RecoverFail, mark_rag_eval_run_failed, transition_rag_eval_run
  <2>3. ScopesHaveOwners'
    BY <2>1, <2>2 DEF ScopesHaveOwners, LeftoverScopesAreFailedCleanups, IInv,
       TypeOK, RowsOK, SurroundingsOK, graphVars
  <2>4. CancellationsWereAsked'
    BY <1>1, <2>1, <2>2 DEF CancellationsWereAsked, IInv, TypeOK, RowsOK
  <2> QED BY <1>4, <2>3, <2>4 DEF OwnersAndFacts
<1> QED BY <1>5, <1>6, <1>7 DEF RecoveryLoop, LoopTop, ListInterrupted,
           RecoverNext, RecoverDone, RecoverCleanup, RecoverCleanupFails,
           ProcessReturns, WaitEnds

(* A claimed run starts with no graph data: only a row that has run can    *)
(* own any.                                                                *)
LEMMA ClaimKeeps ==
    ASSUME IInv, claim_next_rag_eval_run
    PROVE  OwnersAndFacts'
<1>1. UNCHANGED <<snapshot, graphVars>>
  BY DEF claim_next_rag_eval_run
<1>2. ASSUME NEW r \in ClaimableRuns, StartsRunning(r)
      PROVE  r \notin scope /\ ScopesHaveOwners'
             /\ \A q \in Runs : cancel_requested'[q] => status'[q] = "running"
  <2>1. r \in Runs /\ status[r] = "queued"
    BY <1>2 DEF ClaimableRuns
  <2>2. r \notin scope
    BY <2>1 DEF IInv, ScopesHaveOwners, LeftoverScopesAreFailedCleanups
  <2>3. ScopesHaveOwners'
    BY <1>1, <1>2, <2>1, <2>2 DEF StartsRunning, ScopesHaveOwners,
       LeftoverScopesAreFailedCleanups, IInv, TypeOK, RowsOK, SurroundingsOK,
       graphVars
  <2>4. \A q \in Runs : cancel_requested'[q] => status'[q] = "running"
    BY <1>2, <2>1 DEF StartsRunning, CancellationsWereAsked, IInv, TypeOK, RowsOK
  <2> QED BY <2>2, <2>3, <2>4
<1>3. CASE /\ pc' \in {"nothing_to_do", "dead"}
           /\ \/ UNCHANGED <<status, stage, cancel_requested>>
              \/ \E r \in ClaimableRuns : StartsRunning(r)
  <2>1. pc' \notin ExecuteLabels \cup CleanLabels \cup UnansweredLabels
                        \cup BuildLabels
               /\ pc' \notin {"handle", "undo_build", "example_check", "answer"}
    BY <1>3 DEF ExecuteLabels, CleanLabels, UnansweredLabels, SetupLabels,
       BuildLabels, EvaluateLabels, CleanupLabels, FinishLabels
  <2>2. LabelFacts'
    BY <2>1 DEF LabelFacts
  <2>3. CASE UNCHANGED <<status, cancel_requested>>
    BY <1>1, <2>1, <2>2, <2>3 DEF OwnersAndFacts, CancellationsWereAsked,
       ScopesHaveOwners, LeftoverScopesAreFailedCleanups, IInv, graphVars
  <2>4. CASE \E r \in ClaimableRuns : StartsRunning(r)
    BY <1>2, <2>1, <2>2, <2>4 DEF OwnersAndFacts, CancellationsWereAsked
  <2> QED BY <1>3, <2>3, <2>4
<1>4. CASE /\ pc' = "validate" /\ exc' = "none" /\ answered' = 0
           /\ cur' \in ClaimableRuns /\ StartsRunning(cur')
  <2>1. "validate" \notin BuildLabels
    BY DEF BuildLabels
  <2>2. LabelFacts'
    BY <1>1, <1>2, <1>4, <2>1 DEF LabelFacts, graphVars
  <2> QED BY <1>2, <1>4, <2>2 DEF OwnersAndFacts, CancellationsWereAsked
<1> QED BY <1>3, <1>4 DEF claim_next_rag_eval_run, WorkerDies

(* A request never touches the run under execution, but for its flag.      *)
LEMMA RequestKeeps ==
    ASSUME IInv, Requests
    PROVE  OwnersAndFacts'
<1>1. PICK r \in Runs : \/ enqueue_rag_eval_run(r)
                        \/ Notify(r)
                        \/ request_rag_eval_run_cancel(r)
  BY DEF Requests
<1>2. UNCHANGED <<pc, exc, workVars, graphVars>>
  BY <1>1 DEF enqueue_rag_eval_run, Notify, request_rag_eval_run_cancel
<1>3. pc \in ExecuteLabels =>
          cur \in Runs /\ status[cur] \in {"running", "completed"}
  BY ExecutedRowRuns DEF IInv, TypeOK, CoordinatorOK, ExecutionOwnsTheRunningRow,
     HasCompleted, RunningRuns
<1>4. r \in scope => status[r] \in {"running", "failed"}
  BY DEF IInv, ScopesHaveOwners, LeftoverScopesAreFailedCleanups
<1>5. CASE enqueue_rag_eval_run(r)
  <2>1. /\ status[r] = "absent"
        /\ status' = [status EXCEPT ![r] = "queued"]
        /\ UNCHANGED cancel_requested
        /\ \A q \in Runs \ {r} : snapshot'[q] = snapshot[q]
    BY <1>5 DEF enqueue_rag_eval_run, IInv, TypeOK, RowsOK
  <2>2. r \notin scope
    BY <1>4, <2>1
  <2>3. ScopesHaveOwners'
    BY <1>2, <2>1, <2>2 DEF ScopesHaveOwners, LeftoverScopesAreFailedCleanups,
       IInv, TypeOK, RowsOK, SurroundingsOK, graphVars
  <2>4. BuildLabels \cup {"undo_build"} \subseteq ExecuteLabels
    BY DEF ExecuteLabels
  <2>5. LabelFacts'
    BY <1>2, <1>3, <2>1, <2>4 DEF LabelFacts, IInv, workVars, graphVars
  <2>6. CancellationsWereAsked'
    BY <1>2, <2>1 DEF CancellationsWereAsked, IInv, TypeOK, RowsOK, workVars
  <2> QED BY <2>3, <2>5, <2>6 DEF OwnersAndFacts
<1>6. CASE Notify(r)
  BY <1>2, <1>6 DEF Notify, OwnersAndFacts, ScopesHaveOwners, LabelFacts,
     LeftoverScopesAreFailedCleanups, CancellationsWereAsked, IInv, rowVars,
     workVars, graphVars
<1>7. CASE request_rag_eval_run_cancel(r)
  <2>1. /\ UNCHANGED snapshot
        /\ \/ /\ status[r] = "queued"
              /\ status' = [status EXCEPT ![r] = "cancelled"]
              /\ cancel_requested' = [cancel_requested EXCEPT ![r] = FALSE]
           \/ /\ status[r] = "running"
              /\ UNCHANGED status
              /\ cancel_requested' = [cancel_requested EXCEPT ![r] = TRUE]
    BY <1>7 DEF request_rag_eval_run_cancel
  <2>2. ScopesHaveOwners'
    BY <1>2, <1>4, <2>1 DEF ScopesHaveOwners, LeftoverScopesAreFailedCleanups,
       IInv, TypeOK, RowsOK, SurroundingsOK, graphVars
  <2>3. LabelFacts'
    BY <1>2, <2>1 DEF LabelFacts, IInv, workVars, graphVars
  <2>4. CancellationsWereAsked'
    BY <1>2, <1>3, <2>1 DEF CancellationsWereAsked, IInv, TypeOK, RowsOK, workVars
  <2> QED BY <2>2, <2>3, <2>4 DEF OwnersAndFacts
<1> QED BY <1>1, <1>5, <1>6, <1>7

(* A crash, a shutdown or a restart keeps the invariant: rows and graph *)
(* data survive, and no execution is in progress afterwards.            *)
LEMMA ProcessKeeps ==
    ASSUME IInv, Process
    PROVE  OwnersAndFacts'
<1>1. UNCHANGED <<rowVars, graphVars>>
  BY DEF Process, Crash, Shutdown, Exit, Restart, Halt
<1>2. CASE Shutdown
  BY <1>1, <1>2 DEF Shutdown, OwnersAndFacts, ScopesHaveOwners, LabelFacts,
     LeftoverScopesAreFailedCleanups, CancellationsWereAsked, IInv, rowVars,
     workVars, graphVars
<1>3. CASE pc' \in {"down", "loop"}
  <2>1. {"down", "loop"} \cap (ExecuteLabels \cup CleanLabels
             \cup UnansweredLabels \cup BuildLabels) = {}
    BY DEF ExecuteLabels, CleanLabels, UnansweredLabels, SetupLabels,
       BuildLabels, EvaluateLabels, CleanupLabels, FinishLabels
  <2>2. LabelFacts'
    BY <1>3, <2>1 DEF LabelFacts
  <2> QED BY <1>1, <1>3, <2>1, <2>2 DEF OwnersAndFacts, CancellationsWereAsked,
             ScopesHaveOwners, LeftoverScopesAreFailedCleanups, IInv, graphVars,
             rowVars
<1> QED BY <1>2, <1>3 DEF Process, Crash, Exit, Restart, Halt

-----------------------------------------------------------------------------
(* The empty queue of a first start satisfies the invariant. *)
LEMMA InitIInv == Init => IInv
<1> SUFFICES ASSUME Init PROVE IInv
  OBVIOUS
<1>1. {"loop"} \cap (ExecuteLabels \cup RecoverLabels \cup CleanLabels
           \cup UnansweredLabels \cup BuildLabels) = {}
      /\ "loop" \in Labels
  BY DEF ExecuteLabels, CleanLabels, UnansweredLabels, SetupLabels, BuildLabels,
     EvaluateLabels, CleanupLabels, FinishLabels, RecoverLabels, LoopLabels, Labels
<1>2. RowsOK
  BY SuiteAssumption DEF Init, RowsOK, RAG_EVAL_RUN_STAGES, Strategies
<1>3. CoordinatorOK
  BY <1>1, FreshExecution DEF Init, CoordinatorOK, NoRun
<1>4. SurroundingsOK
  <2>1. 0 \in 0..MaxStops /\ 0 \in 0..MaxFaults
    BY BoundsAssumption
  <2> QED BY <2>1 DEF Init, SurroundingsOK
<1>5. LabelFacts
  BY <1>1 DEF Init, LabelFacts
<1>6. ExecutionOwnsTheRunningRow /\ ScopesHaveOwners /\ CancellationsWereAsked
  BY <1>1 DEF Init, ExecutionOwnsTheRunningRow, ScopesHaveOwners,
     LeftoverScopesAreFailedCleanups, CancellationsWereAsked
<1> QED BY <1>2, <1>3, <1>4, <1>5, <1>6 DEF IInv, TypeOK

(* Every step keeps the invariant: typed first, then exclusive, then the *)
(* rest, one case for each group of actions.                             *)
LEMMA NextIInv == IInv /\ [Next]_vars => IInv'
<1> SUFFICES ASSUME IInv, [Next]_vars PROVE IInv'
  OBVIOUS
<1>1. CASE Execute
  BY <1>1, ExecuteTypes, ExecuteKeeps DEF IInv, OwnersAndFacts
<1>2. CASE RecoveryLoop
  BY <1>2, LoopTypes, LoopKeeps DEF IInv, OwnersAndFacts,
     ExecutionOwnsTheRunningRow
<1>3. CASE claim_next_rag_eval_run
  BY <1>3, ClaimTypes, ClaimKeeps DEF IInv, OwnersAndFacts
<1>4. CASE Requests
  BY <1>4, RequestTypes, RequestKeeps DEF IInv, OwnersAndFacts
<1>5. CASE Process
  BY <1>5, ProcessTypes, ProcessKeeps DEF IInv, OwnersAndFacts
<1>6. CASE UNCHANGED vars
  <2>1. UNCHANGED <<rowVars, graphVars, pc, exc, workVars, requestVars, envVars,
                    faults>>
    BY <1>6 DEF vars
  <2>2. TypeOK' /\ ExecutionOwnsTheRunningRow'
    BY <2>1 DEF IInv, TypeOK, RowsOK, CoordinatorOK, SurroundingsOK,
       ExecutionOwnsTheRunningRow, RunningRuns, HasCompleted, rowVars, graphVars,
       workVars, requestVars, envVars
  <2>3. OwnersAndFacts'
    BY <2>1 DEF IInv, OwnersAndFacts, ScopesHaveOwners, LabelFacts,
       LeftoverScopesAreFailedCleanups, CancellationsWereAsked, rowVars,
       graphVars, workVars
  <2> QED BY <2>2, <2>3 DEF IInv, OwnersAndFacts
<1> QED BY <1>1, <1>2, <1>3, <1>4, <1>5, <1>6
           DEF Next, Coordinator, RecoveryLoop, AllRunsEnded

(* The invariant holds in every reachable state. *)
LEMMA Inductive == Spec => []IInv
  BY InitIInv, NextIInv, PTL DEF Spec

(* Every variable has its type in every reachable state; in particular no *)
(* progress leaves 0..100.                                                *)
THEOREM TypeCorrect == Spec => []TypeOK
<1>1. IInv => TypeOK
  BY DEF IInv
<1> QED BY <1>1, Inductive, PTL

(* While a run is executed, its row and no other is running, whatever *)
(* requests, recoveries and restarts interleave.                      *)
THEOREM ExecutionIsExclusive == Spec => []ExecutionOwnsTheRunningRow
<1>1. IInv => ExecutionOwnsTheRunningRow
  BY DEF IInv
<1> QED BY <1>1, Inductive, PTL

(* Graph data never outlives a completed or cancelled run, nor a failed *)
(* one unless its own cleanup raised.                                   *)
THEOREM ScopesAreOwned == Spec => []LeftoverScopesAreFailedCleanups
<1>1. IInv => LeftoverScopesAreFailedCleanups
  BY DEF IInv, ScopesHaveOwners
<1> QED BY <1>1, Inductive, PTL
-----------------------------------------------------------------------------
(* Every step is a step of the abstract queue, or changes nothing there.   *)
QueueUnchanged == UNCHANGED <<status, cancel_requested, query_results>>

(* A step that writes no row is invisible to the abstract queue. *)
LEMMA UnchangedRowsStutter ==
    ASSUME UNCHANGED rowVars
    PROVE  QueueUnchanged
  BY DEF rowVars, QueueUnchanged

(* A progress write is invisible to the abstract queue. *)
LEMMA ProgressWritesStutter ==
    ASSUME TypeOK, NEW r \in Runs, NEW s, NEW percent, NEW done,
           update_rag_eval_run_progress(r, s, percent, done)
    PROVE  QueueUnchanged
  BY DEF update_rag_eval_run_progress, transition_rag_eval_run, TypeOK, RowsOK,
     QueueUnchanged

(* Marking a run failed is GiveUp of the abstract queue. *)
LEMMA FailuresGiveUp ==
    ASSUME TypeOK, NEW r \in Runs, mark_rag_eval_run_failed(r)
    PROVE  Queue!GiveUp(r)
  BY DEF mark_rag_eval_run_failed, transition_rag_eval_run, Queue!GiveUp

(* Marking a run cancelled is GiveUp of the abstract queue, when it was *)
(* asked for.                                                           *)
LEMMA CancellationsGiveUp ==
    ASSUME TypeOK, NEW r \in Runs, cancel_requested[r],
           mark_rag_eval_run_cancelled(r)
    PROVE  Queue!GiveUp(r)
  BY DEF mark_rag_eval_run_cancelled, transition_rag_eval_run, Queue!GiveUp

(* Of the steps of an execution only finalization and the handlers are *)
(* visible to the abstract queue.                                      *)
LEMMA QuietExecution ==
    ASSUME IInv, Execute, ~Finalize, ~Handle
    PROVE  QueueUnchanged
<1>a. pc \in ExecuteLabels => cur \in Runs
  BY DEF IInv, TypeOK, CoordinatorOK
<1>b. ASSUME NEW from \in ExecuteLabels, NEW to,
             \/ Check(from, to)
             \/ Work(from, to)
             \/ \E s, d : report_progress(from, s, d, 1, to)
             \/ \E s, n, d : ReportProgress(from, s, n, d, to)
      PROVE  QueueUnchanged
  <2>1. CASE Check(from, to) \/ Work(from, to)
    BY <2>1, UnchangedRowsStutter DEF Check, Work
  <2>2. ASSUME NEW s, NEW n, NEW d, ReportProgress(from, s, n, d, to)
        PROVE  QueueUnchanged
    BY <1>a, <2>2, UnchangedRowsStutter, ProgressWritesStutter
       DEF ReportProgress, IInv
  <2> QED BY <1>b, <2>1, <2>2 DEF report_progress
<1>c. SetupLabels \cup BuildLabels \cup EvaluateLabels \cup CleanupLabels
          \cup FinishLabels \subseteq ExecuteLabels
  BY DEF ExecuteLabels
<1>1. CASE Validate \/ WipeGraph \/ build_property_graph_index \/ UndoBuild
           \/ Answer \/ CleanupResources \/ HandleExpired
  BY <1>1, UnchangedRowsStutter DEF Validate, WipeGraph,
     build_property_graph_index, UndoBuild, Answer, CleanupResources, HandleExpired
<1>2. CASE Prepare \/ CragPrepare
  BY <1>2, <1>b, <1>c DEF Prepare, CragPrepare, SetupLabels
<1>3. CASE GraphRagPrepare /\ ~WipeGraph /\ ~build_property_graph_index /\ ~UndoBuild
  BY <1>3, <1>b, <1>c DEF GraphRagPrepare, BuildLabels
<1>4. CASE EvaluateExamples /\ ~Answer
  BY <1>4, <1>b, <1>c DEF EvaluateExamples, EvaluateLabels
<1>5. CASE CleanUp /\ ~CleanupResources
  BY <1>5, <1>b, <1>c DEF CleanUp, CleanupLabels
<1>6. CASE ScoreAndPersist
  BY <1>6, <1>b, <1>c DEF ScoreAndPersist, FinishLabels
<1> QED BY <1>1, <1>2, <1>3, <1>4, <1>5, <1>6 DEF Execute

(* Every step of the system is a step of the abstract queue or changes *)
(* nothing there.                                                      *)
LEMMA StepsImplementQueue ==
    ASSUME IInv, [Next]_vars
    PROVE  Queue!QueueNext \/ QueueUnchanged
<1>1. CASE Execute
  <2>1. CASE Finalize
    <3>1. CASE UNCHANGED rowVars
      BY <3>1, UnchangedRowsStutter
    <3>2. CASE finalize_rag_eval_run_success(cur)
      <4>1. cur \in Runs
        BY <2>1 DEF Finalize, IInv, TypeOK, CoordinatorOK, ExecuteLabels, FinishLabels
      <4>2. cancel_requested' = cancel_requested
        BY <3>2, <4>1 DEF finalize_rag_eval_run_success, FinalizeRefused, IInv,
           TypeOK, RowsOK
      <4>3. Queue!Deliver(cur)
        BY <3>2, <4>2 DEF finalize_rag_eval_run_success, FinalizeRefused,
           Queue!Deliver
      <4> QED BY <4>1, <4>3 DEF Queue!QueueNext
    <3> QED BY <2>1, <3>1, <3>2 DEF Finalize
  <2>2. CASE Handle
    <3>1. pc = "handle" /\ pc \in ExecuteLabels /\ cur \in Runs
      BY <2>2 DEF Handle, IInv, TypeOK, CoordinatorOK, ExecuteLabels
    <3>2. CASE UNCHANGED rowVars
      BY <3>2, UnchangedRowsStutter
    <3>3. CASE HandleCancelled
      BY <3>1, <3>3, CancellationsGiveUp DEF HandleCancelled, IInv,
         CancellationsWereAsked, Queue!QueueNext
    <3>4. CASE HandleFailure
      BY <3>1, <3>4, FailuresGiveUp DEF HandleFailure, IInv, Queue!QueueNext
    <3>5. CASE HandleCleanupFailure
      BY <3>1, <3>5, ProgressWritesStutter
         DEF HandleCleanupFailure, AwaitsCleanup, IInv
    <3> QED BY <2>2, <3>2, <3>3, <3>4, <3>5 DEF Handle, Handles
  <2> QED BY <1>1, <2>1, <2>2, QuietExecution
<1>2. CASE RecoveryLoop
  <2>1. CASE UNCHANGED rowVars
    BY <2>1, UnchangedRowsStutter
  <2>2. pc \in RecoverLabels => cur \in Runs
    BY DEF IInv, TypeOK, CoordinatorOK
  <2>3. CASE RecoverBlock
    BY <2>1, <2>2, <2>3, ProgressWritesStutter
       DEF RecoverBlock, AwaitsCleanup, RecoverLabels, IInv
  <2>4. CASE RecoverFail
    BY <2>1, <2>2, <2>4, FailuresGiveUp DEF RecoverFail, RecoverLabels, IInv,
       Queue!QueueNext
  <2> QED BY <1>2, <2>1, <2>3, <2>4 DEF RecoveryLoop, LoopTop, ListInterrupted,
             RecoverNext, RecoverDone, RecoverCleanup, RecoverCleanupFails,
             ProcessReturns, WaitEnds
<1>3. CASE claim_next_rag_eval_run
  <2>1. CASE QueueUnchanged
    BY <2>1
  <2>2. CASE ~QueueUnchanged
    <3>1. PICK r \in ClaimableRuns : StartsRunning(r) /\ query_results' = query_results
      BY <1>3, <2>2 DEF claim_next_rag_eval_run, QueueUnchanged
    <3>2. r \in Runs /\ cancel_requested' = cancel_requested
      <4>1. r \in Runs /\ status[r] = "queued"
        BY <3>1 DEF ClaimableRuns
      <4>2. ~cancel_requested[r]
        BY <4>1 DEF IInv, CancellationsWereAsked
      <4>3. cancel_requested \in [Runs -> BOOLEAN]
        BY DEF IInv, TypeOK, RowsOK
      <4> QED BY <3>1, <4>1, <4>2, <4>3 DEF StartsRunning
    <3>3. Queue!Start(r)
      BY <3>1, <3>2 DEF ClaimableRuns, StartsRunning, Queue!Start
    <3> QED BY <3>2, <3>3 DEF Queue!QueueNext
  <2> QED BY <2>1, <2>2
<1>4. CASE Requests
  <2>1. PICK r \in Runs : \/ enqueue_rag_eval_run(r)
                          \/ Notify(r)
                          \/ request_rag_eval_run_cancel(r)
    BY <1>4 DEF Requests
  <2>2. CASE enqueue_rag_eval_run(r)
    <3>1. Queue!Submit(r)
      BY <2>2 DEF enqueue_rag_eval_run, Queue!Submit
    <3> QED BY <3>1 DEF Queue!QueueNext
  <2>3. CASE Notify(r)
    BY <2>3, UnchangedRowsStutter DEF Notify
  <2>4. CASE request_rag_eval_run_cancel(r)
    <3>1. CASE status[r] = "queued"
      <4>1. cancel_requested' = [cancel_requested EXCEPT ![r] = FALSE]
        BY <2>4, <3>1 DEF request_rag_eval_run_cancel
      <4>2. ~cancel_requested[r]
        BY <3>1 DEF IInv, CancellationsWereAsked
      <4>3. cancel_requested \in [Runs -> BOOLEAN]
        BY DEF IInv, TypeOK, RowsOK
      <4>4. cancel_requested' = cancel_requested
        BY <4>1, <4>2, <4>3
      <4>5. Queue!Withdraw(r)
        BY <2>4, <3>1, <4>4 DEF request_rag_eval_run_cancel, Queue!Withdraw
      <4> QED BY <4>5 DEF Queue!QueueNext
    <3>2. CASE status[r] = "running"
      <4>1. Queue!Ask(r)
        BY <2>4, <3>2 DEF request_rag_eval_run_cancel, Queue!Ask
      <4> QED BY <4>1 DEF Queue!QueueNext
    <3> QED BY <2>4, <3>1, <3>2 DEF request_rag_eval_run_cancel
  <2> QED BY <2>1, <2>2, <2>3, <2>4
<1>5. CASE Process
  BY <1>5, UnchangedRowsStutter DEF Process, Crash, Shutdown, Exit, Restart, Halt
<1>6. CASE UNCHANGED vars
  BY <1>6, UnchangedRowsStutter DEF vars
<1> QED BY <1>1, <1>2, <1>3, <1>4, <1>5, <1>6
           DEF Next, Coordinator, RecoveryLoop, AllRunsEnded

(* The persistent queue implements the abstract one.                       *)
THEOREM QueueImplemented == Spec => ImplementsQueue
<1>1. Init => Queue!QueueInit
  BY DEF Init, Queue!QueueInit
<1>2. IInv /\ [Next]_vars => [Queue!QueueNext]_(Queue!queueVars)
  BY StepsImplementQueue DEF QueueUnchanged, Queue!queueVars
<1>3. Spec => Queue!QueueSpec
  BY <1>1, <1>2, Inductive, PTL DEF Spec, Queue!QueueSpec
<1> QED BY <1>3 DEF ImplementsQueue

(* An accepted cancellation is kept until the run ends, and the run does   *)
(* not end as completed.                                                   *)
THEOREM CancellationsHold == Spec => AcceptedCancellationHolds
<1> DEFINE Holds ==
        \A r \in Runs : cancel_requested[r] =>
            \/ cancel_requested'[r] /\ status'[r] = "running"
            \/ status'[r] \in {"failed", "cancelled"}
<1>1. IInv /\ [Next]_vars => Holds
  <2> SUFFICES ASSUME IInv, [Next]_vars,
                      NEW r \in Runs, cancel_requested[r]
               PROVE  \/ cancel_requested'[r] /\ status'[r] = "running"
                      \/ status'[r] \in {"failed", "cancelled"}
    OBVIOUS
  <2>1. status[r] = "running"
    BY DEF IInv, CancellationsWereAsked
  <2>2. CASE QueueUnchanged
    BY <2>1, <2>2 DEF QueueUnchanged
  <2>3. CASE Queue!QueueNext
    <3>1. PICK q \in Runs : \/ Queue!Submit(q) \/ Queue!Start(q)
                            \/ Queue!Withdraw(q) \/ Queue!Ask(q)
                            \/ Queue!Deliver(q) \/ Queue!GiveUp(q)
      BY <2>3 DEF Queue!QueueNext
    <3> QED BY <2>1, <3>1 DEF Queue!Submit, Queue!Start, Queue!Withdraw,
               Queue!Ask, Queue!Deliver, Queue!GiveUp, IInv, TypeOK, RowsOK
  <2> QED BY <2>2, <2>3, StepsImplementQueue
<1>2. IInv /\ [Next]_vars => [Holds]_vars
  BY <1>1
<1> QED BY <1>2, Inductive, PTL DEF Spec, AcceptedCancellationHolds

-----------------------------------------------------------------------------
(* Results and progress. *)

(* The percent that the next progress report after an await will write, *)
(* when n examples have been answered.                                  *)
NextPercent(label, n) ==
    CASE label \in {"validate", "evaluate_check", "report_preparing"} -> 0
      [] label \in {"chunking_check", "report_chunking"} -> 5
      [] label \in {"chunk", "report_chunked", "chunked_check",
                    "report_index", "wipe", "report_graph"} -> 15
      [] label \in {"index_check", "build_index", "report_index_built",
                    "graph_check", "build_graph", "built_check", "report_built",
                    "prepared_check", "build_pipeline", "report_evaluating"} -> 25
      [] label \in {"evaluating_check", "example_check", "answer",
                    "report_answer", "answered_check"} ->
             overall_progress("evaluating", n, NumExamples)
      [] label \in {"report_cleanup", "cleanup"} -> 80
      [] label \in {"report_cleaned", "runtime_check", "report_scoring"} -> 85
      [] label \in {"score_check", "score", "scored_check",
                    "report_persisting"} -> 95
      [] OTHER -> 100

(* A row that has not been claimed shows no progress. *)
UnclaimedRowsAreFresh ==
    \A r \in Runs : status[r] \in {"absent", "queued"} =>
        progress[r] = 0 /\ completed_examples[r] = 0

(* What the place of the coordinator says about the progress of the run it *)
(* executes, the suite it evaluates, and the results it has gathered.      *)
ExecutionFacts ==
    /\ pc \in ExecuteLabels => /\ progress[cur] <= NextPercent(pc, answered)
                               /\ completed_examples[cur] <= answered
    /\ pc \in ExecuteLabels \ {"validate", "handle"} => suite[cur] = corpus
    /\ pc \in FinishLabels => answered = NumExamples
    /\ pc \in CleanupLabels /\ exc = "none" => answered = NumExamples

(* The inductive invariant of the results and the progress, on top of IInv. *)
RInv == ResultsAreAllOrNothing /\ UnclaimedRowsAreFresh /\ ExecutionFacts

(* The share of the answered examples in 25..80: it grows with them. *)
LEMMA EvaluatingPercent ==
    /\ \A k \in 0..NumExamples :
           overall_progress("evaluating", k, NumExamples) \in 25..80
    /\ overall_progress("evaluating", 0, NumExamples) = 25
    /\ \A k, m \in 0..NumExamples : k <= m =>
           overall_progress("evaluating", k, NumExamples)
               <= overall_progress("evaluating", m, NumExamples)
<1> DEFINE q(k) == (55 * k) \div NumExamples
<1>1. ASSUME NEW k \in 0..NumExamples
      PROVE  overall_progress("evaluating", k, NumExamples) = 25 + q(k)
  BY DEF overall_progress, StageRange
<1>2. ASSUME NEW k \in 0..NumExamples
      PROVE  /\ q(k) \in Nat
             /\ NumExamples * q(k) <= 55 * k
             /\ 55 * k < NumExamples * (q(k) + 1)
  BY SuiteAssumption
<1> HIDE DEF q
<1>3. ASSUME NEW k \in 0..NumExamples, NEW m \in 0..NumExamples, k <= m
      PROVE  q(k) <= q(m)
  <2> DEFINE a == q(k)
             b == q(m)
  <2>1. a \in Nat /\ b \in Nat /\ NumExamples * a < NumExamples * (b + 1)
    <3>1. 55 * k <= 55 * m
      BY <1>3
    <3> QED BY <1>2, <3>1, SuiteAssumption
  <2> HIDE DEF a, b
  <2>2. ASSUME a >= b + 1 PROVE FALSE
    <3>1. NumExamples * a >= NumExamples * (b + 1)
      BY <2>1, <2>2, SuiteAssumption
    <3> QED BY <2>1, <3>1, SuiteAssumption
  <2>3. a <= b
    BY <2>1, <2>2
  <2> QED BY <2>3 DEF a, b
<1>4. q(0) = 0
  <2>1. 0 \in 0..NumExamples /\ NumExamples \in Nat \ {0}
    BY SuiteAssumption
  <2> DEFINE a == q(0)
  <2>2. a \in Nat /\ NumExamples * a <= 0
    BY <1>2, <2>1
  <2> HIDE DEF a
  <2>3. ASSUME a >= 1 PROVE FALSE
    <3>1. NumExamples * a >= NumExamples * 1
      BY <2>1, <2>2, <2>3
    <3> QED BY <2>1, <2>2, <3>1
  <2>4. a = 0
    BY <2>2, <2>3
  <2> QED BY <2>4 DEF a
<1>5. q(NumExamples) <= 55
  <2> DEFINE a == q(NumExamples)
  <2>1. a \in Nat /\ NumExamples * a <= 55 * NumExamples
    BY <1>2, SuiteAssumption
  <2> HIDE DEF a
  <2>2. ASSUME a >= 56 PROVE FALSE
    <3>1. NumExamples * a >= NumExamples * 56
      BY <2>1, <2>2, SuiteAssumption
    <3> QED BY <2>1, <3>1, SuiteAssumption
  <2>3. a <= 55
    BY <2>1, <2>2
  <2> QED BY <2>3 DEF a
<1>6. ASSUME NEW k \in 0..NumExamples
      PROVE  overall_progress("evaluating", k, NumExamples) \in 25..80
  <2>1. NumExamples \in 0..NumExamples /\ k <= NumExamples
    BY SuiteAssumption
  <2>2. q(k) \in Nat /\ q(k) <= q(NumExamples) /\ q(NumExamples) \in Nat
    BY <1>2, <1>3, <2>1
  <2> QED BY <1>1, <1>5, <2>2
<1>7. 0 \in 0..NumExamples
  BY SuiteAssumption
<1>8. ASSUME NEW k \in 0..NumExamples, NEW m \in 0..NumExamples, k <= m
      PROVE  overall_progress("evaluating", k, NumExamples)
                 <= overall_progress("evaluating", m, NumExamples)
  BY <1>1, <1>2, <1>3, <1>8
<1> QED BY <1>1, <1>4, <1>6, <1>7, <1>8

(* The percents of the stages that are not counted in examples. *)
LEMMA StagePercents ==
    /\ overall_progress("preparing", 0, 1) = 0
    /\ overall_progress("chunking", 0, 1) = 5
    /\ overall_progress("chunking", 1, 1) = 15
    /\ \A s \in {"building_index", "building_graph"} :
           overall_progress(s, 0, 1) = 15 /\ overall_progress(s, 1, 1) = 25
    /\ overall_progress("evaluating", 0, 1) = 25
    /\ overall_progress("cleaning_up", 0, 1) = 80
    /\ overall_progress("cleaning_up", 1, 1) = 85
<1>1. \A a \in Nat, b \in Nat : b >= a =>
          /\ a + ((b - a) * 0) \div 1 = a
          /\ a + ((b - a) * 1) \div 1 = b
  OBVIOUS
<1> QED BY <1>1 DEF overall_progress, StageRange

(* Every percent is in 0..100, and an execution that is unwound has not *)
(* shown more than the cleanup will.                                    *)
LEMMA PercentBounds ==
    ASSUME NEW n \in 0..NumExamples
    PROVE  /\ \A label : NextPercent(label, n) \in 0..100
           /\ \A label \in EvaluateLabels : NextPercent(label, n) <= 80
           /\ NextPercent("report_cleanup", n) = 80
           /\ NextPercent("cleanup", n) = 80
           /\ \A label \in {"handle", "undo_build"} : NextPercent(label, n) = 100
<1>1. overall_progress("evaluating", n, NumExamples) \in 25..80
  BY EvaluatingPercent
<1> QED BY <1>1 DEF NextPercent, EvaluateLabels

-----------------------------------------------------------------------------
(* What ProgressNeverGoesBack says of one step. *)
NothingGoesBack ==
    \A r \in Runs : /\ progress'[r] >= progress[r]
                    /\ completed_examples'[r] >= completed_examples[r]

(* A place that the execution may reach next without an exception. *)
Advances(to) ==
    /\ pc \in ExecuteLabels \ {"validate", "handle"}
    /\ NextPercent(pc, answered) <= NextPercent(to, answered)
    /\ to \in FinishLabels => answered = NumExamples
    /\ to \in CleanupLabels /\ exc = "none" => answered = NumExamples

Leads(from, to) == pc = from => Advances(to)

(* No row loses progress in a step that writes none. *)
LEMMA NoWriteGoesBack ==
    ASSUME TypeOK, UNCHANGED <<progress, completed_examples>>
    PROVE  NothingGoesBack
  BY DEF NothingGoesBack, TypeOK, RowsOK

(* An exception leads to a handler whose report shows no less. *)
LEMMA RaisesKeepFacts ==
    ASSUME TypeOK, ExecutionFacts, pc \in ExecuteLabels \ {"handle"},
           progress'[cur] \in 0..100,
           progress'[cur] <= NextPercent(pc, answered),
           completed_examples'[cur] <= answered,
           UNCHANGED <<suite, cur, answered, corpus>>,
           pc' = Unwind(pc), exc' # "none"
    PROVE  ExecutionFacts'
<1>1. answered \in 0..NumExamples /\ cur \in Runs
  BY DEF TypeOK, CoordinatorOK
<1>2. progress'[cur] <= NextPercent(pc', answered) /\ pc' \notin FinishLabels
      /\ (pc = "validate" => pc' = "handle")
  <2>0. NextPercent(pc, answered) \in 0..100
    BY <1>1, PercentBounds
  <2>1. CASE pc \in BuildLabels
    BY <1>1, <2>1, Unwinding, PercentBounds DEF FinishLabels, BuildLabels
  <2>2. CASE pc \in EvaluateLabels
    BY <1>1, <2>0, <2>2, Unwinding, PercentBounds, SMTT(30) DEF FinishLabels, EvaluateLabels
  <2>3. CASE pc = "report_cleanup"
    BY <1>1, <2>0, <2>3, Unwinding, PercentBounds DEF FinishLabels
  <2>4. CASE pc \in SetupLabels \cup FinishLabels
                        \cup {"cleanup", "report_cleaned", "undo_build"}
    BY <1>1, <2>4, Unwinding, PercentBounds DEF FinishLabels
  <2> QED BY <2>1, <2>2, <2>3, <2>4 DEF ExecuteLabels, CleanupLabels
<1> QED BY <1>2 DEF ExecutionFacts

(* So does a move that raises nothing. *)
LEMMA MovesKeepProgress ==
    ASSUME TypeOK, ExecutionFacts, NEW to, Advances(to),
           UNCHANGED <<progress, completed_examples, suite, cur, answered, corpus>>,
           pc' = to, exc' = exc
    PROVE  ExecutionFacts'
<1>1. answered \in 0..NumExamples /\ cur \in Runs /\ progress[cur] \in 0..100
  BY DEF TypeOK, CoordinatorOK, RowsOK, Advances
<1>2. NextPercent(pc, answered) \in 0..100 /\ NextPercent(to, answered) \in 0..100
  BY <1>1, PercentBounds
<1> QED BY <1>1, <1>2, SMTT(30) DEF ExecutionFacts, Advances

(* The rows other than the running one keep what they published. *)
LEMMA RunningRowsKeepResults ==
    ASSUME TypeOK, ResultsAreAllOrNothing, UnclaimedRowsAreFresh,
           NEW r \in Runs, status[r] = "running",
           status'[r] \notin {"absent", "queued", "completed"},
           \A q \in Runs \ {r} :
               /\ status'[q] = status[q]
               /\ progress'[q] = progress[q]
               /\ completed_examples'[q] = completed_examples[q],
           UNCHANGED <<suite, resolved, query_results>>
    PROVE  ResultsAreAllOrNothing' /\ UnclaimedRowsAreFresh'
  BY DEF ResultsAreAllOrNothing, UnclaimedRowsAreFresh

(* A step of the execution that writes no row keeps the invariant. *)
LEMMA QuietMovesKeepResults ==
    ASSUME IInv, RInv, UNCHANGED <<rowVars, cur, answered, corpus>>,
           pc \in ExecuteLabels \ {"handle"},
           NEW to, \/ pc' = to /\ exc' = exc /\ Advances(to)
                   \/ pc' = Unwind(pc) /\ exc' # "none"
    PROVE  RInv' /\ NothingGoesBack
<1>0. /\ progress'[cur] \in 0..100
      /\ progress'[cur] <= NextPercent(pc, answered)
      /\ completed_examples'[cur] <= answered
  BY DEF IInv, TypeOK, RowsOK, CoordinatorOK, RInv, ExecutionFacts, rowVars
<1>1. ExecutionFacts'
  BY <1>0, RaisesKeepFacts, MovesKeepProgress DEF IInv, RInv, rowVars
<1>2. ResultsAreAllOrNothing' /\ UnclaimedRowsAreFresh' /\ NothingGoesBack
  BY NoWriteGoesBack DEF IInv, RInv, ResultsAreAllOrNothing,
     UnclaimedRowsAreFresh, rowVars
<1> QED BY <1>1, <1>2 DEF RInv

(* A report shows what its place announces and no fewer examples than *)
(* before.                                                            *)
LEMMA ReportsKeepResults ==
    ASSUME IInv, RInv, NEW from, NEW to, Leads(from, to), NEW s,
           NEW percent, NEW done,
           percent = NextPercent(from, answered),
           done \in completed_examples[cur]..answered,
           ReportProgress(from, s, percent, done, to)
    PROVE  RInv' /\ NothingGoesBack
<1>1. /\ pc = from /\ Advances(to) /\ pc \in ExecuteLabels /\ cur \in Runs
      /\ UNCHANGED <<cur, answered, corpus>>
  BY DEF ReportProgress, Leads, Advances, IInv, TypeOK, CoordinatorOK, envVars
<1>2. CASE UNCHANGED rowVars /\ Raise("error")
  BY <1>1, <1>2, QuietMovesKeepResults DEF Raise, Advances
<1>3. CASE /\ update_rag_eval_run_progress(cur, s, percent, done)
           /\ (pc' = to /\ exc' = exc) \/ Raise("error")
  <2>1. /\ answered \in 0..NumExamples /\ progress[cur] \in 0..100
        /\ completed_examples[cur] \in 0..NumExamples
        /\ status[cur] = "running"
    BY <1>1, <1>3 DEF IInv, TypeOK, RowsOK, CoordinatorOK,
       update_rag_eval_run_progress, transition_rag_eval_run
  <2>2. /\ percent \in 0..100 /\ NextPercent(to, answered) \in 0..100
        /\ progress[cur] <= percent
        /\ percent <= NextPercent(to, answered)
    BY <1>1, <2>1, PercentBounds DEF RInv, ExecutionFacts, Advances
  <2>3. /\ progress' = [progress EXCEPT ![cur] = percent]
        /\ completed_examples' = [completed_examples EXCEPT ![cur] = done]
        /\ status' = [status EXCEPT ![cur] = "running"]
        /\ UNCHANGED <<suite, resolved, query_results>>
    BY <1>3 DEF update_rag_eval_run_progress, transition_rag_eval_run
  <2>4. ExecutionFacts'
    <3>1. progress'[cur] = percent /\ completed_examples'[cur] = done
      BY <1>1, <2>3 DEF IInv, TypeOK, RowsOK
    <3>2. CASE pc' = to /\ exc' = exc
      BY <1>1, <2>1, <2>2, <2>3, <3>1, <3>2 DEF RInv, ExecutionFacts, Advances
    <3>3. CASE Raise("error")
      BY <1>1, <2>1, <2>2, <2>3, <3>1, <3>3, RaisesKeepFacts
         DEF RInv, IInv, Raise, Advances
    <3> QED BY <1>3, <3>2, <3>3
  <2>5. ResultsAreAllOrNothing' /\ UnclaimedRowsAreFresh'
    <3>1. status'[cur] = "running"
          /\ \A q \in Runs \ {cur} :
                 /\ status'[q] = status[q]
                 /\ progress'[q] = progress[q]
                 /\ completed_examples'[q] = completed_examples[q]
      BY <1>1, <2>3 DEF IInv, TypeOK, RowsOK
    <3> QED BY <1>1, <2>1, <2>3, <3>1, RunningRowsKeepResults DEF IInv, RInv
  <2>6. NothingGoesBack
    BY <1>1, <2>1, <2>2, <2>3 DEF NothingGoesBack, IInv, TypeOK, RowsOK
  <2> QED BY <2>4, <2>5, <2>6 DEF RInv
<1> QED BY <1>2, <1>3 DEF ReportProgress

(* The moves of an execution before it answers. *)
PreparingMoves ==
    {<<"evaluate_check", "report_preparing">>,
     <<"report_preparing", "chunking_check">>,
     <<"chunking_check", "report_chunking">>,
     <<"report_chunking", "chunk">>,
     <<"chunk", "report_chunked">>,
     <<"report_chunked", "chunked_check">>,
     <<"chunked_check", "report_index">>,
     <<"chunked_check", "wipe">>}

BuildingMoves ==
    {<<"report_index", "index_check">>,
     <<"index_check", "build_index">>,
     <<"build_index", "report_index_built">>,
     <<"report_index_built", "prepared_check">>,
     <<"wipe", "report_graph">>,
     <<"report_graph", "graph_check">>,
     <<"graph_check", "build_graph">>,
     <<"build_graph", "built_check">>,
     <<"built_check", "report_built">>,
     <<"report_built", "prepared_check">>,
     <<"prepared_check", "build_pipeline">>,
     <<"build_pipeline", "report_evaluating">>}

(* Those between the first answer and the cleanup. *)
EvaluatingMoves ==
    {<<"evaluating_check", "example_check">>,
     <<"example_check", "answer">>,
     <<"report_answer", "answered_check">>,
     <<"answered_check", "example_check">>}

(* Those after it. *)
FinishingMoves ==
    {<<"runtime_check", "report_scoring">>,
     <<"report_scoring", "score_check">>,
     <<"score_check", "score">>,
     <<"score", "scored_check">>,
     <<"scored_check", "report_persisting">>,
     <<"report_persisting", "persisting_check">>,
     <<"persisting_check", "finalize">>}

(* None of them announces less progress than the place it leaves. *)
LEMMA MovesAdvance ==
    ASSUME IInv, RInv
    PROVE  /\ \A from, to :
                  <<from, to>> \in PreparingMoves \cup BuildingMoves
                                      \cup EvaluatingMoves \cup FinishingMoves =>
                      Leads(from, to)
           /\ Leads("report_evaluating", "evaluating_check")
           /\ answered = NumExamples => Leads("answered_check", "report_cleanup")
           /\ \A from \in {"wipe", "undo_build", "cleanup", "report_cleaned"} :
                  Leads(from, "handle")
           /\ Leads("report_cleanup", "cleanup")
           /\ Leads("cleanup", "report_cleaned")
           /\ exc = "none" => Leads("report_cleaned", "runtime_check")
<1>0. answered \in 0..NumExamples
  BY DEF IInv, TypeOK, CoordinatorOK
<1>e. overall_progress("evaluating", answered, NumExamples) \in 25..80
  BY <1>0, EvaluatingPercent
<1>1. ASSUME NEW from, NEW to, <<from, to>> \in PreparingMoves, pc = from
      PROVE  Advances(to)
  BY <1>1 DEF PreparingMoves, Advances, NextPercent, ExecuteLabels,
     SetupLabels, CleanupLabels, FinishLabels
<1>2. ASSUME NEW from, NEW to, <<from, to>> \in BuildingMoves, pc = from
      PROVE  Advances(to)
  <2>1. pc \in ExecuteLabels \ {"validate", "handle"}
        /\ to \notin FinishLabels \cup CleanupLabels
    BY <1>2 DEF BuildingMoves, ExecuteLabels, SetupLabels, BuildLabels,
       EvaluateLabels, CleanupLabels, FinishLabels
  <2>2. NextPercent(pc, answered) <= NextPercent(to, answered)
    BY <1>2 DEF BuildingMoves, NextPercent
  <2> QED BY <2>1, <2>2 DEF Advances
<1>3. ASSUME NEW from, NEW to, <<from, to>> \in EvaluatingMoves, pc = from
      PROVE  Advances(to)
  <2>1. pc \in ExecuteLabels \ {"validate", "handle"}
        /\ to \notin FinishLabels \cup CleanupLabels
    BY <1>3 DEF EvaluatingMoves, ExecuteLabels, EvaluateLabels, CleanupLabels,
       FinishLabels
  <2>2. NextPercent(pc, answered) <= NextPercent(to, answered)
    BY <1>3, <1>e DEF EvaluatingMoves, NextPercent
  <2> QED BY <2>1, <2>2 DEF Advances
<1>4. ASSUME NEW from, NEW to, <<from, to>> \in FinishingMoves, pc = from
      PROVE  Advances(to)
  <2>1. pc \in ExecuteLabels \ {"validate", "handle"} /\ pc \in FinishLabels
        /\ to \notin CleanupLabels
    BY <1>4 DEF FinishingMoves, ExecuteLabels, FinishLabels, CleanupLabels
  <2>2. NextPercent(pc, answered) <= NextPercent(to, answered)
    BY <1>4 DEF FinishingMoves, NextPercent
  <2> QED BY <2>1, <2>2 DEF Advances, RInv, ExecutionFacts
<1>5. ASSUME pc = "report_evaluating" PROVE Advances("evaluating_check")
  <2>1. answered = 0
    BY <1>5 DEF IInv, LabelFacts, UnansweredLabels
  <2>2. NextPercent(pc, answered) = 25
        /\ NextPercent("evaluating_check", answered) = 25
    BY <1>5, <2>1, EvaluatingPercent DEF NextPercent
  <2> QED BY <1>5, <2>2 DEF Advances, ExecuteLabels, EvaluateLabels,
             CleanupLabels, FinishLabels
<1>6. ASSUME pc = "answered_check", answered = NumExamples
      PROVE  Advances("report_cleanup")
  <2>1. NextPercent(pc, answered) <= NextPercent("report_cleanup", answered)
    BY <1>6, <1>e DEF NextPercent
  <2> QED BY <1>6, <2>1 DEF Advances, ExecuteLabels, EvaluateLabels, FinishLabels
<1>7. ASSUME pc \in {"wipe", "undo_build", "cleanup", "report_cleaned"}
      PROVE  Advances("handle")
  BY <1>7 DEF Advances, NextPercent, ExecuteLabels, BuildLabels, CleanupLabels,
     FinishLabels
<1>8. /\ pc = "report_cleanup" => Advances("cleanup")
      /\ pc = "cleanup" => Advances("report_cleaned")
      /\ pc = "report_cleaned" /\ exc = "none" => Advances("runtime_check")
  <2>1. /\ pc \in {"report_cleanup", "cleanup", "report_cleaned"} =>
               /\ pc \in ExecuteLabels \ {"validate", "handle"}
               /\ exc = "none" => answered = NumExamples
        /\ {"cleanup", "report_cleaned"} \cap FinishLabels = {}
        /\ "runtime_check" \notin CleanupLabels
    BY DEF ExecuteLabels, CleanupLabels, FinishLabels, RInv, ExecutionFacts
  <2>2. /\ NextPercent("report_cleanup", answered) = 80
        /\ NextPercent("cleanup", answered) = 80
        /\ NextPercent("report_cleaned", answered) = 85
        /\ NextPercent("runtime_check", answered) = 85
    BY DEF NextPercent
  <2> QED BY <2>1, <2>2 DEF Advances
<1> QED BY <1>1, <1>2, <1>3, <1>4, <1>5, <1>6, <1>7, <1>8 DEF Leads

(* A handler or a recovery ends a running row, or parks it for cleanup. *)
RunningRowEnds(r) ==
    /\ status[r] = "running"
    /\ status'[r] \in {"running", "failed", "cancelled"}
    /\ \A q \in Runs \ {r} : status'[q] = status[q]
    /\ UNCHANGED <<progress, completed_examples, suite, resolved, query_results>>

LEMMA RowWritesEnd ==
    ASSUME TypeOK, NEW r \in Runs,
           \/ mark_rag_eval_run_cancelled(r)
           \/ mark_rag_eval_run_failed(r)
           \/ AwaitsCleanup(r)
    PROVE  RunningRowEnds(r)
  BY DEF RunningRowEnds, AwaitsCleanup, mark_rag_eval_run_cancelled, mark_rag_eval_run_failed,
     update_rag_eval_run_progress, transition_rag_eval_run, TypeOK, RowsOK

(* What it published, nothing, stays so, and its progress stays. *)
LEMMA EndedRowsKeepResults ==
    ASSUME TypeOK, ResultsAreAllOrNothing, UnclaimedRowsAreFresh,
           NEW r \in Runs, RunningRowEnds(r)
    PROVE  ResultsAreAllOrNothing' /\ UnclaimedRowsAreFresh' /\ NothingGoesBack
  BY RunningRowsKeepResults, NoWriteGoesBack DEF RunningRowEnds

(* Every step of _execute keeps what was published and loses no progress. *)
LEMMA ExecuteKeepsResults ==
    ASSUME IInv, RInv, Execute
    PROVE  RInv' /\ NothingGoesBack
<1> DEFINE Goal == RInv' /\ NothingGoesBack
<1>0. /\ answered \in 0..NumExamples /\ 0 \in 0..NumExamples
      /\ NumExamples \in 0..NumExamples
      /\ pc \in ExecuteLabels =>
             /\ cur \in Runs
             /\ pc # "handle" => status[cur] = "running"
             /\ completed_examples[cur] \in 0..NumExamples
             /\ completed_examples[cur] <= answered
  BY SuiteAssumption, ExecutedRowRuns DEF IInv, TypeOK, RowsOK, CoordinatorOK, RInv,
     ExecutionFacts
<1>a. ASSUME NEW from, NEW to, Leads(from, to),
             Check(from, to) \/ Work(from, to)
      PROVE  Goal
  <2>1. /\ UNCHANGED <<rowVars, cur, answered, corpus>>
        /\ pc = from
        /\ \/ pc' = to /\ exc' = exc
           \/ pc' = Unwind(pc) /\ exc' # "none"
    BY <1>a DEF Check, Work, Raise, workVars, envVars
  <2> QED BY <1>a, <2>1, QuietMovesKeepResults DEF Advances, Leads
<1>b. ASSUME NEW from, NEW to, Leads(from, to), NEW s, NEW d,
             overall_progress(s, d, 1) = NextPercent(from, answered),
             report_progress(from, s, d, 1, to)
      PROVE  Goal
  <2> DEFINE percent == overall_progress(s, d, 1)
             done    == completed_examples[cur]
  <2>1. pc = from /\ ReportProgress(from, s, percent, done, to)
    BY <1>b DEF report_progress, ReportProgress
  <2>2. done \in completed_examples[cur]..answered
    BY <1>0, <1>b, <2>1 DEF Advances, Leads
  <2>3. percent = NextPercent(from, answered)
    BY <1>b
  <2> HIDE DEF percent, done
  <2> QED BY <1>b, <2>1, <2>2, <2>3, ReportsKeepResults
<1>1. CASE Validate
  <2>1. /\ UNCHANGED <<rowVars, cur, answered, corpus>>
        /\ pc = "validate" /\ pc \in ExecuteLabels \ {"handle"}
        /\ \/ suite[cur] = corpus /\ pc' = "evaluate_check" /\ exc' = exc
           \/ pc' = Unwind(pc) /\ exc' # "none"
    BY <1>1 DEF Validate, Raise, workVars, envVars, ExecuteLabels, SetupLabels
  <2>2. CASE pc' = Unwind(pc) /\ exc' # "none"
    BY <2>1, <2>2, QuietMovesKeepResults
  <2>3. CASE suite[cur] = corpus /\ pc' = "evaluate_check" /\ exc' = exc
    <3>1. NextPercent("validate", answered) = 0
          /\ NextPercent("evaluate_check", answered) = 0
          /\ "evaluate_check" \notin FinishLabels \cup CleanupLabels
      BY DEF NextPercent, FinishLabels, CleanupLabels
    <3>2. ExecutionFacts'
      BY <2>1, <2>3, <3>1 DEF RInv, ExecutionFacts, rowVars
    <3>3. ResultsAreAllOrNothing' /\ UnclaimedRowsAreFresh' /\ NothingGoesBack
      BY <2>1, NoWriteGoesBack DEF IInv, RInv, ResultsAreAllOrNothing,
         UnclaimedRowsAreFresh, rowVars
    <3> QED BY <3>2, <3>3 DEF RInv
  <2> QED BY <2>1, <2>2, <2>3
<1>2. CASE Prepare
  <2>1. /\ NextPercent("report_preparing", answered)
               = overall_progress("preparing", 0, 1)
        /\ NextPercent("report_chunking", answered)
               = overall_progress("chunking", 0, 1)
        /\ NextPercent("report_chunked", answered)
               = overall_progress("chunking", 1, 1)
    BY StagePercents DEF NextPercent
  <2>2. /\ Leads("evaluate_check", "report_preparing")
        /\ Leads("report_preparing", "chunking_check")
        /\ Leads("chunking_check", "report_chunking")
        /\ Leads("report_chunking", "chunk")
        /\ Leads("chunk", "report_chunked")
        /\ Leads("report_chunked", "chunked_check")
        /\ Leads("chunked_check", "report_index") /\ Leads("chunked_check", "wipe")
    BY MovesAdvance DEF PreparingMoves
  <2> QED BY <1>2, <1>a, <1>b, <2>1, <2>2 DEF Prepare
<1>3. CASE CragPrepare
  <2>1. /\ NextPercent("report_index", answered)
               = overall_progress("building_index", 0, 1)
        /\ NextPercent("report_index_built", answered)
               = overall_progress("building_index", 1, 1)
    BY StagePercents DEF NextPercent
  <2>2. /\ Leads("report_index", "index_check")
        /\ Leads("index_check", "build_index")
        /\ Leads("build_index", "report_index_built")
        /\ Leads("report_index_built", "prepared_check")
    BY MovesAdvance DEF BuildingMoves
  <2> QED BY <1>3, <1>a, <1>b, <2>1, <2>2 DEF CragPrepare
<1>4. CASE GraphRagPrepare
  <2>1. /\ NextPercent("report_graph", answered)
               = overall_progress("building_graph", 0, 1)
        /\ NextPercent("report_built", answered)
               = overall_progress("building_graph", 1, 1)
    BY StagePercents DEF NextPercent
  <2>2. /\ Leads("wipe", "report_graph") /\ Leads("wipe", "handle")
        /\ Leads("report_graph", "graph_check")
        /\ Leads("graph_check", "build_graph")
        /\ Leads("build_graph", "built_check")
        /\ Leads("built_check", "report_built")
        /\ Leads("report_built", "prepared_check")
        /\ Leads("undo_build", "handle")
    BY MovesAdvance DEF BuildingMoves
  <2>3. CASE WipeGraph \/ build_property_graph_index \/ UndoBuild
    <3>1. /\ UNCHANGED <<rowVars, cur, answered, corpus>>
          /\ pc \in {"wipe", "build_graph", "undo_build"}
      BY <2>3 DEF WipeGraph, build_property_graph_index, UndoBuild, workVars,
         envVars
    <3>2. pc \in ExecuteLabels \ {"handle"}
      BY <3>1 DEF ExecuteLabels, BuildLabels
    <3>3. pc = "undo_build" => Unwind(pc) = "handle" /\ exc # "none"
      BY Unwinding DEF IInv, TypeOK, CoordinatorOK
    <3>4. \/ \E to : pc' = to /\ exc' = exc /\ Advances(to)
          \/ pc' = Unwind(pc) /\ exc' # "none"
          \/ pc = "wipe" /\ pc' = "handle" /\ exc' = "error"
      BY <2>2, <2>3, <3>3 DEF WipeGraph, build_property_graph_index, UndoBuild,
         Raise, Leads
    <3>5. CASE pc = "wipe" /\ pc' = "handle" /\ exc' = "error"
      <4>1. progress[cur] \in 0..100 /\ NextPercent("handle", answered) = 100
            /\ "handle" \notin FinishLabels \cup CleanupLabels
        BY <1>0, <3>2 DEF IInv, TypeOK, RowsOK, NextPercent, FinishLabels,
           CleanupLabels
      <4>2. ExecutionFacts'
        BY <1>0, <3>1, <3>2, <3>5, <4>1 DEF RInv, ExecutionFacts, rowVars
      <4>3. ResultsAreAllOrNothing' /\ UnclaimedRowsAreFresh' /\ NothingGoesBack
        BY <3>1, NoWriteGoesBack DEF IInv, RInv, ResultsAreAllOrNothing,
           UnclaimedRowsAreFresh, rowVars
      <4> QED BY <4>2, <4>3 DEF RInv
    <3> QED BY <3>1, <3>2, <3>4, <3>5, QuietMovesKeepResults
  <2> QED BY <1>4, <1>a, <1>b, <2>1, <2>2, <2>3 DEF GraphRagPrepare
<1>5. CASE EvaluateExamples
  <2>1. CASE Answer
    <3>1. /\ UNCHANGED <<rowVars, cur, corpus>>
          /\ pc = "answer" /\ pc \in ExecuteLabels \ {"validate", "handle"}
          /\ answered < NumExamples
      BY <2>1 DEF Answer, IInv, LabelFacts, envVars, ExecuteLabels, EvaluateLabels
    <3>2. CASE Raise("error") /\ answered' = answered
      BY <3>1, <3>2, QuietMovesKeepResults DEF Raise
    <3>3. CASE answered' = answered + 1 /\ pc' = "report_answer"
      <4>1. NextPercent(pc, answered) <= NextPercent(pc', answered')
        <5>1. answered + 1 \in 0..NumExamples /\ answered <= answered + 1
          BY <1>0, <3>1, SuiteAssumption
        <5>2. overall_progress("evaluating", answered, NumExamples)
                 <= overall_progress("evaluating", answered + 1, NumExamples)
          BY <1>0, <5>1, EvaluatingPercent
        <5>3. /\ NextPercent("answer", answered)
                     = overall_progress("evaluating", answered, NumExamples)
              /\ NextPercent("report_answer", answered + 1)
                     = overall_progress("evaluating", answered + 1, NumExamples)
          BY DEF NextPercent
        <5> QED BY <3>1, <3>3, <5>2, <5>3
      <4>2. /\ progress[cur] \in 0..100
            /\ NextPercent(pc, answered) \in 0..100
            /\ NextPercent(pc', answered') \in 0..100
        <5>1. answered' \in 0..NumExamples
          BY <1>0, <3>1, <3>3, SuiteAssumption
        <5> QED BY <1>0, <3>1, <5>1, PercentBounds DEF IInv, TypeOK, RowsOK
      <4>3. "report_answer" \notin FinishLabels \cup CleanupLabels
        BY DEF FinishLabels, CleanupLabels
      <4>4. ExecutionFacts'
        <5>1. /\ progress[cur] <= NextPercent(pc, answered)
              /\ suite[cur] = corpus
          BY <3>1 DEF RInv, ExecutionFacts
        <5> DEFINE a == NextPercent(pc, answered)
                   b == NextPercent(pc', answered')
        <5>2. progress'[cur'] <= b
          <6>1. a \in 0..100 /\ b \in 0..100 /\ a <= b /\ progress[cur] <= a
                /\ progress'[cur'] = progress[cur]
            BY <3>1, <4>1, <4>2, <5>1 DEF rowVars
          <6> HIDE DEF a, b
          <6> QED BY <4>2, <6>1
        <5>3. completed_examples'[cur'] <= answered'
          BY <1>0, <3>1, <3>3 DEF rowVars
        <5>4. suite'[cur'] = corpus'
          BY <3>1, <5>1 DEF rowVars
        <5> QED BY <3>3, <4>3, <5>2, <5>3, <5>4 DEF ExecutionFacts
      <4>5. ResultsAreAllOrNothing' /\ UnclaimedRowsAreFresh' /\ NothingGoesBack
        BY <3>1, NoWriteGoesBack DEF IInv, RInv, ResultsAreAllOrNothing,
           UnclaimedRowsAreFresh, rowVars
      <4> QED BY <4>4, <4>5 DEF RInv
    <3> QED BY <2>1, <3>2, <3>3 DEF Answer
  <2>2. CASE ReportProgress("report_answer", "evaluating",
               overall_progress("evaluating", answered, NumExamples), answered,
               "answered_check")
    <3>1. NextPercent("report_answer", answered)
              = overall_progress("evaluating", answered, NumExamples)
      BY DEF NextPercent
    <3>2. Leads("report_answer", "answered_check")
      BY MovesAdvance DEF EvaluatingMoves
    <3>3. pc = "report_answer" /\ answered \in completed_examples[cur]..answered
      BY <1>0, <2>2, <3>2 DEF ReportProgress, Leads, Advances
    <3> QED BY <2>2, <3>1, <3>2, <3>3, ReportsKeepResults
  <2>3. /\ Leads("prepared_check", "build_pipeline")
        /\ Leads("build_pipeline", "report_evaluating")
        /\ Leads("report_evaluating", "evaluating_check")
        /\ Leads("evaluating_check", "example_check")
        /\ Leads("example_check", "answer")
        /\ Leads("answered_check", "example_check")
        /\ answered = NumExamples => Leads("answered_check", "report_cleanup")
    BY MovesAdvance DEF BuildingMoves, EvaluatingMoves
  <2>4. Leads("answered_check", IF answered < NumExamples THEN "example_check"
                                                          ELSE "report_cleanup")
    BY <1>0, <2>3
  <2>5. NextPercent("report_evaluating", answered)
            = overall_progress("evaluating", 0, 1)
    BY StagePercents DEF NextPercent
  <2> QED BY <1>5, <1>a, <1>b, <2>1, <2>2, <2>3, <2>4, <2>5 DEF EvaluateExamples
<1>6. CASE CleanUp
  <2>1. /\ NextPercent("report_cleanup", answered)
               = overall_progress("cleaning_up", 0, 1)
        /\ NextPercent("report_cleaned", answered)
               = overall_progress("cleaning_up", 1, 1)
    BY StagePercents DEF NextPercent
  <2>2. CASE CleanupResources
    <3>1. /\ UNCHANGED <<rowVars, cur, answered, corpus>>
          /\ pc = "cleanup" /\ pc \in ExecuteLabels \ {"handle"}
          /\ \/ pc' \in {"handle", "report_cleaned"} /\ exc' = exc
             \/ pc' = Unwind(pc) /\ exc' # "none"
      BY <2>2 DEF CleanupResources, Raise, workVars, envVars, ExecuteLabels,
         CleanupLabels
    <3>2. Advances("handle") /\ Advances("report_cleaned")
      BY <3>1, MovesAdvance DEF Leads
    <3> QED BY <3>1, <3>2, QuietMovesKeepResults
  <2>3. Leads("report_cleaned", IF exc = "none" THEN "runtime_check" ELSE "handle")
    BY MovesAdvance
  <2>4. Leads("report_cleanup", "cleanup")
    BY MovesAdvance
  <2> QED BY <1>6, <1>b, <2>1, <2>2, <2>3, <2>4 DEF CleanUp
<1>7. CASE ScoreAndPersist /\ ~Finalize
  <2>1. /\ NextPercent("report_scoring", answered) = 85
        /\ NextPercent("report_persisting", answered) = 95
    BY DEF NextPercent
  <2>2. /\ Leads("runtime_check", "report_scoring")
        /\ Leads("report_scoring", "score_check")
        /\ Leads("score_check", "score")
        /\ Leads("score", "scored_check")
        /\ Leads("scored_check", "report_persisting")
        /\ Leads("report_persisting", "persisting_check")
        /\ Leads("persisting_check", "finalize")
    BY MovesAdvance DEF FinishingMoves
  <2>3. pc \in {"report_scoring", "report_persisting"} =>
            NumExamples \in completed_examples[cur]..answered
    <3>1. {"report_scoring", "report_persisting"} \subseteq FinishLabels
          /\ FinishLabels \subseteq ExecuteLabels
      BY DEF FinishLabels, ExecuteLabels
    <3>2. pc \in FinishLabels => answered = NumExamples
      BY DEF RInv, ExecutionFacts
    <3> QED BY <1>0, <3>1, <3>2
  <2>4. CASE ReportProgress("report_scoring", "scoring", 85, NumExamples,
                            "score_check")
    <3>1. pc = "report_scoring"
      BY <2>4 DEF ReportProgress
    <3> QED BY <2>1, <2>2, <2>3, <2>4, <3>1, ReportsKeepResults
  <2>5. CASE ReportProgress("report_persisting", "persisting", 95, NumExamples,
                            "persisting_check")
    <3>1. pc = "report_persisting"
      BY <2>5 DEF ReportProgress
    <3> QED BY <2>1, <2>2, <2>3, <2>5, <3>1, ReportsKeepResults
  <2> QED BY <1>7, <1>a, <2>2, <2>4, <2>5 DEF ScoreAndPersist
<1>8. CASE Finalize
  <2>1. /\ UNCHANGED <<cur, answered, corpus>> /\ pc = "finalize"
        /\ pc \in ExecuteLabels \ {"validate", "handle"}
        /\ pc \in FinishLabels
    BY <1>8 DEF Finalize, envVars, ExecuteLabels, FinishLabels
  <2>2. CASE UNCHANGED rowVars /\ pc' = Unwind(pc) /\ exc' # "none"
    BY <2>1, <2>2, QuietMovesKeepResults
  <2>4. Unwind(pc) = "handle"
    BY <2>1, Unwinding
  <2>3. CASE finalize_rag_eval_run_success(cur)
    <3>1. cur \in Runs /\ suite[cur] = corpus /\ answered = NumExamples
          /\ status[cur] = "running"
      BY <1>0, <2>1 DEF RInv, ExecutionFacts
    <3>2. /\ query_results' = [query_results EXCEPT ![cur] = NumExamples]
          /\ status' = [status EXCEPT ![cur] = "completed"]
          /\ progress' = [progress EXCEPT ![cur] = 100]
          /\ completed_examples' = [completed_examples EXCEPT ![cur] = NumExamples]
          /\ resolved' = [resolved EXCEPT ![cur] = corpus]
          /\ suite' = suite
      BY <2>3, <3>1 DEF finalize_rag_eval_run_success
    <3>3. ResultsAreAllOrNothing'
      BY <3>1, <3>2 DEF RInv, ResultsAreAllOrNothing, IInv, TypeOK, RowsOK
    <3>4. UnclaimedRowsAreFresh'
      BY <3>1, <3>2 DEF RInv, UnclaimedRowsAreFresh, IInv, TypeOK, RowsOK
    <3>5. NothingGoesBack
      <4>1. /\ progress \in [Runs -> 0..100]
            /\ completed_examples \in [Runs -> 0..NumExamples]
            /\ NumExamples \in Nat
        BY SuiteAssumption DEF IInv, TypeOK, RowsOK
      <4> QED BY <3>1, <3>2, <4>1 DEF NothingGoesBack
    <3>6. ASSUME pc' = "processed" PROVE ExecutionFacts'
      <4>1. pc' \notin ExecuteLabels \cup FinishLabels \cup CleanupLabels
        BY <3>6 DEF ExecuteLabels, SetupLabels, BuildLabels, EvaluateLabels,
           CleanupLabels, FinishLabels
      <4> QED BY <4>1 DEF ExecutionFacts
    <3>7. ASSUME pc' = "handle" PROVE ExecutionFacts'
      <4>1. progress'[cur] = 100 /\ completed_examples'[cur] = NumExamples
        BY <3>1, <3>2 DEF IInv, TypeOK, RowsOK
      <4>2. NextPercent("handle", answered) = 100 /\ NumExamples \in Nat
        BY <1>0, PercentBounds, SuiteAssumption
      <4>3. "handle" \notin FinishLabels \cup CleanupLabels
        BY DEF FinishLabels, CleanupLabels
      <4> QED BY <2>1, <3>1, <3>7, <4>1, <4>2, <4>3 DEF ExecutionFacts
    <3>8. ExecutionFacts'
      BY <1>8, <2>4, <3>6, <3>7 DEF Finalize, Raise
    <3> QED BY <3>3, <3>4, <3>5, <3>8 DEF RInv
  <2> QED BY <1>8, <2>2, <2>3 DEF Finalize, Raise
<1>9. CASE Handle \/ HandleExpired
  <2>1. /\ pc = "handle" /\ pc \in ExecuteLabels
        /\ pc' \in {"processed", "dead"}
    BY <1>9 DEF Handle, HandleExpired, WorkerDies, ExecuteLabels
  <2>2. ExecutionFacts'
    <3>1. pc' \notin ExecuteLabels \cup FinishLabels \cup CleanupLabels
      BY <2>1 DEF ExecuteLabels, SetupLabels, BuildLabels, EvaluateLabels,
         CleanupLabels, FinishLabels
    <3> QED BY <3>1 DEF ExecutionFacts
  <2>3. CASE UNCHANGED rowVars
    <3>1. ResultsAreAllOrNothing' /\ UnclaimedRowsAreFresh' /\ NothingGoesBack
      BY <2>3, NoWriteGoesBack DEF IInv, RInv, ResultsAreAllOrNothing,
         UnclaimedRowsAreFresh, rowVars
    <3> QED BY <2>2, <3>1 DEF RInv
  <2>4. CASE \/ mark_rag_eval_run_cancelled(cur)
             \/ mark_rag_eval_run_failed(cur)
             \/ AwaitsCleanup(cur)
    <3>1. RunningRowEnds(cur)
      BY <1>0, <2>1, <2>4, RowWritesEnd DEF IInv
    <3> QED BY <1>0, <2>1, <2>2, <3>1, EndedRowsKeepResults DEF RInv, IInv
  <2> QED BY <1>9, <2>3, <2>4 DEF Handle, Handles, HandleExpired, HandleCancelled,
             HandleCleanupFailure, HandleFailure
<1> QED
  BY <1>1, <1>2, <1>3, <1>4, <1>5, <1>6, <1>7, <1>8, <1>9 DEF Execute

(* Outside an execution nothing is said of one. *)
LEMMA LoopHasNoExecution ==
    ASSUME pc' \notin ExecuteLabels
    PROVE  ExecutionFacts'
<1>1. FinishLabels \cup CleanupLabels \subseteq ExecuteLabels
  BY DEF ExecuteLabels
<1> QED BY <1>1 DEF ExecutionFacts

(* Recovery publishes nothing and keeps the progress a run had reached. *)
LEMMA LoopKeepsResults ==
    ASSUME IInv, RInv, RecoveryLoop
    PROVE  RInv' /\ NothingGoesBack
<1>1. ExecutionFacts'
  BY LoopTypes, LoopHasNoExecution DEF IInv
<1>2. CASE UNCHANGED rowVars
  <2>1. ResultsAreAllOrNothing' /\ UnclaimedRowsAreFresh' /\ NothingGoesBack
    BY <1>2, NoWriteGoesBack DEF IInv, RInv, ResultsAreAllOrNothing,
       UnclaimedRowsAreFresh, rowVars
  <2> QED BY <1>1, <2>1 DEF RInv
<1>3. CASE (RecoverBlock \/ RecoverFail) /\ ~UNCHANGED rowVars
  <2>1. cur \in Runs
    BY <1>3 DEF RecoverBlock, RecoverFail, RecoverLabels, IInv, TypeOK,
       CoordinatorOK
  <2>2. RunningRowEnds(cur)
    BY <1>3, <2>1, RowWritesEnd DEF RecoverBlock, RecoverFail, IInv
  <2> QED BY <1>1, <2>1, <2>2, EndedRowsKeepResults DEF RInv, IInv
<1> QED BY <1>2, <1>3 DEF RecoveryLoop, LoopTop, ListInterrupted, RecoverNext,
           RecoverDone, RecoverCleanup, RecoverCleanupFails, ProcessReturns,
           WaitEnds, RecoverBlock, RecoverFail

(* A claimed run starts from nothing. *)
LEMMA ClaimKeepsResults ==
    ASSUME IInv, RInv, claim_next_rag_eval_run
    PROVE  RInv' /\ NothingGoesBack
<1>1. UNCHANGED <<progress, completed_examples, suite, resolved, query_results>>
  BY DEF claim_next_rag_eval_run
<1>2. ASSUME NEW r \in ClaimableRuns, StartsRunning(r)
      PROVE  /\ progress'[r] = 0 /\ completed_examples'[r] = 0
             /\ ResultsAreAllOrNothing' /\ UnclaimedRowsAreFresh'
  <2>1. r \in Runs /\ status[r] = "queued"
        /\ status' = [status EXCEPT ![r] = "running"]
    BY <1>2 DEF ClaimableRuns, StartsRunning
  <2> QED BY <1>1, <2>1 DEF RInv, ResultsAreAllOrNothing, UnclaimedRowsAreFresh,
             IInv, TypeOK, RowsOK
<1>3. NothingGoesBack
  BY <1>1, NoWriteGoesBack DEF IInv
<1>4. CASE /\ pc' \in {"nothing_to_do", "dead"}
           /\ \/ UNCHANGED status
              \/ \E r \in ClaimableRuns : StartsRunning(r)
  <2>1. ExecutionFacts'
    BY <1>4, LoopHasNoExecution, LabelSets DEF LoopLabels
  <2>2. CASE UNCHANGED status
    BY <1>1, <1>3, <2>1, <2>2 DEF RInv, ResultsAreAllOrNothing,
       UnclaimedRowsAreFresh
  <2> QED BY <1>2, <1>3, <1>4, <2>1, <2>2 DEF RInv
<1>5. CASE /\ pc' = "validate" /\ answered' = 0
           /\ cur' \in ClaimableRuns /\ StartsRunning(cur')
  <2>1. NextPercent("validate", answered') = 0
    BY DEF NextPercent
  <2>2. "validate" \notin FinishLabels \cup CleanupLabels
    BY DEF FinishLabels, CleanupLabels
  <2>3. ExecutionFacts'
    BY <1>2, <1>5, <2>1, <2>2 DEF ExecutionFacts
  <2> QED BY <1>2, <1>3, <1>5, <2>3 DEF RInv
<1> QED BY <1>4, <1>5 DEF claim_next_rag_eval_run, WorkerDies

(* A request changes the status of rows that have published nothing, and *)
(* the suite of a row that is not enqueued yet.                          *)
LEMMA RequestKeepsResults ==
    ASSUME IInv, RInv, Requests
    PROVE  RInv' /\ NothingGoesBack
<1>1. PICK r \in Runs : \/ enqueue_rag_eval_run(r)
                        \/ Notify(r)
                        \/ request_rag_eval_run_cancel(r)
  BY DEF Requests
<1>2. UNCHANGED <<pc, exc, cur, answered, corpus, progress, completed_examples,
                  resolved, query_results>>
  BY <1>1 DEF enqueue_rag_eval_run, Notify, request_rag_eval_run_cancel, workVars,
     envVars, rowVars
<1>3. /\ \A q \in Runs \ {r} : status'[q] = status[q] /\ suite'[q] = suite[q]
      /\ \/ status[r] = "absent" /\ status'[r] = "queued"
         \/ status[r] = "queued" /\ status'[r] = "cancelled" /\ suite' = suite
         \/ UNCHANGED <<status, suite>>
  BY <1>1 DEF enqueue_rag_eval_run, Notify, request_rag_eval_run_cancel, rowVars,
     IInv, TypeOK, RowsOK
<1>4. ResultsAreAllOrNothing' /\ UnclaimedRowsAreFresh'
  BY <1>2, <1>3 DEF RInv, ResultsAreAllOrNothing, UnclaimedRowsAreFresh
<1>5. pc \in ExecuteLabels => suite'[cur] = suite[cur]
  <2>1. pc \in ExecuteLabels =>
            cur \in Runs /\ status[cur] \in {"running", "completed"}
    BY ExecutedRowRuns DEF IInv, TypeOK, CoordinatorOK, ExecutionOwnsTheRunningRow,
       HasCompleted, RunningRuns
  <2> QED BY <1>3, <2>1
<1>6. ExecutionFacts'
  BY <1>2, <1>5 DEF RInv, ExecutionFacts
<1>7. NothingGoesBack
  BY <1>2, NoWriteGoesBack DEF IInv
<1> QED BY <1>4, <1>6, <1>7 DEF RInv

(* A process ends and starts without touching a row; only a process that *)
(* executes nothing yet may ship another suite.                          *)
LEMMA ProcessKeepsResults ==
    ASSUME IInv, RInv, Process
    PROVE  RInv' /\ NothingGoesBack
<1>1. UNCHANGED rowVars
  BY DEF Process, Crash, Shutdown, Exit, Restart, Halt
<1>2. ResultsAreAllOrNothing' /\ UnclaimedRowsAreFresh' /\ NothingGoesBack
  BY <1>1, NoWriteGoesBack DEF IInv, RInv, ResultsAreAllOrNothing,
     UnclaimedRowsAreFresh, rowVars
<1>3. CASE Shutdown
  <2>1. ExecutionFacts'
    BY <1>1, <1>3 DEF Shutdown, RInv, ExecutionFacts, rowVars, workVars
  <2> QED BY <1>2, <2>1 DEF RInv
<1>4. CASE pc' \in {"down", "loop"}
  <2>1. ExecutionFacts'
    BY <1>4, LoopHasNoExecution, LabelSets DEF LoopLabels
  <2> QED BY <1>2, <2>1 DEF RInv
<1> QED BY <1>3, <1>4 DEF Process, Crash, Exit, Restart, Halt

(* Nothing has been published or started at first. *)
LEMMA InitRInv == Init => RInv
<1> SUFFICES ASSUME Init PROVE RInv
  OBVIOUS
<1>1. ResultsAreAllOrNothing /\ UnclaimedRowsAreFresh
  BY DEF Init, ResultsAreAllOrNothing, UnclaimedRowsAreFresh
<1>2. "loop" \notin ExecuteLabels \cup FinishLabels \cup CleanupLabels
  BY LabelSets DEF LoopLabels, ExecuteLabels
<1> QED BY <1>1, <1>2 DEF Init, RInv, ExecutionFacts

(* Every step keeps the results and loses no progress. *)
LEMMA NextRInv ==
    ASSUME IInv, RInv, [Next]_vars
    PROVE  RInv' /\ NothingGoesBack
<1>1. CASE UNCHANGED vars
  <2>1. UNCHANGED <<rowVars, pc, exc, cur, answered, corpus>>
    BY <1>1 DEF vars, workVars, envVars
  <2>2. NothingGoesBack
    BY <2>1, NoWriteGoesBack DEF IInv, rowVars
  <2> QED BY <2>1, <2>2 DEF RInv, ResultsAreAllOrNothing, UnclaimedRowsAreFresh,
             ExecutionFacts, rowVars
<1> QED BY <1>1, ExecuteKeepsResults, LoopKeepsResults, ClaimKeepsResults,
           RequestKeepsResults, ProcessKeepsResults
           DEF Next, Coordinator, RecoveryLoop, AllRunsEnded

(* What a completed run publishes is complete and belongs to the suite it  *)
(* was queued for; every other run publishes nothing, whatever crashes,    *)
(* cancellations and releases of other suites come in between.             *)
THEOREM ResultsStayWhole == Spec => []ResultsAreAllOrNothing
<1>1. IInv /\ RInv /\ [Next]_vars => RInv'
  BY NextRInv
<1>2. RInv => ResultsAreAllOrNothing
  BY DEF RInv
<1> QED BY <1>1, <1>2, InitRInv, Inductive, PTL DEF Spec

(* The progress a client polls never goes back, for every number of        *)
(* examples the percents are computed from.                                *)
THEOREM ProgressAdvances == Spec => ProgressNeverGoesBack
<1> DEFINE Advance ==
        \A r \in Runs : /\ progress'[r] >= progress[r]
                        /\ completed_examples'[r] >= completed_examples[r]
<1>1. IInv /\ RInv /\ [Next]_vars => RInv' /\ [Advance]_vars
  BY NextRInv DEF NothingGoesBack
<1> QED BY <1>1, InitRInv, Inductive, PTL DEF Spec, ProgressNeverGoesBack

=============================================================================

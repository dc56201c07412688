------------------------ MODULE KnowledgeGraphsProofs ------------------------
(***************************************************************************)
(* Proofs about the builds of a knowledge graph, for every number of       *)
(* builds, stops and errors.  The first invariant says that a generation   *)
(* is activated once, so that what a build deletes is neither active nor   *)
(* cached.  The second, for histories without errors and overlapping       *)
(* builds, accounts for every generation in Neo4j and for the row.         *)
(***************************************************************************)
EXTENDS KnowledgeGraphs, TLAPS

-----------------------------------------------------------------------------
(* The inductive invariant. *)

(* A process that is not up runs no task and holds no request. *)
NothingRunsDown ==
    /\ app # "up" =>
          /\ \A j \in Jobs : /\ task[j].pc = "none"
                             /\ queue_request[j] = "none"
                             /\ pending_cancel[j] = "none"
          /\ ~turn.current_epoch /\ cache = {}
    /\ app = "recovering" => recovery.left = ActiveJobs

Before == {"start", "mark_running", "mark_building", "poll", "document",
           "verify", "last_poll", "activate"}

(* The build of j has activated nothing yet. *)
NotActivated(j) ==
    \/ jobs[j].status = "absent"
    \/ queue_request[j] # "none"
    \/ task[j].pc \in Before

(* A job is born with its row: no copy of it, and no trace.                *)
RequestsAreFresh ==
    \A j \in Jobs :
        /\ queue_request[j] # "none" => task[j].pc = "none"
        /\ queue_request[j] = "checked" => jobs[j].status = "absent"
        /\ queue_request[j] = "inserted" => jobs[j].status # "absent"
        /\ task[j].pc # "none" => jobs[j].status # "absent"
        /\ pending_cancel[j] # "none" => jobs[j].status # "absent"

(* A generation is activated once: what no build has activated yet is      *)
(* neither active nor the old generation of another build.                 *)
ActivatedOnce ==
    \A j \in Jobs : NotActivated(j) =>
        /\ graph.active # j
        /\ jobs[j].status # "completed"
        /\ \A i \in Jobs : task[i].old # j

(* The candidate of a build that may activate it has its nodes.            *)
CandidatesAreWritten ==
    \A j \in Jobs :
        /\ task[j].pc \in {"verify", "last_poll", "activate"} => j \in data
        /\ graph.active = j /\ task[j].pc \in {"complete", "delete_old"} => j \in data
        /\ jobs[j].status = "completed" => task[j].pc # "complete"
        
(* The generation a build is about to delete is not active, is not cached  *)
(* and is not in construction.                                             *)
OldIsSuperseded ==
    \A j \in Jobs :
        /\ task[j].pc \in {"complete", "delete_old"} => task[j].old # graph.active
        /\ task[j].pc = "delete_old" =>
              /\ task[j].old \notin cache
              /\ turn.current_epoch => turn.generation # task[j].old

(* What a turn is constructing is like what is cached. *)
TurnHoldsNoDeletedGeneration ==
    turn.current_epoch =>
        /\ turn.generation \in Jobs
        /\ jobs[turn.generation].status = "completed" =>
               turn.generation \in data \cup disowned \cup {graph.active}

OwnHandlersGiveUp ==
    \A j \in Jobs :
        task[j].pc = "give_up" /\ jobs[j].status = "completed" => j \in disowned

IInv ==
    /\ TypeOK
    /\ NothingRunsDown /\ RequestsAreFresh
    /\ ActivatedOnce /\ CandidatesAreWritten /\ OldIsSuperseded
    /\ OwnHandlersGiveUp /\ TurnHoldsNoDeletedGeneration
    /\ CompletedBuildsKeepTheirData /\ CacheHoldsNoDeletedGeneration

-----------------------------------------------------------------------------
(* What a step of a build does to its task. *)
Becomes(j, to) ==
    /\ task' \in [Jobs -> Tasks]
    /\ task'[j] = to
    /\ \A i \in Jobs \ {j} : task'[i] = task[i]

LEMMA TaskFields ==
    ASSUME NEW s \in Tasks
    PROVE  /\ s.pc \in BuildLabels \cup {"none"} /\ s.known \in GraphRows
           /\ s.store \in BOOLEAN /\ s.old \in Generations
           /\ s.outcome \in {"failed", "cancelled"}
BY DEF Tasks

LEMMA GraphFields ==
    ASSUME NEW g \in GraphRows
    PROVE  /\ g.status \in {"absent", "created", "building", "built", "failed",
                            "cancelled", "deleted"}
           /\ g.active \in Generations /\ g.locked \in BOOLEAN
BY DEF GraphRows

LEMMA JobFields ==
    ASSUME NEW r \in JobRows
    PROVE  /\ r.status \in {"absent", "queued", "running", "completed", "failed",
                            "cancelled"}
           /\ r.cancel_requested \in BOOLEAN
BY DEF JobRows

LEMMA NoTaskIsATask == NoTask \in Tasks /\ NoTask.pc = "none" /\ NoTask.store = FALSE
                       /\ NoTask.old = NoGeneration
BY DEF NoTask, Tasks, NoGraph, GraphRows, Generations, NoGeneration

LEMMA Updated ==
    ASSUME TypeOK, NEW j \in Jobs, NEW to \in Tasks, task' = [task EXCEPT ![j] = to]
    PROVE  Becomes(j, to)
BY DEF TypeOK, Becomes

LEMMA Went ==
    ASSUME TypeOK, NEW j \in Jobs, NEW label \in BuildLabels, Goes(j, label)
    PROVE  /\ Becomes(j, task'[j]) /\ task'[j].pc = label
           /\ task'[j].known = task[j].known /\ task'[j].store = task[j].store
           /\ task'[j].old = task[j].old /\ task'[j].outcome = task[j].outcome
<1> DEFINE to == [task[j] EXCEPT !.pc = label]
<1>1. task[j] \in Tasks
  BY DEF TypeOK
<1>2. /\ to \in Tasks /\ to.pc = label /\ to.known = task[j].known
      /\ to.store = task[j].store /\ to.old = task[j].old /\ to.outcome = task[j].outcome
  BY <1>1 DEF Tasks
<1>3. task' = [task EXCEPT ![j] = to]
  BY DEF Goes
<1> HIDE DEF to
<1> QED
  BY <1>2, <1>3, Updated DEF Becomes

LEMMA WentKnowing ==
    ASSUME TypeOK, graph' \in GraphRows, NEW j \in Jobs, NEW label \in BuildLabels,
           GoesKnowing(j, label)
    PROVE  /\ Becomes(j, task'[j]) /\ task'[j].pc = label
           /\ task'[j].known = graph' /\ task'[j].store = task[j].store
           /\ task'[j].old = task[j].old
<1> DEFINE to == [task[j] EXCEPT !.pc = label, !.known = graph']
<1>1. task[j] \in Tasks
  BY DEF TypeOK
<1>2. /\ to \in Tasks /\ to.pc = label /\ to.known = graph'
      /\ to.store = task[j].store /\ to.old = task[j].old
  BY <1>1 DEF Tasks
<1>3. task' = [task EXCEPT ![j] = to]
  BY DEF GoesKnowing
<1> HIDE DEF to
<1> QED
  BY <1>2, <1>3, Updated DEF Becomes

LEMMA GaveUp ==
    ASSUME TypeOK, NEW j \in Jobs, NEW outcome \in {"failed", "cancelled"},
           GivesUp(j, outcome)
    PROVE  /\ Becomes(j, task'[j]) /\ task'[j].pc = "give_up"
           /\ task'[j].known = task[j].known /\ task'[j].store = task[j].store
           /\ task'[j].old = task[j].old /\ task'[j].outcome = outcome
<1> DEFINE to == [task[j] EXCEPT !.pc = "give_up", !.outcome = outcome]
<1>1. task[j] \in Tasks
  BY DEF TypeOK
<1>2. /\ to \in Tasks /\ to.pc = "give_up" /\ to.known = task[j].known
      /\ to.store = task[j].store /\ to.old = task[j].old /\ to.outcome = outcome
  BY <1>1 DEF Tasks, BuildLabels
<1>3. task' = [task EXCEPT ![j] = to]
  BY DEF GivesUp
<1> HIDE DEF to
<1> QED
  BY <1>2, <1>3, Updated DEF Becomes

LEMMA Ended ==
    ASSUME TypeOK, NEW j \in Jobs, Ends(j)
    PROVE  /\ Becomes(j, NoTask) /\ task'[j].pc = "none" /\ task'[j].store = FALSE
           /\ task'[j].old = NoGeneration
BY NoTaskIsATask, Updated DEF Ends, Becomes

-----------------------------------------------------------------------------
(* What any step of a build does, as far as the generations are concerned. *)
BuildStep(j) ==
    /\ task[j].pc # "none"
    /\ task' \in [Jobs -> Tasks] /\ jobs' \in [Jobs -> JobRows] /\ graph' \in GraphRows
    /\ data' \subseteq Jobs /\ faults' \in 0..MaxFaults /\ faults' >= faults
    /\ \A i \in Jobs \ {j} : task'[i] = task[i] /\ jobs'[i] = jobs[i]
    /\ task'[j].pc \in Before => task[j].pc \in Before
    /\ task'[j].pc \in {"verify", "last_poll", "activate"} =>
          \/ task[j].pc = "document" /\ j \in data'
          \/ task[j].pc \in {"verify", "last_poll"} /\ data' = data
    /\ task'[j].pc = "complete" =>
          /\ task[j].pc = "activate" /\ graph'.active = j
          /\ task'[j].old = task[j].old /\ data' = data /\ jobs' = jobs
    /\ task'[j].pc = "delete_old" =>
          /\ task[j].pc = "complete" /\ task'[j].old = task[j].old
          /\ data' = data /\ cache' = {} /\ ~turn'.current_epoch
    /\ task'[j].pc = "give_up" => task[j].pc \in Before \/ j \in disowned'
    /\ task'[j].old \in {NoGeneration, task[j].old, graph.active}
    /\ graph'.active # graph.active =>
          /\ task[j].pc = "activate" /\ task'[j].pc \in {"complete", "none"}
          /\ graph'.active = j /\ data' = data /\ jobs' = jobs
    /\ jobs'[j].status = "absent" => jobs[j].status = "absent"
    /\ jobs'[j].status = "completed" /\ jobs[j].status # "completed" =>
          /\ task[j].pc = "complete" /\ task'[j].pc \in {"delete_old", "none"}
          /\ data' = data /\ cache' = {} /\ ~turn'.current_epoch
    /\ \A g \in data \ data' :
          \/ g = j /\ task[j].pc \in Before \cup {"give_up"} /\ task'[j].pc \in {"none", "give_up_graph"}
          \/ g = task[j].old /\ task[j].pc = "delete_old" /\ task'[j].pc = "none"
    /\ disowned \subseteq disowned' /\ disowned' \subseteq Jobs
    /\ \/ UNCHANGED <<cache, turn>>
       \/ cache' = {} /\ turn' = [turn EXCEPT !.current_epoch = FALSE]
    /\ UNCHANGED <<queue_request, deletion, pending_cancel, creation, appVars,
                   overtaken, overlapped>>

BuildFrame(j) ==
    /\ IF At(j, "complete") THEN clear_negotiation_graph_cache_for_knowledge_graph
       ELSE UNCHANGED requestVars
    /\ disowned' = IF At(j, "delete_old") /\ task'[j].pc = "give_up"
                   THEN disowned \cup {j} ELSE disowned
    /\ UNCHANGED <<appVars, overtaken, overlapped>>

LEMMA FrameFacts ==
    ASSUME TypeOK, NEW j \in Jobs, BuildFrame(j)
    PROVE  /\ \/ UNCHANGED <<cache, turn>>
              \/ cache' = {} /\ turn' = [turn EXCEPT !.current_epoch = FALSE]
           /\ task[j].pc = "complete" => cache' = {} /\ ~turn'.current_epoch
           /\ task[j].pc = "delete_old" /\ task'[j].pc = "give_up" => j \in disowned'
           /\ disowned \subseteq disowned' /\ disowned' \subseteq Jobs
           /\ UNCHANGED <<queue_request, deletion, pending_cancel, creation, appVars,
                          overtaken, overlapped>>
<1>1. task[j].pc = "complete" => cache' = {} /\ turn' = [turn EXCEPT !.current_epoch = FALSE]
                                 /\ UNCHANGED <<queue_request, deletion, pending_cancel, creation>>
  BY DEF BuildFrame, At, clear_negotiation_graph_cache_for_knowledge_graph
<1>2. task[j].pc # "complete" => UNCHANGED requestVars
  BY DEF BuildFrame, At
<1>3. turn \in [generation : Generations, current_epoch : BOOLEAN]
  BY DEF TypeOK
<1>4. task[j].pc = "complete" => ~turn'.current_epoch
  BY <1>1, <1>3
<1>5. disowned \subseteq disowned' /\ disowned' \subseteq Jobs
  BY DEF BuildFrame, TypeOK
<1>6. task[j].pc = "delete_old" /\ task'[j].pc = "give_up" => j \in disowned'
  BY DEF BuildFrame, At
<1> QED
  BY <1>1, <1>2, <1>4, <1>5, <1>6 DEF BuildFrame, requestVars

-----------------------------------------------------------------------------
(* Every action of a build is such a step. *)
LEMMA TypesOfARow ==
    ASSUME TypeOK, NEW j \in Jobs
    PROVE  /\ task[j] \in Tasks /\ jobs[j] \in JobRows /\ graph \in GraphRows
           /\ task[j].known \in GraphRows /\ data \subseteq Jobs /\ faults \in 0..MaxFaults
           /\ task \in [Jobs -> Tasks] /\ jobs \in [Jobs -> JobRows]
BY TaskFields DEF TypeOK

(* An error counts; a task that dies leaves what it has committed. *)
LEMMA Counted ==
    ASSUME TypeOK, Error
    PROVE  faults' \in 0..MaxFaults /\ faults' >= faults /\ faults' # 0
BY StopsAndFaultsAssumption DEF TypeOK, Error

LEMMA RowRewritten ==
    ASSUME TypeOK, NEW j \in Jobs, NEW r \in JobRows, jobs' = [jobs EXCEPT ![j] = r]
    PROVE  /\ jobs' \in [Jobs -> JobRows] /\ jobs'[j] = r
           /\ \A i \in Jobs \ {j} : jobs'[i] = jobs[i]
BY DEF TypeOK

LEMMA StatusWritten ==
    ASSUME TypeOK, NEW j \in Jobs,
           NEW status \in {"queued", "running", "completed", "failed", "cancelled"},
           jobs' = [jobs EXCEPT ![j].status = status]
    PROVE  /\ jobs' \in [Jobs -> JobRows] /\ jobs'[j].status = status
           /\ jobs'[j].cancel_requested = jobs[j].cancel_requested
           /\ \A i \in Jobs \ {j} : jobs'[i] = jobs[i]
<1> DEFINE r == [jobs[j] EXCEPT !.status = status]
<1>1. r \in JobRows /\ r.status = status /\ r.cancel_requested = jobs[j].cancel_requested
  BY TypesOfARow DEF JobRows
<1>2. jobs' = [jobs EXCEPT ![j] = r]
  OBVIOUS
<1> HIDE DEF r
<1> QED
  BY <1>1, <1>2, RowRewritten

LEMMA GraphStatusWritten ==
    ASSUME TypeOK, NEW j \in Jobs,
           NEW status \in {"building", "built", "failed", "cancelled"},
           graph' = [graph EXCEPT !.status = Written(j, status)]
    PROVE  /\ graph' \in GraphRows /\ graph'.active = graph.active
           /\ graph'.status = Written(j, status) /\ graph'.locked = graph.locked
<1>1. Written(j, status) \in {graph.status, status}
  BY DEF Written
<1>2. Written(j, status) \in {"absent", "created", "building", "built", "failed",
                             "cancelled", "deleted"}
  BY <1>1, TypesOfARow, GraphFields
<1> QED
  BY <1>2, TypesOfARow DEF GraphRows

LEMMA ActivatedRow ==
    ASSUME TypeOK, NEW j \in Jobs,
           graph' = [graph EXCEPT !.active = j, !.status = Written(j, "built")]
    PROVE  /\ graph' \in GraphRows /\ graph'.active = j
           /\ graph'.status = Written(j, "built") /\ graph'.locked = graph.locked
<1>1. Written(j, "built") \in {graph.status, "built"}
  BY DEF Written
<1>2. Written(j, "built") \in {"absent", "created", "building", "built", "failed",
                              "cancelled", "deleted"}
  BY <1>1, TypesOfARow, GraphFields
<1>3. j \in Generations
  BY DEF Generations
<1> QED
  BY <1>2, <1>3, TypesOfARow DEF GraphRows

LEMMA Dying ==
    ASSUME TypeOK, NEW j \in Jobs, Ends(j), Error
    PROVE  /\ task' \in [Jobs -> Tasks] /\ \A i \in Jobs \ {j} : task'[i] = task[i]
           /\ task'[j].pc = "none" /\ task'[j].old = NoGeneration /\ task'[j].store = FALSE
           /\ faults' \in 0..MaxFaults /\ faults' >= faults /\ faults' # 0
BY Ended, Counted DEF Becomes

LEMMA StartIs ==
    ASSUME TypeOK, NEW j \in Jobs, Start(j), BuildFrame(j)
    PROVE  BuildStep(j)
<1>1. CASE jobs[j].status # "queued" /\ Quietly(Ends(j))
  <2>1. /\ Becomes(j, NoTask) /\ task'[j].pc = "none" /\ task'[j].old = NoGeneration
        /\ UNCHANGED <<graph, jobs, data, faults>> /\ task[j].pc = "start"
    BY <1>1, Ended DEF Start, At, Quietly, rowVars
  <2> QED
    BY <2>1, FrameFacts, TypesOfARow DEF BuildStep, Becomes, Before
<1>2. CASE jobs[j].status = "queued" /\ UNCHANGED <<rowVars, faults>>
           /\ task' = [task EXCEPT
                 ![j].pc = IF graph.locked THEN "give_up" ELSE "mark_running",
                 ![j].known = graph]
  <2> DEFINE to == [task[j] EXCEPT
                 !.pc = IF graph.locked THEN "give_up" ELSE "mark_running",
                 !.known = graph]
  <2>1. /\ to \in Tasks /\ to.pc \in {"give_up", "mark_running"} /\ to.old = task[j].old
    BY TypesOfARow DEF Tasks, BuildLabels
  <2>2. Becomes(j, to)
    BY <1>2, <2>1, Updated
  <2> HIDE DEF to
  <2> QED
    BY <1>2, <2>1, <2>2, FrameFacts, TypesOfARow DEF Start, At, rowVars, BuildStep, Becomes, Before
<1> QED
  BY <1>1, <1>2 DEF Start, Quietly

LEMMA MarkRunningIs ==
    ASSUME TypeOK, NEW j \in Jobs, MarkRunning(j), BuildFrame(j)
    PROVE  BuildStep(j)
<1>1. task[j].pc = "mark_running"
  BY DEF MarkRunning, At
<1>2. \/ UNCHANGED jobs
      \/ /\ jobs' \in [Jobs -> JobRows] /\ jobs'[j].status = "running"
         /\ \A i \in Jobs \ {j} : jobs'[i] = jobs[i]
  BY StatusWritten DEF MarkRunning, Commits, update_knowledge_graph_build_job
<1>3. CASE Goes(j, "mark_building") /\ UNCHANGED <<data, faults>>
  BY <1>1, <1>2, <1>3, Went, FrameFacts, TypesOfARow
     DEF MarkRunning, Commits, update_knowledge_graph_build_job, TaskDies,
         BuildStep, Becomes, Before, BuildLabels
<1>4. CASE TaskDies(j)
  BY <1>1, <1>2, <1>4, Dying, FrameFacts, TypesOfARow
     DEF MarkRunning, Commits, update_knowledge_graph_build_job, TaskDies,
         BuildStep, Before, BuildLabels
<1> QED
  BY <1>3, <1>4 DEF MarkRunning, Commits

LEMMA MarkBuildingIs ==
    ASSUME TypeOK, NEW j \in Jobs, MarkBuilding(j), BuildFrame(j)
    PROVE  BuildStep(j)
<1>1. task[j].pc = "mark_building"
  BY DEF MarkBuilding, At
<1>2. graph' \in GraphRows /\ graph'.active = graph.active /\ UNCHANGED jobs
  BY GraphStatusWritten, TypesOfARow DEF MarkBuilding, Commits, SetsGraph
<1>3. CASE GoesKnowing(j, "poll") /\ UNCHANGED <<data, faults>>
  BY <1>1, <1>2, <1>3, WentKnowing, FrameFacts, TypesOfARow
     DEF BuildStep, Becomes, Before, BuildLabels
<1>4. CASE TaskDies(j)
  BY <1>1, <1>2, <1>4, Dying, FrameFacts, TypesOfARow
     DEF TaskDies, BuildStep, Before, BuildLabels
<1> QED
  BY <1>3, <1>4 DEF MarkBuilding, Commits

LEMMA SelectFailsIs ==
    ASSUME TypeOK, NEW j \in Jobs, SelectFails(j), BuildFrame(j), task[j].pc \in Before
    PROVE  BuildStep(j)
<1>1. data' \subseteq data /\ data \ data' \subseteq {j} /\ UNCHANGED <<graph, jobs>>
  BY DEF SelectFails
<1> QED
  BY <1>1, Dying, FrameFacts, TypesOfARow DEF SelectFails, BuildStep, Before

LEMMA CancelledIs ==
    ASSUME TypeOK, NEW j \in Jobs, Quietly(GivesUp(j, "cancelled")) \/ Quietly(GivesUp(j, "failed")),
           BuildFrame(j), task[j].pc \in Before
    PROVE  BuildStep(j)
<1>1. /\ Becomes(j, task'[j]) /\ task'[j].pc = "give_up" /\ task'[j].old = task[j].old
      /\ UNCHANGED <<graph, jobs, data, faults>>
  BY GaveUp DEF Quietly, rowVars
<1> QED
  BY <1>1, FrameFacts, TypesOfARow DEF BuildStep, Becomes, Before

LEMMA PollIs ==
    ASSUME TypeOK, NEW j \in Jobs, Poll(j), BuildFrame(j)
    PROVE  BuildStep(j)
<1>1. task[j].pc = "poll" /\ task[j].pc \in Before
  BY DEF Poll, At, Before
<1>2. CASE Cancelled(j)
  BY <1>1, <1>2, CancelledIs DEF Cancelled
<1>3. CASE Quietly(GivesUp(j, "failed"))
  BY <1>1, <1>3, CancelledIs
<1>4. CASE Quietly(_create_scoped_store(j))
  <2> DEFINE to == [task[j] EXCEPT !.pc = "document", !.store = TRUE]
  <2>1. /\ to \in Tasks /\ to.pc = "document" /\ to.old = task[j].old
    BY TypesOfARow DEF Tasks, BuildLabels
  <2>2. Becomes(j, to)
    BY <1>4, <2>1, Updated DEF Quietly, _create_scoped_store
  <2> HIDE DEF to
  <2> QED
    BY <1>1, <1>4, <2>1, <2>2, FrameFacts, TypesOfARow
       DEF Quietly, rowVars, BuildStep, Becomes, Before
<1>5. CASE SelectFails(j)
  BY <1>1, <1>5, SelectFailsIs
<1> QED
  BY <1>2, <1>3, <1>4, <1>5 DEF Poll

LEMMA DocumentIs ==
    ASSUME TypeOK, NEW j \in Jobs, Document(j), BuildFrame(j)
    PROVE  BuildStep(j)
<1>1. task[j].pc = "document" /\ task[j].pc \in Before
  BY DEF Document, At, Before
<1>2. CASE Cancelled(j)
  BY <1>1, <1>2, CancelledIs DEF Cancelled
<1>3. CASE /\ \E label \in {"document", "verify"} : Goes(j, label)
           /\ data' = upsert_nodes(j)
           /\ UNCHANGED <<graph, jobs, faults>>
  <2>1. /\ Becomes(j, task'[j]) /\ task'[j].pc \in {"document", "verify"}
        /\ task'[j].old = task[j].old
    BY <1>3, Went DEF BuildLabels
  <2> QED
    BY <1>1, <1>3, <2>1, FrameFacts, TypesOfARow
       DEF upsert_nodes, BuildStep, Becomes, Before
<1>4. CASE /\ GivesUp(j, "failed")
           /\ data' \in {data, upsert_nodes(j)}
           /\ UNCHANGED <<graph, jobs, faults>>
  BY <1>1, <1>4, GaveUp, FrameFacts, TypesOfARow
     DEF upsert_nodes, BuildStep, Becomes, Before
<1>5. CASE SelectFails(j)
  BY <1>1, <1>5, SelectFailsIs
<1>6. CASE TaskDies(j) /\ UNCHANGED <<graph, jobs>>
  BY <1>1, <1>6, Dying, FrameFacts, TypesOfARow DEF TaskDies, BuildStep, Before
<1> QED
  BY <1>2, <1>3, <1>4, <1>5, <1>6 DEF Document

LEMMA VerifyIs ==
    ASSUME TypeOK, NEW j \in Jobs, Verify(j), BuildFrame(j)
    PROVE  BuildStep(j)
<1>1. task[j].pc = "verify"
  BY DEF Verify, At
<1>2. /\ Becomes(j, task'[j]) /\ task'[j].pc \in {"last_poll", "give_up"}
      /\ task'[j].old = task[j].old
  BY Went DEF Verify, Quietly, BuildLabels
<1> QED
  BY <1>1, <1>2, FrameFacts, TypesOfARow DEF Verify, Quietly, rowVars, BuildStep, Becomes, Before

LEMMA LastPollIs ==
    ASSUME TypeOK, NEW j \in Jobs, LastPoll(j), BuildFrame(j)
    PROVE  BuildStep(j)
<1>1. task[j].pc = "last_poll" /\ task[j].pc \in Before
  BY DEF LastPoll, At, Before
<1>2. CASE Cancelled(j)
  BY <1>1, <1>2, CancelledIs DEF Cancelled
<1>3. CASE /\ task' = [task EXCEPT
                 ![j].pc = IF graph.locked THEN "give_up" ELSE "activate",
                 ![j].known = graph,
                 ![j].old = graph.active]
           /\ UNCHANGED <<rowVars, faults>>
  <2> DEFINE to == [task[j] EXCEPT
                 !.pc = IF graph.locked THEN "give_up" ELSE "activate",
                 !.known = graph,
                 !.old = graph.active]
  <2>1. to \in Tasks /\ to.pc \in {"give_up", "activate"} /\ to.old = graph.active
    BY TypesOfARow, GraphFields DEF Tasks, BuildLabels
  <2>2. Becomes(j, to)
    BY <1>3, <2>1, Updated, ZenonT(60)
  <2> HIDE DEF to
  <2> QED
    BY <1>1, <1>3, <2>1, <2>2, FrameFacts, TypesOfARow DEF rowVars, BuildStep, Becomes, Before
<1>4. CASE SelectFails(j)
  BY <1>1, <1>4, SelectFailsIs
<1> QED
  BY <1>2, <1>3, <1>4 DEF LastPoll, Quietly

LEMMA ActivateIs ==
    ASSUME TypeOK, NEW j \in Jobs, Activate(j), BuildFrame(j)
    PROVE  BuildStep(j)
<1>1. task[j].pc = "activate"
  BY DEF Activate, At
<1>2. CASE SetsGraph(j, [graph EXCEPT !.active = j, !.status = Written(j, "built")])
           /\ GoesKnowing(j, "complete") /\ UNCHANGED <<data, faults>>
  <2>1. graph' \in GraphRows /\ graph'.active = j /\ UNCHANGED jobs
    BY <1>2, ActivatedRow DEF SetsGraph
  <2> QED
    BY <1>1, <1>2, <2>1, WentKnowing, FrameFacts, TypesOfARow
       DEF BuildStep, Becomes, Before, BuildLabels
<1>3. CASE SetsGraph(j, [graph EXCEPT !.active = j, !.status = Written(j, "built")])
           /\ TaskDies(j)
  <2>1. graph' \in GraphRows /\ graph'.active = j /\ UNCHANGED jobs
    BY <1>3, ActivatedRow DEF SetsGraph
  <2> QED
    BY <1>1, <1>3, <2>1, Dying, FrameFacts, TypesOfARow DEF TaskDies, BuildStep, Before
<1>4. CASE TaskDies(j) /\ UNCHANGED <<graph, jobs>>
  BY <1>1, <1>4, Dying, FrameFacts, TypesOfARow DEF TaskDies, BuildStep, Before
<1> QED
  BY <1>2, <1>3, <1>4 DEF Activate, Commits

LEMMA CompleteIs ==
    ASSUME TypeOK, NEW j \in Jobs, Complete(j), BuildFrame(j)
    PROVE  BuildStep(j)
<1>1. task[j].pc = "complete"
  BY DEF Complete, At
<1>2. /\ jobs' \in [Jobs -> JobRows] /\ \A i \in Jobs \ {j} : jobs'[i] = jobs[i]
      /\ UNCHANGED jobs \/ jobs'[j].status = "completed"
      /\ UNCHANGED graph
  BY StatusWritten, TypesOfARow DEF Complete, Commits, update_knowledge_graph_build_job
<1>3. CASE Goes(j, "delete_old") /\ UNCHANGED <<data, faults>>
  BY <1>1, <1>2, <1>3, Went, FrameFacts, TypesOfARow
     DEF BuildStep, Becomes, Before, BuildLabels
<1>4. CASE TaskDies(j)
  BY <1>1, <1>2, <1>4, Dying, FrameFacts, TypesOfARow
     DEF TaskDies, BuildStep, Before, BuildLabels
<1> QED
  BY <1>3, <1>4 DEF Complete, Commits

LEMMA DeleteOldIs ==
    ASSUME TypeOK, NEW j \in Jobs, DeleteOld(j), BuildFrame(j)
    PROVE  BuildStep(j)
<1>1. task[j].pc = "delete_old" /\ UNCHANGED <<graph, jobs>>
  BY DEF DeleteOld, At
<1>2. CASE data' = data \ {task[j].old} /\ Ends(j) /\ UNCHANGED faults
  <2>1. /\ Becomes(j, NoTask) /\ task'[j].pc = "none" /\ task'[j].old = NoGeneration
    BY <1>2, Ended
  <2> QED
    BY <1>1, <1>2, <2>1, FrameFacts, TypesOfARow DEF BuildStep, Becomes, Before
<1>3. CASE Error /\ GivesUp(j, "failed") /\ UNCHANGED data
  BY <1>1, <1>3, GaveUp, Counted, FrameFacts, TypesOfARow DEF BuildStep, Becomes, Before
<1> QED
  BY <1>2, <1>3 DEF DeleteOld

LEMMA GiveUpIs ==
    ASSUME TypeOK, NEW j \in Jobs, GiveUp(j), BuildFrame(j)
    PROVE  BuildStep(j)
<1>1. /\ task[j].pc = "give_up" /\ UNCHANGED <<graph, jobs>>
      /\ data' \subseteq data /\ data \ data' \subseteq {j}
  BY DEF GiveUp, At
<1>2. CASE Goes(j, "give_up_graph") /\ UNCHANGED faults
  BY <1>1, <1>2, Went, FrameFacts, TypesOfARow DEF BuildStep, Becomes, Before, BuildLabels
<1>3. CASE Error /\ Ends(j)
  BY <1>1, <1>3, Dying, FrameFacts, TypesOfARow DEF BuildStep, Before
<1> QED
  BY <1>2, <1>3 DEF GiveUp

LEMMA GiveUpGraphIs ==
    ASSUME TypeOK, NEW j \in Jobs, GiveUpGraph(j), BuildFrame(j)
    PROVE  BuildStep(j)
<1> DEFINE status == IF task[j].known.active = NoGeneration THEN task[j].outcome
                     ELSE "built"
<1>1. status \in {"building", "built", "failed", "cancelled"}
  BY TypesOfARow, TaskFields
<1>2. At(j, "give_up_graph")
      /\ Commits(j, SetsGraph(j, [graph EXCEPT !.status = Written(j, status)]),
                 Goes(j, "give_up_job"))
  BY DEF GiveUpGraph
<1> HIDE DEF status
<1>3. graph' \in GraphRows /\ graph'.active = graph.active /\ UNCHANGED jobs
  BY <1>1, <1>2, GraphStatusWritten, TypesOfARow DEF Commits, SetsGraph
<1>4. CASE Goes(j, "give_up_job") /\ UNCHANGED <<data, faults>>
  BY <1>2, <1>3, <1>4, Went, FrameFacts, TypesOfARow DEF At, BuildStep, Becomes, Before, BuildLabels
<1>5. CASE TaskDies(j)
  BY <1>2, <1>3, <1>5, Dying, FrameFacts, TypesOfARow DEF At, TaskDies, BuildStep, Before
<1> QED
  BY <1>2, <1>4, <1>5 DEF Commits

LEMMA GiveUpJobIs ==
    ASSUME TypeOK, NEW j \in Jobs, GiveUpJob(j), BuildFrame(j)
    PROVE  BuildStep(j)
<1> DEFINE r == IF task[j].outcome = "cancelled"
                THEN mark_knowledge_graph_build_job_cancelled
                ELSE [jobs[j] EXCEPT !.status = "failed"]
<1>1. r \in JobRows /\ r.status \in {"failed", "cancelled"}
  BY TypesOfARow DEF JobRows, mark_knowledge_graph_build_job_cancelled
<1>2. /\ task[j].pc = "give_up_job"
      /\ Commits(j, jobs' = [jobs EXCEPT ![j] = r] /\ UNCHANGED graph, Ends(j))
  BY DEF GiveUpJob, At
<1> HIDE DEF r
<1>3. /\ jobs' \in [Jobs -> JobRows] /\ \A i \in Jobs \ {j} : jobs'[i] = jobs[i]
      /\ UNCHANGED jobs \/ jobs'[j].status \in {"failed", "cancelled"}
      /\ UNCHANGED graph
  BY <1>1, <1>2, RowRewritten, TypesOfARow DEF Commits
<1>4. CASE Ends(j) /\ UNCHANGED <<data, faults>>
  <2>1. /\ Becomes(j, NoTask) /\ task'[j].pc = "none" /\ task'[j].old = NoGeneration
    BY <1>4, Ended
  <2> QED
    BY <1>2, <1>3, <1>4, <2>1, FrameFacts, TypesOfARow DEF BuildStep, Becomes, Before
<1>5. CASE TaskDies(j)
  BY <1>2, <1>3, <1>5, Dying, FrameFacts, TypesOfARow DEF TaskDies, BuildStep, Before
<1> QED
  BY <1>2, <1>4, <1>5 DEF Commits

LEMMA BuildIsAStep ==
    ASSUME TypeOK, NEW j \in Jobs, Build(j)
    PROVE  BuildStep(j)
<1>1. BuildFrame(j)
  BY DEF Build, BuildFrame
<1> QED
  BY <1>1, StartIs, MarkRunningIs, MarkBuildingIs, PollIs, DocumentIs, VerifyIs,
     LastPollIs, ActivateIs, CompleteIs, DeleteOldIs, GiveUpIs, GiveUpGraphIs,
     GiveUpJobIs DEF Build

-----------------------------------------------------------------------------
(* A step of a build keeps the invariant. *)
LEMMA BuildKeepsTypes ==
    ASSUME IInv, NEW j \in Jobs, BuildStep(j)
    PROVE  TypeOK'
<1>1. turn' \in [generation : Generations, current_epoch : BOOLEAN] /\ cache' \subseteq Jobs
  BY DEF BuildStep, IInv, TypeOK
<1>2. disowned' \subseteq Jobs /\ faults' \in 0..MaxFaults /\ data' \subseteq Jobs
      /\ graph' \in GraphRows /\ jobs' \in [Jobs -> JobRows] /\ task' \in [Jobs -> Tasks]
  BY DEF BuildStep
<1>3. UNCHANGED <<queue_request, deletion, pending_cancel, creation, app, recovery, stops,
                  overtaken, overlapped>>
  BY DEF BuildStep, appVars
<1> QED
  BY <1>1, <1>2, <1>3 DEF IInv, TypeOK

LEMMA BuildKeepsRequests ==
    ASSUME IInv, NEW j \in Jobs, BuildStep(j)
    PROVE  NothingRunsDown' /\ RequestsAreFresh'
<1>1. UNCHANGED <<queue_request, pending_cancel, app, recovery>>
  BY DEF BuildStep, appVars
<1>2. app = "up" /\ task[j].pc # "none" /\ queue_request[j] = "none" /\ jobs[j].status # "absent"
  BY DEF BuildStep, IInv, NothingRunsDown, RequestsAreFresh
<1>3. /\ jobs'[j].status # "absent"
      /\ \A i \in Jobs \ {j} : task'[i] = task[i] /\ jobs'[i] = jobs[i]
  BY <1>2 DEF BuildStep
<1>4. NothingRunsDown'
  BY <1>1, <1>2 DEF NothingRunsDown
<1>5. RequestsAreFresh'
  BY <1>1, <1>2, <1>3 DEF IInv, RequestsAreFresh
<1> QED
  BY <1>4, <1>5

LEMMA BuildKeepsActivations ==
    ASSUME IInv, NEW j \in Jobs, BuildStep(j)
    PROVE  ActivatedOnce'
<1> SUFFICES ASSUME NEW k \in Jobs, NotActivated(k)'
             PROVE  /\ graph'.active # k /\ jobs'[k].status # "completed"
                    /\ \A i \in Jobs : task'[i].old # k
  BY DEF ActivatedOnce
<1>1. NotActivated(k)
  BY DEF NotActivated, BuildStep
<1>2. /\ graph.active # k /\ jobs[k].status # "completed"
      /\ \A i \in Jobs : task[i].old # k
  BY <1>1 DEF IInv, ActivatedOnce
<1>3. k # NoGeneration
  BY DEF Jobs, NoGeneration
<1>4. \A i \in Jobs : task'[i].old # k
  BY <1>2, <1>3 DEF BuildStep
<1>5. k = j => task'[j].pc \in Before
  BY DEF NotActivated, BuildStep, IInv, RequestsAreFresh
<1>6. graph'.active # k
  BY <1>2, <1>5 DEF BuildStep, Before
<1>7. jobs'[k].status # "completed"
  BY <1>2, <1>5 DEF BuildStep, Before
<1> QED
  BY <1>4, <1>6, <1>7

LEMMA BuildKeepsCandidates ==
    ASSUME IInv, NEW j \in Jobs, BuildStep(j)
    PROVE  CandidatesAreWritten'
<1> SUFFICES ASSUME NEW k \in Jobs
             PROVE  /\ task'[k].pc \in {"verify", "last_poll", "activate"} => k \in data'
                    /\ graph'.active = k /\ task'[k].pc \in {"complete", "delete_old"} => k \in data'
                    /\ jobs'[k].status = "completed" => task'[k].pc # "complete"
  BY DEF CandidatesAreWritten
<1>1. /\ task[k].pc \in {"verify", "last_poll", "activate"} => k \in data
      /\ graph.active = k /\ task[k].pc \in {"complete", "delete_old"} => k \in data
      /\ jobs[k].status = "completed" => task[k].pc # "complete"
  BY DEF IInv, CandidatesAreWritten
<1>2. task[k].pc \in Before => task[j].old # k /\ jobs[k].status # "completed" /\ graph.active # k
  BY DEF IInv, ActivatedOnce, NotActivated
<1>3. task[j].pc = "delete_old" => task[j].old # graph.active
  BY DEF IInv, OldIsSuperseded
<1>4. CASE k = j
  BY <1>1, <1>2, <1>4 DEF BuildStep, Before
<1>5. CASE k # j
  <2>1. task'[k] = task[k] /\ jobs'[k] = jobs[k]
    BY <1>5 DEF BuildStep
  <2>2. k \in data /\ k \notin data' => k = task[j].old /\ task[j].pc = "delete_old"
    BY <1>5 DEF BuildStep
  <2>3. graph'.active = k => graph.active = k
    BY <1>5 DEF BuildStep
  <2> QED
    BY <1>1, <1>2, <1>3, <2>1, <2>2, <2>3 DEF Before
<1> QED
  BY <1>4, <1>5

LEMMA BuildKeepsOld ==
    ASSUME IInv, NEW j \in Jobs, BuildStep(j)
    PROVE  OldIsSuperseded'
<1> SUFFICES ASSUME NEW k \in Jobs
             PROVE  /\ task'[k].pc \in {"complete", "delete_old"} => task'[k].old # graph'.active
                    /\ task'[k].pc = "delete_old" =>
                          /\ task'[k].old \notin cache'
                          /\ turn'.current_epoch => turn'.generation # task'[k].old
  BY DEF OldIsSuperseded
<1>1. /\ task[k].pc \in {"complete", "delete_old"} => task[k].old # graph.active
      /\ task[k].pc = "delete_old" =>
            /\ task[k].old \notin cache
            /\ turn.current_epoch => turn.generation # task[k].old
  BY DEF IInv, OldIsSuperseded
<1>2. task[j].pc = "activate" => \A i \in Jobs : task[i].old # j
  BY DEF IInv, ActivatedOnce, NotActivated, Before
<1>3. turn \in [generation : Generations, current_epoch : BOOLEAN]
  BY DEF IInv, TypeOK
<1>4. /\ cache' \subseteq cache
      /\ turn'.current_epoch => turn.current_epoch /\ turn'.generation = turn.generation
  BY <1>3 DEF BuildStep
<1>5. CASE k = j
  BY <1>1, <1>2, <1>4, <1>5 DEF BuildStep
<1>6. CASE k # j
  <2>1. task'[k] = task[k]
    BY <1>6 DEF BuildStep
  <2>2. graph'.active # graph.active => task[j].pc = "activate" /\ graph'.active = j
    BY DEF BuildStep
  <2> QED
    BY <1>1, <1>2, <1>4, <2>1, <2>2
<1> QED
  BY <1>5, <1>6

LEMMA BuildKeepsHandlers ==
    ASSUME IInv, NEW j \in Jobs, BuildStep(j)
    PROVE  OwnHandlersGiveUp'
<1> SUFFICES ASSUME NEW k \in Jobs, task'[k].pc = "give_up", jobs'[k].status = "completed"
             PROVE  k \in disowned'
  BY DEF OwnHandlersGiveUp
<1>1. task[k].pc = "give_up" /\ jobs[k].status = "completed" => k \in disowned
  BY DEF IInv, OwnHandlersGiveUp
<1>2. task[k].pc \in Before => jobs[k].status # "completed"
  BY DEF IInv, ActivatedOnce, NotActivated
<1>3. disowned \subseteq disowned'
  BY DEF BuildStep
<1>4. CASE k = j
  BY <1>1, <1>2, <1>3, <1>4 DEF BuildStep, Before
<1>5. CASE k # j
  BY <1>1, <1>3, <1>5 DEF BuildStep
<1> QED
  BY <1>4, <1>5

LEMMA BuildKeepsCompleted ==
    ASSUME IInv, NEW j \in Jobs, BuildStep(j)
    PROVE  CompletedBuildsKeepTheirData'
<1> SUFFICES ASSUME NEW k \in Jobs, graph'.active = k, jobs'[k].status = "completed"
             PROVE  k \in data' \cup disowned'
  BY DEF CompletedBuildsKeepTheirData
<1>1. task[k].pc \in Before => jobs[k].status # "completed"
  BY DEF IInv, ActivatedOnce, NotActivated
<1>2. graph.active = k
  BY <1>1 DEF BuildStep, Before
<1>3. CASE jobs[k].status = "completed"
  <2>1. k \in data \cup disowned
    BY <1>2, <1>3 DEF IInv, CompletedBuildsKeepTheirData
  <2>2. task[k].pc = "give_up" => k \in disowned
    BY <1>3 DEF IInv, OwnHandlersGiveUp
  <2>3. task[j].pc = "delete_old" => task[j].old # k
    BY <1>2 DEF IInv, OldIsSuperseded
  <2> QED
    BY <1>1, <1>3, <2>1, <2>2, <2>3 DEF BuildStep
<1>4. CASE jobs[k].status # "completed"
  <2>1. k = j /\ task[j].pc = "complete" /\ data' = data
    BY <1>4 DEF BuildStep
  <2> QED
    BY <1>2, <2>1 DEF IInv, CandidatesAreWritten
<1> QED
  BY <1>3, <1>4

(* A generation that was completed before stays backed, unless it is what  *)
(* this build deletes.                                                     *)
LEMMA BuildKeepsBacked ==
    ASSUME IInv, NEW j \in Jobs, BuildStep(j), NEW g \in Jobs,
           jobs[g].status = "completed", g \in data \cup disowned \cup {graph.active},
           task[j].pc = "delete_old" => g # task[j].old
    PROVE  g \in data' \cup disowned'
<1>1. task[g].pc \notin Before
  BY DEF IInv, ActivatedOnce, NotActivated
<1>2. task[g].pc = "give_up" => g \in disowned
  BY DEF IInv, OwnHandlersGiveUp
<1>3. g \in disowned => g \in disowned'
  BY DEF BuildStep
<1>4. g = graph.active => g \in data \cup disowned
  BY DEF IInv, CompletedBuildsKeepTheirData
<1>5. g \in data => g \in data' \cup disowned'
  BY <1>1, <1>2, <1>3 DEF BuildStep
<1> QED
  BY <1>3, <1>4, <1>5

LEMMA BuildKeepsCaches ==
    ASSUME IInv, NEW j \in Jobs, BuildStep(j)
    PROVE  TurnHoldsNoDeletedGeneration' /\ CacheHoldsNoDeletedGeneration'
<1>1. turn \in [generation : Generations, current_epoch : BOOLEAN] /\ cache \subseteq Jobs
  BY DEF IInv, TypeOK
<1>2. CASE cache' = {} /\ turn' = [turn EXCEPT !.current_epoch = FALSE]
  BY <1>1, <1>2 DEF TurnHoldsNoDeletedGeneration, CacheHoldsNoDeletedGeneration
<1>3. CASE cache' = cache /\ turn' = turn /\ (cache' # {} \/ turn'.current_epoch)
  <2>1. \A g \in Jobs : jobs'[g].status = "completed" => jobs[g].status = "completed"
    BY <1>3 DEF BuildStep
  <2>2. task[j].pc = "delete_old" =>
           task[j].old \notin cache /\ (turn.current_epoch => turn.generation # task[j].old)
    BY DEF IInv, OldIsSuperseded
  <2>3. TurnHoldsNoDeletedGeneration'
    <3> SUFFICES ASSUME turn.current_epoch
                 PROVE  /\ turn.generation \in Jobs
                        /\ jobs'[turn.generation].status = "completed" =>
                               turn.generation \in data' \cup disowned' \cup {graph'.active}
      BY <1>3 DEF TurnHoldsNoDeletedGeneration
    <3>1. /\ turn.generation \in Jobs
          /\ jobs[turn.generation].status = "completed" =>
                 turn.generation \in data \cup disowned \cup {graph.active}
      BY DEF IInv, TurnHoldsNoDeletedGeneration
    <3> QED
      BY <2>1, <2>2, <3>1, BuildKeepsBacked
  <2>4. CacheHoldsNoDeletedGeneration'
    <3> SUFFICES ASSUME NEW g \in cache, jobs'[g].status = "completed"
                 PROVE  g \in data' \cup disowned' \cup {graph'.active}
      BY <1>3 DEF CacheHoldsNoDeletedGeneration
    <3>1. g \in Jobs /\ jobs[g].status = "completed"
      BY <1>1, <2>1
    <3>2. g \in data \cup disowned \cup {graph.active}
      BY <3>1 DEF IInv, CacheHoldsNoDeletedGeneration
    <3> QED
      BY <2>2, <3>1, <3>2, BuildKeepsBacked
  <2> QED
    BY <2>3, <2>4
<1>4. CASE cache' = {} /\ ~turn'.current_epoch
  BY <1>4 DEF TurnHoldsNoDeletedGeneration, CacheHoldsNoDeletedGeneration
<1> QED
  BY <1>2, <1>3, <1>4 DEF BuildStep

LEMMA BuildKeeps ==
    ASSUME IInv, NEW j \in Jobs, Build(j)
    PROVE  IInv'
<1>1. TypeOK
  BY DEF IInv
<1>2. BuildStep(j)
  BY <1>1, BuildIsAStep
<1> QED
  BY <1>2, BuildKeepsTypes, BuildKeepsRequests, BuildKeepsActivations,
     BuildKeepsCandidates, BuildKeepsOld, BuildKeepsHandlers, BuildKeepsCompleted,
     BuildKeepsCaches DEF IInv

-----------------------------------------------------------------------------
(* The requests.  Some touch the row of the graph, never what is active.   *)
LEMMA GraphTouched ==
    ASSUME IInv, graph' \in GraphRows, graph'.active = graph.active,
           deletion' \in {"none", "checked"},
           creation' \in {"none", "validated", "inserted", "created"},
           UNCHANGED <<jobs, data, task, queue_request, pending_cancel, turn, cache,
                       appVars, faults, historyVars>>
    PROVE  IInv'
<1>1. UNCHANGED <<jobs, data, task, queue_request, pending_cancel, turn, cache, app,
                  recovery, stops, faults, overtaken, overlapped, disowned>>
  BY DEF appVars, historyVars
<1>2. TypeOK'
  BY <1>1 DEF IInv, TypeOK
<1>3. NothingRunsDown' /\ RequestsAreFresh'
  BY <1>1 DEF IInv, NothingRunsDown, RequestsAreFresh, ActiveJobs
<1>4. ActivatedOnce' /\ CandidatesAreWritten' /\ OldIsSuperseded'
  BY <1>1 DEF IInv, ActivatedOnce, NotActivated, CandidatesAreWritten, OldIsSuperseded
<1>5. OwnHandlersGiveUp' /\ TurnHoldsNoDeletedGeneration'
  BY <1>1 DEF IInv, OwnHandlersGiveUp, TurnHoldsNoDeletedGeneration
<1>6. CompletedBuildsKeepTheirData' /\ CacheHoldsNoDeletedGeneration'
  BY <1>1 DEF IInv, CompletedBuildsKeepTheirData, CacheHoldsNoDeletedGeneration
<1> QED
  BY <1>2, <1>3, <1>4, <1>5, <1>6 DEF IInv

LEMMA GraphRequestsKeep ==
    ASSUME IInv,
           \/ create_knowledge_graph_index
           \/ delete_knowledge_graph_index_srvc \/ delete_knowledge_graph_index
           \/ create_simulation
    PROVE  IInv'
<1>1. /\ graph \in GraphRows /\ deletion \in {"none", "checked"}
      /\ creation \in {"none", "validated", "inserted", "created"}
  BY DEF IInv, TypeOK
<1>2. CASE create_knowledge_graph_index
  <2>1. graph' \in GraphRows /\ graph'.active = graph.active
    BY <1>1, <1>2 DEF create_knowledge_graph_index, GraphRows
  <2> QED
    BY <1>1, <1>2, <2>1, GraphTouched DEF create_knowledge_graph_index, requestVars
<1>3. CASE delete_knowledge_graph_index_srvc
  BY <1>1, <1>3, GraphTouched DEF delete_knowledge_graph_index_srvc, rowVars
<1>4. CASE delete_knowledge_graph_index
  <2>1. graph' \in GraphRows /\ graph'.active = graph.active
    BY <1>1, <1>4 DEF delete_knowledge_graph_index, GraphRows
  <2> QED
    BY <1>1, <1>4, <2>1, GraphTouched DEF delete_knowledge_graph_index
<1>5. CASE create_simulation
  <2>1. /\ graph' \in GraphRows /\ graph'.active = graph.active
        /\ creation' \in {"none", "validated", "inserted", "created"}
    BY <1>1, <1>5 DEF create_simulation, ValidateBinding, InsertSimulation,
                      lock_knowledge_graph, GraphRows
  <2> QED
    BY <1>1, <1>5, <2>1, GraphTouched DEF create_simulation
<1> QED
  BY <1>2, <1>3, <1>4, <1>5

LEMMA QueueKeeps ==
    ASSUME IInv, NEW j \in Jobs, queue_knowledge_graph_build(j)
    PROVE  IInv'
<1>1. /\ app = "up" /\ jobs[j].status = "absent" /\ queue_request[j] = "none"
      /\ queue_request' = [queue_request EXCEPT ![j] = "checked"]
      /\ UNCHANGED <<graph, jobs, data, task, deletion, pending_cancel, creation, turn,
                     cache, app, recovery, stops, faults, overtaken, overlapped, disowned>>
  BY DEF queue_knowledge_graph_build, rowVars, appVars, historyVars
<1>2. /\ queue_request' \in [Jobs -> {"none", "checked", "inserted"}]
      /\ queue_request'[j] = "checked"
      /\ \A i \in Jobs \ {j} : queue_request'[i] = queue_request[i]
  BY <1>1 DEF IInv, TypeOK
<1>3. TypeOK'
  BY <1>1, <1>2 DEF IInv, TypeOK
<1>4. NothingRunsDown' /\ RequestsAreFresh'
  BY <1>1, <1>2 DEF IInv, NothingRunsDown, RequestsAreFresh, ActiveJobs
<1>5. ActivatedOnce'
  BY <1>1, <1>2 DEF IInv, ActivatedOnce, NotActivated
<1>6. CandidatesAreWritten' /\ OldIsSuperseded'
  BY <1>1 DEF IInv, CandidatesAreWritten, OldIsSuperseded
<1>7. OwnHandlersGiveUp' /\ TurnHoldsNoDeletedGeneration'
  BY <1>1 DEF IInv, OwnHandlersGiveUp, TurnHoldsNoDeletedGeneration
<1>8. CompletedBuildsKeepTheirData' /\ CacheHoldsNoDeletedGeneration'
  BY <1>1 DEF IInv, CompletedBuildsKeepTheirData, CacheHoldsNoDeletedGeneration
<1> QED
  BY <1>3, <1>4, <1>5, <1>6, <1>7, <1>8 DEF IInv

(* A job row changes: it is not completed by that.                         *)
LEMMA JobTouched ==
    ASSUME IInv, TypeOK', NothingRunsDown', RequestsAreFresh', NEW j \in Jobs,
           \A i \in Jobs : jobs'[i].status = "completed" => jobs[i].status = "completed",
           \A i \in Jobs : NotActivated(i)' => NotActivated(i),
           \A i \in Jobs : task'[i].pc = task[i].pc \/ task'[i].pc = "start",
           \A i \in Jobs : task'[i].old = task[i].old,
           UNCHANGED <<graph, data, turn, cache, disowned>>
    PROVE  IInv'
<1>1. ActivatedOnce'
  BY DEF IInv, ActivatedOnce
<1>2. CandidatesAreWritten' /\ OldIsSuperseded'
  BY DEF IInv, CandidatesAreWritten, OldIsSuperseded
<1>3. OwnHandlersGiveUp' /\ TurnHoldsNoDeletedGeneration'
  BY DEF IInv, OwnHandlersGiveUp, TurnHoldsNoDeletedGeneration
<1>4. CompletedBuildsKeepTheirData'
  BY DEF IInv, CompletedBuildsKeepTheirData
<1>5. CacheHoldsNoDeletedGeneration'
  BY DEF IInv, CacheHoldsNoDeletedGeneration, TypeOK
<1> QED
  BY <1>1, <1>2, <1>3, <1>4, <1>5 DEF IInv

LEMMA InsertKeeps ==
    ASSUME IInv, NEW j \in Jobs, create_knowledge_graph_build_job(j)
    PROVE  IInv'
<1>1. /\ TypeOK /\ queue_request[j] = "checked"
      /\ UNCHANGED <<graph, data, task, deletion, pending_cancel, creation, turn,
                     cache, app, recovery, stops, faults, overtaken, overlapped, disowned>>
  BY DEF create_knowledge_graph_build_job, appVars, historyVars, IInv
<1>2. app = "up" /\ jobs[j].status = "absent" /\ task[j].pc = "none"
  BY <1>1 DEF IInv, NothingRunsDown, RequestsAreFresh
<1>3. CASE /\ queue_request' = [queue_request EXCEPT ![j] = "inserted"]
           /\ jobs' = [jobs EXCEPT ![j].status = "queued"]
  <2>1. /\ queue_request' \in [Jobs -> {"none", "checked", "inserted"}]
        /\ queue_request'[j] = "inserted"
        /\ \A i \in Jobs \ {j} : queue_request'[i] = queue_request[i]
    BY <1>1, <1>3 DEF TypeOK
  <2>2. /\ jobs' \in [Jobs -> JobRows] /\ jobs'[j].status = "queued"
        /\ \A i \in Jobs \ {j} : jobs'[i] = jobs[i]
    BY <1>1, <1>3, StatusWritten
  <2>3. TypeOK'
    BY <1>1, <2>1, <2>2 DEF TypeOK
  <2>4. NothingRunsDown' /\ RequestsAreFresh'
    BY <1>1, <1>2, <2>1, <2>2 DEF IInv, NothingRunsDown, RequestsAreFresh
  <2>5. \A i \in Jobs : NotActivated(i)' => NotActivated(i)
    BY <1>1, <1>2, <2>1, <2>2 DEF NotActivated
  <2>6. \A i \in Jobs : jobs'[i].status = "completed" => jobs[i].status = "completed"
    BY <2>2
  <2> QED
    BY <1>1, <2>3, <2>4, <2>5, <2>6, JobTouched
<1>4. CASE queue_request' = [queue_request EXCEPT ![j] = "none"] /\ UNCHANGED jobs
  <2>1. /\ queue_request' \in [Jobs -> {"none", "checked", "inserted"}]
        /\ queue_request'[j] = "none"
        /\ \A i \in Jobs \ {j} : queue_request'[i] = queue_request[i]
    BY <1>1, <1>4 DEF TypeOK
  <2>2. TypeOK'
    BY <1>1, <1>4, <2>1 DEF TypeOK
  <2>3. NothingRunsDown' /\ RequestsAreFresh'
    BY <1>1, <1>2, <1>4, <2>1 DEF IInv, NothingRunsDown, RequestsAreFresh
  <2>4. \A i \in Jobs : NotActivated(i)' => NotActivated(i)
    BY <1>1, <1>2, <1>4, <2>1 DEF NotActivated
  <2> QED
    BY <1>1, <1>4, <2>2, <2>3, <2>4, JobTouched
<1> QED
  BY <1>3, <1>4 DEF create_knowledge_graph_build_job

LEMMA StartTaskKeeps ==
    ASSUME IInv, NEW j \in Jobs, start_knowledge_graph_build_task(j)
    PROVE  IInv'
<1>1. /\ TypeOK /\ queue_request[j] = "inserted"
      /\ queue_request' = [queue_request EXCEPT ![j] = "none"]
      /\ Goes(j, "start")
      /\ overlapped' = (overlapped \/ LiveTasks # {})
      /\ UNCHANGED <<graph, jobs, data, deletion, pending_cancel, creation, turn,
                     cache, app, recovery, stops, faults, overtaken, disowned>>
  BY DEF start_knowledge_graph_build_task, rowVars, appVars, IInv, Goes
<1>2. app = "up" /\ jobs[j].status # "absent" /\ task[j].pc = "none"
  BY <1>1 DEF IInv, NothingRunsDown, RequestsAreFresh
<1>3. /\ queue_request' \in [Jobs -> {"none", "checked", "inserted"}]
      /\ queue_request'[j] = "none"
      /\ \A i \in Jobs \ {j} : queue_request'[i] = queue_request[i]
  BY <1>1 DEF TypeOK
<1>4. /\ task' \in [Jobs -> Tasks] /\ task'[j].pc = "start" /\ task'[j].old = task[j].old
      /\ \A i \in Jobs \ {j} : task'[i] = task[i]
  BY <1>1, Went DEF Becomes, BuildLabels
<1>5. TypeOK'
  BY <1>1, <1>3, <1>4 DEF TypeOK
<1>6. NothingRunsDown' /\ RequestsAreFresh'
  BY <1>1, <1>2, <1>3, <1>4 DEF IInv, NothingRunsDown, RequestsAreFresh
<1>7. \A i \in Jobs : NotActivated(i)' => NotActivated(i)
  BY <1>1, <1>3, <1>4 DEF NotActivated
<1> QED
  BY <1>1, <1>4, <1>5, <1>6, <1>7, JobTouched

LEMMA CancelReadsKeeps ==
    ASSUME IInv, NEW j \in Jobs, CancelReads(j)
    PROVE  IInv'
<1>1. /\ TypeOK /\ app = "up" /\ j \in ActiveJobs
      /\ pending_cancel' = [pending_cancel EXCEPT ![j] = jobs[j].status]
      /\ UNCHANGED <<graph, jobs, data, task, queue_request, deletion, creation, turn,
                     cache, app, recovery, stops, faults, overtaken, overlapped, disowned>>
  BY DEF CancelReads, rowVars, appVars, historyVars, IInv
<1>2. jobs[j].status \in {"queued", "running"}
  BY <1>1 DEF ActiveJobs
<1>3. /\ pending_cancel' \in [Jobs -> {"none", "queued", "running"}]
      /\ \A i \in Jobs \ {j} : pending_cancel'[i] = pending_cancel[i]
  BY <1>1, <1>2 DEF TypeOK
<1>4. TypeOK'
  BY <1>1, <1>3 DEF TypeOK
<1>5. NothingRunsDown' /\ RequestsAreFresh'
  BY <1>1, <1>2, <1>3 DEF IInv, NothingRunsDown, RequestsAreFresh, ActiveJobs
<1>6. \A i \in Jobs : NotActivated(i)' => NotActivated(i)
  BY <1>1 DEF NotActivated
<1> QED
  BY <1>1, <1>4, <1>5, <1>6, JobTouched

(* A cancel request writes cancelled, or sets the flag.                    *)
CancelWrote(j) ==
    /\ jobs' \in [Jobs -> JobRows]
    /\ \A i \in Jobs \ {j} : jobs'[i] = jobs[i]
    /\ \/ /\ pending_cancel[j] = "queued" /\ jobs'[j].status = "cancelled"
          /\ \/ task[j].pc = "start" /\ overtaken' = overtaken
             \/ jobs[j].status = "queued" /\ overtaken' = overtaken
             \/ overtaken' = overtaken \cup {j}
       \/ jobs'[j].status = jobs[j].status /\ overtaken' = overtaken

LEMMA CancelWritesFacts ==
    ASSUME TypeOK, NEW j \in Jobs, CancelWrites(j)
    PROVE  CancelWrote(j) /\ overtaken' \subseteq Jobs /\ overtaken \subseteq overtaken'
<1>1. CASE pending_cancel[j] = "queued"
  <2>1. jobs' = [jobs EXCEPT ![j].status = "cancelled"]
    BY <1>1 DEF CancelWrites
  <2>2. /\ jobs' \in [Jobs -> JobRows] /\ jobs'[j].status = "cancelled"
        /\ \A i \in Jobs \ {j} : jobs'[i] = jobs[i]
    BY <2>1, StatusWritten
  <2>3. overtaken' = IF task[j].pc = "start" \/ jobs[j].status = "queued"
                     THEN overtaken ELSE overtaken \cup {j}
    BY <1>1 DEF CancelWrites
  <2>4. overtaken \subseteq Jobs
    BY DEF TypeOK
  <2> QED
    BY <1>1, <2>2, <2>3, <2>4 DEF CancelWrote
<1>2. CASE pending_cancel[j] # "queued"
  <2> DEFINE r == [jobs[j] EXCEPT !.cancel_requested = TRUE]
  <2>1. r \in JobRows /\ r.status = jobs[j].status
    BY TypesOfARow DEF JobRows
  <2>2. jobs' = [jobs EXCEPT ![j] = r] /\ overtaken' = overtaken
    BY <1>2 DEF CancelWrites
  <2> HIDE DEF r
  <2> QED
    BY <2>1, <2>2, RowRewritten DEF CancelWrote, TypeOK
<1> QED
  BY <1>1, <1>2

LEMMA CancelWritesKeeps ==
    ASSUME IInv, NEW j \in Jobs, CancelWrites(j)
    PROVE  IInv'
<1>1. /\ TypeOK /\ pending_cancel[j] # "none"
      /\ pending_cancel' = [pending_cancel EXCEPT ![j] = "none"]
      /\ UNCHANGED <<graph, data, task, queue_request, deletion, creation, turn,
                     cache, app, recovery, stops, faults, overlapped, disowned>>
  BY DEF CancelWrites, appVars, IInv
<1>2. app = "up" /\ jobs[j].status # "absent"
  BY <1>1 DEF IInv, NothingRunsDown, RequestsAreFresh
<1>3. /\ pending_cancel' \in [Jobs -> {"none", "queued", "running"}]
      /\ pending_cancel'[j] = "none"
      /\ \A i \in Jobs \ {j} : pending_cancel'[i] = pending_cancel[i]
  BY <1>1 DEF TypeOK
<1>4. CancelWrote(j) /\ overtaken' \subseteq Jobs
  BY <1>1, CancelWritesFacts
<1>5. TypeOK'
  BY <1>1, <1>3, <1>4 DEF TypeOK, CancelWrote
<1>6. NothingRunsDown' /\ RequestsAreFresh'
  BY <1>1, <1>2, <1>3, <1>4 DEF IInv, NothingRunsDown, RequestsAreFresh, CancelWrote
<1>7. \A i \in Jobs : NotActivated(i)' => NotActivated(i)
  BY <1>1, <1>2, <1>4 DEF NotActivated, CancelWrote
<1>8. \A i \in Jobs : jobs'[i].status = "completed" => jobs[i].status = "completed"
  BY <1>4 DEF CancelWrote
<1> QED
  BY <1>1, <1>5, <1>6, <1>7, <1>8, JobTouched

LEMMA TurnLoadsKeeps ==
    ASSUME IInv, TurnLoadsRuntime
    PROVE  IInv'
<1>1. /\ TypeOK /\ app = "up" /\ graph.active # NoGeneration
      /\ turn' = [generation |-> graph.active, current_epoch |-> TRUE]
      /\ UNCHANGED <<graph, jobs, data, task, queue_request, deletion, pending_cancel,
                     creation, cache, app, recovery, stops, faults, overtaken, overlapped,
                     disowned>>
  BY DEF TurnLoadsRuntime, rowVars, appVars, historyVars, IInv
<1>2. graph.active \in Jobs
  BY <1>1, GraphFields DEF TypeOK, Generations
<1>3. TypeOK'
  BY <1>1, <1>2 DEF TypeOK, Generations
<1>4. NothingRunsDown' /\ RequestsAreFresh'
  BY <1>1 DEF IInv, NothingRunsDown, RequestsAreFresh, ActiveJobs
<1>5. ActivatedOnce' /\ CandidatesAreWritten'
  BY <1>1 DEF IInv, ActivatedOnce, NotActivated, CandidatesAreWritten
<1>6. OldIsSuperseded'
  BY <1>1 DEF IInv, OldIsSuperseded
<1>7. OwnHandlersGiveUp' /\ TurnHoldsNoDeletedGeneration'
  BY <1>1, <1>2 DEF IInv, OwnHandlersGiveUp, TurnHoldsNoDeletedGeneration
<1>8. CompletedBuildsKeepTheirData' /\ CacheHoldsNoDeletedGeneration'
  BY <1>1 DEF IInv, CompletedBuildsKeepTheirData, CacheHoldsNoDeletedGeneration
<1> QED
  BY <1>3, <1>4, <1>5, <1>6, <1>7, <1>8 DEF IInv

LEMMA TurnHasConstructedKeeps ==
    ASSUME IInv, TurnHasConstructed
    PROVE  IInv'
<1>1. /\ TypeOK /\ turn' = NoTurn
      /\ UNCHANGED <<graph, jobs, data, task, queue_request, deletion, pending_cancel,
                     creation, app, recovery, stops, faults, overtaken, overlapped,
                     disowned>>
  BY DEF TurnHasConstructed, rowVars, appVars, historyVars, IInv
<1>2. \/ cache' = cache
      \/ turn.current_epoch /\ cache' = cache \cup {turn.generation}
  <2>1. turn.current_epoch \in BOOLEAN
    BY DEF IInv, TypeOK
  <2>2. CASE turn.current_epoch = TRUE
    BY <2>2 DEF TurnHasConstructed, _cache_negotiation_graph_if_current
  <2>3. CASE turn.current_epoch = FALSE
    BY <2>3 DEF TurnHasConstructed, _cache_negotiation_graph_if_current
  <2> QED
    BY <2>1, <2>2, <2>3
<1>3. turn' \in [generation : Generations, current_epoch : BOOLEAN] /\ ~turn'.current_epoch
  BY <1>1 DEF NoTurn, Generations
<1>4. turn.current_epoch => turn.generation \in Jobs
  BY DEF IInv, TurnHoldsNoDeletedGeneration
<1>5. cache' \subseteq Jobs
  BY <1>1, <1>2, <1>4 DEF TypeOK
<1>6. TypeOK'
  BY <1>1, <1>3, <1>5 DEF TypeOK
<1>7. NothingRunsDown' /\ RequestsAreFresh'
  BY <1>1, <1>2, <1>3 DEF IInv, NothingRunsDown, RequestsAreFresh, ActiveJobs
<1>8. ActivatedOnce' /\ CandidatesAreWritten'
  BY <1>1 DEF IInv, ActivatedOnce, NotActivated, CandidatesAreWritten
<1>9. OldIsSuperseded'
  BY <1>1, <1>2, <1>3 DEF IInv, OldIsSuperseded
<1>10. OwnHandlersGiveUp' /\ TurnHoldsNoDeletedGeneration'
  BY <1>1, <1>3 DEF IInv, OwnHandlersGiveUp, TurnHoldsNoDeletedGeneration
<1>11. CompletedBuildsKeepTheirData'
  BY <1>1 DEF IInv, CompletedBuildsKeepTheirData
<1>12. CacheHoldsNoDeletedGeneration'
  BY <1>1, <1>2 DEF IInv, TurnHoldsNoDeletedGeneration, CacheHoldsNoDeletedGeneration
<1> QED
  BY <1>6, <1>7, <1>8, <1>9, <1>10, <1>11, <1>12 DEF IInv

LEMMA RequestsKeep ==
    ASSUME IInv, Requests
    PROVE  IInv'
BY GraphRequestsKeep, QueueKeeps, InsertKeeps, StartTaskKeeps, CancelReadsKeeps,
   CancelWritesKeeps, TurnLoadsKeeps, TurnHasConstructedKeeps DEF Requests

-----------------------------------------------------------------------------
(* The process.  A stop takes the tasks and the requests with it; the      *)
(* recovery deletes the candidates of jobs that have not completed.        *)
LEMMA StopKeeps ==
    ASSUME IInv, Stop
    PROVE  IInv'
<1>1. /\ TypeOK /\ stops < MaxStops /\ stops' = stops + 1 /\ app' = "down"
      /\ task' = [j \in Jobs |-> NoTask]
      /\ queue_request' = [j \in Jobs |-> "none"]
      /\ deletion' = "none"
      /\ pending_cancel' = [j \in Jobs |-> "none"]
      /\ creation' = IF creation = "validated" THEN "none" ELSE creation
      /\ turn' = NoTurn /\ cache' = {} /\ recovery' = NoRecovery
      /\ UNCHANGED <<graph, jobs, data, faults, overtaken, overlapped, disowned>>
  BY DEF Stop, rowVars, historyVars, IInv
<1>2. /\ turn' \in [generation : Generations, current_epoch : BOOLEAN] /\ ~turn'.current_epoch
      /\ recovery' \in [step : {"delete", "graph", "job"}, left : SUBSET Jobs]
      /\ creation' \in {"none", "validated", "inserted", "created"}
  BY <1>1 DEF NoTurn, NoRecovery, Generations, TypeOK
<1>3. /\ task' \in [Jobs -> Tasks]
      /\ \A j \in Jobs : task'[j].pc = "none" /\ task'[j].old = NoGeneration
  BY <1>1, NoTaskIsATask
<1>4. stops' \in 0..MaxStops
  BY <1>1, StopsAndFaultsAssumption DEF TypeOK
<1>5. TypeOK'
  BY <1>1, <1>2, <1>3, <1>4 DEF TypeOK
<1>6. NothingRunsDown' /\ RequestsAreFresh'
  BY <1>1, <1>2, <1>3 DEF NothingRunsDown, RequestsAreFresh
<1>7. ActivatedOnce' /\ CandidatesAreWritten' /\ OldIsSuperseded'
  BY <1>1, <1>3 DEF IInv, ActivatedOnce, NotActivated, Before, CandidatesAreWritten,
                    OldIsSuperseded, Jobs, NoGeneration
<1>8. OwnHandlersGiveUp' /\ TurnHoldsNoDeletedGeneration' /\ CacheHoldsNoDeletedGeneration'
  BY <1>1, <1>2, <1>3 DEF OwnHandlersGiveUp, TurnHoldsNoDeletedGeneration,
                          CacheHoldsNoDeletedGeneration
<1>9. CompletedBuildsKeepTheirData'
  BY <1>1 DEF IInv, CompletedBuildsKeepTheirData
<1> QED
  BY <1>5, <1>6, <1>7, <1>8, <1>9 DEF IInv

(* Before the process is up again nothing runs, and nothing is cached.     *)
LEMMA DownKeeps ==
    ASSUME IInv, TypeOK', app # "up",
           app' = "recovering" => recovery'.left = ActiveJobs',
           graph'.active = graph.active,
           \A j \in Jobs : jobs'[j].status = "completed" => jobs[j].status = "completed",
           \A j \in Jobs : jobs'[j].status = "absent" <=> jobs[j].status = "absent",
           \A j \in data \ data' : jobs[j].status # "completed",
           UNCHANGED <<task, queue_request, pending_cancel, turn, cache, disowned>>
    PROVE  IInv'
<1>1. /\ \A j \in Jobs : /\ task[j].pc = "none" /\ queue_request[j] = "none"
                         /\ pending_cancel[j] = "none"
      /\ ~turn.current_epoch /\ cache = {}
  BY DEF IInv, NothingRunsDown
<1>2. NothingRunsDown' /\ RequestsAreFresh'
  BY <1>1 DEF NothingRunsDown, RequestsAreFresh
<1>3. ActivatedOnce' /\ CandidatesAreWritten' /\ OldIsSuperseded'
  BY <1>1 DEF IInv, ActivatedOnce, NotActivated, Before, CandidatesAreWritten,
              OldIsSuperseded
<1>4. OwnHandlersGiveUp' /\ TurnHoldsNoDeletedGeneration' /\ CacheHoldsNoDeletedGeneration'
  BY <1>1 DEF OwnHandlersGiveUp, TurnHoldsNoDeletedGeneration, CacheHoldsNoDeletedGeneration
<1>5. CompletedBuildsKeepTheirData'
  BY DEF IInv, CompletedBuildsKeepTheirData
<1> QED
  BY <1>2, <1>3, <1>4, <1>5 DEF IInv

LEMMA RestartKeeps ==
    ASSUME IInv, Restart
    PROVE  IInv'
<1>1. /\ TypeOK /\ app = "down"
      /\ UNCHANGED <<graph, jobs, data, task, queue_request, deletion, pending_cancel,
                     creation, turn, cache, stops, overtaken, overlapped, disowned>>
  BY DEF Restart, rowVars, requestVars, historyVars, IInv
<1>2. CASE /\ app' = "recovering"
           /\ recovery' = [NoRecovery EXCEPT
                  !.left = list_interrupted_knowledge_graph_build_jobs]
           /\ UNCHANGED faults
  <2>1. recovery'.left = ActiveJobs /\ ActiveJobs \subseteq Jobs /\ recovery'.step = "delete"
        /\ recovery' \in [step : {"delete", "graph", "job"}, left : SUBSET Jobs]
    BY <1>2 DEF NoRecovery, list_interrupted_knowledge_graph_build_jobs, ActiveJobs
  <2>2. TypeOK'
    BY <1>1, <1>2, <2>1 DEF TypeOK
  <2>3. recovery'.left = ActiveJobs'
    BY <1>1, <2>1 DEF ActiveJobs
  <2> QED
    BY <1>1, <2>2, <2>3, DownKeeps
<1>3. CASE Error /\ app' = "up" /\ UNCHANGED recovery
  <2>1. TypeOK'
    BY <1>1, <1>3, Counted DEF TypeOK
  <2> QED
    BY <1>1, <1>3, <2>1, DownKeeps
<1> QED
  BY <1>2, <1>3 DEF Restart

LEMMA RecoveryKeeps ==
    ASSUME IInv, fail_interrupted_knowledge_graph_builds
    PROVE  IInv'
<1>1. /\ TypeOK /\ app = "recovering" /\ recovery.left = ActiveJobs
      /\ recovery \in [step : {"delete", "graph", "job"}, left : SUBSET Jobs]
      /\ UNCHANGED <<task, queue_request, deletion, pending_cancel,
                     creation, turn, cache, stops, overtaken, overlapped, disowned>>
  BY DEF fail_interrupted_knowledge_graph_builds, requestVars, historyVars, IInv,
         NothingRunsDown, TypeOK
<1>2. CASE /\ app' = "up"
           /\ UNCHANGED <<rowVars, recovery, faults>>
  <2>1. TypeOK' /\ UNCHANGED <<graph, jobs, data>>
    BY <1>1, <1>2 DEF TypeOK, rowVars
  <2> QED
    BY <1>1, <1>2, <2>1, DownKeeps
<1>3. ASSUME NEW j \in First(recovery.left), recovery.step = "delete",
             _cleanup_interrupted_candidate_generation(j),
             recovery' = [recovery EXCEPT !.step = "graph"],
             UNCHANGED <<graph, jobs, app>>
      PROVE  IInv'
  <2>1. j \in Jobs /\ jobs[j].status # "completed"
    BY <1>1, <1>3 DEF First, ActiveJobs
  <2>2. data' \subseteq data /\ data \ data' \subseteq {j} /\ faults' \in 0..MaxFaults
    BY <1>1, <1>3, Counted DEF _cleanup_interrupted_candidate_generation, TypeOK
  <2>3. /\ recovery' \in [step : {"delete", "graph", "job"}, left : SUBSET Jobs]
        /\ recovery'.left = ActiveJobs'
    BY <1>1, <1>3 DEF ActiveJobs
  <2>4. TypeOK'
    BY <1>1, <1>3, <2>2, <2>3 DEF TypeOK
  <2> QED
    BY <1>1, <1>3, <2>1, <2>2, <2>3, <2>4, DownKeeps
<1>4. CASE /\ graph' = [graph EXCEPT !.status =
                            IF graph.active = NoGeneration THEN "failed" ELSE "built"]
           /\ recovery' = [recovery EXCEPT !.step = "job"]
           /\ UNCHANGED <<jobs, data, app, faults>>
  <2>1. graph' \in GraphRows /\ graph'.active = graph.active
    BY <1>1, <1>4 DEF TypeOK, GraphRows
  <2>2. /\ recovery' \in [step : {"delete", "graph", "job"}, left : SUBSET Jobs]
        /\ recovery'.left = ActiveJobs'
    BY <1>1, <1>4 DEF ActiveJobs
  <2>3. TypeOK'
    BY <1>1, <1>4, <2>1, <2>2 DEF TypeOK
  <2> QED
    BY <1>1, <1>4, <2>1, <2>2, <2>3, DownKeeps
<1>5. ASSUME NEW j \in First(recovery.left),
             jobs' = [jobs EXCEPT ![j] = mark_knowledge_graph_build_job_failed],
             recovery' = [step |-> "delete", left |-> recovery.left \ {j}],
             UNCHANGED <<graph, data, app, faults>>
      PROVE  IInv'
  <2>1. j \in Jobs /\ jobs[j].status \in {"queued", "running"}
    BY <1>1, <1>5 DEF First, ActiveJobs
  <2>2. mark_knowledge_graph_build_job_failed \in JobRows
        /\ mark_knowledge_graph_build_job_failed.status = "failed"
    BY DEF JobRows, mark_knowledge_graph_build_job_failed
  <2>3. /\ jobs' \in [Jobs -> JobRows] /\ jobs'[j].status = "failed"
        /\ \A i \in Jobs \ {j} : jobs'[i] = jobs[i]
    BY <1>1, <1>5, <2>1, <2>2, RowRewritten
  <2>4. /\ recovery' \in [step : {"delete", "graph", "job"}, left : SUBSET Jobs]
        /\ recovery'.left = recovery.left \ {j}
    BY <1>1, <1>5
  <2>5. recovery'.left = ActiveJobs'
    BY <1>1, <2>1, <2>3, <2>4 DEF ActiveJobs
  <2>6. TypeOK'
    BY <1>1, <1>5, <2>3, <2>4 DEF TypeOK
  <2> QED
    BY <1>1, <1>5, <2>1, <2>3, <2>5, <2>6, DownKeeps
<1> QED
  BY <1>2, <1>3, <1>4, <1>5 DEF fail_interrupted_knowledge_graph_builds

LEMMA IdleKeeps == IInv /\ UNCHANGED vars => IInv'
<1> SUFFICES ASSUME IInv, UNCHANGED vars PROVE IInv'
  OBVIOUS
<1>1. UNCHANGED <<graph, jobs, data, task, queue_request, deletion, pending_cancel,
                  creation, turn, cache, app, recovery, stops, faults, overtaken,
                  overlapped, disowned>>
  BY DEF vars, rowVars, requestVars, appVars, historyVars
<1> QED
  BY <1>1 DEF IInv, TypeOK, NothingRunsDown, RequestsAreFresh, ActiveJobs, ActivatedOnce,
              NotActivated, CandidatesAreWritten, OldIsSuperseded, OwnHandlersGiveUp,
              TurnHoldsNoDeletedGeneration, CompletedBuildsKeepTheirData,
              CacheHoldsNoDeletedGeneration

LEMMA NextKeeps == IInv /\ [Next]_vars => IInv'
BY RequestsKeep, BuildKeeps, StopKeeps, RestartKeeps, RecoveryKeeps, IdleKeeps DEF Next

LEMMA InitHolds == Init => IInv
<1> SUFFICES ASSUME Init PROVE IInv
  OBVIOUS
<1>1. NoGraph \in GraphRows /\ NoGraph.active = NoGeneration
  BY DEF NoGraph, GraphRows, Generations
<1>2. /\ NoTurn \in [generation : Generations, current_epoch : BOOLEAN]
      /\ ~NoTurn.current_epoch
      /\ NoRecovery \in [step : {"delete", "graph", "job"}, left : SUBSET Jobs]
  BY DEF NoTurn, NoRecovery, Generations
<1>3. jobs \in [Jobs -> JobRows] /\ \A j \in Jobs : jobs[j].status = "absent"
  BY DEF Init, JobRows
<1>4. /\ task \in [Jobs -> Tasks]
      /\ \A j \in Jobs : task[j].pc = "none" /\ task[j].old = NoGeneration
  BY NoTaskIsATask DEF Init
<1>5. TypeOK
  <2>1. 0 \in 0..MaxStops /\ 0 \in 0..MaxFaults
    BY StopsAndFaultsAssumption
  <2>2. graph \in GraphRows /\ turn \in [generation : Generations, current_epoch : BOOLEAN]
        /\ recovery \in [step : {"delete", "graph", "job"}, left : SUBSET Jobs]
    BY <1>1, <1>2 DEF Init
  <2>3. /\ queue_request \in [Jobs -> {"none", "checked", "inserted"}]
        /\ pending_cancel \in [Jobs -> {"none", "queued", "running"}]
    BY DEF Init
  <2> QED
    BY <1>3, <1>4, <2>1, <2>2, <2>3 DEF Init, TypeOK
<1>6. NothingRunsDown /\ RequestsAreFresh
  BY <1>2, <1>3, <1>4 DEF Init, NothingRunsDown, RequestsAreFresh
<1>7. ActivatedOnce /\ CandidatesAreWritten /\ OldIsSuperseded
  BY <1>1, <1>3, <1>4 DEF Init, ActivatedOnce, CandidatesAreWritten, OldIsSuperseded,
                          Jobs, NoGeneration
<1>8. /\ OwnHandlersGiveUp /\ TurnHoldsNoDeletedGeneration
      /\ CompletedBuildsKeepTheirData /\ CacheHoldsNoDeletedGeneration
  BY <1>2, <1>3, <1>4 DEF Init, OwnHandlersGiveUp, TurnHoldsNoDeletedGeneration,
                          CompletedBuildsKeepTheirData, CacheHoldsNoDeletedGeneration
<1> QED
  BY <1>5, <1>6, <1>7, <1>8 DEF IInv

LEMMA Invariance == Spec => []IInv
BY InitHolds, NextKeeps, PTL DEF Spec

(* Every variable stays in its type. *)
THEOREM KnowledgeGraphTypesHold == Spec => []TypeOK
BY Invariance, PTL DEF IInv

(* CompletedBuildsKeepTheirData: the active generation of a completed job  *)
(* keeps its nodes, for every number of builds, stops and errors.          *)
THEOREM ActiveDataIsKept == Spec => []CompletedBuildsKeepTheirData
BY Invariance, PTL DEF IInv

(* CacheHoldsNoDeletedGeneration: no cached negotiation graph reads a      *)
(* generation that another build has superseded and deleted.               *)
THEOREM CachesStayServable == Spec => []CacheHoldsNoDeletedGeneration
BY Invariance, PTL DEF IInv

-----------------------------------------------------------------------------
(* The second invariant. *)
Calm == faults = 0 /\ ~overlapped

Working == {"poll", "document", "verify", "last_poll", "activate"}
GivingUp == {"give_up", "give_up_graph", "give_up_job"}

(* A graph with a job exists. *)
JobsKeepTheGraph ==
    \A j \in Jobs : jobs[j].status # "absent" => Exists

(* Unless builds have overlapped, at most one is alive. *)
OneBuildAtATime ==
    ~overlapped => \A i, j \in Jobs : task[i].pc # "none" /\ task[j].pc # "none" => i = j

StoresAreKept ==
    \A j \in Jobs :
        /\ task[j].pc \in {"none", "start"} => ~task[j].store
        /\ task[j].pc \in {"document", "verify", "last_poll", "activate"} => task[j].store

(* What the row of a job says while its task is alive, unless a late       *)
(* cancel request has overwritten it.                                      *)
JobsFollowTheirTasks ==
    \A j \in Jobs \ overtaken :
        /\ task[j].pc \in Working \cup {"mark_building", "complete"} => jobs[j].status = "running"
        /\ task[j].pc = "delete_old" => jobs[j].status = "completed"
        /\ task[j].pc = "give_up" /\ task[j].store /\ faults = 0 => jobs[j].status = "running"

(* Without errors a build gives up before it has activated anything. *)
GivingUpBeforeActivation ==
    faults = 0 => \A j \in Jobs : task[j].pc \in GivingUp =>
        graph.active # j /\ jobs[j].status # "completed"

(* A build that is alone knows the row as it is. *)
CopiesAreCurrent ==
    Calm => \A j \in Jobs :
        /\ task[j].pc \notin {"none", "start", "give_up_job"} =>
              /\ task[j].known.status = graph.status
              /\ task[j].known.active = graph.active
        /\ task[j].pc = "activate" => task[j].old = graph.active
        /\ task[j].pc \in {"complete", "delete_old"} => graph.active = j

(* The recovery is past the deletion of the candidate of j. *)
Recovered(j) == recovery.step # "delete" /\ j \in First(recovery.left)

Interrupted(j) == app # "up" /\ jobs[j].status = "running" /\ ~Recovered(j)

Superseded(j) == jobs[j].status = "completed" \/ j \in overtaken

ActiveIsAccounted ==
    Calm => \A j \in data : j = graph.active =>
        task[j].pc \in {"complete", "delete_old"} \/ Superseded(j) \/ Interrupted(j)

OldIsAccounted ==
    Calm => \A i \in Jobs :
        /\ task[i].pc \in {"activate", "complete", "delete_old"}
        /\ task[i].old \in data
        => Superseded(task[i].old)

(* Why a generation is in Neo4j. *)
DataIsAccounted ==
    Calm => \A j \in data :
        \/ j = graph.active
        \/ j \in overtaken
        \/ stops > 0 /\ jobs[j].status = "completed"
        \/ /\ task[j].pc \in {"document", "verify", "last_poll", "activate", "give_up"}
           /\ task[j].store
        \/ Interrupted(j)
        \/ \E i \in Jobs : task[i].pc \in {"complete", "delete_old"} /\ task[i].old = j

SettledRow ==
    /\ graph.status # "building"
    /\ graph.status = "built" <=> graph.active # NoGeneration

(* When the row is settled: whenever no build is at work between marking   *)
(* the graph and giving it back.                                           *)
RowIsSettled ==
    Calm /\ overtaken = {} =>
        /\ app = "up" /\ LiveTasks = {} => SettledRow
        /\ \A j \in Jobs :
              /\ task[j].pc \in {"start", "mark_running", "mark_building", "complete",
                                 "delete_old", "give_up_job"} => SettledRow
              /\ task[j].pc \in {"give_up", "give_up_graph"} =>
                     SettledRow \/ jobs[j].status = "running"
        /\ app # "up" /\ ActiveJobs = {} => SettledRow
        /\ app = "recovering" /\ recovery.step = "job" => SettledRow

SInv ==
    /\ JobsKeepTheGraph
    /\ OneBuildAtATime
    /\ StoresAreKept
    /\ JobsFollowTheirTasks
    /\ GivingUpBeforeActivation
    /\ CopiesAreCurrent
    /\ ActiveIsAccounted
    /\ OldIsAccounted
    /\ DataIsAccounted
    /\ RowIsSettled

-----------------------------------------------------------------------------
(* What the step of a build does without an error, by its place. *)
Same(j) ==      \* but for its pc
    /\ task'[j].known = task[j].known /\ task'[j].store = task[j].store
    /\ task'[j].old = task[j].old /\ task'[j].outcome = task[j].outcome

StartMove(j) ==
    /\ task[j].pc = "start" /\ UNCHANGED <<graph, jobs, data>>
    /\ \/ task'[j].pc = "none"
       \/ /\ task'[j].pc \in {"mark_running", "give_up"}
          /\ task'[j].known = graph
    /\ task'[j].store = task[j].store \/ task'[j].store = FALSE

MarkRunningMove(j) ==
    /\ task[j].pc = "mark_running" /\ task'[j].pc = "mark_building" /\ Same(j)
    /\ jobs'[j].status = "running" /\ UNCHANGED <<graph, data>>

MarkBuildingMove(j) ==
    /\ task[j].pc = "mark_building" /\ task'[j].pc = "poll"
    /\ graph'.active = graph.active
    /\ graph'.status = Written(j, "building") /\ task'[j].known = graph'
    /\ UNCHANGED <<jobs, data>>

GivesUpMove(j) ==
    /\ task[j].pc \in {"poll", "document", "verify", "last_poll"} /\ task'[j].pc = "give_up"
    /\ task'[j].known = task[j].known \/ task'[j].known = graph
    /\ task'[j].store = task[j].store
    /\ UNCHANGED <<graph, jobs>>
    /\ \/ data' = data
       \/ task[j].pc = "document" /\ data' = data \cup {j}

StoreMove(j) ==
    /\ task[j].pc = "poll" /\ task'[j].pc = "document" /\ task'[j].store
    /\ task'[j].known = task[j].known /\ UNCHANGED <<graph, jobs, data>>

DocumentMove(j) ==
    /\ task[j].pc = "document" /\ task'[j].pc \in {"document", "verify"} /\ Same(j)
    /\ data' = data \cup {j} /\ UNCHANGED <<graph, jobs>>

VerifyMove(j) ==
    /\ task[j].pc = "verify" /\ task'[j].pc = "last_poll" /\ Same(j)
    /\ UNCHANGED <<graph, jobs, data>>

LastPollMove(j) ==
    /\ task[j].pc = "last_poll" /\ task'[j].pc = "activate"
    /\ task'[j].known = graph /\ task'[j].old = graph.active
    /\ task'[j].store = task[j].store /\ UNCHANGED <<graph, jobs, data>>

ActivateMove(j) ==
    /\ task[j].pc = "activate" /\ task'[j].pc = "complete"
    /\ graph'.active = j /\ graph'.status = Written(j, "built")
    /\ task'[j].known = graph' /\ task'[j].old = task[j].old
    /\ UNCHANGED <<jobs, data>>

CompleteMove(j) ==
    /\ task[j].pc = "complete" /\ task'[j].pc = "delete_old" /\ Same(j)
    /\ jobs'[j].status = "completed" /\ UNCHANGED <<graph, data>>

DeleteOldMove(j) ==
    /\ task[j].pc = "delete_old" /\ task'[j].pc = "none" /\ task'[j].store = FALSE
    /\ data' = data \ {task[j].old} /\ UNCHANGED <<graph, jobs>>

GiveUpMove(j) ==
    /\ task[j].pc = "give_up" /\ task'[j].pc = "give_up_graph" /\ Same(j)
    /\ data' \subseteq data /\ (task[j].store => j \notin data')
    /\ UNCHANGED <<graph, jobs>>

GiveUpGraphMove(j) ==
    /\ task[j].pc = "give_up_graph" /\ task'[j].pc = "give_up_job"
    /\ graph'.active = graph.active
    /\ \/ /\ task[j].known.active = NoGeneration
          /\ \/ graph'.status \in {"failed", "cancelled"}
             \/ /\ graph'.status = graph.status
                /\ task[j].known.status \in {"failed", "cancelled"}
       \/ /\ task[j].known.active # NoGeneration
          /\ graph'.status = Written(j, "built")
    /\ UNCHANGED <<jobs, data>>

GiveUpJobMove(j) ==
    /\ task[j].pc = "give_up_job" /\ task'[j].pc = "none" /\ task'[j].store = FALSE
    /\ UNCHANGED <<graph, data>>

(* With an error the task ends, or gives up what it has activated.         *)
Errs(j) ==
    /\ faults' # 0
    /\ \/ task'[j].pc = "none" /\ task'[j].store = FALSE
       \/ task[j].pc = "delete_old" /\ task'[j].pc = "give_up" /\ UNCHANGED <<graph, jobs>>

Moves(j) ==
    \/ StartMove(j) \/ MarkRunningMove(j) \/ MarkBuildingMove(j) \/ GivesUpMove(j)
    \/ StoreMove(j) \/ DocumentMove(j) \/ VerifyMove(j) \/ LastPollMove(j)
    \/ ActivateMove(j) \/ CompleteMove(j) \/ DeleteOldMove(j) \/ GiveUpMove(j)
    \/ GiveUpGraphMove(j) \/ GiveUpJobMove(j) \/ Errs(j)

(* The row keeps existing. *)
KeepsTheRow == graph'.status = graph.status
               \/ graph'.status \in {"building", "built", "failed", "cancelled"}

LEMMA DyingErrs ==
    ASSUME TypeOK, NEW j \in Jobs, TaskDies(j) \/ SelectFails(j)
    PROVE  Errs(j)
BY Dying DEF TaskDies, SelectFails, Errs

LEMMA CancelledMoves ==
    ASSUME TypeOK, NEW j \in Jobs, Quietly(GivesUp(j, "cancelled")) \/ Quietly(GivesUp(j, "failed")),
           task[j].pc \in {"poll", "document", "verify", "last_poll"}
    PROVE  GivesUpMove(j)
BY GaveUp DEF Quietly, rowVars, GivesUpMove

LEMMA BuildMoves ==
    ASSUME TypeOK, NEW j \in Jobs, Build(j)
    PROVE  Moves(j) /\ KeepsTheRow
<1>1. CASE Start(j)
  <2>1. UNCHANGED <<graph, jobs, data>> /\ task[j].pc = "start"
    BY <1>1 DEF Start, At, Quietly, rowVars
  <2>2. CASE Ends(j)
    BY <2>1, <2>2, Ended DEF StartMove, Moves, KeepsTheRow
  <2>3. CASE task' = [task EXCEPT
                 ![j].pc = IF graph.locked THEN "give_up" ELSE "mark_running",
                 ![j].known = graph]
    <3> DEFINE to == [task[j] EXCEPT
                   !.pc = IF graph.locked THEN "give_up" ELSE "mark_running",
                   !.known = graph]
    <3>1. /\ to \in Tasks /\ to.pc \in {"give_up", "mark_running"} /\ to.known = graph
          /\ to.store = task[j].store
      BY TypesOfARow DEF Tasks, BuildLabels
    <3>2. Becomes(j, to)
      BY <2>3, <3>1, Updated
    <3> HIDE DEF to
    <3> QED
      BY <2>1, <3>1, <3>2 DEF Becomes, StartMove, Moves, KeepsTheRow
  <2> QED
    BY <1>1, <2>2, <2>3 DEF Start, Quietly
<1>2. CASE MarkRunning(j)
  <2>1. UNCHANGED <<graph, data>> /\ task[j].pc = "mark_running"
    BY <1>2 DEF MarkRunning, At, Commits, update_knowledge_graph_build_job, TaskDies
  <2>2. CASE TaskDies(j)
    BY <2>1, <2>2, DyingErrs DEF Moves, KeepsTheRow
  <2>3. CASE update_knowledge_graph_build_job(j, "running") /\ Goes(j, "mark_building")
    <3>1. jobs'[j].status = "running"
      BY <2>3, StatusWritten DEF update_knowledge_graph_build_job
    <3>2. task'[j].pc = "mark_building" /\ Same(j)
      BY <2>3, Went DEF Same, BuildLabels
    <3> QED
      BY <2>1, <3>1, <3>2 DEF MarkRunningMove, Moves, KeepsTheRow
  <2> QED
    BY <1>2, <2>2, <2>3 DEF MarkRunning, Commits
<1>3. CASE MarkBuilding(j)
  <2>1. UNCHANGED <<jobs, data>> /\ task[j].pc = "mark_building"
    BY <1>3 DEF MarkBuilding, At, Commits, SetsGraph, TaskDies
  <2>2. CASE SetsGraph(j, [graph EXCEPT !.status = Written(j, "building")])
    <3>1. /\ graph' \in GraphRows /\ graph'.active = graph.active
          /\ graph'.status = Written(j, "building")
      BY <2>2, GraphStatusWritten DEF SetsGraph
    <3>2. KeepsTheRow
      BY <3>1 DEF KeepsTheRow, Written
    <3>3. CASE TaskDies(j)
      BY <3>2, <3>3, DyingErrs DEF Moves
    <3>4. CASE GoesKnowing(j, "poll")
      BY <2>1, <3>1, <3>2, <3>4, WentKnowing DEF MarkBuildingMove, Moves, BuildLabels
    <3> QED
      BY <1>3, <3>3, <3>4 DEF MarkBuilding, Commits
  <2>3. CASE TaskDies(j) /\ UNCHANGED <<graph, jobs>>
    BY <2>3, DyingErrs DEF Moves, KeepsTheRow
  <2> QED
    BY <1>3, <2>2, <2>3 DEF MarkBuilding, Commits
<1>4. CASE Poll(j)
  <2>1. UNCHANGED <<graph, jobs>> /\ task[j].pc = "poll"
    BY <1>4 DEF Poll, At, Cancelled, Quietly, rowVars, SelectFails
  <2>2. CASE SelectFails(j)
    BY <2>1, <2>2, DyingErrs DEF Moves, KeepsTheRow
  <2>3. CASE Quietly(GivesUp(j, "cancelled")) \/ Quietly(GivesUp(j, "failed"))
    BY <2>1, <2>3, CancelledMoves DEF Moves, KeepsTheRow
  <2>4. CASE Quietly(_create_scoped_store(j))
    <3> DEFINE to == [task[j] EXCEPT !.pc = "document", !.store = TRUE]
    <3>1. to \in Tasks /\ to.pc = "document" /\ to.store /\ to.known = task[j].known
      BY TypesOfARow DEF Tasks, BuildLabels
    <3>2. Becomes(j, to) /\ UNCHANGED data
      BY <2>4, <3>1, Updated DEF Quietly, _create_scoped_store, rowVars
    <3> HIDE DEF to
    <3> QED
      BY <2>1, <3>1, <3>2 DEF Becomes, StoreMove, Moves, KeepsTheRow
  <2> QED
    BY <1>4, <2>2, <2>3, <2>4 DEF Poll, Cancelled
<1>5. CASE Document(j)
  <2>1. UNCHANGED <<graph, jobs>> /\ task[j].pc = "document"
    BY <1>5 DEF Document, At, Cancelled, Quietly, rowVars, SelectFails
  <2>2. CASE SelectFails(j) \/ TaskDies(j)
    BY <2>1, <2>2, DyingErrs DEF Moves, KeepsTheRow
  <2>3. CASE Quietly(GivesUp(j, "cancelled"))
    BY <2>1, <2>3, CancelledMoves DEF Moves, KeepsTheRow
  <2>4. CASE /\ \E label \in {"document", "verify"} : Goes(j, label)
             /\ data' = upsert_nodes(j)
    <3>1. task'[j].pc \in {"document", "verify"} /\ Same(j)
      BY <2>4, Went DEF Same, BuildLabels
    <3> QED
      BY <2>1, <2>4, <3>1 DEF DocumentMove, Moves, KeepsTheRow, upsert_nodes
  <2>5. CASE GivesUp(j, "failed") /\ data' \in {data, upsert_nodes(j)}
    BY <2>1, <2>5, GaveUp DEF GivesUpMove, Moves, KeepsTheRow, upsert_nodes
  <2> QED
    BY <1>5, <2>2, <2>3, <2>4, <2>5 DEF Document, Cancelled
<1>6. CASE Verify(j)
  <2>1. UNCHANGED <<graph, jobs, data>> /\ task[j].pc = "verify"
    BY <1>6 DEF Verify, At, Quietly, rowVars
  <2>2. task'[j].pc \in {"last_poll", "give_up"} /\ Same(j)
    BY <1>6, Went DEF Verify, Quietly, Same, BuildLabels
  <2> QED
    BY <2>1, <2>2 DEF Same, VerifyMove, GivesUpMove, Moves, KeepsTheRow
<1>7. CASE LastPoll(j)
  <2>1. UNCHANGED <<graph, jobs>> /\ task[j].pc = "last_poll"
    BY <1>7 DEF LastPoll, At, Cancelled, Quietly, rowVars, SelectFails
  <2>2. CASE SelectFails(j)
    BY <2>1, <2>2, DyingErrs DEF Moves, KeepsTheRow
  <2>3. CASE Quietly(GivesUp(j, "cancelled"))
    BY <2>1, <2>3, CancelledMoves DEF Moves, KeepsTheRow
  <2>4. CASE /\ task' = [task EXCEPT
                    ![j].pc = IF graph.locked THEN "give_up" ELSE "activate",
                    ![j].known = graph,
                    ![j].old = graph.active]
             /\ UNCHANGED <<rowVars, faults>>
    <3> DEFINE to == [task[j] EXCEPT
                 !.pc = IF graph.locked THEN "give_up" ELSE "activate",
                 !.known = graph,
                 !.old = graph.active]
    <3>1. /\ to \in Tasks /\ to.pc \in {"give_up", "activate"} /\ to.old = graph.active
          /\ to.known = graph /\ to.store = task[j].store
      BY TypesOfARow, GraphFields DEF Tasks, BuildLabels
    <3>0. task' = [task EXCEPT ![j] = to]
      BY <2>4
    <3> HIDE DEF to
    <3>2. Becomes(j, to)
      BY <3>0, <3>1, Updated
    <3>3. UNCHANGED data
      BY <2>4 DEF rowVars
    <3> QED
      BY <2>1, <3>1, <3>2, <3>3 DEF Becomes, LastPollMove, GivesUpMove, Moves, KeepsTheRow
  <2> QED
    BY <1>7, <2>2, <2>3, <2>4 DEF LastPoll, Cancelled, Quietly
<1>8. CASE Activate(j)
  <2>1. UNCHANGED <<jobs, data>> /\ task[j].pc = "activate"
    BY <1>8 DEF Activate, At, Commits, SetsGraph, TaskDies
  <2>2. CASE SetsGraph(j, [graph EXCEPT !.active = j, !.status = Written(j, "built")])
    <3>1. graph' \in GraphRows /\ graph'.active = j /\ graph'.status = Written(j, "built")
      BY <2>2, ActivatedRow DEF SetsGraph
    <3>2. KeepsTheRow
      BY <3>1 DEF KeepsTheRow, Written
    <3>3. CASE TaskDies(j)
      BY <3>2, <3>3, DyingErrs DEF Moves
    <3>4. CASE GoesKnowing(j, "complete")
      BY <2>1, <3>1, <3>2, <3>4, WentKnowing DEF ActivateMove, Moves, BuildLabels
    <3> QED
      BY <1>8, <3>3, <3>4 DEF Activate, Commits
  <2>3. CASE TaskDies(j) /\ UNCHANGED <<graph, jobs>>
    BY <2>3, DyingErrs DEF Moves, KeepsTheRow
  <2> QED
    BY <1>8, <2>2, <2>3 DEF Activate, Commits
<1>9. CASE Complete(j)
  <2>1. UNCHANGED <<graph, data>> /\ task[j].pc = "complete"
    BY <1>9 DEF Complete, At, Commits, update_knowledge_graph_build_job, TaskDies
  <2>2. CASE TaskDies(j)
    BY <2>1, <2>2, DyingErrs DEF Moves, KeepsTheRow
  <2>3. CASE update_knowledge_graph_build_job(j, "completed") /\ Goes(j, "delete_old")
    <3>1. jobs'[j].status = "completed"
      BY <2>3, StatusWritten DEF update_knowledge_graph_build_job
    <3>2. task'[j].pc = "delete_old" /\ Same(j)
      BY <2>3, Went DEF Same, BuildLabels
    <3> QED
      BY <2>1, <3>1, <3>2 DEF CompleteMove, Moves, KeepsTheRow
  <2> QED
    BY <1>9, <2>2, <2>3 DEF Complete, Commits
<1>10. CASE DeleteOld(j)
  <2>1. UNCHANGED <<graph, jobs>> /\ task[j].pc = "delete_old"
    BY <1>10 DEF DeleteOld, At
  <2>2. CASE data' = data \ {task[j].old} /\ Ends(j)
    BY <2>1, <2>2, Ended DEF DeleteOldMove, Moves, KeepsTheRow
  <2>3. CASE Error /\ GivesUp(j, "failed")
    BY <2>1, <2>3, GaveUp, Counted DEF Errs, Moves, KeepsTheRow
  <2> QED
    BY <1>10, <2>2, <2>3 DEF DeleteOld
<1>11. CASE GiveUp(j)
  <2>1. UNCHANGED <<graph, jobs>> /\ task[j].pc = "give_up"
    BY <1>11 DEF GiveUp, At
  <2>2. CASE /\ Goes(j, "give_up_graph")
             /\ data' = IF task[j].store THEN data \ {j} ELSE data
    <3>1. task'[j].pc = "give_up_graph" /\ Same(j)
      BY <2>2, Went DEF Same, BuildLabels
    <3> QED
      BY <2>1, <2>2, <3>1 DEF GiveUpMove, Moves, KeepsTheRow
  <2>3. CASE Error /\ Ends(j)
    BY <2>1, <2>3, Dying DEF Errs, Moves, KeepsTheRow
  <2> QED
    BY <1>11, <2>2, <2>3 DEF GiveUp
<1>12. CASE GiveUpGraph(j)
  <2> DEFINE status == IF task[j].known.active = NoGeneration THEN task[j].outcome
                       ELSE "built"
  <2>1. At(j, "give_up_graph")
        /\ Commits(j, SetsGraph(j, [graph EXCEPT !.status = Written(j, status)]),
                   Goes(j, "give_up_job"))
    BY <1>12 DEF GiveUpGraph
  <2>2. /\ task[j].known.active = NoGeneration => status \in {"failed", "cancelled"}
        /\ task[j].known.active # NoGeneration => status = "built"
    BY TypesOfARow, TaskFields
  <2> HIDE DEF status
  <2>3. UNCHANGED <<jobs, data>> /\ task[j].pc = "give_up_graph"
    BY <2>1 DEF At, Commits, SetsGraph, TaskDies
  <2>4. CASE SetsGraph(j, [graph EXCEPT !.status = Written(j, status)])
    <3>1. /\ graph' \in GraphRows /\ graph'.active = graph.active
          /\ graph'.status = Written(j, status)
      BY <2>2, <2>4, GraphStatusWritten DEF SetsGraph
    <3>2. KeepsTheRow
      BY <2>2, <3>1 DEF KeepsTheRow, Written
    <3>3. CASE TaskDies(j)
      BY <3>2, <3>3, DyingErrs DEF Moves
    <3>4. CASE Goes(j, "give_up_job")
      <4>1. task'[j].pc = "give_up_job"
        BY <3>4, Went DEF BuildLabels
      <4> QED
        BY <2>2, <2>3, <3>1, <3>2, <4>1 DEF GiveUpGraphMove, Moves, Written
    <3> QED
      BY <2>1, <3>3, <3>4 DEF Commits
  <2>5. CASE TaskDies(j) /\ UNCHANGED <<graph, jobs>>
    BY <2>5, DyingErrs DEF Moves, KeepsTheRow
  <2> QED
    BY <2>1, <2>4, <2>5 DEF Commits
<1>13. CASE GiveUpJob(j)
  <2>1. UNCHANGED <<graph, data>> /\ task[j].pc = "give_up_job"
    BY <1>13 DEF GiveUpJob, At, Commits, TaskDies
  <2>2. CASE TaskDies(j)
    BY <2>1, <2>2, DyingErrs DEF Moves, KeepsTheRow
  <2>3. CASE Ends(j)
    BY <2>1, <2>3, Ended DEF GiveUpJobMove, Moves, KeepsTheRow
  <2> QED
    BY <1>13, <2>2, <2>3 DEF GiveUpJob, Commits
<1> QED
  BY <1>1, <1>2, <1>3, <1>4, <1>5, <1>6, <1>7, <1>8, <1>9, <1>10, <1>11, <1>12, <1>13
     DEF Build

-----------------------------------------------------------------------------
(* A step of a build keeps the second invariant. *)
BuildsOn(j) == IInv /\ SInv /\ BuildStep(j) /\ Moves(j) /\ KeepsTheRow

LEMMA OthersRest ==
    ASSUME NEW j \in Jobs, BuildsOn(j)
    PROVE  /\ app = "up" /\ task[j].pc # "none"
           /\ UNCHANGED <<app, recovery, stops, overtaken, overlapped>>
           /\ \A k \in Jobs \ {j} : task'[k] = task[k] /\ jobs'[k] = jobs[k]
           /\ ~overlapped => \A k \in Jobs \ {j} : task[k].pc = "none"
           /\ faults' = 0 => faults = 0
<1>1. app = "up"
  BY DEF BuildsOn, BuildStep, IInv, NothingRunsDown
<1>2. ~overlapped => \A k \in Jobs \ {j} : task[k].pc = "none"
  BY DEF BuildsOn, BuildStep, SInv, OneBuildAtATime
<1>3. faults' = 0 => faults = 0
  <2>1. faults \in Nat /\ faults' \in Nat /\ faults' >= faults
    BY StopsAndFaultsAssumption DEF BuildsOn, BuildStep, IInv, TypeOK
  <2> QED
    BY <2>1
<1> QED
  BY <1>1, <1>2, <1>3 DEF BuildsOn, BuildStep, appVars

LEMMA BuildKeepsTheGraph ==
    ASSUME NEW j \in Jobs, BuildsOn(j)
    PROVE  JobsKeepTheGraph' /\ OneBuildAtATime' /\ StoresAreKept'
<1>1. Exists
  BY DEF BuildsOn, BuildStep, IInv, RequestsAreFresh, SInv, JobsKeepTheGraph
<1>2. Exists'
  BY <1>1 DEF BuildsOn, KeepsTheRow, Exists
<1>3. JobsKeepTheGraph'
  BY <1>2 DEF JobsKeepTheGraph
<1>4. OneBuildAtATime'
  BY OthersRest DEF BuildsOn, SInv, OneBuildAtATime
<1>5. StoresAreKept'
  <2> SUFFICES ASSUME NEW k \in Jobs
               PROVE  /\ task'[k].pc \in {"none", "start"} => ~task'[k].store
                      /\ task'[k].pc \in {"document", "verify", "last_poll", "activate"} => task'[k].store
    BY DEF StoresAreKept
  <2>1. /\ task[k].pc \in {"none", "start"} => ~task[k].store
        /\ task[k].pc \in {"document", "verify", "last_poll", "activate"} => task[k].store
    BY DEF BuildsOn, SInv, StoresAreKept
  <2>2. CASE k # j
    BY <2>1, <2>2, OthersRest
  <2>3. CASE k = j
    BY <2>1, <2>3
       DEF BuildsOn, Moves, Same, StartMove, MarkRunningMove, MarkBuildingMove,
           GivesUpMove, StoreMove, DocumentMove, VerifyMove, LastPollMove, ActivateMove,
           CompleteMove, DeleteOldMove, GiveUpMove, GiveUpGraphMove, GiveUpJobMove, Errs
  <2> QED
    BY <2>2, <2>3
<1> QED
  BY <1>3, <1>4, <1>5

LEMMA BuildKeepsJobs ==
    ASSUME NEW j \in Jobs, BuildsOn(j)
    PROVE  JobsFollowTheirTasks'
<1> SUFFICES ASSUME NEW k \in Jobs, k \notin overtaken
             PROVE  /\ task'[k].pc \in Working \cup {"mark_building", "complete"} => jobs'[k].status = "running"
                    /\ task'[k].pc = "delete_old" => jobs'[k].status = "completed"
                    /\ task'[k].pc = "give_up" /\ task'[k].store /\ faults' = 0 => jobs'[k].status = "running"
  BY OthersRest DEF JobsFollowTheirTasks
<1>1. /\ task[k].pc \in Working \cup {"mark_building", "complete"} => jobs[k].status = "running"
      /\ task[k].pc = "delete_old" => jobs[k].status = "completed"
      /\ task[k].pc = "give_up" /\ task[k].store /\ faults = 0 => jobs[k].status = "running"
      /\ task[k].pc \in {"none", "start"} => ~task[k].store
  BY DEF BuildsOn, SInv, JobsFollowTheirTasks, StoresAreKept
<1>2. CASE k # j
  BY <1>1, <1>2, OthersRest
<1>3. CASE k = j
  BY <1>1, <1>3
     DEF BuildsOn, Moves, Same, StartMove, MarkRunningMove, MarkBuildingMove,
         GivesUpMove, StoreMove, DocumentMove, VerifyMove, LastPollMove, ActivateMove,
         CompleteMove, DeleteOldMove, GiveUpMove, GiveUpGraphMove, GiveUpJobMove, Errs, Working
<1> QED
  BY <1>2, <1>3

LEMMA BuildKeepsGivingUp ==
    ASSUME NEW j \in Jobs, BuildsOn(j)
    PROVE  GivingUpBeforeActivation'
<1> SUFFICES ASSUME faults' = 0, NEW k \in Jobs, task'[k].pc \in GivingUp
             PROVE  graph'.active # k /\ jobs'[k].status # "completed"
  BY DEF GivingUpBeforeActivation
<1>1. task[k].pc \in GivingUp => graph.active # k /\ jobs[k].status # "completed"
  BY OthersRest DEF BuildsOn, SInv, GivingUpBeforeActivation
<1>2. task[k].pc \in Before => graph.active # k /\ jobs[k].status # "completed"
  BY DEF BuildsOn, IInv, ActivatedOnce, NotActivated
<1>3. CASE k # j
  <2>1. task[k].pc \in GivingUp /\ jobs'[k] = jobs[k]
    BY <1>3, OthersRest
  <2>2. graph'.active # graph.active => graph'.active = j
    BY DEF BuildsOn, BuildStep
  <2> QED
    BY <1>1, <1>3, <2>1, <2>2
<1>4. CASE k = j
  <2>1. task[j].pc \in GivingUp \cup Before
    BY <1>4 DEF BuildsOn, Moves, Same, StartMove, MarkRunningMove, MarkBuildingMove,
           GivesUpMove, StoreMove, DocumentMove, VerifyMove, LastPollMove, ActivateMove,
           CompleteMove, DeleteOldMove, GiveUpMove, GiveUpGraphMove, GiveUpJobMove, Errs,
           GivingUp, Before
  <2>2. jobs'[j].status = "completed" => jobs[j].status = "completed"
    BY <1>4, <2>1 DEF BuildsOn, BuildStep, GivingUp, Before
  <2>3. graph'.active = graph.active
    BY <1>4 DEF BuildsOn, BuildStep, GivingUp
  <2> QED
    BY <1>1, <1>2, <1>4, <2>1, <2>2, <2>3
<1> QED
  BY <1>3, <1>4

LEMMA BuildKeepsCopies ==
    ASSUME NEW j \in Jobs, BuildsOn(j)
    PROVE  CopiesAreCurrent'
<1> SUFFICES ASSUME Calm', NEW k \in Jobs
             PROVE  /\ task'[k].pc \notin {"none", "start", "give_up_job"} =>
                          /\ task'[k].known.status = graph'.status
                          /\ task'[k].known.active = graph'.active
                    /\ task'[k].pc = "activate" => task'[k].old = graph'.active
                    /\ task'[k].pc \in {"complete", "delete_old"} => graph'.active = k
  BY DEF CopiesAreCurrent
<1>1. Calm /\ faults' = 0
  BY OthersRest DEF Calm
<1>2. CASE k # j
  BY <1>1, <1>2, OthersRest DEF Calm
<1>3. CASE k = j
  <2>1. /\ task[j].pc \notin {"none", "start", "give_up_job"} =>
              /\ task[j].known.status = graph.status
              /\ task[j].known.active = graph.active
        /\ task[j].pc \in {"complete", "delete_old"} => graph.active = j
    BY <1>1 DEF BuildsOn, SInv, CopiesAreCurrent
  <2>2. task[j].pc # "none"
    BY OthersRest
  <2> QED
    BY <1>1, <1>3, <2>1, <2>2
       DEF BuildsOn, Moves, Same, StartMove, MarkRunningMove, MarkBuildingMove,
           GivesUpMove, StoreMove, DocumentMove, VerifyMove, LastPollMove, ActivateMove,
           CompleteMove, DeleteOldMove, GiveUpMove, GiveUpGraphMove, GiveUpJobMove, Errs
<1> QED
  BY <1>2, <1>3

(* A generation that is superseded stays so.                               *)
LEMMA StaysSuperseded ==
    ASSUME NEW j \in Jobs, BuildsOn(j), faults' = 0, NEW g \in Jobs, Superseded(g)
    PROVE  Superseded(g)'
<1>1. CASE g \in overtaken
  BY <1>1, OthersRest DEF Superseded
<1>2. CASE jobs[g].status = "completed" /\ g # j
  BY <1>2, OthersRest DEF Superseded
<1>3. CASE jobs[g].status = "completed" /\ g = j
  <2>1. task[j].pc \notin Before \cup GivingUp
    BY <1>3, OthersRest DEF BuildsOn, IInv, ActivatedOnce, NotActivated,
                            SInv, GivingUpBeforeActivation
  <2>2. jobs'[j].status = "completed"
    BY <1>3, <2>1
       DEF BuildsOn, Moves, Same, StartMove, MarkRunningMove, MarkBuildingMove,
           GivesUpMove, StoreMove, DocumentMove, VerifyMove, LastPollMove, ActivateMove,
           CompleteMove, DeleteOldMove, GiveUpMove, GiveUpGraphMove, GiveUpJobMove, Errs,
           Before, GivingUp
  <2> QED
    BY <1>3, <2>2 DEF Superseded
<1> QED
  BY <1>1, <1>2, <1>3 DEF Superseded

LEMMA BuildKeepsActive ==
    ASSUME NEW j \in Jobs, BuildsOn(j)
    PROVE  ActiveIsAccounted'
<1> SUFFICES ASSUME Calm', NEW g \in data', g = graph'.active
             PROVE  task'[g].pc \in {"complete", "delete_old"} \/ Superseded(g)'
  BY DEF ActiveIsAccounted
<1>1. Calm /\ faults' = 0 /\ g \in Jobs
  BY OthersRest DEF Calm, BuildsOn, BuildStep
<1>2. CASE graph'.active # graph.active
  <2>1. g = j /\ task'[j].pc \in {"complete", "none"} /\ task[j].pc = "activate"
    BY <1>2 DEF BuildsOn, BuildStep
  <2>2. task'[j].pc # "none"
    BY <1>1, <2>1
       DEF BuildsOn, Moves, Same, StartMove, MarkRunningMove, MarkBuildingMove,
           GivesUpMove, StoreMove, DocumentMove, VerifyMove, LastPollMove, ActivateMove,
           CompleteMove, DeleteOldMove, GiveUpMove, GiveUpGraphMove, GiveUpJobMove, Errs
  <2> QED
    BY <2>1, <2>2
<1>3. CASE graph'.active = graph.active
  <2>1. g = j => task[j].pc \notin Before \cup GivingUp
    BY <1>1, <1>3 DEF BuildsOn, IInv, ActivatedOnce, NotActivated, SInv,
                      GivingUpBeforeActivation, Calm
  <2>2. g \in data
    BY <1>1, <2>1
       DEF BuildsOn, Moves, Same, StartMove, MarkRunningMove, MarkBuildingMove,
           GivesUpMove, StoreMove, DocumentMove, VerifyMove, LastPollMove, ActivateMove,
           CompleteMove, DeleteOldMove, GiveUpMove, GiveUpGraphMove, GiveUpJobMove, Errs,
           Before
  <2>3. task[g].pc \in {"complete", "delete_old"} \/ Superseded(g)
    BY <1>1, <1>3, <2>2, OthersRest DEF BuildsOn, SInv, ActiveIsAccounted, Interrupted
  <2>4. CASE Superseded(g)
    BY <1>1, <2>4, StaysSuperseded
  <2>5. CASE task[g].pc \in {"complete", "delete_old"} /\ g # j
    BY <1>1, <2>5, OthersRest
  <2>6. CASE task[g].pc \in {"complete", "delete_old"} /\ g = j
    <3>1. \/ task[j].pc = "complete" /\ task'[j].pc = "delete_old"
          \/ task[j].pc = "delete_old"
      BY <1>1, <2>6
         DEF BuildsOn, Moves, Same, StartMove, MarkRunningMove, MarkBuildingMove,
             GivesUpMove, StoreMove, DocumentMove, VerifyMove, LastPollMove, ActivateMove,
             CompleteMove, DeleteOldMove, GiveUpMove, GiveUpGraphMove, GiveUpJobMove, Errs
    <3>2. task[j].pc = "delete_old" => Superseded(j)
      BY DEF BuildsOn, SInv, JobsFollowTheirTasks, Superseded
    <3> QED
      BY <1>1, <2>6, <3>1, <3>2, StaysSuperseded
  <2> QED
    BY <2>3, <2>4, <2>5, <2>6
<1> QED
  BY <1>2, <1>3

LEMMA BuildKeepsOldAccounts ==
    ASSUME NEW j \in Jobs, BuildsOn(j)
    PROVE  OldIsAccounted'
<1> SUFFICES ASSUME Calm', NEW i \in Jobs,
                    task'[i].pc \in {"activate", "complete", "delete_old"},
                    task'[i].old \in data'
             PROVE  jobs'[task'[i].old].status = "completed" \/ task'[i].old \in overtaken'
  BY DEF OldIsAccounted, Superseded
<1>1. Calm /\ faults' = 0 /\ i = j
  BY OthersRest DEF Calm
<1> DEFINE g == task'[j].old
<1>2. g \in Jobs
  BY <1>1 DEF BuildsOn, BuildStep
<1>3. Superseded(g)
  <2>1. CASE task[j].pc = "last_poll"
    <3>1. g = graph.active /\ data' = data
      BY <1>1, <2>1
         DEF BuildsOn, Moves, Same, StartMove, MarkRunningMove, MarkBuildingMove,
             GivesUpMove, StoreMove, DocumentMove, VerifyMove, LastPollMove, ActivateMove,
             CompleteMove, DeleteOldMove, GiveUpMove, GiveUpGraphMove, GiveUpJobMove, Errs
    <3>2. task[g].pc \in {"complete", "delete_old"} \/ Superseded(g)
      BY <1>1, <1>2, <3>1, OthersRest DEF BuildsOn, SInv, ActiveIsAccounted, Interrupted
    <3> QED
      BY <1>1, <1>2, <2>1, <3>2, OthersRest DEF Calm
  <2>2. CASE task[j].pc # "last_poll"
    <3>1. /\ task[j].pc \in {"activate", "complete", "delete_old"}
          /\ g = task[j].old /\ data' = data
      BY <1>1, <2>2
         DEF BuildsOn, Moves, Same, StartMove, MarkRunningMove, MarkBuildingMove,
             GivesUpMove, StoreMove, DocumentMove, VerifyMove, LastPollMove, ActivateMove,
             CompleteMove, DeleteOldMove, GiveUpMove, GiveUpGraphMove, GiveUpJobMove, Errs
    <3> QED
      BY <1>1, <3>1 DEF BuildsOn, SInv, OldIsAccounted
  <2> QED
    BY <2>1, <2>2
<1> HIDE DEF g
<1>4. jobs'[g].status = "completed" \/ g \in overtaken'
  BY <1>1, <1>2, <1>3, StaysSuperseded DEF Superseded
<1> QED
  BY <1>1, <1>4 DEF g

LEMMA BuildKeepsAccounts ==
    ASSUME NEW j \in Jobs, BuildsOn(j)
    PROVE  DataIsAccounted'
<1> SUFFICES ASSUME Calm', NEW g \in data'
             PROVE  \/ g = graph'.active
                    \/ g \in overtaken'
                    \/ stops' > 0 /\ jobs'[g].status = "completed"
                    \/ /\ task'[g].pc \in {"document", "verify", "last_poll", "activate", "give_up"}
                       /\ task'[g].store
                    \/ \E i \in Jobs : task'[i].pc \in {"complete", "delete_old"}
                                       /\ task'[i].old = g
  BY DEF DataIsAccounted
<1>1. /\ Calm /\ faults' = 0 /\ g \in Jobs
      /\ app = "up" /\ UNCHANGED <<stops, overtaken>>
  BY OthersRest DEF Calm, BuildsOn, BuildStep
<1>2. CASE g \notin data
  BY <1>1, <1>2
     DEF BuildsOn, Moves, Same, StartMove, MarkRunningMove, MarkBuildingMove,
         GivesUpMove, StoreMove, DocumentMove, VerifyMove, LastPollMove, ActivateMove,
         CompleteMove, DeleteOldMove, GiveUpMove, GiveUpGraphMove, GiveUpJobMove, Errs,
         SInv, StoresAreKept
<1>3. CASE g \in data
  <2>1. \/ g = graph.active
        \/ g \in overtaken
        \/ stops > 0 /\ jobs[g].status = "completed"
        \/ /\ task[g].pc \in {"document", "verify", "last_poll", "activate", "give_up"}
           /\ task[g].store
        \/ \E i \in Jobs : task[i].pc \in {"complete", "delete_old"} /\ task[i].old = g
    BY <1>1, <1>3 DEF BuildsOn, SInv, DataIsAccounted, Interrupted
  <2>2. CASE g = graph.active
    <3>1. CASE graph'.active # graph.active
      <4>1. task[j].pc = "activate" /\ task'[j].pc \in {"complete", "none"}
        BY <3>1 DEF BuildsOn, BuildStep
      <4>2. task'[j].pc = "complete" /\ task'[j].old = task[j].old
        BY <1>1, <4>1
           DEF BuildsOn, Moves, Same, StartMove, MarkRunningMove, MarkBuildingMove,
               GivesUpMove, StoreMove, DocumentMove, VerifyMove, LastPollMove, ActivateMove,
               CompleteMove, DeleteOldMove, GiveUpMove, GiveUpGraphMove, GiveUpJobMove, Errs
      <4>3. task[j].old = graph.active
        BY <1>1, <4>1 DEF BuildsOn, SInv, CopiesAreCurrent
      <4> QED
        BY <2>2, <4>2, <4>3
    <3>2. CASE graph'.active = graph.active
      BY <2>2, <3>2
    <3> QED
      BY <3>1, <3>2
  <2>3. CASE g \in overtaken
    BY <1>1, <2>3
  <2>4. CASE stops > 0 /\ jobs[g].status = "completed"
    <3>1. Superseded(g)'
      BY <1>1, <2>4, StaysSuperseded DEF Superseded
    <3> QED
      BY <1>1, <2>4, <3>1 DEF Superseded
  <2>5. CASE /\ task[g].pc \in {"document", "verify", "last_poll", "activate", "give_up"}
             /\ task[g].store
    <3>1. CASE g # j
      BY <1>1, <2>5, <3>1, OthersRest
    <3>2. CASE g = j
      BY <1>1, <2>5, <3>2
         DEF BuildsOn, Moves, Same, StartMove, MarkRunningMove, MarkBuildingMove,
             GivesUpMove, StoreMove, DocumentMove, VerifyMove, LastPollMove, ActivateMove,
             CompleteMove, DeleteOldMove, GiveUpMove, GiveUpGraphMove, GiveUpJobMove, Errs
    <3> QED
      BY <3>1, <3>2
  <2>6. ASSUME NEW i \in Jobs, task[i].pc \in {"complete", "delete_old"}, task[i].old = g
        PROVE  task'[i].pc \in {"complete", "delete_old"} /\ task'[i].old = g
    <3>1. CASE i # j
      BY <2>6, <3>1, OthersRest
    <3>2. CASE i = j
      BY <1>1, <2>6, <3>2
         DEF BuildsOn, Moves, Same, StartMove, MarkRunningMove, MarkBuildingMove,
             GivesUpMove, StoreMove, DocumentMove, VerifyMove, LastPollMove, ActivateMove,
             CompleteMove, DeleteOldMove, GiveUpMove, GiveUpGraphMove, GiveUpJobMove, Errs
    <3> QED
      BY <3>1, <3>2
  <2> QED
    BY <2>1, <2>2, <2>3, <2>4, <2>5, <2>6
<1> QED
  BY <1>2, <1>3

LEMMA BuildKeepsRow ==
    ASSUME NEW j \in Jobs, BuildsOn(j)
    PROVE  RowIsSettled'
<1> SUFFICES ASSUME Calm', overtaken' = {}
             PROVE  /\ LiveTasks' = {} => SettledRow'
                    /\ \A k \in Jobs :
                          /\ task'[k].pc \in {"start", "mark_running", "mark_building", "complete",
                                              "delete_old", "give_up_job"} => SettledRow'
                          /\ task'[k].pc \in {"give_up", "give_up_graph"} =>
                                 SettledRow' \/ jobs'[k].status = "running"
  BY OthersRest DEF RowIsSettled
<1>1. Calm /\ faults' = 0 /\ overtaken = {} /\ task[j].pc # "none"
  BY OthersRest DEF Calm
<1>2. /\ task[j].pc \in {"start", "mark_running", "mark_building", "complete",
                         "delete_old", "give_up_job"} => SettledRow
      /\ task[j].pc \in {"give_up", "give_up_graph"} => SettledRow \/ jobs[j].status = "running"
  BY <1>1 DEF BuildsOn, SInv, RowIsSettled
<1>3. /\ task[j].pc \notin {"none", "start", "give_up_job"} =>
            /\ task[j].known.status = graph.status
            /\ task[j].known.active = graph.active
      /\ task[j].pc \in {"complete", "delete_old"} => graph.active = j
  BY <1>1 DEF BuildsOn, SInv, CopiesAreCurrent
<1>4. task[j].pc \in Working => jobs[j].status = "running"
  BY <1>1 DEF BuildsOn, SInv, JobsFollowTheirTasks
<1>5. j # NoGeneration
  BY DEF Jobs, NoGeneration
<1>6. UNCHANGED graph /\ SettledRow => SettledRow'
  BY DEF SettledRow
<1>7. task'[j].pc \in {"none", "start", "mark_running", "mark_building", "complete",
                       "delete_old", "give_up_job"} => SettledRow'
  <2>1. CASE ActivateMove(j)
    BY <1>3, <1>5, <2>1 DEF ActivateMove, Written, SettledRow
  <2>2. CASE GiveUpGraphMove(j)
    BY <1>3, <2>2 DEF GiveUpGraphMove, Written, SettledRow
  <2> QED
    BY <1>1, <1>2, <1>6, <2>1, <2>2
       DEF BuildsOn, Moves, StartMove, MarkRunningMove, MarkBuildingMove,
           GivesUpMove, StoreMove, DocumentMove, VerifyMove, LastPollMove,
           CompleteMove, DeleteOldMove, GiveUpMove, GiveUpJobMove, Errs
<1>8. task'[j].pc \in {"give_up", "give_up_graph"} => SettledRow' \/ jobs'[j].status = "running"
  BY <1>1, <1>2, <1>4, <1>6
     DEF BuildsOn, Moves, StartMove, MarkRunningMove, MarkBuildingMove, ActivateMove,
         GivesUpMove, StoreMove, DocumentMove, VerifyMove, LastPollMove, GiveUpGraphMove,
         CompleteMove, DeleteOldMove, GiveUpMove, GiveUpJobMove, Errs, Working
<1>9. \A k \in Jobs \ {j} : task'[k].pc = "none"
  BY <1>1, OthersRest DEF Calm
<1>10. LiveTasks' = {} => task'[j].pc = "none"
  BY DEF LiveTasks
<1> QED
  BY <1>7, <1>8, <1>9, <1>10

LEMMA BuildKeepsSecond ==
    ASSUME IInv, SInv, NEW j \in Jobs, Build(j)
    PROVE  SInv'
<1>1. BuildsOn(j)
  <2>1. TypeOK
    BY DEF IInv
  <2> QED
    BY <2>1, BuildIsAStep, BuildMoves DEF BuildsOn
<1> QED
  BY <1>1, BuildKeepsTheGraph, BuildKeepsJobs, BuildKeepsGivingUp, BuildKeepsCopies,
     BuildKeepsActive, BuildKeepsOldAccounts, BuildKeepsAccounts, BuildKeepsRow DEF SInv

-----------------------------------------------------------------------------
(* The requests.  A row without jobs is settled, and whatever touches it   *)
(* leaves it so; otherwise its status stays.                               *)
LEMMA RowTouchedKeepsSecond ==
    ASSUME IInv, SInv, graph \in GraphRows, graph'.active = graph.active,
           \/ graph'.status = graph.status
           \/ /\ \A j \in Jobs : jobs[j].status = "absent"
              /\ graph'.status \in {"created", "deleted"},
           UNCHANGED <<jobs, data, task, app, recovery, stops, faults, overtaken, overlapped>>
    PROVE  SInv'
<1>1. (\A j \in Jobs : jobs[j].status = "absent") =>
          graph.active = NoGeneration /\ \A j \in Jobs : task[j].pc = "none"
  <2>1. graph.active \in Jobs \cup {NoGeneration}
    BY GraphFields DEF Generations
  <2> QED
    BY <2>1 DEF IInv, ActivatedOnce, NotActivated, RequestsAreFresh
<1>2. SettledRow => SettledRow'
  BY <1>1 DEF SettledRow
<1>3. JobsKeepTheGraph'
  BY DEF SInv, JobsKeepTheGraph, Exists
<1>4. OneBuildAtATime' /\ StoresAreKept' /\ JobsFollowTheirTasks'
  BY DEF SInv, OneBuildAtATime, StoresAreKept, JobsFollowTheirTasks
<1>5. GivingUpBeforeActivation'
  BY DEF SInv, GivingUpBeforeActivation
<1>6. CopiesAreCurrent'
  BY <1>1 DEF SInv, CopiesAreCurrent, Calm
<1>7. ActiveIsAccounted' /\ OldIsAccounted'
  BY DEF SInv, ActiveIsAccounted, OldIsAccounted, Calm, Superseded, Interrupted, Recovered
<1>8. DataIsAccounted'
  BY DEF SInv, DataIsAccounted, Calm, Interrupted, Recovered
<1>9. RowIsSettled'
  BY <1>2 DEF SInv, RowIsSettled, Calm, LiveTasks, ActiveJobs
<1> QED
  BY <1>3, <1>4, <1>5, <1>6, <1>7, <1>8, <1>9 DEF SInv

LEMMA RowRequestsKeepSecond ==
    ASSUME IInv, SInv,
           \/ create_knowledge_graph_index
           \/ delete_knowledge_graph_index_srvc \/ delete_knowledge_graph_index
           \/ create_simulation
           \/ TurnLoadsRuntime \/ TurnHasConstructed
           \/ \E j \in Jobs : queue_knowledge_graph_build(j) \/ CancelReads(j)
    PROVE  SInv'
<1>1. graph \in GraphRows
  BY DEF IInv, TypeOK
<1>2. CASE create_knowledge_graph_index
  <2>1. graph'.active = graph.active /\ graph'.status = "created"
    BY <1>1, <1>2 DEF create_knowledge_graph_index, GraphRows
  <2>2. \A j \in Jobs : jobs[j].status = "absent"
    BY <1>2 DEF create_knowledge_graph_index, SInv, JobsKeepTheGraph, Exists
  <2>3. UNCHANGED <<jobs, data, task, app, recovery, stops, faults, overtaken, overlapped>>
    BY <1>2 DEF create_knowledge_graph_index, appVars, historyVars
  <2> QED
    BY <1>1, <2>1, <2>2, <2>3, RowTouchedKeepsSecond
<1>3. CASE delete_knowledge_graph_index
  <2>1. UNCHANGED <<jobs, data, task, app, recovery, stops, faults, overtaken, overlapped>>
    BY <1>3 DEF delete_knowledge_graph_index, appVars, historyVars
  <2>2. graph'.active = graph.active
        /\ \/ graph'.status = graph.status
           \/ graph'.status = "deleted" /\ \A j \in Jobs : jobs[j].status = "absent"
    BY <1>1, <1>3 DEF delete_knowledge_graph_index, GraphRows
  <2> QED
    BY <1>1, <2>1, <2>2, RowTouchedKeepsSecond
<1>4. CASE create_simulation
  <2>1. UNCHANGED <<jobs, data, task, app, recovery, stops, faults, overtaken, overlapped>>
    BY <1>4 DEF create_simulation, appVars, historyVars
  <2>2. graph'.active = graph.active /\ graph'.status = graph.status
    BY <1>1, <1>4 DEF create_simulation, ValidateBinding, InsertSimulation,
                      lock_knowledge_graph, GraphRows
  <2> QED
    BY <1>1, <2>1, <2>2, RowTouchedKeepsSecond
<1>5. CASE \/ delete_knowledge_graph_index_srvc \/ TurnLoadsRuntime \/ TurnHasConstructed
           \/ \E j \in Jobs : queue_knowledge_graph_build(j) \/ CancelReads(j)
  <2>1. UNCHANGED <<graph, jobs, data, task, app, recovery, stops, faults, overtaken, overlapped>>
    BY <1>5 DEF delete_knowledge_graph_index_srvc, TurnLoadsRuntime, TurnHasConstructed,
                queue_knowledge_graph_build, CancelReads, rowVars, appVars, historyVars
  <2> QED
    BY <1>1, <2>1, RowTouchedKeepsSecond
<1> QED
  BY <1>2, <1>3, <1>4, <1>5

(* The status of a job is written while the process is up.                 *)
LEMMA JobsTouchedKeepSecond ==
    ASSUME IInv, SInv, app = "up", overtaken \subseteq overtaken', JobsKeepTheGraph',
           \A k \in Jobs :
              \/ jobs'[k].status = jobs[k].status
              \/ k \in overtaken'
              \/ /\ jobs[k].status # "completed"
                 /\ task[k].pc \notin Working \cup {"mark_building", "complete", "delete_old"}
                 /\ jobs[k].status = "running" => task[k].pc \notin {"give_up", "give_up_graph"},
           \A k \in Jobs : jobs'[k].status = "completed" => jobs[k].status = "completed",
           UNCHANGED <<graph, data, task, app, recovery, stops, faults, overlapped>>
    PROVE  SInv'
<1>1. data \subseteq Jobs
  BY DEF IInv, TypeOK
<1>2. OneBuildAtATime' /\ StoresAreKept' /\ GivingUpBeforeActivation'
  BY DEF SInv, OneBuildAtATime, StoresAreKept, GivingUpBeforeActivation
<1>3. JobsFollowTheirTasks'
  BY DEF SInv, JobsFollowTheirTasks
<1>4. CopiesAreCurrent'
  BY DEF SInv, CopiesAreCurrent, Calm
<1>5. \A k \in Jobs : Superseded(k) => Superseded(k)'
  BY DEF Superseded
<1>6. ActiveIsAccounted'
  BY <1>1, <1>5 DEF SInv, ActiveIsAccounted, Calm, Interrupted
<1>7. OldIsAccounted'
  <2> SUFFICES ASSUME Calm, NEW i \in Jobs,
                      task[i].pc \in {"activate", "complete", "delete_old"}, task[i].old \in data
               PROVE  jobs'[task[i].old].status = "completed" \/ task[i].old \in overtaken'
    BY DEF OldIsAccounted, Calm, Superseded
  <2>1. Superseded(task[i].old)
    BY DEF SInv, OldIsAccounted
  <2> QED
    BY <1>1, <2>1 DEF Superseded
<1>8. DataIsAccounted'
  <2> SUFFICES ASSUME Calm, NEW g \in data
               PROVE  \/ g = graph.active
                      \/ g \in overtaken'
                      \/ stops > 0 /\ jobs'[g].status = "completed"
                      \/ /\ task[g].pc \in {"document", "verify", "last_poll", "activate", "give_up"}
                         /\ task[g].store
                      \/ \E i \in Jobs : task[i].pc \in {"complete", "delete_old"} /\ task[i].old = g
    BY DEF DataIsAccounted, Calm
  <2>1. \/ g = graph.active
        \/ g \in overtaken
        \/ stops > 0 /\ jobs[g].status = "completed"
        \/ /\ task[g].pc \in {"document", "verify", "last_poll", "activate", "give_up"}
           /\ task[g].store
        \/ \E i \in Jobs : task[i].pc \in {"complete", "delete_old"} /\ task[i].old = g
    BY DEF SInv, DataIsAccounted, Interrupted
  <2> QED
    BY <1>1, <2>1
<1>9. RowIsSettled'
  <2> SUFFICES ASSUME Calm, overtaken' = {}
               PROVE  /\ LiveTasks = {} => SettledRow
                      /\ \A j \in Jobs :
                            /\ task[j].pc \in {"start", "mark_running", "mark_building", "complete",
                                               "delete_old", "give_up_job"} => SettledRow
                            /\ task[j].pc \in {"give_up", "give_up_graph"} =>
                                   SettledRow \/ jobs'[j].status = "running"
    BY DEF RowIsSettled, Calm, SettledRow, LiveTasks
  <2> QED
    BY DEF SInv, RowIsSettled
<1> QED
  BY <1>2, <1>3, <1>4, <1>6, <1>7, <1>8, <1>9 DEF SInv

LEMMA InsertKeepsSecond ==
    ASSUME IInv, SInv, NEW j \in Jobs, create_knowledge_graph_build_job(j)
    PROVE  SInv'
<1>1. /\ TypeOK /\ queue_request[j] = "checked"
      /\ UNCHANGED <<graph, data, task, app, recovery, stops, faults, overtaken, overlapped>>
  BY DEF create_knowledge_graph_build_job, appVars, historyVars, IInv
<1>2. app = "up" /\ jobs[j].status = "absent" /\ task[j].pc = "none"
  BY <1>1 DEF IInv, NothingRunsDown, RequestsAreFresh
<1>3. CASE Exists /\ jobs' = [jobs EXCEPT ![j].status = "queued"]
  <2>1. jobs'[j].status = "queued" /\ \A i \in Jobs \ {j} : jobs'[i] = jobs[i]
    BY <1>1, <1>3, StatusWritten
  <2>2. JobsKeepTheGraph'
    BY <1>1, <1>3 DEF JobsKeepTheGraph, Exists
  <2>3. \A k \in Jobs : jobs'[k].status = "completed" => jobs[k].status = "completed"
    BY <2>1
  <2>4. \A k \in Jobs :
           \/ jobs'[k].status = jobs[k].status
           \/ /\ jobs[k].status # "completed"
              /\ task[k].pc \notin Working \cup {"mark_building", "complete", "delete_old"}
              /\ jobs[k].status = "running" => task[k].pc \notin {"give_up", "give_up_graph"}
    BY <1>2, <2>1 DEF Working
  <2> QED
    BY <1>1, <1>2, <2>2, <2>3, <2>4, JobsTouchedKeepSecond
<1>4. CASE UNCHANGED jobs
  <2>1. graph \in GraphRows
    BY <1>1 DEF TypeOK
  <2> QED
    BY <1>1, <1>4, <2>1, RowTouchedKeepsSecond
<1> QED
  BY <1>3, <1>4 DEF create_knowledge_graph_build_job

LEMMA CancelWritesKeepsSecond ==
    ASSUME IInv, SInv, NEW j \in Jobs, CancelWrites(j)
    PROVE  SInv'
<1>1. /\ TypeOK /\ pending_cancel[j] # "none"
      /\ UNCHANGED <<graph, data, task, app, recovery, stops, faults, overlapped>>
  BY DEF CancelWrites, appVars, IInv
<1>2. app = "up" /\ jobs[j].status # "absent"
  BY <1>1 DEF IInv, NothingRunsDown, RequestsAreFresh
<1>3. CancelWrote(j) /\ overtaken \subseteq overtaken'
  BY <1>1, CancelWritesFacts
<1>4. JobsKeepTheGraph'
  BY <1>1, <1>2, <1>3 DEF CancelWrote, SInv, JobsKeepTheGraph, Exists
<1>5. \A k \in Jobs : jobs'[k].status = "completed" => jobs[k].status = "completed"
  BY <1>3 DEF CancelWrote
<1>6. CASE j \in overtaken'
  <2>1. \A k \in Jobs : jobs'[k].status = jobs[k].status \/ k \in overtaken'
    BY <1>3, <1>6 DEF CancelWrote
  <2> QED
    BY <1>1, <1>2, <1>3, <1>4, <1>5, <2>1, JobsTouchedKeepSecond
<1>7. CASE j \notin overtaken' /\ jobs'[j].status # jobs[j].status
  <2>1. task[j].pc = "start" \/ jobs[j].status = "queued"
    BY <1>3, <1>7 DEF CancelWrote
  <2>2. task[j].pc = "start" => jobs[j].status # "completed"
    BY DEF IInv, ActivatedOnce, NotActivated, Before
  <2>3. /\ jobs[j].status # "completed"
        /\ task[j].pc \notin Working \cup {"mark_building", "complete", "delete_old"}
        /\ jobs[j].status = "running" => task[j].pc \notin {"give_up", "give_up_graph"}
    BY <1>3, <1>7, <2>1, <2>2 DEF SInv, JobsFollowTheirTasks, Working
  <2>4. \A k \in Jobs \ {j} : jobs'[k] = jobs[k]
    BY <1>3 DEF CancelWrote
  <2>5. \A k \in Jobs :
           \/ jobs'[k].status = jobs[k].status
           \/ /\ jobs[k].status # "completed"
              /\ task[k].pc \notin Working \cup {"mark_building", "complete", "delete_old"}
              /\ jobs[k].status = "running" => task[k].pc \notin {"give_up", "give_up_graph"}
    BY <2>3, <2>4
  <2> QED
    BY <1>1, <1>2, <1>3, <1>4, <1>5, <2>5, JobsTouchedKeepSecond
<1>8. CASE jobs'[j].status = jobs[j].status
  <2>1. \A k \in Jobs : jobs'[k].status = jobs[k].status
    BY <1>3, <1>8 DEF CancelWrote
  <2> QED
    BY <1>1, <1>2, <1>3, <1>4, <1>5, <2>1, JobsTouchedKeepSecond
<1> QED
  BY <1>6, <1>7, <1>8

LEMMA StartTaskKeepsSecond ==
    ASSUME IInv, SInv, NEW j \in Jobs, start_knowledge_graph_build_task(j)
    PROVE  SInv'
<1>1. /\ TypeOK /\ queue_request[j] = "inserted" /\ Goes(j, "start")
      /\ overlapped' = (overlapped \/ LiveTasks # {})
      /\ UNCHANGED <<graph, jobs, data, app, recovery, stops, faults, overtaken>>
  BY DEF start_knowledge_graph_build_task, rowVars, appVars, IInv, Goes
<1>2. app = "up" /\ task[j].pc = "none"
  BY <1>1 DEF IInv, NothingRunsDown, RequestsAreFresh
<1>3. /\ task'[j].pc = "start" /\ task'[j].store = task[j].store
      /\ task'[j].old = task[j].old
      /\ \A i \in Jobs \ {j} : task'[i] = task[i]
  BY <1>1, Went DEF Becomes, BuildLabels
<1>4. ~overlapped' => ~overlapped /\ \A i \in Jobs : task[i].pc = "none"
  BY <1>1 DEF LiveTasks
<1>5. JobsKeepTheGraph' /\ OneBuildAtATime'
  BY <1>1, <1>3, <1>4 DEF SInv, JobsKeepTheGraph, Exists, OneBuildAtATime
<1>6. StoresAreKept' /\ JobsFollowTheirTasks' /\ GivingUpBeforeActivation'
  BY <1>1, <1>2, <1>3 DEF SInv, StoresAreKept, JobsFollowTheirTasks,
                          GivingUpBeforeActivation, Working, GivingUp
<1>7. CopiesAreCurrent'
  BY <1>1, <1>3, <1>4 DEF SInv, CopiesAreCurrent, Calm
<1>8. data \subseteq Jobs
  BY <1>1 DEF TypeOK
<1>9. ActiveIsAccounted' /\ OldIsAccounted'
  BY <1>1, <1>2, <1>3, <1>4, <1>8
     DEF SInv, ActiveIsAccounted, OldIsAccounted, Calm, Superseded, Interrupted
<1>10. DataIsAccounted'
  BY <1>1, <1>2, <1>3, <1>4, <1>8 DEF SInv, DataIsAccounted, Calm, Interrupted
<1>11. RowIsSettled'
  <2> SUFFICES ASSUME Calm', overtaken' = {}
               PROVE  /\ SettledRow'
                      /\ \A k \in Jobs : task'[k].pc \notin {"give_up", "give_up_graph"}
    BY <1>1, <1>2 DEF RowIsSettled
  <2>1. Calm /\ overtaken = {} /\ LiveTasks = {}
    BY <1>1, <1>4 DEF Calm, LiveTasks
  <2>2. SettledRow
    BY <1>2, <2>1 DEF SInv, RowIsSettled
  <2> QED
    BY <1>1, <1>3, <1>4, <2>1, <2>2 DEF SettledRow, Calm
<1> QED
  BY <1>5, <1>6, <1>7, <1>9, <1>10, <1>11 DEF SInv

LEMMA RequestsKeepSecond ==
    ASSUME IInv, SInv, Requests
    PROVE  SInv'
BY RowRequestsKeepSecond, InsertKeepsSecond, CancelWritesKeepsSecond, StartTaskKeepsSecond
   DEF Requests

-----------------------------------------------------------------------------
(* The process. *)
LEMMA StopKeepsSecond ==
    ASSUME IInv, SInv, Stop
    PROVE  SInv'
<1>1. /\ TypeOK /\ stops' = stops + 1 /\ app' = "down" /\ recovery' = NoRecovery
      /\ task' = [j \in Jobs |-> NoTask]
      /\ UNCHANGED <<graph, jobs, data, faults, overtaken, overlapped>>
  BY DEF Stop, rowVars, historyVars, IInv
<1>2. /\ \A j \in Jobs : task'[j].pc = "none" /\ ~task'[j].store
      /\ recovery'.step = "delete" /\ stops' > 0 /\ data \subseteq Jobs
  BY <1>1, NoTaskIsATask, StopsAndFaultsAssumption DEF NoRecovery, TypeOK
<1>3. JobsKeepTheGraph'
  BY <1>1 DEF SInv, JobsKeepTheGraph, Exists
<1>4. /\ OneBuildAtATime' /\ StoresAreKept' /\ JobsFollowTheirTasks'
      /\ GivingUpBeforeActivation' /\ CopiesAreCurrent' /\ OldIsAccounted'
  BY <1>2 DEF OneBuildAtATime, StoresAreKept, JobsFollowTheirTasks, Working, GivingUp,
              GivingUpBeforeActivation, CopiesAreCurrent, OldIsAccounted
<1>5. \A g \in Jobs : jobs[g].status = "running" => Interrupted(g)'
  BY <1>1, <1>2 DEF Interrupted, Recovered
<1>6. \A g \in Jobs : Superseded(g) => Superseded(g)'
  BY <1>1 DEF Superseded
<1>7. ActiveIsAccounted'
  <2> SUFFICES ASSUME Calm, NEW g \in data, g = graph.active
               PROVE  Superseded(g)' \/ Interrupted(g)'
    BY <1>1 DEF ActiveIsAccounted, Calm
  <2>1. task[g].pc \in {"complete", "delete_old"} \/ Superseded(g) \/ Interrupted(g)
    BY DEF SInv, ActiveIsAccounted
  <2>2. task[g].pc \in {"complete", "delete_old"} => Superseded(g) \/ jobs[g].status = "running"
    BY <1>2 DEF SInv, JobsFollowTheirTasks, Superseded
  <2> QED
    BY <1>2, <1>5, <1>6, <2>1, <2>2 DEF Interrupted
<1>8. DataIsAccounted'
  <2> SUFFICES ASSUME Calm, NEW g \in data
               PROVE  \/ g = graph.active \/ g \in overtaken
                      \/ jobs[g].status = "completed" \/ Interrupted(g)'
    BY <1>1, <1>2 DEF DataIsAccounted, Calm
  <2>1. \/ g = graph.active
        \/ g \in overtaken
        \/ stops > 0 /\ jobs[g].status = "completed"
        \/ /\ task[g].pc \in {"document", "verify", "last_poll", "activate", "give_up"}
           /\ task[g].store
        \/ Interrupted(g)
        \/ \E i \in Jobs : task[i].pc \in {"complete", "delete_old"} /\ task[i].old = g
    BY DEF SInv, DataIsAccounted
  <2>2. CASE /\ task[g].pc \in {"document", "verify", "last_poll", "activate", "give_up"}
             /\ task[g].store
    <3>1. g \in overtaken \/ jobs[g].status = "running"
      BY <1>2, <2>2 DEF SInv, JobsFollowTheirTasks, Working, Calm
    <3> QED
      BY <1>2, <1>5, <3>1
  <2>3. CASE \E i \in Jobs : task[i].pc \in {"complete", "delete_old"} /\ task[i].old = g
    BY <2>3 DEF SInv, OldIsAccounted, Superseded
  <2>4. CASE Interrupted(g)
    BY <1>2, <1>5, <2>4 DEF Interrupted
  <2> QED
    BY <2>1, <2>2, <2>3, <2>4
<1>9. RowIsSettled'
  <2> SUFFICES ASSUME Calm, overtaken = {}, ActiveJobs = {}
               PROVE  SettledRow
    BY <1>1, <1>2 DEF RowIsSettled, Calm, ActiveJobs, SettledRow
  <2>1. \A k \in Jobs : jobs[k].status # "running"
    BY DEF ActiveJobs
  <2>2. CASE app # "up"
    BY <2>2 DEF SInv, RowIsSettled
  <2>3. CASE app = "up" /\ LiveTasks = {}
    BY <2>3 DEF SInv, RowIsSettled
  <2>4. ASSUME NEW k \in Jobs, task[k].pc # "none"
        PROVE  SettledRow
    <3>1. task[k].pc \in BuildLabels
      BY <1>1, <2>4, TypesOfARow, TaskFields
    <3>2. task[k].pc \notin Working
      BY <2>1 DEF SInv, JobsFollowTheirTasks
    <3> QED
      BY <2>1, <3>1, <3>2 DEF SInv, RowIsSettled, BuildLabels, Working
  <2> QED
    BY <2>2, <2>3, <2>4 DEF LiveTasks
<1> QED
  BY <1>3, <1>4, <1>7, <1>8, <1>9 DEF SInv

(* Before the process is up again, what is in Neo4j without a reason is an *)
(* interrupted candidate that the recovery has still to delete.            *)
LEMMA DownKeepsSecond ==
    ASSUME IInv, SInv, app # "up", JobsKeepTheGraph',
           data' \subseteq data, graph'.active = graph.active,
           Calm' => Calm,
           \A j \in Jobs : Superseded(j) => Superseded(j)',
           \A j \in Jobs : jobs[j].status = "completed" => jobs'[j].status = "completed",
           Calm' => \A j \in data' : Interrupted(j) => Interrupted(j)',
           RowIsSettled',
           UNCHANGED <<task, stops, overtaken, overlapped>>
    PROVE  SInv'
<1>1. /\ \A j \in Jobs : task[j].pc = "none"
      /\ data \subseteq Jobs
  BY DEF IInv, NothingRunsDown, TypeOK
<1>2. /\ OneBuildAtATime' /\ StoresAreKept' /\ JobsFollowTheirTasks'
      /\ GivingUpBeforeActivation' /\ CopiesAreCurrent' /\ OldIsAccounted'
  BY <1>1 DEF SInv, OneBuildAtATime, StoresAreKept, JobsFollowTheirTasks, Working, GivingUp,
              GivingUpBeforeActivation, CopiesAreCurrent, OldIsAccounted
<1>3. ActiveIsAccounted'
  BY <1>1 DEF SInv, ActiveIsAccounted
<1>4. DataIsAccounted'
  <2> SUFFICES ASSUME Calm', NEW g \in data'
               PROVE  \/ g = graph.active
                      \/ g \in overtaken
                      \/ stops > 0 /\ jobs'[g].status = "completed"
                      \/ Interrupted(g)'
    BY DEF DataIsAccounted
  <2>1. \/ g = graph.active
        \/ g \in overtaken
        \/ stops > 0 /\ jobs[g].status = "completed"
        \/ Interrupted(g)
    BY <1>1 DEF SInv, DataIsAccounted
  <2> QED
    BY <1>1, <2>1
<1> QED
  BY <1>2, <1>3, <1>4 DEF SInv

LEMMA CountedFaults ==
    ASSUME TypeOK, Error
    PROVE  ~Calm'
BY Counted DEF Calm

LEMMA RestartKeepsSecond ==
    ASSUME IInv, SInv, Restart
    PROVE  SInv'
<1>1. /\ TypeOK /\ app = "down"
      /\ UNCHANGED <<graph, jobs, data, task, stops, overtaken, overlapped>>
  BY DEF Restart, rowVars, historyVars, IInv
<1>2. JobsKeepTheGraph'
  BY <1>1 DEF SInv, JobsKeepTheGraph, Exists
<1>3. \A j \in Jobs : Superseded(j) => Superseded(j)'
  BY <1>1 DEF Superseded
<1>4. CASE /\ app' = "recovering"
           /\ recovery' = [NoRecovery EXCEPT
                  !.left = list_interrupted_knowledge_graph_build_jobs]
           /\ UNCHANGED faults
  <2>1. recovery'.step = "delete"
    BY <1>4 DEF NoRecovery
  <2>2. \A j \in data' : Interrupted(j) => Interrupted(j)'
    BY <1>1, <1>4, <2>1 DEF Interrupted, Recovered
  <2>3. Calm' => Calm
    BY <1>1, <1>4 DEF Calm
  <2>4. RowIsSettled'
    <3> SUFFICES ASSUME Calm, overtaken = {}, ActiveJobs = {} PROVE SettledRow
      BY <1>1, <1>4, <2>1, <2>3
         DEF RowIsSettled, SettledRow, ActiveJobs, Calm, SInv
    <3> QED
      BY <1>1 DEF SInv, RowIsSettled
  <2> QED
    BY <1>1, <1>2, <1>3, <1>4, <2>2, <2>3, <2>4, DownKeepsSecond
<1>5. CASE Error
  <2>1. ~Calm'
    BY <1>1, <1>5, CountedFaults
  <2> QED
    BY <1>1, <1>2, <1>3, <2>1, DownKeepsSecond DEF RowIsSettled
<1> QED
  BY <1>4, <1>5 DEF Restart

LEMMA FirstIsUnique ==
    ASSUME NEW S \in SUBSET Jobs, NEW i \in First(S), NEW j \in First(S)
    PROVE  i = j
<1>1. i \in Nat /\ j \in Nat /\ i <= j /\ j <= i
  BY NumJobsAssumption DEF First, Jobs
<1> QED
  BY <1>1

LEMMA RecoveryKeepsSecond ==
    ASSUME IInv, SInv, fail_interrupted_knowledge_graph_builds
    PROVE  SInv'
<1>1. /\ TypeOK /\ app = "recovering" /\ recovery.left = ActiveJobs
      /\ recovery \in [step : {"delete", "graph", "job"}, left : SUBSET Jobs]
      /\ data \subseteq Jobs
      /\ UNCHANGED <<task, stops, overtaken, overlapped>>
  BY DEF fail_interrupted_knowledge_graph_builds, historyVars, IInv,
         NothingRunsDown, TypeOK
<1>2. \A k \in Jobs : task[k].pc = "none"
  BY <1>1 DEF IInv, NothingRunsDown
<1>3. CASE /\ recovery.left = {} /\ app' = "up"
           /\ UNCHANGED <<rowVars, recovery, faults>>
  <2>1. UNCHANGED <<graph, jobs, data>> /\ (Calm' => Calm) /\ JobsKeepTheGraph'
    BY <1>1, <1>3 DEF rowVars, Calm, SInv, JobsKeepTheGraph, Exists
  <2>2. \A j \in Jobs : ~Interrupted(j)
    BY <1>1, <1>3 DEF Interrupted, ActiveJobs
  <2>3. RowIsSettled'
    <3>1. Calm /\ overtaken = {} => SettledRow
      BY <1>1, <1>3 DEF SInv, RowIsSettled
    <3> QED
      BY <1>1, <1>2, <1>3, <2>1, <3>1 DEF RowIsSettled, SettledRow, Calm
  <2>4. \A j \in Jobs : Superseded(j) => Superseded(j)'
    BY <1>1, <2>1 DEF Superseded
  <2> QED
    BY <1>1, <2>1, <2>2, <2>3, <2>4, DownKeepsSecond
<1>4. ASSUME NEW j \in First(recovery.left), recovery.step = "delete",
             _cleanup_interrupted_candidate_generation(j),
             recovery' = [recovery EXCEPT !.step = "graph"],
             UNCHANGED <<graph, jobs, app>>
      PROVE  SInv'
  <2>1. data' \subseteq data /\ (Calm' => Calm /\ data' = data \ {j}) /\ JobsKeepTheGraph'
    BY <1>1, <1>4, CountedFaults
       DEF _cleanup_interrupted_candidate_generation, Calm, SInv, JobsKeepTheGraph, Exists
  <2>2. recovery'.step = "graph" /\ recovery'.left = recovery.left
    BY <1>1, <1>4
  <2>3. Calm' => \A g \in data' : Interrupted(g) => Interrupted(g)'
    BY <1>1, <1>4, <2>1, <2>2, FirstIsUnique DEF Interrupted, Recovered, First
  <2>4. RowIsSettled'
    BY <1>1, <1>2, <1>4, <2>1, <2>2
       DEF SInv, RowIsSettled, SettledRow, ActiveJobs
  <2>5. \A k \in Jobs : Superseded(k) => Superseded(k)'
    BY <1>1, <1>4 DEF Superseded
  <2> QED
    BY <1>1, <1>4, <2>1, <2>3, <2>4, <2>5, DownKeepsSecond
<1>5. CASE /\ recovery.step = "graph"
           /\ graph' = [graph EXCEPT !.status =
                            IF graph.active = NoGeneration THEN "failed" ELSE "built"]
           /\ recovery' = [recovery EXCEPT !.step = "job"]
           /\ UNCHANGED <<jobs, data, app, faults>>
  <2>1. /\ graph'.active = graph.active
        /\ graph'.status = IF graph.active = NoGeneration THEN "failed" ELSE "built"
    BY <1>1, <1>5 DEF TypeOK, GraphRows
  <2>2. SettledRow' /\ JobsKeepTheGraph'
    BY <2>1 DEF SettledRow, JobsKeepTheGraph, Exists
  <2>3. recovery'.step = "job" /\ recovery'.left = recovery.left
    BY <1>1, <1>5
  <2>4. \A g \in data' : Interrupted(g) => Interrupted(g)'
    BY <1>1, <1>5, <2>3 DEF Interrupted, Recovered
  <2>5. RowIsSettled' /\ (Calm' => Calm)
    BY <1>1, <1>2, <1>5, <2>2 DEF RowIsSettled, Calm
  <2>6. \A k \in Jobs : Superseded(k) => Superseded(k)'
    BY <1>1, <1>5 DEF Superseded
  <2> QED
    BY <1>1, <1>5, <2>1, <2>2, <2>4, <2>5, <2>6, DownKeepsSecond
<1>6. ASSUME NEW j \in First(recovery.left), recovery.step = "job",
             jobs' = [jobs EXCEPT ![j] = mark_knowledge_graph_build_job_failed],
             recovery' = [step |-> "delete", left |-> recovery.left \ {j}],
             UNCHANGED <<graph, data, app, faults>>
      PROVE  SInv'
  <2>1. j \in Jobs /\ jobs[j].status \in {"queued", "running"}
    BY <1>1, <1>6 DEF First, ActiveJobs
  <2>2. mark_knowledge_graph_build_job_failed \in JobRows
        /\ mark_knowledge_graph_build_job_failed.status = "failed"
    BY DEF JobRows, mark_knowledge_graph_build_job_failed
  <2>3. jobs'[j].status = "failed" /\ \A i \in Jobs \ {j} : jobs'[i] = jobs[i]
    BY <1>1, <1>6, <2>1, <2>2, RowRewritten
  <2>4. JobsKeepTheGraph' /\ (Calm' => Calm)
    BY <1>1, <1>6, <2>1, <2>3 DEF SInv, JobsKeepTheGraph, Exists, Calm
  <2>5. \A k \in Jobs : jobs[k].status = "completed" => jobs'[k].status = "completed"
    BY <2>1, <2>3
  <2>6. \A k \in Jobs : Superseded(k) => Superseded(k)'
    BY <1>1, <2>5 DEF Superseded
  <2>7. \A g \in data' : Interrupted(g) => Interrupted(g)'
    <3> SUFFICES ASSUME NEW g \in data, Interrupted(g)
                 PROVE  Interrupted(g)'
      BY <1>6
    <3>1. g # j
      BY <1>6 DEF Interrupted, Recovered
    <3> QED
      BY <1>1, <1>6, <2>3, <3>1 DEF Interrupted, Recovered
  <2>8. RowIsSettled'
    <3>1. Calm /\ overtaken = {} => SettledRow
      BY <1>1, <1>6 DEF SInv, RowIsSettled
    <3> QED
      BY <1>1, <1>2, <1>6, <2>4, <3>1 DEF RowIsSettled, SettledRow, Calm
  <2> QED
    BY <1>1, <1>6, <2>4, <2>5, <2>6, <2>7, <2>8, DownKeepsSecond
<1> QED
  BY <1>3, <1>4, <1>5, <1>6 DEF fail_interrupted_knowledge_graph_builds

LEMMA IdleKeepsSecond == SInv /\ UNCHANGED vars => SInv'
<1> SUFFICES ASSUME SInv, UNCHANGED vars PROVE SInv'
  OBVIOUS
<1>1. UNCHANGED <<graph, jobs, data, task, app, recovery, stops, faults, overtaken, overlapped>>
  BY DEF vars, rowVars, appVars, historyVars
<1>2. /\ JobsKeepTheGraph' /\ OneBuildAtATime' /\ StoresAreKept' /\ JobsFollowTheirTasks'
      /\ GivingUpBeforeActivation' /\ CopiesAreCurrent'
  BY <1>1 DEF SInv, JobsKeepTheGraph, Exists, OneBuildAtATime, StoresAreKept,
              JobsFollowTheirTasks, GivingUpBeforeActivation, CopiesAreCurrent, Calm
<1>3. ActiveIsAccounted' /\ OldIsAccounted' /\ DataIsAccounted' /\ RowIsSettled'
  BY <1>1 DEF SInv, ActiveIsAccounted, OldIsAccounted, DataIsAccounted, RowIsSettled,
              Calm, Superseded, Interrupted, Recovered, SettledRow, ActiveJobs, LiveTasks
<1> QED
  BY <1>2, <1>3 DEF SInv

LEMMA NextKeepsSecond == IInv /\ SInv /\ [Next]_vars => SInv'
BY RequestsKeepSecond, BuildKeepsSecond, StopKeepsSecond, RestartKeepsSecond,
   RecoveryKeepsSecond, IdleKeepsSecond DEF Next

LEMMA InitHoldsSecond == Init => SInv
<1> SUFFICES ASSUME Init PROVE SInv
  OBVIOUS
<1>1. /\ \A j \in Jobs : jobs[j].status = "absent" /\ task[j] = NoTask
      /\ data = {} /\ app = "up"
      /\ graph.status = "absent" /\ graph.active = NoGeneration
  BY DEF Init, NoGraph
<1>2. \A j \in Jobs : task[j].pc = "none" /\ task[j].store = FALSE
  BY <1>1, NoTaskIsATask
<1>3. SettledRow
  BY <1>1 DEF SettledRow
<1>4. /\ JobsKeepTheGraph /\ OneBuildAtATime /\ StoresAreKept /\ JobsFollowTheirTasks
      /\ GivingUpBeforeActivation /\ CopiesAreCurrent
  BY <1>1, <1>2 DEF JobsKeepTheGraph, Exists, OneBuildAtATime, StoresAreKept, Working,
                    JobsFollowTheirTasks, GivingUpBeforeActivation, GivingUp, CopiesAreCurrent
<1>5. ActiveIsAccounted /\ OldIsAccounted /\ DataIsAccounted /\ RowIsSettled
  BY <1>1, <1>2, <1>3 DEF ActiveIsAccounted, OldIsAccounted, DataIsAccounted, RowIsSettled
<1> QED
  BY <1>4, <1>5 DEF SInv

LEMMA SecondInvariance == Spec => [](IInv /\ SInv)
<1>1. Init => IInv /\ SInv
  BY InitHolds, InitHoldsSecond
<1>2. IInv /\ SInv /\ [Next]_vars => (IInv /\ SInv)'
  BY NextKeeps, NextKeepsSecond
<1> QED
  BY <1>1, <1>2, PTL DEF Spec

LEMMA SettledIsClean == IInv /\ SInv => SettledGraphsOwnOneGeneration
<1> SUFFICES ASSUME IInv, SInv, Settled, faults = 0, ~overlapped
             PROVE  /\ \A j \in data : \/ j = graph.active \/ j \in overtaken
                                       \/ stops > 0 /\ jobs[j].status = "completed"
                    /\ overtaken = {} => SettledRow
  BY DEF SettledGraphsOwnOneGeneration, SettledRow
<1>1. Calm /\ app = "up" /\ \A j \in Jobs : task[j].pc = "none"
  BY DEF Settled, Calm, LiveTasks
<1>2. data \subseteq Jobs /\ LiveTasks = {}
  BY DEF IInv, TypeOK, Settled
<1>3. \A j \in data : \/ j = graph.active \/ j \in overtaken
                      \/ stops > 0 /\ jobs[j].status = "completed"
  BY <1>1, <1>2 DEF SInv, DataIsAccounted, Interrupted
<1>4. overtaken = {} => SettledRow
  BY <1>1, <1>2 DEF SInv, RowIsSettled
<1> QED
  BY <1>3, <1>4

(* SettledGraphsOwnOneGeneration: without errors and overlapping builds,   *)
(* when nothing is in progress Neo4j holds the active generation, and      *)
(* beside it only the two leaks the property names.                        *)
THEOREM NothingElseStaysInNeo4j == Spec => []SettledGraphsOwnOneGeneration
BY SecondInvariance, SettledIsClean, PTL

=============================================================================

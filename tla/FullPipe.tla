------------------------------ MODULE FullPipe ------------------------------
(***************************************************************************)
(* The full corpus index pipe beside the BM25 build queue it uses: the one *)
(* FullCorpusIndexPipeCoordinator task claims a parent job, chunks its     *)
(* documents, creates a chunk set and a dense candidate index, queues a    *)
(* BM25 child and polls it, embeds, activates; or it rolls everything      *)
(* back, in steps that a crash or an error may interrupt and a later claim *)
(* or start-up resumes.                                                    *)
(*                                                                         *)
(* The child of parent p is BM25 job p.  pipe[p] is the row of the parent  *)
(* with the rows and vectors it has produced; deleting the chunk set nulls *)
(* the parent's link to it, so chunk_set is both.                          *)
(***************************************************************************)
EXTENDS Bm25Jobs

CONSTANT UsersInterfere   \* users cancel children, edit sets, use candidates

ASSUME UsersAssumption == UsersInterfere \in BOOLEAN

VARIABLES
    pipe,          \* parent -> its row and what it owns, see PipeRows
    task,          \* the pipe worker, or the recovery: see Tasks
    pipe_wake,     \* _wake_event.is_set() of the pipe coordinator
    pipe_request,  \* parent -> the progress of a request about it
    interrupted,   \* parents the recovery has still to roll back
    phase,         \* lifespan of the pipe: down, recovering, serving, stopping
    overtaken      \* parents that a cancel request overwrote too late

pipeVars == <<pipe, task, pipe_wake, pipe_request, interrupted, phase, overtaken>>
allVars  == <<vars, pipeVars>>
bm25Vars == <<jobVars, index_status, workerVars, requestVars, envVars>>
lifespanVars == <<pipe_wake, pipe_request, interrupted, phase, overtaken>>

BodyLabels ==
    {"start", "process_documents", "fail_job", "create_chunk_set",
     "create_candidate", "candidate_ready", "queue_child", "link_child",
     "wait_child", "cancel_child", "own_index", "store_vectors",
     "index_chunks", "mark_built", "finalize", "activate", "complete"}
RollbackLabels ==
    {"mark_rolling_back", "rollback_child", "child_cancelling",
     "unlink_candidate", "delete_vectors", "delete_indexed_chunks",
     "delete_dense", "rollback_artifact", "own_artifact", "clear_result",
     "delete_artifact", "delete_set", "delete_set_chunks",
     "delete_job_chunks", "finish"}
LoopLabels == {"loop", "claim", "idle_wait", "stopped", "recover", "down"}

PipeRows ==
    [status : {"absent"} \cup CORPUS_BM25_BUILD_JOB_STATUSES,
     cancel_requested : BOOLEAN,
     rolling_back : BOOLEAN,       \* stage
     child : BOOLEAN,              \* bm25_build_job_id is set
     candidate : BOOLEAN,          \* candidate_corpus_index_id is set
     chunks : BOOLEAN,             \* DocumentChunk rows of the job
     chunk_set : BOOLEAN,          \* CorpusChunkSet row, and the link to it
     edited : BOOLEAN,             \* a user has changed the set's members
     dense : {"absent", "building", "built", "active", "cancelled"},
     vectors : BOOLEAN,            \* in the vector store
     indexed : BOOLEAN,            \* IndexedChunk rows
     used : SUBSET {"dense", "bm25"},   \* the indexes simulations refer to
     owned : BOOLEAN]              \* the child's index names the parent

Tasks ==
    [pc : BodyLabels \cup RollbackLabels \cup LoopLabels,
     pipe : {NoJob} \cup Jobs,
     candidate : {"none", "loaded", "expired"},  \* candidate_index
     outcome : {"failed", "cancelled"},          \* terminal_status
     result : BOOLEAN,       \* the child's result link, as the rollback read it
     asked : BOOLEAN]        \* cancellation_requested of _wait_for_bm25_child

PipeTypeOK ==
    /\ pipe \in [Jobs -> PipeRows]
    /\ task \in Tasks
    /\ task.pc \in BodyLabels \cup RollbackLabels => task.pipe \in Jobs
    /\ pipe_wake \in BOOLEAN
    /\ pipe_request \in
           [Jobs -> {"none", "checked", "inserted", "cancel", "mark_cancelled"}]
    /\ interrupted \subseteq Jobs
    /\ phase \in {"down", "recovering", "serving", "stopping"}
    /\ overtaken \subseteq Jobs

NoPipe ==
    [status |-> "absent", cancel_requested |-> FALSE, rolling_back |-> FALSE,
     child |-> FALSE, candidate |-> FALSE, chunks |-> FALSE,
     chunk_set |-> FALSE, edited |-> FALSE, dense |-> "absent",
     vectors |-> FALSE, indexed |-> FALSE, used |-> {}, owned |-> FALSE]

TaskAt(label) ==
    [pc |-> label, pipe |-> NoJob, candidate |-> "none", outcome |-> "failed",
     result |-> FALSE, asked |-> FALSE]

PipeInit ==
    /\ Init
    /\ pipe = [p \in Jobs |-> NoPipe]
    /\ task = TaskAt("loop")
    /\ pipe_wake = FALSE
    /\ pipe_request = [p \in Jobs |-> "none"]
    /\ interrupted = {}
    /\ phase = "serving"
    /\ overtaken = {}

-----------------------------------------------------------------------------
(* Requests. *)

ActivePipes == {p \in Jobs : pipe[p].status \in {"queued", "running"}}

Asks(p, from, to) ==
    /\ phase = "serving"
    /\ pipe_request[p] = from
    /\ pipe_request' = [pipe_request EXCEPT ![p] = to]

RequestFrame == UNCHANGED <<vars, task, interrupted, phase>>

(* The status columns of a row, as the repository writes them. *)
mark_full_corpus_index_pipe_job_failed(r) ==
    [r EXCEPT !.status = "failed", !.rolling_back = FALSE,
              !.cancel_requested = FALSE]

mark_full_corpus_index_pipe_job_cancelled(r) ==
    [r EXCEPT !.status = "cancelled", !.rolling_back = FALSE,
              !.cancel_requested = TRUE]

(* The name of the BM25 index is locked from the check to the commit, and  *)
(* then reserved by the row.                                               *)
has_active_full_pipe_bm25_name_reservation(p) ==
    \E q \in Jobs \ {p} :
        /\ artifact_name[q] = artifact_name[p]
        /\ pipe_request[q] = "checked" \/ q \in ActivePipes

(* The look for another active job is not locked. *)
queue_full_corpus_index_pipe_job_checks(p) ==
    /\ Asks(p, "none", "checked")
    /\ pipe[p].status = "absent"
    /\ NameAvailable(artifact_name[p])
    /\ ~has_active_full_pipe_bm25_name_reservation(p)
    /\ ActivePipes = {}
    /\ RequestFrame
    /\ UNCHANGED <<pipe, pipe_wake, overtaken>>

create_full_corpus_index_pipe_job(p) ==
    /\ Asks(p, "checked", "inserted")
    /\ pipe' = [pipe EXCEPT ![p].status = "queued"]
    /\ RequestFrame
    /\ UNCHANGED <<pipe_wake, overtaken>>

wake_full_corpus_index_pipe_coordinator(p) ==
    /\ Asks(p, "inserted", "none")
    /\ pipe_wake' = TRUE
    /\ RequestFrame
    /\ UNCHANGED <<pipe, overtaken>>

CancelLoadsPipe(p) ==
    /\ Asks(p, "none", "cancel")
    /\ p \in ActivePipes
    /\ ~pipe[p].cancel_requested
    /\ RequestFrame
    /\ UNCHANGED <<pipe, pipe_wake, overtaken>>

(* The flag is committed by primary key, and the refreshed status decides. *)
request_full_corpus_index_pipe_job_cancel(p) ==
    /\ Asks(p, "cancel",
            IF pipe[p].status = "running" THEN "none" ELSE "mark_cancelled")
    /\ pipe' = [pipe EXCEPT ![p].cancel_requested = TRUE]
    /\ RequestFrame
    /\ UNCHANGED <<pipe_wake, overtaken>>

cancel_corpus_index_build(r) ==
    [r EXCEPT !.dense = IF r.candidate /\ @ \in {"building", "built", "active"}
                        THEN "cancelled" ELSE @]

(* _mark_job_cancelled takes whatever is not running for a queued job: by  *)
(* now the row may be claimed, or finished with an active index.           *)
CancelMarksPipe(p) ==
    /\ Asks(p, "mark_cancelled", "none")
    /\ pipe' = [pipe EXCEPT
           ![p] = mark_full_corpus_index_pipe_job_cancelled(
                      cancel_corpus_index_build(@))]
    /\ overtaken' = IF pipe[p].status = "queued" THEN overtaken
                    ELSE overtaken \cup {p}
    /\ RequestFrame
    /\ UNCHANGED pipe_wake

replace_corpus_chunk_set_members(r) == [r EXCEPT !.edited = TRUE]

(* The service that takes members out of a set looks at no job, running or *)
(* not; the routes of this version do not offer it yet.                    *)
update_corpus_chunk_set(p) ==
    /\ UsersInterfere
    /\ phase = "serving"
    /\ pipe[p].chunk_set
    /\ ~pipe[p].edited
    /\ pipe' = [pipe EXCEPT ![p] = replace_corpus_chunk_set_members(@)]
    /\ RequestFrame
    /\ UNCHANGED <<pipe_wake, pipe_request, overtaken>>

Selects(p, index) ==
    /\ UsersInterfere
    /\ phase = "serving"
    /\ index \notin pipe[p].used
    /\ pipe' = [pipe EXCEPT ![p].used = @ \cup {index}]
    /\ RequestFrame
    /\ UNCHANGED <<pipe_wake, pipe_request, overtaken>>

(* A simulation may select any built index. *)
_get_valid_built_corpus_index(p) ==
    pipe[p].dense \in {"built", "active"} /\ Selects(p, "dense")

_get_valid_built_bm25_index(p) ==
    index_status[p] = "built" /\ Selects(p, "bm25")

-----------------------------------------------------------------------------
(* Steps of the worker. *)

row == pipe[task.pipe]

At(label) == task.pc = label /\ UNCHANGED lifespanVars

Goes(label) == task' = [task EXCEPT !.pc = label]

(* The handlers of run_full_corpus_index_pipe_job_srvc. *)
RollsBack(status) ==
    task' = [task EXCEPT !.pc = "mark_rolling_back", !.outcome = status]

(* The coordinator logs the exception and goes on, after a pause; the      *)
(* recovery takes the next interrupted job.                                *)
Abandons ==
    task' = TaskAt(IF phase = "recovering" THEN "recover" ELSE "loop")

(* A database error in the body.  It either expires the objects of the     *)
(* session, or leaves a transaction in which the first statement of the    *)
(* rollback fails as well.                                                 *)
BodyFails ==
    /\ DatabaseError
    /\ \/ task' = [task EXCEPT !.pc = "mark_rolling_back",
                               !.outcome = "failed",
                               !.candidate = IF @ = "none" THEN @ ELSE "expired"]
       \/ Abandons

(* A statement with its commit and its refresh: each may raise. *)
Commits(new, Then, Raises) ==
    /\ \/ /\ pipe' = [pipe EXCEPT ![task.pipe] = new]
          /\ \/ Then /\ UNCHANGED faults
             \/ Raises
       \/ Raises /\ UNCHANGED pipe
    /\ UNCHANGED bm25Vars

BodyCommits(new, label) == Commits(new, Goes(label), BodyFails)

Quietly(Step) == Step /\ UNCHANGED <<pipe, vars>>

PipeLoopTop ==
    /\ task.pc = "loop"
    /\ task' = TaskAt(IF phase = "stopping" THEN "stopped" ELSE "claim")
    /\ pipe_wake' = (pipe_wake /\ phase = "stopping")
    /\ UNCHANGED <<vars, pipe, pipe_request, interrupted, phase, overtaken>>

(* Fault: a claim that looks for queued rows only. *)
ClaimsNoRollback == {}

RollingBack == {p \in Jobs : pipe[p].status = "running" /\ pipe[p].rolling_back}
QueuedPipes == {p \in Jobs : pipe[p].status = "queued"}

(* The oldest. *)
First(S) == {p \in S : \A q \in S : p <= q}

(* Rollbacks before queued work; a rollback is claimed without a write.    *)
(* When the refresh after the commit raises, nobody works on the new       *)
(* running row.                                                            *)
claim_next_full_corpus_index_pipe_job ==
    /\ At("claim")
    /\ \/ \E p \in First(RollingBack) :
             /\ task' = [TaskAt("start") EXCEPT !.pipe = p]
             /\ UNCHANGED <<pipe, faults>>
       \/ /\ RollingBack = {}
          /\ \E p \in First(QueuedPipes) :
                /\ pipe' = [pipe EXCEPT ![p].status = "running",
                                        ![p].cancel_requested = FALSE]
                /\ \/ /\ task' = [TaskAt("start") EXCEPT !.pipe = p]
                      /\ UNCHANGED faults
                   \/ DatabaseError /\ Abandons
       \/ /\ RollingBack = {} /\ QueuedPipes = {}
          /\ Goes("idle_wait")
          /\ UNCHANGED <<pipe, faults>>
       \/ DatabaseError /\ Abandons /\ UNCHANGED pipe
    /\ UNCHANGED bm25Vars

PipeWaitEnds ==
    /\ At("idle_wait")
    /\ pipe_wake
    /\ Quietly(Goes("loop"))

(* The executor loads the row in a session of its own. *)
LoadsRollback ==
    task' = [task EXCEPT
        !.pc = "mark_rolling_back",
        !.candidate = IF row.candidate THEN "loaded" ELSE "none",
        !.outcome = IF row.cancel_requested THEN "cancelled" ELSE "failed"]

StartPipe ==
    /\ At("start")
    /\ \/ row.status = "cancelled" /\ Quietly(Abandons)
       \/ /\ row.status = "running"
          /\ \/ row.rolling_back /\ Quietly(LoadsRollback)
             \/ ~row.rolling_back /\ row.cancel_requested /\ Quietly(RollsBack("cancelled"))
             \/ /\ ~row.rolling_back /\ ~row.cancel_requested
                /\ Quietly(Goes("process_documents"))
       \/ BodyFails /\ UNCHANGED <<bm25Vars, pipe>>

(* _raise_if_cancel_requested before the step. *)
PollStops == row.cancel_requested /\ Quietly(RollsBack("cancelled"))
Polled    == ~row.cancel_requested

(* Fault: the compensation of a job without documents, for every error. *)
FailsJobOnly == Quietly(Goes("fail_job"))

(* A ValueError of the step, or of what it calls. *)
BodyRaises == Quietly(RollsBack("failed"))

(* One document at a time; a document that fails leaves a warning. *)
ProcessDocuments ==
    /\ At("process_documents")
    /\ \/ PollStops
       \/ Polled /\ ~row.chunks /\ BodyCommits([row EXCEPT !.chunks = TRUE],
                                               "process_documents")
       \/ Polled /\ row.chunks /\ Quietly(Goes("create_chunk_set"))
       \/ Polled /\ ~row.chunks /\ Quietly(Goes("fail_job"))
       \/ Polled /\ BodyRaises

FailJob ==
    /\ At("fail_job")
    /\ BodyCommits(mark_full_corpus_index_pipe_job_failed(row), "loop")

set_full_corpus_index_pipe_job_chunk_set(r) == [r EXCEPT !.chunk_set = TRUE]

(* A user may have taken the name of the set, or a document out of the     *)
(* corpus.                                                                 *)
create_corpus_chunk_set_srvc(Created) == Created \/ BodyRaises

(* The set, its members and the link to it are one commit. *)
CreateChunkSet ==
    /\ At("create_chunk_set")
    /\ create_corpus_chunk_set_srvc(
           BodyCommits(set_full_corpus_index_pipe_job_chunk_set(row),
                       "create_candidate"))

CreateCandidate ==
    /\ At("create_candidate")
    /\ Commits([row EXCEPT !.dense = "building", !.candidate = TRUE],
               task' = [task EXCEPT !.pc = "candidate_ready", !.candidate = "loaded"],
               BodyFails)

CandidateReady ==
    /\ At("candidate_ready")
    /\ \/ PollStops
       \/ \E label \in {"queue_child", "store_vectors"} :   \* build_bm25
              Polled /\ Quietly(Goes(label))

QueueChild ==
    /\ At("queue_child")
    /\ \/ /\ ~has_active_full_pipe_bm25_name_reservation(task.pipe)
          /\ queue_corpus_bm25_build_job(task.pipe)
          /\ Goes("link_child")
          /\ UNCHANGED pipe
       \/ /\ \/ ~NameAvailable(artifact_name[task.pipe])
             \/ has_active_full_pipe_bm25_name_reservation(task.pipe)
          /\ BodyRaises
       \/ BodyFails /\ UNCHANGED <<pipe, bm25Vars>>

(* The child is already durable when the parent learns its number, and is  *)
(* announced last.                                                         *)
LinkChild ==
    /\ At("link_child")
    /\ \/ /\ pipe' = [pipe EXCEPT ![task.pipe].child = TRUE]
          /\ Goes("wait_child")
          /\ wake_event' = TRUE
          /\ unnotified' = unnotified \ {task.pipe}
          /\ UNCHANGED <<jobVars, index_status, workerVars, pending_cancel,
                         envVars, faults>>
       \/ /\ pipe' \in {pipe, [pipe EXCEPT ![task.pipe].child = TRUE]}
          /\ BodyFails
          /\ UNCHANGED bm25Vars

ChildTerminal == Terminal(task.pipe)

(* Fault: any end of the child lets the parent continue. *)
TakesAnyTerminalChild ==
    /\ At("wait_child")
    /\ ChildTerminal
    /\ Quietly(Goes("own_index"))

(* Two loads, of the parent's flag and of the child, every half second, in *)
(* a session of the poll: its errors leave the objects of the job alone.   *)
WaitChild ==
    /\ At("wait_child")
    /\ \/ /\ row.cancel_requested /\ ~task.asked /\ ~ChildTerminal
          /\ task' = [task EXCEPT !.asked = TRUE, !.pc = "cancel_child"]
          /\ UNCHANGED pipe
          /\ IF cancel_requested[task.pipe] THEN UNCHANGED vars
             ELSE CancelReads(task.pipe)
       \/ /\ ChildTerminal
          /\ IF task.asked \/ row.cancel_requested
             THEN Quietly(RollsBack("cancelled"))
             ELSE IF job_status[task.pipe] = "completed"
                  THEN Quietly(Goes("own_index"))
                  ELSE BodyRaises
       \/ DatabaseError /\ RollsBack("failed") /\ UNCHANGED <<pipe, bm25Vars>>

(* CancelCommits is the other half of the request. *)
CancelChild ==
    /\ At("cancel_child")
    /\ pending_cancel[task.pipe] = "none"
    /\ Quietly(Goes("wait_child"))

OwnIndex ==
    /\ At("own_index")
    /\ BodyCommits([row EXCEPT !.owned = TRUE], "store_vectors")

StoreVectors ==
    /\ At("store_vectors")
    /\ \/ PollStops
       \/ BodyRaises   \* the set was changed, or the embedding failed
       \/ /\ Polled /\ ~row.edited
          /\ pipe' = [pipe EXCEPT ![task.pipe].vectors = TRUE]
          /\ Goes("index_chunks")
          /\ UNCHANGED vars

(* When the rows cannot be stored, the vectors are removed again; the      *)
(* error may come from a refresh, after the commit.                        *)
IndexChunks ==
    /\ At("index_chunks")
    /\ \/ /\ pipe' = [pipe EXCEPT ![task.pipe].indexed = TRUE]
          /\ Goes("mark_built")
          /\ UNCHANGED faults
       \/ \E committed \in BOOLEAN :
             /\ pipe' = [pipe EXCEPT ![task.pipe].indexed = committed,
                                     ![task.pipe].vectors = FALSE]
             /\ BodyFails
    /\ UNCHANGED bm25Vars

MarkDenseBuilt ==
    /\ At("mark_built")
    /\ BodyCommits([row EXCEPT !.dense = "built"], "finalize")

(* Fault: no last look at the flag. *)
FinalizesUnpolled == At("finalize") /\ Quietly(Goes("activate"))

(* Both indexes are built over the revision that the set has now. *)
_ensure_parent_pair_compatible ==
    ~row.edited /\ (row.child => /\ task.pipe \in linked
                                /\ index_status[task.pipe] = "built")

Finalize ==
    /\ At("finalize")
    /\ \/ PollStops
       \/ Polled /\ ~_ensure_parent_pair_compatible /\ BodyRaises
       \/ Polled /\ _ensure_parent_pair_compatible /\ Quietly(Goes("activate"))

Activate ==
    /\ At("activate")
    /\ BodyCommits([row EXCEPT !.dense = "active"], "complete")

(* The flag was FALSE when the row was last loaded: a cancellation since   *)
(* then is neither seen nor erased.                                        *)
CompletePipe ==
    /\ At("complete")
    /\ BodyCommits([row EXCEPT !.status = "completed"], "loop")

-----------------------------------------------------------------------------
(* _rollback_parent_artifacts, from the job or from the recovery.          *)

Finished == TaskAt(IF phase = "recovering" THEN "recover" ELSE "loop")

(* The recovery has one session for all jobs: an error of the database     *)
(* expires those that it has still to read, one of the vector store does   *)
(* not.                                                                    *)
AbandonsExpired ==
    task' = IF phase = "recovering"
            THEN [TaskAt("recover") EXCEPT !.candidate = "expired"]
            ELSE TaskAt("loop")

RollbackFails ==
    /\ DatabaseError
    /\ AbandonsExpired \/ (task.pc = "delete_vectors" /\ Abandons)

RollbackCommits(new, label) == Commits(new, Goes(label), RollbackFails)

RollbackRaises == Quietly(Abandons)

(* If this statement fails, the row stays running without being marked.    *)
MarkRollingBack ==
    /\ At("mark_rolling_back")
    /\ RollbackCommits([row EXCEPT !.status = "running", !.rolling_back = TRUE],
                       "rollback_child")

(* A completed child becomes a failed one; the link to its index stays.    *)
TerminalizeChild ==
    /\ \/ /\ job_status' = [job_status EXCEPT
                 ![task.pipe] = IF @ = "completed" THEN "failed" ELSE @]
          /\ task' = [task EXCEPT !.pc = "unlink_candidate",
                                  !.result = task.pipe \in linked]
          /\ UNCHANGED faults
       \/ RollbackFails /\ UNCHANGED job_status
    /\ UNCHANGED <<cancel_requested, artifact_name, linked, index_status,
                   workerVars, requestVars, envVars, pipe>>

RollbackChild ==
    /\ At("rollback_child")
    /\ \/ ~row.child /\ Quietly(Goes("unlink_candidate"))
       \/ row.child /\ ChildTerminal /\ TerminalizeChild
       \/ /\ row.child /\ ~ChildTerminal /\ ~cancel_requested[task.pipe]
          /\ CancelReads(task.pipe)
          /\ Goes("child_cancelling")
          /\ UNCHANGED pipe
       \/ row.child /\ ~ChildTerminal /\ cancel_requested[task.pipe] /\ RollbackRaises

(* A child that runs is left to end by itself. *)
ChildCancelling ==
    /\ At("child_cancelling")
    /\ pending_cancel[task.pipe] = "none"
    /\ \/ ~ChildTerminal /\ RollbackRaises
       \/ ChildTerminal /\ TerminalizeChild

(* The row forgets the candidate before anything of it is deleted. *)
UnlinkCandidate ==
    /\ At("unlink_candidate")
    /\ \/ task.candidate = "none" /\ Quietly(Goes("rollback_artifact"))
       \/ task.candidate = "expired" /\ RollbackRaises
       \/ /\ task.candidate = "loaded"
          /\ RollbackCommits([row EXCEPT !.candidate = FALSE], "delete_vectors")

(* Only vectors with an IndexedChunk row are known.  The vector store is   *)
(* not the database: its statement may fail or pass on its own.            *)
DeleteVectors ==
    /\ At("delete_vectors")
    /\ RollbackCommits([row EXCEPT !.vectors = @ /\ ~row.indexed],
                       "delete_indexed_chunks")

DeleteIndexedChunks ==
    /\ At("delete_indexed_chunks")
    /\ RollbackCommits([row EXCEPT !.indexed = FALSE], "delete_dense")

(* A simulation that uses the index forbids its deletion. *)
DeleteDense ==
    /\ At("delete_dense")
    /\ \/ "dense" \in row.used /\ RollbackRaises
       \/ /\ "dense" \notin row.used
          /\ RollbackCommits([row EXCEPT !.dense = "absent"], "rollback_artifact")

ChildIndexExists == index_status[task.pipe] # "absent"

(* The index is found by the child's link or by its owner. *)
RollbackArtifact ==
    /\ At("rollback_artifact")
    /\ Quietly(Goes(IF row.child /\ ChildIndexExists /\ (task.result \/ row.owned)
                    THEN "own_artifact" ELSE "delete_set"))

OwnArtifact ==
    /\ At("own_artifact")
    /\ RollbackCommits([row EXCEPT !.owned = TRUE], "clear_result")

ClearResult ==
    /\ At("clear_result")
    /\ \/ linked' = linked \ {task.pipe} /\ Goes("delete_artifact") /\ UNCHANGED faults
       \/ linked' \in {linked, linked \ {task.pipe}} /\ RollbackFails
    /\ UNCHANGED <<job_status, cancel_requested, artifact_name, index_status,
                   workerVars, requestVars, envVars, pipe>>

(* A simulation that uses the index forbids this too, but only with the    *)
(* foreign key.                                                            *)
DeleteArtifact ==
    /\ At("delete_artifact")
    /\ \/ "bm25" \in row.used /\ Quietly(AbandonsExpired)
       \/ /\ "bm25" \notin row.used
          /\ \/ Goes("delete_set") /\ UNCHANGED faults
             \/ RollbackFails
          /\ index_status' = [index_status EXCEPT ![task.pipe] = "absent"]
          /\ pipe' = [pipe EXCEPT ![task.pipe].owned = FALSE]
          /\ UNCHANGED <<jobVars, workerVars, requestVars, envVars>>

delete_corpus_chunk_set(r) == [r EXCEPT !.chunk_set = FALSE]

(* ON DELETE RESTRICT: no index may refer to the set. *)
DeleteSet ==
    /\ At("delete_set")
    /\ \/ ~row.chunk_set /\ Quietly(Goes("delete_job_chunks"))
       \/ /\ row.chunk_set
          /\ row.dense # "absent" \/ ChildIndexExists
          /\ RollbackRaises
       \/ /\ row.chunk_set /\ row.dense = "absent" /\ ~ChildIndexExists
          /\ RollbackCommits(delete_corpus_chunk_set(row), "delete_set_chunks")

(* The members of the set, or, without one, the chunks of the job. *)
DeleteChunks(label, kept) ==
    /\ At(label)
    /\ RollbackCommits([row EXCEPT !.chunks = @ /\ kept], "finish")

FinishRollback ==
    /\ At("finish")
    /\ Commits(IF task.outcome = "cancelled"
               THEN mark_full_corpus_index_pipe_job_cancelled(row)
               ELSE mark_full_corpus_index_pipe_job_failed(row),
               task' = Finished, RollbackFails)

Body ==
    \/ StartPipe
    \/ ProcessDocuments
    \/ FailJob
    \/ CreateChunkSet
    \/ CreateCandidate
    \/ CandidateReady
    \/ QueueChild
    \/ LinkChild
    \/ WaitChild
    \/ CancelChild
    \/ OwnIndex
    \/ StoreVectors
    \/ IndexChunks
    \/ MarkDenseBuilt
    \/ Finalize
    \/ Activate
    \/ CompletePipe

Rollback ==
    \/ MarkRollingBack
    \/ RollbackChild
    \/ ChildCancelling
    \/ UnlinkCandidate
    \/ DeleteVectors
    \/ DeleteIndexedChunks
    \/ DeleteDense
    \/ RollbackArtifact
    \/ OwnArtifact
    \/ ClearResult
    \/ DeleteArtifact
    \/ DeleteSet
    \/ DeleteChunks("delete_set_chunks", row.edited)
    \/ DeleteChunks("delete_job_chunks", FALSE)
    \/ FinishRollback

-----------------------------------------------------------------------------
(* The BM25 worker when its rows disappear under it, and the lifespan.     *)

(* Fault: an index may be created for a set that is gone. *)
OnlyTheIndexIsGone ==
    /\ pc \in {"mark_building", "mark_built", "undo_failed",
               "undo_cancelled", "complete"}
    /\ index_status[cur] = "absent"

(* CreateIndex meets the foreign key to the chunk set; the statements of a *)
(* job whose status a late cancel has overwritten meet a deleted index.    *)
ChildRowsGone ==
    \/ pc = "create" /\ ~pipe[cur].chunk_set
    \/ /\ pc \in {"mark_building", "mark_built", "undo_failed",
                   "undo_cancelled", "complete"}
       /\ index_status[cur] = "absent"

ChildLosesItsRows ==
    /\ ChildRowsGone
    /\ pc' = CASE pc \in {"mark_building", "mark_built"}      -> "undo_failed"
             [] pc = "undo_cancelled"                         -> "mark_cancelled"
             [] pc \in {"create", "undo_failed", "complete"} -> "mark_failed"
    /\ UNCHANGED <<jobVars, index_status, cur, known, requestVars, envVars,
                   faults>>

Bm25Steps ==
    /\ pc \in RecoveryLabels \/ phase \in {"serving", "stopping"}
    /\ (Coordinator /\ ~ChildRowsGone) \/ ChildLosesItsRows
    /\ UNCHANGED pipeVars

(* Users cancel children like any other BM25 job. *)
Bm25Requests ==
    /\ \E j \in Jobs : \/ UsersInterfere /\ phase = "serving" /\ CancelReads(j)
                       \/ CancelCommits(j)
    /\ UNCHANGED pipeVars

PipeHalts ==
    /\ task' = TaskAt("down")
    /\ pipe_wake' = FALSE
    /\ pipe_request' = [p \in Jobs |-> "none"]
    /\ interrupted' = {}
    /\ phase' = "down"
    /\ UNCHANGED <<pipe, overtaken>>

(* The pipe worker is stopped before the BM25 worker. *)
ShutdownPipe ==
    /\ phase = "serving"
    /\ stops < MaxStops
    /\ \A p \in Jobs : pipe_request[p] = "none" /\ pending_cancel[p] = "none"
    /\ stops' = stops + 1
    /\ phase' = "stopping"
    /\ pipe_wake' = TRUE
    /\ UNCHANGED <<jobVars, index_status, workerVars, requestVars, app, faults,
                   pipe, task, pipe_request, interrupted, overtaken>>

ShutdownBm25 ==
    /\ task.pc = "stopped"
    /\ app = "up"
    /\ app' = "stopping"
    /\ wake_event' = TRUE
    /\ UNCHANGED <<jobVars, index_status, workerVars, unnotified,
                   pending_cancel, stops, faults, pipeVars>>

(* After the children have been recovered.  An error here is dropped, and  *)
(* the workers start.                                                      *)
ListInterrupted ==
    /\ phase = "down"
    /\ app = "up"
    /\ \/ /\ interrupted' = ActivePipes
          /\ phase' = "recovering"
          /\ task' = TaskAt("recover")
          /\ UNCHANGED faults
       \/ /\ DatabaseError
          /\ phase' = "serving"
          /\ task' = TaskAt("loop")
          /\ UNCHANGED interrupted
    /\ UNCHANGED <<bm25Vars, pipe, pipe_wake, pipe_request, overtaken>>

(* A queued job is passed over.  In a transaction that an error has left   *)
(* behind, the next rollback fails with its first statement.               *)
fail_interrupted_full_corpus_index_pipe_jobs ==
    /\ task.pc = "recover"
    /\ \/ \E p \in First(interrupted) :
             /\ interrupted' = interrupted \ {p}
             /\ \/ /\ pipe[p].status = "queued" \/ task.candidate = "expired"
                   /\ UNCHANGED task
                \/ /\ pipe[p].status # "queued" /\ task.candidate # "expired"
                   /\ task' = [TaskAt("mark_rolling_back") EXCEPT
                          !.pipe = p,
                          !.candidate = IF pipe[p].candidate THEN "loaded" ELSE "none",
                          !.outcome = IF pipe[p].cancel_requested THEN "cancelled"
                                      ELSE "failed"]
             /\ UNCHANGED phase
       \/ /\ interrupted = {}
          /\ phase' = "serving"
          /\ task' = TaskAt("loop")
          /\ UNCHANGED interrupted
    /\ UNCHANGED <<vars, pipe, pipe_wake, pipe_request, overtaken>>

(* Outside the try of the recovery: the status of an expired job is read,  *)
(* or its candidate cannot be loaded.  The application does not start.     *)
RecoveryFails ==
    /\ task.pc = "recover"
    /\ \E p \in First(interrupted) :
           \/ task.candidate = "expired" /\ UNCHANGED faults
           \/ /\ pipe[p].status # "queued" /\ pipe[p].candidate
              /\ DatabaseError
    /\ Halt
    /\ UNCHANGED stops
    /\ PipeHalts

PipeProcess ==
    \/ Crash /\ PipeHalts
    \/ Exit /\ PipeHalts
    \/ StartupFails /\ PipeHalts
    \/ RecoveryFails
    \/ Restart /\ UNCHANGED pipeVars
    \/ ShutdownPipe
    \/ ShutdownBm25

PipeWorker ==
    \/ PipeLoopTop
    \/ claim_next_full_corpus_index_pipe_job
    \/ PipeWaitEnds
    \/ Body
    \/ Rollback
    \/ ListInterrupted
    \/ fail_interrupted_full_corpus_index_pipe_jobs

PipeRequests ==
    \E p \in Jobs : \/ queue_full_corpus_index_pipe_job_checks(p)
                    \/ create_full_corpus_index_pipe_job(p)
                    \/ wake_full_corpus_index_pipe_coordinator(p)
                    \/ CancelLoadsPipe(p)
                    \/ request_full_corpus_index_pipe_job_cancel(p)
                    \/ CancelMarksPipe(p)
                    \/ update_corpus_chunk_set(p)
                    \/ _get_valid_built_corpus_index(p)
                    \/ _get_valid_built_bm25_index(p)

PipeNext == PipeWorker \/ PipeRequests \/ Bm25Steps \/ Bm25Requests \/ PipeProcess

PipeSpec == PipeInit /\ [][PipeNext]_allVars

PipeFairness ==
    /\ WF_allVars(PipeWorker)
    /\ WF_allVars(Bm25Steps)
    /\ \A j \in Jobs : /\ WF_allVars(CancelCommits(j) /\ UNCHANGED pipeVars)
                       /\ WF_allVars(wake_full_corpus_index_pipe_coordinator(j))
    /\ WF_allVars(Exit /\ PipeHalts)
    /\ WF_allVars(Restart /\ UNCHANGED pipeVars)
    /\ WF_allVars(ShutdownBm25)

FairPipeSpec == PipeSpec /\ PipeFairness

-----------------------------------------------------------------------------
(* Properties. *)

(* What there is of a pipe: nothing that can be searched, or both indexes  *)
(* over its chunk set.                                                     *)
HasNothing(p) ==
    /\ pipe[p].dense = "absent" /\ ~pipe[p].indexed /\ ~pipe[p].chunk_set
    /\ index_status[p] = "absent"

ServesBoth(p) ==
    /\ pipe[p].dense = "active" /\ pipe[p].candidate
    /\ pipe[p].chunk_set /\ pipe[p].indexed /\ pipe[p].vectors
    /\ pipe[p].child =>
           p \in linked /\ pipe[p].owned /\ index_status[p] = "built"

(* A completed pipe serves both indexes over its chunk set, unless a       *)
(* cancel request overtook it.                                             *)
CompletedPipesServeBoth ==
    \A p \in Jobs :
        pipe[p].status = "completed" /\ p \notin overtaken => ServesBoth(p)

RolledBack(p) == pipe[p].status \in {"failed", "cancelled"} /\ p \notin overtaken

(* Whatever raised or crashed, a failed or cancelled pipe leaves no index, *)
(* no indexed chunk and no set; chunks only when a user took them out of   *)
(* the set; vectors only after a crash or an error.                        *)
RolledBackPipesLeaveNothing ==
    \A p \in Jobs : RolledBack(p) =>
        /\ HasNothing(p)
        /\ pipe[p].chunks => pipe[p].edited
        /\ pipe[p].vectors => stops > 0 \/ faults > 0

Ended(p) == pipe[p].status \in TERMINAL_CORPUS_BM25_BUILD_JOB_STATUSES

(* A refresh that fails after the commit: the worker has still to roll     *)
(* back a row that says it has ended.                                      *)
Reconsidered(p) == task.pipe = p /\ task.pc = "mark_rolling_back"

StageOf(p) ==
    IF p \in overtaken THEN "overtaken"
    ELSE CASE pipe[p].status = "absent"  -> "none"
           [] pipe[p].status = "queued"  -> "waiting"
           [] pipe[p].status = "running" -> "working"
           [] Ended(p) /\ Reconsidered(p) -> "working"
           [] pipe[p].status = "completed" /\ ~Reconsidered(p) -> "served"
           [] RolledBack(p) /\ ~Reconsidered(p) -> "withdrawn"

ProductOf(p) ==
    IF HasNothing(p) THEN "nothing"
    ELSE IF ServesBoth(p) THEN "whole" ELSE "partial"

Protocol == INSTANCE PipeProtocol WITH
    Pipes   <- Jobs,
    stage   <- [p \in Jobs |-> StageOf(p)],
    product <- [p \in Jobs |-> ProductOf(p)]

(* Every step of the pipes, of their worker, rollbacks and recovery, of    *)
(* the BM25 queue and of users is one of PipeProtocol or invisible to it:  *)
(* pipes start in order, and one that has ended never starts again and     *)
(* neither gains nor loses an index, although a child may outlive its      *)
(* parent's rollback.                                                      *)
ImplementsPipeProtocol == Protocol!ProtocolSpec

(* What the rollback cannot delete: a candidate the row has forgotten, an  *)
(* index a simulation uses, one of the child without link or owner.        *)
Unfindable(p) ==
    \/ pipe[p].dense # "absent" /\ (~pipe[p].candidate \/ "dense" \in pipe[p].used)
    \/ /\ index_status[p] # "absent"
       /\ \/ ~pipe[p].child \/ (p \notin linked /\ ~pipe[p].owned)
          \/ "bm25" \in pipe[p].used

OutOfReach(p) ==
    /\ pipe[p].status = "running"
    /\ IF pipe[p].rolling_back THEN Unfindable(p) ELSE task.pipe # p

(* Every queued pipe ends, across crashes and errors, unless the worker of *)
(* its child is dead or the rollback of some pipe is stuck for good.       *)
PipesEnd ==
    \A p \in Jobs : pipe[p].status = "queued" ~>
        Ended(p) \/ pc = "dead" \/ [](\E q \in Jobs : OutOfReach(q))

(* A cancellation accepted before the last poll, in Finalize, leads to a   *)
(* rollback, also while the parent waits for its child.                    *)
CancellationsRollBack ==
    \A p \in Jobs :
        /\ pipe[p].status = "running" /\ pipe[p].cancel_requested
        /\ task.pipe = p
        /\ task.pc \in BodyLabels \ {"activate", "complete"}
        ~> \/ pipe[p].rolling_back \/ pipe[p].status \in {"failed", "cancelled"}
           \/ pc = "dead" \/ OutOfReach(p)

=============================================================================

# A verification development for ragai-negsim

TLA+ models of the parts of ragai-negsim in which something can go wrong that a
unit test hardly reaches: persistent queues that one background task serves
while HTTP requests change the same rows, work that spans PostgreSQL, Neo4j and
external models, cancellation, failure, and restart; and the graphs of agents
that a turn of a negotiation runs through. TLC checks the models on small
instances; TLAPS proves every safety property and refinement they have for every
value of the constants. All paths below are relative to the repository unless
they name a file of this directory.

## 1. The system

A FastAPI application, one Uvicorn worker, one event loop. Request handlers
are coroutines; three coordinators (`BM25`, `full pipe`, `RAG evaluation`) are
tasks of the same loop, started and stopped by the lifespan in `app/main.py`.
Shared state is in PostgreSQL (rows), Neo4j (graph generations) and pgvector
(vectors).

What shapes every model:

* A step is what a coroutine does between two awaits. Anything another
  coroutine or another process life can see happens at a commit.
* Repositories commit once per helper (`repositories/helpers.py:22`
  `commit_and_refresh`: add, commit, refresh; an exception rolls back and is
  raised again). Isolation is READ COMMITTED.
* Sessions use `expire_on_commit=False`: an ORM object keeps the values it was
  loaded with until it is refreshed. Only attributes that changed are written.
  `session.get` returns the object the session already holds. A rollback
  expires every object of its session; reading an expired attribute outside a
  greenlet raises `MissingGreenlet`.
* The process may end at any await. Start-up recovers BM25 jobs, then pipe
  jobs, then knowledge-graph builds, and then starts the coordinators; an
  exception in it ends the process, and the container is restarted
  (`restart: unless-stopped`).

### Components

| Component | State | Operations | Interacts with | Hard behaviour | What makes it correct | Module |
|---|---|---|---|---|---|---|
| **RAG evaluation** (`services/rag_eval_coordinator.py`, `repositories/rag_eval_repo.py`, `airag/evaluation/`) | `RagEvalRun` rows: status, stage, progress, cancel flag; result rows; a graph generation per run; wake event | enqueue, cancel, claim, execute (validate, chunk, index, answer, score, finalize), clean up, recover, stop | Neo4j, the pipelines, requests, lifespan | cancel racing finalize; failing cleanup; crash in an execution; redeployment | one run at a time, FIFO, all results or none, no graph data left, accepted cancellations hold | `RagEval` |
| **BM25 builds** (`services/corpus_bm25_build_jobs_service.py`, `corpus_bm25_build_coordinator.py`, `corpus_bm25_indices_service.py`, repositories) | job rows, index rows with the artifact, name reservations, wake event | queue, retry, cancel, claim, validate, create, link, build, persist, compensate, recover, stop | chunk sets; the full pipe queues child jobs | cancel decides on a stale read; flag cached in the worker's object; errors in compensation; restart | one job at a time, exclusive names, completed jobs serve an index, failed ones leave none | `Bm25Jobs` |
| **Full corpus index pipe** (`services/full_corpus_index_pipe_job.py`, coordinator, repository) | job rows (status, `rolling_back`, candidate, child, owned set), chunk set, candidate index, vectors, indexed chunks | queue, cancel, claim, process documents, chunk set, candidate, BM25 child, embed, activate, roll back, recover | BM25 queue (the parent waits for its child), chunk sets, dense indices, users | durable rollback interrupted between its commits; parent waits on a dead worker; activation before completion | rollback reaches a terminal status and leaves nothing; a completed pipe serves both indexes | `FullPipe` |
| **Knowledge-graph builds** (`services/knowledge_graph_builds_service.py`, `knowledge_graph_indices_service.py`, `airag/knowledge_graph/`) | graph row, job rows, generations in Neo4j, the negotiation-graph cache | create, delete, queue, run, activate, cancel, fail interrupted, lock | Neo4j, requests, simulations, lifespan | cancel reads then writes; overlapping tasks; a crash between activation and completion | one active generation, no orphan data, nothing cached that is gone | `KnowledgeGraphs` |
| **Simulation lifecycle** (`services/simulations_service.py`, `repositories/simulations_repo.py`) | one row: status, the whole negotiation state, messages, the review; ledger rows | create, update, start, turn, proxy turn, disable proxy, cancel, review, delete | negotiation graph, ledgers, indices | whole-state writes of what was loaded before an await | no lost turn, ended simulations stay, evidence follows its turn | `SimulationLifecycle` |
| **Negotiation graph** (`airag/chains/negotiation/`, `airag/chains/agents/`) | graph state of one turn, the stored state between turns | routers, agents with repair and fallback, ledgers | language models, CRAG | an agent fails in the middle; the round bound; routing on partial answers | a turn ends, is whole, and is one round or the end | `Negotiation`, `TurnProtocol` |
| **CRAG graph** (`airag/chains/crag/`) | graph state of one answer | retrieve, rerank, grade, rewrite, generate, check, fall back | retriever, models | retries work on the state of the attempt before | the loop ends; an answer comes with its own evidence | `Crag` |
| **Learner** (`airag/chains/agents/learner/`, `services/simulation_learner_service.py`) | state of one question | model and tool calls, response | CRAG graph, web search | failing tools, two call limits | a response accounts for its answer; bounded calls | `Learner` |
| **Dense indices** (`services/embeddings_service.py`, `corpus_indices_service.py`, `repositories/corpus_indices_repo.py`, `indexed_chunks_repo.py`) | index rows, indexed chunks, vectors, bindings of simulations, the cache | build in a request or in the background, create, set status, copy, delete, bind, retrieve | chunk sets, pgvector, simulations | builds from a copy that ages; a handler that reads an expired row | completed builds are whole, bindings name built indices, cached graphs can be served | `CorpusIndices` |
| **Documents, ingestion, chunks** (`services/raw_documents_service.py`, `ingestion_service.py`, `chunking_service.py`, `repositories/document_chunks_repo.py`) | files on disk, document rows, parsed text, chunk rows | upload, verify, ingest, chunk, for one document or a corpus | disk, requests | a file and its row are written apart; check, then insert | file, row, text and chunks agree; no duplicate chunks | `Documents` |
| **Catalogue** (scenarios, personas, RAG profiles, prompts, chunking profiles, vector stores, sessions, evaluation configurations) **and accounts** | rows with owners, editors and a configuration; users and role links | create, copy, update, delete, under role checks | the rows that refer to them | a check and its commit are apart; edits from copies | references are honoured, configurations fit, accounts keep a role | `Catalogue` |
| **Lifespan** (`main.py`) | the tasks | recover, start, stop | all workers | order of recovery and of stopping | - | with each worker |
| **Database session, configuration** | engine, settings | a session per request or task | everything | see the rules above | - | part of every model |
| **Prompt guard, usage tracking, embedding cache** | counters, a cache | wrap model calls | pipelines | failures surface as call errors | - | part of "work may raise" |
| **Frontend, scripts, migrations** | - | - | HTTP, SQL | none on the server | - | not modelled |

`PROJECT.json` lists the components with their files and status, and under
"hazards" each hard behaviour at its line, with the properties that guard it.

## 2. Modules

| Module | What it is |
|---|---|
| `RagEval` | the RAG evaluation queue, its coordinator, execution, recovery and restart |
| `EvaluationQueue` | what that queue promises its users, with nothing of how |
| `Bm25Jobs` | the BM25 build queue, its coordinator, execution, compensation, recovery and restart |
| `FullPipe` | extends `Bm25Jobs`: the pipe's coordinator and rollback beside the BM25 worker, in one process |
| `PipeProtocol` | what the pipes promise their administrators, with nothing of how |
| `KnowledgeGraphs` | one knowledge graph from creation to deletion: builds, tasks, cancellations, the lock, the cache |
| `SimulationLifecycle`, `MCSimulationLifecycle` | the row of one simulation and the requests that overlap on it; its symmetry |
| `Crag` | the corrective RAG graph, node by node |
| `Learner` | extends `Crag`: the learning agent with its tools |
| `Negotiation` | extends `Learner`: the turns of one negotiation through the parent graph, every agent, CRAG, and the stored row |
| `TurnProtocol` | what a turn promises to the simulation: one more round, or the end |
| `CorpusIndices`, `MCCorpusIndices` | dense indices: builds, administrators, bindings, retrieval graphs; their symmetry |
| `Documents`, `MCDocuments` | uploads, verification, ingestion and chunking over files and rows; their symmetry |
| `Catalogue` | accounts, and the eight kinds of rows that others refer to |
| `RagEvalProofs`, `FullPipeProofs`, `KnowledgeGraphsProofs`, `SimulationLifecycleProofs`, `NegotiationProofs`, `CorpusIndicesProofs`, `DocumentsProofs`, `CatalogueProofs` | the theorems about each of them; `FullPipeProofs` begins with those about `Bm25Jobs`, `NegotiationProofs` with those about `Crag` |

The `.cfg` files instantiate the modules: bounds are numbers, names, users and
requests model values. Symmetry is used for request slots, uploads,
teachers and administrators, in runs without liveness only.

### RagEval and the code

| Model | Code |
|---|---|
| `status` ... `query_results` | columns of `RagEvalRun`, the number of `RagEvalQueryResult` rows |
| `suite`, `resolved`, `corpus` | `suite_version`/`suite_content_hash` of a row, the suite in `resolved_pipeline_snapshot`, the suite the deployed code ships |
| `scope` | runs whose evaluation generation holds nodes in Neo4j |
| `pc`, `cur`, `active_stage`, `exc`, `expired`, `answered` | the await the task is suspended at, its run, the local of `_execute`, the exception in flight, whether a rollback expired the ORM run, `len(results)` |
| `wake_event`, `unnotified` | `_wake_event`; requests between their commit and `wake()` |
| `enqueue_rag_eval_run`, `Notify`, `request_rag_eval_run_cancel` | the service and repository functions of those names; the wake-up |
| `LoopTop`, `ListInterrupted`, `Recover...`, `claim_next_rag_eval_run`, `ProcessReturns`, `WaitEnds` | `_run_loop`, `process_once`, `recover_interrupted`, the claim |
| `Validate`, `Prepare`, `CragPrepare`, `GraphRagPrepare`, `EvaluateExamples`, `CleanUp`, `ScoreAndPersist` | `_execute`, `FullPipelineEvaluator.evaluate` and the two adapters, await by await |
| `Unwind` | which `except` or `finally` an exception at an await reaches |
| `HandleCancelled`, `HandleCleanupFailure`, `HandleFailure`, `HandleExpired` | the `except` clauses of `_execute` |
| `Crash`, `Shutdown`, `Exit`, `Restart` | the end of the process at any await; `stop()`; the lifespan |

The state between two awaits is never visible, so one action is one
transaction, one cancellation poll, or one piece of external work that may
raise. A run's work on texts, embeddings, answers and metrics is left out:
only whether it raises matters. `cleanup_failed` is a history variable. Every
database statement of the worker may fail before its commit, or after it (the
refresh); a claim, a progress report, a finalization and a handler that fail
after the commit leave a running, advanced, completed or ended row behind, to a
handler or to a worker that dies.

### Bm25Jobs and the code

| Model | Code |
|---|---|
| `job_status`, `cancel_requested`, `artifact_name`, `linked` | columns of `CorpusBm25BuildJob`; `result_bm25_index_id` is set |
| `index_status` | status of the `CorpusBm25Index` row a job created (one at most); "built" includes the stored artifact |
| `pc`, `cur`, `known` | the worker's await, its job, and `cancel_requested` of the ORM object in its session |
| `pending_cancel` | a cancel request between `session.get` and its commit, with the status it read |
| `queue_corpus_bm25_build_job`, `retry_...` | one transaction under the advisory lock of the name: check and insert |
| `CancelReads`, `CancelCommits` | the two halves of `cancel_corpus_bm25_build_job_srvc`; the second writes by primary key |
| `Start` ... `Fail` | `execute_corpus_bm25_build_job_srvc` with `build_corpus_bm25_index_srvc` inlined, await by await |
| `Undo` | `_mark_build_failed` / `_mark_build_cancelled` with the conditional update; their own errors are dropped |
| `RecoverNext`, `RecoverIndex`, `RecoverJob` | `recover_interrupted_corpus_bm25_build_jobs_srvc`, run before requests are served |

A changed or deleted chunk set is a choice of the environment in `Validate`.
The job's `stage`, its failure detail and timestamps are left out (no decision
reads them), and so are the artifact's bytes. Every database statement of the
worker may fail before its commit, or after it (the refresh), and the two
lead to different states.

### FullPipe and the code

| Model | Code |
|---|---|
| `pipe[p]` | the `FullCorpusIndexPipeJob` row with what it owns: chunk set, document chunks, candidate index, vectors, indexed chunks, the child's link and owner |
| `task` | the coordinator task: its await, its job, the candidate it holds, the terminal status it rolls back to |
| `queue_full_corpus_index_pipe_job_checks`, `create_...`, `wake_...` | a queue request: the checks, the insertion, the wake-up |
| `CancelLoadsPipe`, `request_full_corpus_index_pipe_job_cancel` (`CancelMarksPipe`) | a cancel request, which loads the row and writes later |
| `claim_next_full_corpus_index_pipe_job` | rows in `rolling_back` first, then the oldest queued one |
| `ProcessDocuments`, `CreateChunkSet`, `CreateCandidate`, `QueueChild`, `LinkChild`, `WaitChild`, `OwnIndex`, `StoreVectors`, `IndexChunks`, `Finalize`, `Activate`, `CompletePipe` | `run`, one action per commit or external call |
| `MarkRollingBack` ... `FinishRollback` | `_fail_job_and_candidate`, `_rollback_parent_artifacts` |
| `ListInterrupted`, `fail_interrupted_full_corpus_index_pipe_jobs`, `RecoveryFails` | start-up recovery, after that of BM25; with its one session expired it raises, and the application does not start |
| `update_corpus_chunk_set`, `cancel_corpus_index_build`, `_get_valid_built_corpus_index`, `_get_valid_built_bm25_index` | users: edits of the set, cancelling the candidate's build, a simulation that binds the candidate or the child's index |
| `ShutdownPipe`, `ShutdownBm25`, `PipeHalts` | the lifespan stops the pipe's worker first |

The child of parent `p` is job `p` of `Bm25Jobs`, whose actions are taken as
they are; `ChildRowsGone` adds what they meet when the rollback deletes their
rows. The documents of a job are one step, its batches another. No other chunk
set shares the chunks of a job (no route creates one), so the check for such
sets before chunks are deleted always finds none.

`StageOf` and `ProductOf` are what an administrator sees of a pipe, and map it to
`PipeProtocol`. A row that says it has ended is still "working" while the worker
is about to roll it back (`Reconsidered`): the refresh after the commit may raise,
and the handler then rolls back what has just completed.

### KnowledgeGraphs and the code

| Model | Code |
|---|---|
| `graph`, `jobs`, `data`, `cache` | the `KnowledgeGraphIndex` row, the job rows, the generations with nodes in Neo4j, the keys of `NEGOTIATION_GRAPH_CACHE` |
| `task[j]` | the build task: its await, the ORM graph of its session, the `except` clause it is in |
| `create_...`, `delete_knowledge_graph_index(_srvc)` | creation; deletion in two steps, refused by job rows and locks |
| `queue_knowledge_graph_build`, `create_knowledge_graph_build_job`, `start_...` | check for an active job, insertion, task |
| `CancelReads`, `CancelWrites` | the cancel request: `session.get`, then the write by primary key |
| `Start` ... `DeleteOld`, `GiveUp`, `GiveUpGraph`, `GiveUpJob` | `run_knowledge_graph_build` and its two `except` clauses, commit by commit |
| `ValidateBinding`, `InsertSimulation`, `lock_knowledge_graph` | creation of a simulation that locks the graph |
| `TurnLoadsRuntime`, `TurnHasConstructed` | a turn that constructs its graph across awaits and caches it if it is current |
| `Stop`, `Restart`, `fail_interrupted_knowledge_graph_builds` | process end and start-up |

The generation a job writes is named by the job. Build tasks are not awaited at
shutdown, so a shutdown and a crash are one action.

Three history variables record what sets a generation apart: `overtaken`, the
builds whose status a late cancel request overwrote; `overlapped`, that two
tasks were alive at once; `disowned`, the builds that gave up what they had
activated. The last one is owed to the proof: with three builds and
two errors, a build that completes, then fails to delete its predecessor, gives
up the active generation although its job stays completed, a turn caches it,
and the next build activates another. Two builds are too few for that, and the
invariant that said nothing of it was not inductive.

### SimulationLifecycle and the code

| Model | Code |
|---|---|
| `row` | the `Simulation` row; of `negotiation_state` the turns, the stage, the learner's and the models' settings, the proxy |
| `request[r]` | a request in flight: its kind, user, and the copy its session loaded |
| `get_simulation`, `Accepts`, `ALLOWED_STATUS_TRANSITIONS` | the loader of the route and the checks on the copy |
| `start_simulation`, `submit_simulation_turn`, `submit_simulation_proxy_turn`, `disable_simulation_proxy`, `cancel_simulation`, `delete_simulation`, `update_simulation` | the request's commit, with the columns that differ from the copy |
| `review_simulation`, `update_review_simulation`, `delete_review_simulation` | the reviews |
| `_persist_evidence_ledgers` | the insertion after the turn's commit |
| `GivesUp`, `LosesEvidence` | an error of the database, a crash, or a failed graph |

`stale` is a history variable: the kinds of requests that have written over a
row newer than their copy. The properties say which kinds can break what, and
that no other can.

### Crag, Learner, Negotiation and the code

| Model | Code |
|---|---|
| `crag`, `node_...`, `decide_after_...` | the state, the nodes and the routers of `airag/chains/crag/` |
| `learner`, `CallLearnerModel`, `ModelLimitExceeded`, `run_rag_tool`, `RagToolReturns`, `run_tavily_tool`, `LearnerResponds` | the agent of `learner_agent.py`, its two limit middlewares, tools and response |
| `simulation` | what is stored between turns |
| `negotiation`, `node` | the state of the parent graph and its node, or the service around it |
| `agent`, `Projected`, `Started` | the agent that runs, on its projection of the state (`context_projections.py`) |
| `Answered`, `Repairs`, `FallsBack` and `node_generate_...`, `node_repair_...`, `node_fallback_...` | the three attempts of every agent |
| `node_call_rag`, `CallRag`, `RunCrag`, `RagReturns` | coach and evaluator run the CRAG graph first |
| `route_after_prepare`, `route_after_intent`, `node_pause_for_user`, `node_finalize_negotiation` ... | routers and nodes of `negotiation.py` |
| `invoke_user_proxy_turn`, `submit_...`, `update_simulation` | `simulations_service.py` around the graph |

Documents are told apart by the retrieval they come from, answers by the
documents they were made from, results of agents by the turn that wrote them.
What models say is a choice; each of them may raise. The GraphRAG pipeline
answers through the same CRAG response graph, so one model serves both.

### CorpusIndices and the code

| Model | Code |
|---|---|
| `chunk_set`, `index`, `vectors` | the revision of the chunk set; per index its row, indexed chunks and vectors, each named by the revision it was made from |
| `build[i]`: `queue_corpus_embedding_build_srvc` ... `mark_corpus_index_built` | `embeddings_service.py`, in the request or as a background task; `_mark_index_failed` is its handler |
| `admin[a]`: `create_corpus_index_srvc`, `update_corpus_index_status`, `copy_corpus_index_srvc`, `delete_corpus_index` | what administrators do by hand |
| `request`: `_validate_retrieval_bindings_for_profile`, `_get_retrieval_runtime_for_simulation`, `ensure_hybrid_indices_compatible`, `_build_retrieval_graph`, `_cache_negotiation_graph_if_current` | a simulation that binds, and a turn that constructs its retriever |
| `clear_negotiation_graph_cache_for_corpus_index` | after a deletion |

A build takes its snapshot in two reads, the row of the set
(`get_corpus_chunk_set_by_id`) and then the members
(`get_corpus_chunk_set_document_chunks`), and a replacement of the set may fall
between them: `build[i].members` is what the second one saw. Every commit may
fail before it takes effect or in the refresh that follows it.

### Documents and the code

| Model | Code |
|---|---|
| `file`, `row`, `chunks` | bytes under a name (by the upload that wrote them), `RawDocument`, rows of `DocumentChunk` |
| `upload[u]`: `create_uploaded_raw_document_srvc`, `write_bytes`, `RawDocumentCreate`, `create_raw_document`, `unlink` | an upload: look the name up, write, describe the file (a name the schema refuses leaves it), insert, unlink on failure |
| `request[r]`: `verify_raw_document_source_srvc`, `_convert_raw_document_to_markdown`, `update_raw_document_parsed_content`, `_chunk_cleaned_document`, `ensure_no_duplicate_positions_in_db`, `bulk_create_document_chunks`, `ingest_corpus_srvc`, ... | verification, ingestion and chunking, for one document or a corpus |

Files are accessed in threads, so every access is a step, and a restart may cut
a file off that is being written. The check of positions is one `SELECT` per
chunk (`ensure_document_chunk_position_available`), so it is one step per
position: `checked` counts them. `chunk.rivals` are the requests that had found
the position free when the chunk was inserted. `overlap` records the names that
two uploads were storing at once, and an upload that is "disowned" has removed
the file of the row it had committed. The status is the one column an edit
changes in the model; edits of the path and of the hash are left out.

### Catalogue and the code

| Model | Code |
|---|---|
| `kind` | the kind of row a behaviour is about, chosen at the start |
| `account`, `item`, `child` | `User` rows with their role links, the rows of the kind, a row that refers to one |
| `request[r]` | an authenticated request: what its operation asks for (`Insertions` ... `Removals`), and the copy of the row or the role links (`links`) it loaded |
| `Fits`, `ValidContents` | the validation of a payload: RAG profiles, chunking profiles and vector stores have a configuration of their strategy or back end, evaluations a valid one; nothing is asked of the others |
| `get_writable_scenario`, `get_admin_...`, ... | the loaders of `core/dependencies.py`: who may |
| `create_..._srvc`, `copy_...`, `update_...`, `delete_...` | what a request asks for |
| `ensure_..._unused`, `ensure_user_deletable`, `ensure_name_available`, ... | the check before the commit |
| `create_scenario` ... `delete_user`, `replace_user_roles` | the commit, with what the foreign keys do |
| `read_reference`, `insert_reference`, `delete_reference` | a simulation, chunk or run that starts to refer to the row between the request's check and its commit, and one that goes |

`mixed`, `contested` and `raced` record which edits were made over an unseen
version, so that the properties speak of every other one. `CopiesOf` is owed to
the proof of `ConfigurationsStayValid`: a copy that took an unfit row as it is
would be a second unfit row, which no edit had mixed; but `copy_rag_profile`
and `copy_chunking_profile` normalize the strategy and configuration again.

## 3. What TLC checks

| Run | Instance | Shows |
|---|---|---|
| `eval_safety` | 2 runs, 1 example, 1 stop | `ExecutionOwnsTheRunningRow`, `AcceptedCancellationHolds`, `ImplementsQueue`, `QueueDrains` |
| `eval_recovery` | 1 run, 2 examples, 2 suites, 2 stops, 1 database error | `ResultsAreAllOrNothing`, `LeftoverScopesAreFailedCleanups`, `ProgressNeverGoesBack`, `PendingCleanupsAreRetried` |
| `bm25_safety` | 2 jobs, 2 names, 1 stop, 1 database error | `OneJobRuns`, `CompletedJobsServeAnIndex`, `FailedJobsLeaveNoArtifact`, `ReservedNamesAreExclusive`, `CancellationsEndJobs`, `QueueDrains` |
| `pipe_safety` | 1 pipe with its child, 1 stop, 1 error, users who interfere | `CompletedPipesServeBoth`, `RolledBackPipesLeaveNothing` |
| `pipe_liveness` | 1 pipe, 1 stop, 1 error, no users | `PipesEnd`, `CancellationsRollBack`, `ImplementsPipeProtocol` |
| `kg_safety` | 2 builds of one graph, 1 stop, 1 error | `CompletedBuildsKeepTheirData`, `SettledGraphsOwnOneGeneration`, `CacheHoldsNoDeletedGeneration` |
| `sim_safety` | 2 requests in flight, 5 in all, 2 teachers, 1 error or crash | `TurnsAreKept`, `ProxiesKeepTheirModel`, `ReviewsAreWhole`, `EndedSimulationsAreFrozen` |
| `sim_settings` | one request at a time | the finding of section 6: `SettingsAreKept` is violated |
| `negotiation` | 2 rounds, 2 rewrites, 2 model and 2 tool calls of the learner | `LearnerResponsesAccountForThemselves`, `AnswersComeWithTheirEvidence`, `ModelCallsAreBounded`, `TurnsAreWhole`, `LedgersHoldEveryTurn`, `ImplementsTurnProtocol` |
| `corpus_safety` | 2 indices, 1 build, 2 revisions of the set, 2 administrators, 1 stop, 1 error | `OwnBuildsAreWhole`, `BindingsNameBuiltIndices`, `CachedGraphsAreServable` |
| `documents_safety` | 2 files of which 1 is edited, 2 uploads, 2 requests, up to 2 chunks a text, 1 stop, 1 error | `SourcesMatchTheirRows`, `ChunksAreDuplicatedByRivalsOnly` |
| `catalogue_safety` | 8 kinds, 2 users, 2 rows, 1 referring row, 3 requests of which 2 overlap | `ReferencesAreHonoured`, `ProfilesStayConsistent`, `EveryAccountHasARole` |

**What the properties say.** Each is stated in words above its definition.
Several name an exception, and the exception is what the code does: the
property says that nothing else breaks the promise. So `TurnsAreKept` names the
kinds of requests whose stale write can lose a turn, `RolledBackPipesLeaveNothing`
lets chunks survive only if a user took them out of the set, `PipesEnd` excepts
a dead BM25 worker and a rollback that cannot find its candidate, and
`SettledGraphsOwnOneGeneration` names the two leaks that remain.
`CompletedBuildsKeepTheirData` and `CacheHoldsNoDeletedGeneration` except what a
build gives up itself after it was activated (`disowned`).

**Abstract specifications.** `ImplementsQueue`: every step of the evaluation
queue is one of `EvaluationQueue` or invisible to it. `ImplementsTurnProtocol`:
seen from the stored row, whatever the agents do in between, a turn is one more
round or the end (`TurnProtocol`). `ImplementsPipeProtocol`: pipes start in the
order they were asked for, each ends once, serving both its indexes or with
nothing left, and what it serves or has deleted stays so, unless a cancel request
that decided on an older status overtakes it (`PipeProtocol`). `pipe_liveness`
checks it for one pipe with a stop and an error; that several pipes start in
order, and leave alone what the others have made, is the theorem
`PipesImplementProtocol`.

**Bounds.** Two runs or jobs are enough for everything a queue does between
rows: order, exclusion, a request for one row while another is executed. Two
examples distinguish the first and the last poll of the loop; two suites, a
redeployment from none. One stop interrupts any execution; two also interrupt
the recovery from the first. One error reaches each error path; a second error
in a chain is the one a handler drops, which the handlers also reach with a
first error raised by the work itself. Two overlapping requests show every
stale write, since a write is stale against one other; in `SimulationLifecycle`
five in all let a simulation start, take a turn, end and be reviewed. Two
rounds tell a first, a later and a last turn apart; two rewrites, the first
retry, a retry after a retry, and giving up; the learner's limits, 6 in the
code, are 2, which is enough to use one tool, then another, and to hit each
limit. `MaxStops`, `MaxFaults` and `MaxRequests` appear only in guards of what
they count.

**Types.** `TypeOK` (`PipeTypeOK`, `CragTypeOK`) of every module is a theorem;
the runs spend their properties on what is harder.

**Deadlock** is checked in `eval_safety`, `eval_recovery`, `bm25_safety` and
`negotiation`, where `AllRunsEnded`, `NothingLeft` and `NegotiationOver` stutter
explicitly when nothing is left to do. In `negotiation` it says that no agent of
a turn waits for a graph that has returned or raised; with
`ModelCallsAreBounded`, that turns and questions end. The other systems really stop: their requests have all been answered,
or a pipe's parent polls a child whose worker has died.

**Fairness.**
`RagEval`, `Bm25Jobs`: `WF(Coordinator)`, the event loop resumes a task whose
await is over; `WF(Notify)`, a handler that has committed goes on to `wake()`;
`WF(Exit)` and `WF(Restart)`, an orderly stop ends the process and the container
is restarted; `SF(RecoverCleanup)`, for `RagEval` only: Neo4j does not refuse
every deletion for ever, and without that no retry can succeed.
`FullPipe`: the same for the pipe's worker and the BM25 steps beside it, for
handlers that have committed, and for the stop of the BM25 worker after the
pipe's.
There is no fairness on requests, crashes, nor on which outcome work has. The
other specifications state safety only. `QueueDrains` excepts a worker task
that an exception has ended (`pc = "dead"`): nothing in the code restarts it
before the process ends.

Each property has a mutant in `PROJECT.json`, a fault a developer could
write (marked *Fault* in the modules), under which TLC finds it violated.

## 4. What is proved

Eight modules hold theorems, for every value of the constants that satisfies
the named assumptions. Each proves `Spec => []Inv` from an inductive invariant
that TLC had checked first, with one lemma per action or group of actions. The
assumptions say only that a bound is a natural number, that a number of rows,
examples, turns or limits is not zero where the code has one at least, that
documents are numbered, that a "none" value is none of the real ones, that what an
administrator sets is a status, and, for `SimulationLifecycle`, that finitely many
requests are in flight. `PROJECT.json` lists each theorem with
the property it states.

**RagEvalProofs** (`RunsAssumption`, `SuiteAssumption`, `BoundsAssumption`).
`IInv` is `TypeOK`, `ExecutionOwnsTheRunningRow`, `ScopesHaveOwners`,
`LabelFacts`, `CancellationsWereAsked`. That a finished run leaves no graph data
depends on where the coordinator stands when it ends the run: `LabelFacts` says
at which awaits its scope is clean, which strategy it has and how many examples
it has answered. After a
finalization whose refresh failed the handler of the execution finds a completed
row: `ExecutionOwnsTheRunningRow` says that no row is running then
(`HasCompleted`), and that the worker dies there keeps the row whole.
`CancellationsWereAsked` says that an execution is unwound as
cancelled only under the flag of its row, which the refinement needs. A second
layer, `RInv`, says what a row shows of the execution: at most the percentage
that the next report writes (`NextPercent`), at most the examples that have been
answered, and all of them by the time the results are written. Theorems:
`TypeCorrect` (with the range of the progress arithmetic),
`ExecutionIsExclusive`, `ScopesAreOwned`, `ResultsStayWhole`, the action
properties `CancellationsHold` and `ProgressAdvances`, and `QueueImplemented`,
the refinement of `EvaluationQueue`.

**FullPipeProofs** (`JobsAssumption`, `LimitsAssumption`) has three parts.

*The BM25 queue.* `JobsInv` is `TypeOK`, `LabelFacts`, `OneJobRuns` and
`ReservedNamesAreExclusive`; `IInv` adds that completed jobs serve an index and
that the index is built from `persist` on (`ServedInv`), which only the queue
alone keeps. `LabelFacts` says that a worker between jobs leaves no running row
(so a claim meets none) and that the job under execution has no outcome before
its outcome step but "cancelled" by a late request (so the index the worker
writes is never that of a completed job). `ArtifactsInv`, for
histories without database errors, follows the index row from await to await, so
that at every outcome "failed" it is compensated or was never linked. Theorems:
`JobTypesHold`, `AtMostOneJobRuns`, `CompletedMeansBuilt`, `NamesAreReservedOnce`,
`FailuresCleanUp`.

*The pipes.* The pipe writes what the queue's own invariants are about: its
rollback deletes an artifact that a completed child points to. So the proof
separates what the two owe each other. Whatever the queue does (`JobStep`), a job
that is `Settled`, terminal and at most to be failed again, keeps its index, and an index
appears only for the job at `create`; whatever the pipe's worker does
(`LeavesIndexes`), `JobsInv` is kept and settled jobs stay settled; the two steps
of the rollback that delete rows of the queue are treated by themselves
(`TakingKeeps`). `PipeInv` is `JobsInv`, `PipeTypeOK`, `PhasesInv` (recovery,
worker and shutdown exclude each other), and for every pipe `PipeOK`: an index
stands on a chunk set (`Based`); the status tells what there is (`StatusTells`:
nothing for a queued row, both indexes for a completed one, nothing but edited
chunks for one that was rolled back); vectors have the rows by which the rollback
finds them (`VectorsOK`); and `LabelOK`, one conjunct per stage of the worker: what
the body has made by then, what the rollback has deleted by then, and that the
child is settled from the end of the wait on and serves from the last check
before the activation. A row that start-up has listed is still queued or running
and nobody works on it, so the recovery starts a rollback from any stage. `PipeInv`
holds in TLC for one pipe with a stop and an error. Theorems: `PipeTypesHold`,
`CompletedPipesKeepServing`, `RollbacksAreComplete`, `ChildrenRunOneByOne`.

*The protocol of the pipes.* A step shows of one pipe at most (`Touches`): of the
one the worker is on, of the one a request names, or of the parent of the job that
the BM25 worker builds. Its stage moves as the protocol allows (`Advances`), and
where the stage stays "waiting", "served" or "withdrawn" the invariant says what
there is (`StagesTell`), so the product cannot change either. One fact is missing
in `PipeInv`, that a cancel request in flight is about a row that exists
(`AskedInv`); it is inductive beside it. Theorem: `PipesImplementProtocol`.

**KnowledgeGraphsProofs** (`NumJobsAssumption`, `StopsAndFaultsAssumption`). A
generation is named by its job, and the key of the argument is that it is
activated once (`ActivatedOnce`): what a build finds active when it activates its
own is superseded for good, so deleting it takes no active generation
(`OldIsSuperseded`), and the cache is cleared, and turns in construction outdated,
between the two. A second invariant, `SInv`, accounts for every generation in
Neo4j and for the graph row, in histories without errors and overlapping builds.
Theorems: `KnowledgeGraphTypesHold`, `ActiveDataIsKept`, `CachesStayServable`,
`NothingElseStaysInNeo4j`.

**SimulationLifecycleProofs** (`SlotsAssumption`, `BoundsAssumption`,
`TeachersAssumption`). What the checks of a request established holds of the copy
it carries, whatever happened to the row (`RequestsAreLegal`); what is true of
every row is true of every copy (`CopiesAreConsistent`); and a copy that is the
current row writes what the checks allow. The rest is the accounting of
`stale`. `TurnsAreCounted` bounds the turns by a cardinality argument over the
requests in flight. Theorems: `LifecycleTypesHold`, `TurnsSurvive`,
`ProxiesHoldTheirModel`, `ReviewsStayWhole`, and `EndedSimulationsStayFrozen`, an
action property.

**NegotiationProofs** begins with the CRAG graph on its own
(`MaxRewritesAssumption`). `CragInv` is `CragTypeOK`, `NodesAreReady`, `AnswersComeWithTheirEvidence`,
`CallsAreBudgeted`. The property is about the end of the graph only;
`NodesAreReady` carries it there: which node may rely on documents, on a context
that is theirs, on a counter below or at its limit. `CallsAreBudgeted` adds to
the calls made those that may still come, by node and by attempts left, and no
step increases the sum. Theorems: `CragTypesHold`, `AnswersAreEvidenced`,
`InvocationsAreBudgeted`.

The second part is about the whole negotiation (`MaxTurnsAssumption`,
`LimitsAssumption` besides). The CRAG graph runs for one awaiting agent or tool
at a time (`OneAtATime`), so the lemmas of the first part apply to it inside a
turn and inside a question. The budget of a turn
adds what the running agent (`AgentAhead`) and the nodes after it (`AgentsAfter`)
may still call. `TurnIsUnderWay` ties the node of the parent graph to what the
turn has done so far: counted, responded, evaluated, advised, and which routes
are open. `NegotiationTypesHold`, `TurnsStayWhole`, `LedgersStayComplete`,
`CallsStayBounded`, `EvidenceStaysWithItsAnswer`, `ResponsesAccountForThemselves`,
and `NegotiationImplementsTurnProtocol`: every behaviour of the graph and its
agents is, seen from the stored row, one of `TurnProtocol`.

**CorpusIndicesProofs** (`CorpusAssumption`, `HandAssumption`). A build is alone
with its index (`RowComesOnce`) and works on one revision although the chunk set
moves on: members it took that are not of its revision are of a later one, and
what it stores and records are the members it took (`BuildKeepsItsMembers`). So
a row it completes is whole, or torn and recorded for a revision that the set has
left, and stays so under the writes of administrators and under the handler of a
build whose last refresh failed, which holds an expired row (`BuiltRowIsWhole`). A request about to cache
a graph holds an index that exists, or one whose deletion has yet to clear the
cache (`RequestsNameDeclaredRows`). Theorems: `CorpusTypesHold`,
`CompletedBuildsStayWhole`, `BindingsStayServed`, `CachedGraphsStayServable`.

**DocumentsProofs** (`DocumentsAssumption`, `BytesAssumption`). A row is `Trusted`
unless uploads of its name overlapped or its own upload disowned it. An upload
that no other overlaps is alone with its file, and a trusted row there is the one
it has just committed and is about to disown (`UploadsAreAlone`); the hash of a
row names an upload of its file (`RowsAreHashed`), so what one upload does leaves
the files of the others as they were. A request holds the text its row names
(`TextsMatchTheirRows`) and counts the positions it has looked at
(`ChecksAreCounted`); whoever has looked at a position that is taken by now is a
rival of the chunk there (`LookersAreRivals`), for a chunk that is there first
stops the request at that position. Theorems: `DocumentTypesHold` (with the text
and the count of a request), `SourcesStayWithTheirRows`,
`OnlyRivalsDuplicateChunks`.

**CatalogueProofs** (`CatalogueAssumption`). A request asks for what is valid
(`AsksForValid`), so only a write over a newer version can store what is not.
What its check found holds until the commit but for references inserted since
(`ChecksHold`), and those are `raced`: `insert_reference` is the one step that
looks at the requests in flight, and it marks what it inserts before it can
break a check. So a deletion or an edit meets raced references only
(`Honoured`). Roles are never empty in a request, and a replacement that saw
the links it replaces stores what was asked for. Theorems:
`CatalogueTypesHold`, `UnracedReferencesAreHonoured`, `ConfigurationsStayValid`,
`AccountsKeepARole`.

**Only model-checked**: liveness, since fairness and ENABLED are beyond the
prover: `QueueDrains` of both queues, `PendingCleanupsAreRetried`,
`CancellationsEndJobs`, `PipesEnd`, `CancellationsRollBack`; deadlock; and the
violation of section 6.

## 5. What is not modelled

* **Content**: texts, prompts, offers, scores, embeddings, what a retriever
  finds, rank fusion and reranking (`retrievers.py`), the metrics of an
  evaluation, exports. A model, parser or store answers anything of its type, or
  raises.
* **Reads**: listings, read models, retrieval options, previews, the model
  catalog. They change no state.
* **Functions without a caller**: deletion of documents and corpora and the
  relinking of documents, retirement of BM25 indices, edits of single chunks.
  Replacing the members of a chunk set is in `FullPipe` although no route
  offers it yet, because the rollback guards against it.
* **Renames** and other columns no decision reads; `PATCH` of a document's path
  and hash; updates of a graph's build configuration (a job keeps its snapshot);
  passwords, tokens and their expiry; malformed payloads.
* **The cache of embeddings** of an evaluation, prompt guard and usage
  counters: a failure in them is swallowed or is one of the call they wrap.
* **The summary tool of the learner**: it is built only once there is something
  to summarize, and by then the setting that enables the learner is lost
  (section 6).
* `_invoke_user_proxy_turn_with_optional_config` may call the proxy a second
  time after a `TypeError` that names `config`.
* Several application processes (one worker is deployed, and the coordinators
  rely on it), and requests cancelled by a client that disconnects.
* Frontend, scripts, migrations.

## 6. Where the code and its documentation disagree

`sim_settings` is the run of the finding in `PROJECT.json`: a turn stores what
the graph returns, the graph returns the keys of its state schema, and
`learner_config` and `llm_selection` are not among them. After the first turn
every question to the learner is refused, and the models chosen at the start
are the default ones again.

The models show more, without a run of their own; the passing properties name
each as an exception or by the history variable that records it. Paths are
below `src/app/` unless they begin otherwise.

*Against a comment, test or document:*

* `services/rag_eval_coordinator.py:278`: a cancellation that wins the race
  with finalization expires the run that the handler then reads, and the worker
  task ends; `tests/unit/test_rag_eval_coordinator.py:544` expects the run to be
  marked cancelled.
* `services/full_corpus_index_pipe_job.py:1210`: the rollback commits
  `candidate_corpus_index_id = None` before it deletes the candidate; after an
  error or crash in between it is retried for ever and blocks the queue. The
  coordinator's comment at 70-71 calls the rollback's state durable.
* `services/knowledge_graph_builds_service.py:664`: after a crash between the
  activation (416) and the completion (432), start-up deletes the active
  generation; `tests/unit/test_knowledge_graph_builds_service.py:313` says it is
  preserved. So do the `except` clauses (493) after an error there.
* `services/simulations_service.py:2748`: a start or turn that loaded the row
  before it ended writes its status over a terminal one, a transition
  `repositories/simulations_repo.py:22-24` does not allow.
* `services/embeddings_service.py:355-361`: the handler rolls back, then reads
  the expired row; the index stays "building" although the docstring at 327
  says it is marked failed.
* `airag/evaluation/rag_eval_runtime.py:567`: a graph build that fails, and
  whose cleanup fails too, leaves graph data that nothing retries
  (`openwiki/domains/knowledge-retrieval.md:160`).
* A fallback answer of the CRAG graph keeps the rejected documents in its
  evidence (`openwiki/domains/knowledge-retrieval.md:155`).
* `repositories/users_repo.py:328` requires a role; overlapping replacements of
  an account's roles can leave none, or both sets.
* Overlapping uploads of one filename: the loser overwrites the bytes, then
  unlinks the winner's file (`openwiki/domains/knowledge-retrieval.md:36`).

*Plain observations:*

* Evaluations: cleanup is inferred from the last stage reported, so an
  evaluation error of a GraphRAG run parks it in `cleanup_pending` although its
  cleanup succeeded (`rag_eval_coordinator.py:385`).
* BM25: the check before the artifact is stored reads the session's own copy
  (`corpus_bm25_build_jobs_service.py:473`); a cancel request that read a queued
  row overwrites a claimed one (`corpus_bm25_build_jobs_repo.py:172`).
* Pipe: a row stays running after an aborted transaction until the next start;
  a child queued but not linked, or an index not linked, blocks the rollback; a
  late cancel overwrites a completed pipe; edits of a running job's set leave
  chunks; two parents race the check for an active one. A refresh that raises
  after the claim's commit (`full_corpus_index_pipe_jobs_repo.py:83-86`) leaves a
  running row nobody works on until the next start. A simulation that uses the
  child's BM25 index makes the rollback fail for ever
  (`models/simulations.py:57`). A database error in one rollback of the start-up
  recovery expires the other listed jobs, whose `status` is then read outside
  the `try` (`full_corpus_index_pipe_job.py:1451-1475`): the application does
  not start.
* Knowledge graphs: the superseded generation leaks if the process ends before
  it is deleted; two requests may queue two builds; a late cancel hides a
  running job from the recovery; a task that dies on a database error leaves its
  job running until the next start; graphs with job rows cannot be deleted.
* Simulations: a stale disabling of the proxy writes the old state but not the
  messages; an edit of a review that overlaps its deletion leaves a feedback
  without a review; a proxy turn for the remainder without a persona overwrites
  the stored one; a proxy's model stays stored after it is disabled.
* Negotiation: a message that accepts the deal is overruled to an end only when
  the model did not say "end" (`intent_classifier_nodes.py:75-78`); an end that it
  was not sure of goes on to the counterpart. The user proxy's ledger is projected
  away and never stored,
  though `_persist_evidence_ledgers` lists it; ledgers of the final turn share
  the index of the last round, and those of agents that did not run are stored
  again.
* Indices: the snapshot of a build reads the set's row and then its members
  (`corpus_chunk_sets_service.py:179-186`), and only the row is compared with the
  queued revision: a replacement in between gives an index that names one
  revision and its checksum and holds the members of the next
  (`OwnBuildsAreWhole` names it); copies take rows but no vectors; a failed index with rows cannot be
  deleted; deleting an index nulls the binding of simulations; a crash leaves
  "building" for ever.
* RAG evaluation: `finalize_rag_eval_run_success` commits and refreshes in one
  `try` (`rag_eval_repo.py:734-742`), like `transition_rag_eval_run` (511-516);
  an error of the refresh sends a completed run to the failure handler, where
  the expired row raises and the worker task ends; after the claim (419-420) it
  leaves a running row that only the next start recovers.
* Documents: an upload whose insert is committed but whose refresh fails
  (`raw_documents_repo.py:200-205`) removes the file of its own row
  (`raw_documents_service.py:220-223`); a name that the schema refuses (204-217,
  outside the `try`), an error while writing, or a stop between file and row
  leaves a file that blocks its name; positions are checked one by one, so rival
  requests insert chunks twice, and a shorter batch can slip in behind the
  positions a longer one has passed; a corpus ingestion that failed in the middle
  cannot be repeated.
* Catalogue: accounts that authored a RAG profile or an evaluation are not among
  the deletion checks, so their deletion fails on the foreign key; overlapping
  edits of an evaluation can leave a configuration that no later request can
  read; nothing keeps the last administrator.

## 7. Plan

What the models leave to do, most important first:

1. **An abstract specification** of a simulation's life, with the refinement and
   its proof.
2. **Wider instances** where the time allows: three overlapping requests on a
   simulation, two graphs that share the cache.

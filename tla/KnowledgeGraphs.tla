--------------------------- MODULE KnowledgeGraphs ---------------------------
(***************************************************************************)
(* One knowledge graph index, from its row to its deletion, and what       *)
(* builds it.  A request inserts a job and starts a task for it; the task  *)
(* writes a new generation into Neo4j, activates it and deletes the old    *)
(* one, or gives the candidate up.  Beside it run cancel requests, the     *)
(* creation of a simulation that locks the graph, and the turns of that    *)
(* simulation, which cache what they construct for the active generation.  *)
(* Start-up fails whatever a stop has interrupted.                         *)
(*                                                                         *)
(* The candidate generation of job j is j.  A task holds an ORM copy of    *)
(* the graph: a commit writes the columns the copy changes, no others.     *)
(***************************************************************************)
EXTENDS Naturals, FiniteSets

CONSTANTS
    NumJobs,     \* build requests
    MaxStops,    \* crashes and shutdowns
    MaxFaults    \* errors of the database, or of a deletion in Neo4j

ASSUME NumJobsAssumption == NumJobs \in Nat \ {0}
ASSUME StopsAndFaultsAssumption == MaxStops \in Nat /\ MaxFaults \in Nat

VARIABLES
    graph,           \* the KnowledgeGraphIndex row
    jobs,            \* job -> its row
    data,            \* generations with nodes in Neo4j
    task,            \* job -> its task, see Tasks
    queue_request,   \* job -> none, checked, inserted
    deletion,        \* of the row: none, checked
    pending_cancel,  \* job -> the status a cancel request has read
    creation,        \* of the simulation: none, validated, inserted, created
    turn,            \* a turn that constructs its negotiation graph
    cache,           \* generations in NEGOTIATION_GRAPH_CACHE
    app,             \* up, recovering, down
    recovery,        \* interrupted jobs left, and the step of the first
    stops, faults,
    overtaken,       \* history: jobs that a late cancel request overwrote
    overlapped,      \* history: two tasks were alive at once
    disowned         \* history: jobs that gave up what they had activated

rowVars     == <<graph, jobs, data>>
requestVars == <<queue_request, deletion, pending_cancel, creation, turn, cache>>
appVars     == <<app, recovery, stops>>
historyVars == <<overtaken, overlapped, disowned>>
vars == <<rowVars, task, requestVars, appVars, faults, historyVars>>

Jobs         == 1..NumJobs
NoGeneration == 0
Generations  == Jobs \cup {NoGeneration}

GraphRows ==
    [status : {"absent", "created", "building", "built", "failed", "cancelled",
               "deleted"},
     active : Generations,      \* active_generation
     locked : BOOLEAN]          \* locked_at is set

JobRows ==
    [status : {"absent", "queued", "running", "completed", "failed", "cancelled"},
     cancel_requested : BOOLEAN]

BuildLabels ==
    {"start", "mark_running", "mark_building", "poll", "document", "verify",
     "last_poll", "activate", "complete", "delete_old",
     "give_up", "give_up_graph", "give_up_job"}

Tasks ==
    [pc : BuildLabels \cup {"none"},
     known : GraphRows,                  \* the ORM graph of its session
     store : BOOLEAN,                    \* candidate_store is not None
     old : Generations,                  \* old_generation
     outcome : {"failed", "cancelled"}]  \* the except clause it is in

NoGraph == [status |-> "absent", active |-> NoGeneration, locked |-> FALSE]

NoTask ==
    [pc |-> "none", known |-> NoGraph, store |-> FALSE, old |-> NoGeneration,
     outcome |-> "failed"]

TypeOK ==
    /\ graph \in GraphRows
    /\ jobs \in [Jobs -> JobRows]
    /\ data \subseteq Jobs
    /\ task \in [Jobs -> Tasks]
    /\ queue_request \in [Jobs -> {"none", "checked", "inserted"}]
    /\ deletion \in {"none", "checked"}
    /\ pending_cancel \in [Jobs -> {"none", "queued", "running"}]
    /\ creation \in {"none", "validated", "inserted", "created"}
    /\ turn \in [generation : Generations, current_epoch : BOOLEAN]
    /\ cache \subseteq Jobs
    /\ app \in {"up", "recovering", "down"}
    /\ recovery \in [step : {"delete", "graph", "job"}, left : SUBSET Jobs]
    /\ stops \in 0..MaxStops
    /\ faults \in 0..MaxFaults
    /\ overtaken \subseteq Jobs
    /\ overlapped \in BOOLEAN
    /\ disowned \subseteq Jobs

NoTurn     == [generation |-> NoGeneration, current_epoch |-> FALSE]
NoRecovery == [step |-> "delete", left |-> {}]

Init ==
    /\ graph = NoGraph
    /\ jobs = [j \in Jobs |-> [status |-> "absent", cancel_requested |-> FALSE]]
    /\ data = {}
    /\ task = [j \in Jobs |-> NoTask]
    /\ queue_request = [j \in Jobs |-> "none"]
    /\ deletion = "none"
    /\ pending_cancel = [j \in Jobs |-> "none"]
    /\ creation = "none"
    /\ turn = NoTurn
    /\ cache = {}
    /\ app = "up"
    /\ recovery = NoRecovery
    /\ stops = 0
    /\ faults = 0
    /\ overtaken = {}
    /\ overlapped = FALSE
    /\ disowned = {}

ActiveJobs == {j \in Jobs : jobs[j].status \in {"queued", "running"}}
LiveTasks  == {j \in Jobs : task[j].pc # "none"}

Exists     == graph.status \notin {"absent", "deleted"}

Error == faults < MaxFaults /\ faults' = faults + 1

-----------------------------------------------------------------------------
(* Requests.  The look for an active job and the insert are two awaits, as *)
(* are the checks of a deletion and its commit.                            *)

(* For a corpus index that is built and has chunks.                        *)
create_knowledge_graph_index ==
    /\ app = "up" /\ graph.status = "absent"
    /\ graph' = [graph EXCEPT !.status = "created"]
    /\ UNCHANGED <<jobs, data, task, requestVars, appVars, faults, historyVars>>

ensure_knowledge_graph_mutable == ~graph.locked

(* A profile refers to a graph that has been built, and so has jobs.       *)
delete_knowledge_graph_index_srvc ==
    /\ app = "up" /\ deletion = "none"
    /\ Exists /\ ActiveJobs = {} /\ ensure_knowledge_graph_mutable
    /\ deletion' = "checked"
    /\ UNCHANGED <<rowVars, task, queue_request, pending_cancel, creation, turn,
                   cache, appVars, faults, historyVars>>

(* The foreign key of a job, ended or not, keeps the row.                  *)
delete_knowledge_graph_index ==
    /\ deletion = "checked"
    /\ deletion' = "none"
    /\ graph' = IF \A j \in Jobs : jobs[j].status = "absent"
                THEN [graph EXCEPT !.status = "deleted"] ELSE graph
    /\ UNCHANGED <<jobs, data, task, queue_request, pending_cancel, creation, turn,
                   cache, appVars, faults, historyVars>>

queue_knowledge_graph_build(j) ==
    /\ app = "up"
    /\ jobs[j].status = "absent" /\ queue_request[j] = "none"
    /\ \A i \in Jobs : i < j => jobs[i].status # "absent" \/ queue_request[i] # "none"
    /\ Exists
    /\ ensure_knowledge_graph_mutable \/ graph.status # "built"   \* rebuild, or build
    /\ ActiveJobs = {}
    /\ queue_request' = [queue_request EXCEPT ![j] = "checked"]
    /\ UNCHANGED <<rowVars, task, deletion, pending_cancel, creation, turn, cache,
                   appVars, faults, historyVars>>

create_knowledge_graph_build_job(j) ==
    /\ queue_request[j] = "checked"
    /\ IF Exists
       THEN /\ queue_request' = [queue_request EXCEPT ![j] = "inserted"]
            /\ jobs' = [jobs EXCEPT ![j].status = "queued"]
       ELSE /\ queue_request' = [queue_request EXCEPT ![j] = "none"]
            /\ UNCHANGED jobs
    /\ UNCHANGED <<graph, data, task, deletion, pending_cancel, creation, turn,
                   cache, appVars, faults, historyVars>>

start_knowledge_graph_build_task(j) ==
    /\ queue_request[j] = "inserted"
    /\ queue_request' = [queue_request EXCEPT ![j] = "none"]
    /\ task' = [task EXCEPT ![j].pc = "start"]
    /\ overlapped' = (overlapped \/ LiveTasks # {})
    /\ UNCHANGED <<rowVars, deletion, pending_cancel, creation, turn, cache,
                   appVars, faults, overtaken, disowned>>

CancelReads(j) ==
    /\ app = "up"
    /\ pending_cancel[j] = "none"
    /\ j \in ActiveJobs
    /\ pending_cancel' = [pending_cancel EXCEPT ![j] = jobs[j].status]
    /\ UNCHANGED <<rowVars, task, queue_request, deletion, creation, turn, cache,
                   appVars, faults, historyVars>>

(* By primary key: a job that was read queued becomes cancelled, whatever  *)
(* its task has made of it meanwhile.                                      *)
CancelWrites(j) ==
    /\ pending_cancel[j] # "none"
    /\ pending_cancel' = [pending_cancel EXCEPT ![j] = "none"]
    /\ IF pending_cancel[j] = "queued"
       THEN /\ jobs' = [jobs EXCEPT ![j].status = "cancelled"]
            /\ overtaken' = IF task[j].pc = "start" \/ jobs[j].status = "queued"
                            THEN overtaken ELSE overtaken \cup {j}
       ELSE /\ jobs' = [jobs EXCEPT ![j].cancel_requested = TRUE]
            /\ UNCHANGED overtaken
    /\ UNCHANGED <<graph, data, task, queue_request, deletion, creation, turn,
                   cache, appVars, faults, overlapped, disowned>>

(* A simulation is created in three steps; its lock comes last. *)
ValidateBinding ==
    /\ app = "up" /\ creation = "none"
    /\ graph.status = "built" /\ graph.active # NoGeneration
    /\ creation' = "validated"
    /\ UNCHANGED graph

InsertSimulation ==
    /\ creation = "validated"
    /\ creation' = "inserted"
    /\ UNCHANGED graph

lock_knowledge_graph ==
    /\ creation = "inserted"
    /\ creation' = "created"
    /\ graph' = [graph EXCEPT !.locked = TRUE]

create_simulation ==
    /\ ValidateBinding \/ InsertSimulation \/ lock_knowledge_graph
    /\ UNCHANGED <<jobs, data, task, queue_request, deletion, pending_cancel, turn,
                   cache, appVars, faults, historyVars>>

(* A turn takes the cached graph of the active generation, or constructs   *)
(* one across several awaits.                                              *)
TurnLoadsRuntime ==
    /\ app = "up" /\ creation \in {"inserted", "created"} /\ turn = NoTurn
    /\ graph.status = "built" /\ graph.active # NoGeneration
    /\ graph.active \notin cache
    /\ turn' = [generation |-> graph.active, current_epoch |-> TRUE]
    /\ UNCHANGED <<rowVars, task, queue_request, deletion, pending_cancel, creation, cache,
                   appVars, faults, historyVars>>

(* Fault: the epoch is not compared. *)
CachesAnyway(g) == cache' = cache \cup {g}

_cache_negotiation_graph_if_current(g) ==
    cache' = IF turn.current_epoch THEN cache \cup {g} ELSE cache

TurnHasConstructed ==
    /\ turn # NoTurn
    /\ _cache_negotiation_graph_if_current(turn.generation)
    /\ turn' = NoTurn
    /\ UNCHANGED <<rowVars, task, queue_request, deletion, pending_cancel, creation,
                   appVars, faults, historyVars>>

-----------------------------------------------------------------------------
(* The task of a job. *)

At(j, label) == task[j].pc = label

mark_knowledge_graph_build_job_cancelled ==
    [status |-> "cancelled", cancel_requested |-> FALSE]

Goes(j, label) == task' = [task EXCEPT ![j].pc = label]

GivesUp(j, outcome) ==
    task' = [task EXCEPT ![j].pc = "give_up", ![j].outcome = outcome]

Ends(j) == task' = [task EXCEPT ![j] = NoTask]

(* A commit of the copy writes a status it changes. *)
Written(j, status) ==
    IF task[j].known.status = status THEN graph.status ELSE status

(* The handler reads job.stage after the rollback of the failed commit has *)
(* expired the job: nothing more is done.                                  *)
TaskDies(j) == Error /\ Ends(j) /\ UNCHANGED data

(* After a failed SELECT the handler deletes the candidate, before its own *)
(* commit raises.                                                          *)
SelectFails(j) ==
    /\ Error
    /\ Ends(j)
    /\ data' = IF task[j].store THEN data \ {j} ELSE data
    /\ UNCHANGED <<graph, jobs>>

(* A statement with its commit and its refresh. *)
Commits(j, Row, Then) ==
    \/ Row /\ Then /\ UNCHANGED <<data, faults>>
    \/ Row /\ TaskDies(j)
    \/ TaskDies(j) /\ UNCHANGED <<graph, jobs>>

update_knowledge_graph_build_job(j, status) ==
    jobs' = [jobs EXCEPT ![j].status = status] /\ UNCHANGED graph

SetsGraph(j, new) == graph' = new /\ UNCHANGED jobs

GoesKnowing(j, label) ==
    task' = [task EXCEPT ![j].pc = label, ![j].known = graph']

Quietly(Step) == Step /\ UNCHANGED <<rowVars, faults>>

Start(j) ==
    /\ At(j, "start")
    /\ \/ jobs[j].status # "queued" /\ Quietly(Ends(j))
       \/ /\ jobs[j].status = "queued"
          /\ Quietly(task' = [task EXCEPT
                 ![j].pc = IF graph.locked THEN "give_up" ELSE "mark_running",
                 ![j].known = graph])

MarkRunning(j) ==
    /\ At(j, "mark_running")
    /\ Commits(j, update_knowledge_graph_build_job(j, "running"),
               Goes(j, "mark_building"))

MarkBuilding(j) ==
    /\ At(j, "mark_building")
    /\ Commits(j, SetsGraph(j, [graph EXCEPT !.status = Written(j, "building")]),
               GoesKnowing(j, "poll"))

Cancelled(j) == jobs[j].cancel_requested /\ Quietly(GivesUp(j, "cancelled"))
Polled(j)    == ~jobs[j].cancel_requested

_create_scoped_store(j) ==
    task' = [task EXCEPT ![j].pc = "document", ![j].store = TRUE]

(* Chunks that have changed, a model or a store that cannot be created. *)
Poll(j) ==
    /\ At(j, "poll")
    /\ \/ Cancelled(j)
       \/ Polled(j) /\ Quietly(GivesUp(j, "failed"))
       \/ Polled(j) /\ Quietly(_create_scoped_store(j))
       \/ SelectFails(j)

(* The store puts the generation into the key of every node it writes.     *)
upsert_nodes(j) == data \cup {j}

(* Document by document; extraction may raise after a part was written. *)
Document(j) ==
    /\ At(j, "document")
    /\ \/ Cancelled(j)
       \/ /\ Polled(j)
          /\ \E label \in {"document", "verify"} : Goes(j, label)
          /\ data' = upsert_nodes(j)
          /\ UNCHANGED <<graph, jobs, faults>>
       \/ /\ Polled(j)
          /\ GivesUp(j, "failed")
          /\ data' \in {data, upsert_nodes(j)}
          /\ UNCHANGED <<graph, jobs, faults>>
       \/ SelectFails(j)
       \/ TaskDies(j) /\ UNCHANGED <<graph, jobs>>

(* _require_persisted_graph *)
Verify(j) ==
    /\ At(j, "verify")
    /\ \E label \in {"last_poll", "give_up"} : Quietly(Goes(j, label))

LastPoll(j) ==
    /\ At(j, "last_poll")
    /\ \/ Cancelled(j)
       \/ /\ Polled(j)
          /\ Quietly(task' = [task EXCEPT
                 ![j].pc = IF graph.locked THEN "give_up" ELSE "activate",
                 ![j].known = graph,
                 ![j].old = graph.active])
       \/ SelectFails(j)

Activate(j) ==
    /\ At(j, "activate")
    /\ Commits(j, SetsGraph(j, [graph EXCEPT !.active = j,
                                             !.status = Written(j, "built")]),
               GoesKnowing(j, "complete"))

clear_negotiation_graph_cache_for_knowledge_graph ==
    /\ cache' = {}
    /\ turn' = [turn EXCEPT !.current_epoch = FALSE]
    /\ UNCHANGED <<queue_request, deletion, pending_cancel, creation>>

Complete(j) ==
    /\ At(j, "complete")
    /\ Commits(j, update_knowledge_graph_build_job(j, "completed"),
               Goes(j, "delete_old"))

(* Fault: the generation is read from the row instead of the local. *)
DeletesCurrent(j) ==
    /\ At(j, "delete_old")
    /\ data' = data \ {graph.active}
    /\ Ends(j)
    /\ UNCHANGED <<graph, jobs, faults>>

(* An error here reaches the handler that deletes the candidate, which is  *)
(* the active generation by now.                                           *)
DeleteOld(j) ==
    /\ At(j, "delete_old")
    /\ \/ data' = data \ {task[j].old} /\ Ends(j) /\ UNCHANGED faults
       \/ task[j].old # NoGeneration /\ Error /\ GivesUp(j, "failed") /\ UNCHANGED data
    /\ UNCHANGED <<graph, jobs>>

(* Fault: the candidate stays in Neo4j. *)
KeepsCandidate(j) == At(j, "give_up") /\ Quietly(Goes(j, "give_up_graph"))

(* Both except clauses; an error in them ends the task. *)
GiveUp(j) ==
    /\ At(j, "give_up")
    /\ \/ /\ Goes(j, "give_up_graph")
          /\ data' = IF task[j].store THEN data \ {j} ELSE data
          /\ UNCHANGED faults
       \/ task[j].store /\ Error /\ Ends(j) /\ data' \in {data, data \ {j}}
    /\ UNCHANGED <<graph, jobs>>

GiveUpGraph(j) ==
    LET status == IF task[j].known.active = NoGeneration THEN task[j].outcome
                  ELSE "built"
    IN  /\ At(j, "give_up_graph")
        /\ Commits(j, SetsGraph(j, [graph EXCEPT !.status = Written(j, status)]),
                   Goes(j, "give_up_job"))

(* The copy that fails does not know of a request to cancel it.            *)
GiveUpJob(j) ==
    /\ At(j, "give_up_job")
    /\ Commits(j, jobs' = [jobs EXCEPT ![j] =
                      IF task[j].outcome = "cancelled"
                      THEN mark_knowledge_graph_build_job_cancelled
                      ELSE [@ EXCEPT !.status = "failed"]]
                  /\ UNCHANGED graph,
               Ends(j))

Build(j) ==
    /\ \/ Start(j)
       \/ MarkRunning(j)
       \/ MarkBuilding(j)
       \/ Poll(j)
       \/ Document(j)
       \/ Verify(j)
       \/ LastPoll(j)
       \/ Activate(j)
       \/ Complete(j)
       \/ DeleteOld(j)
       \/ GiveUp(j)
       \/ GiveUpGraph(j)
       \/ GiveUpJob(j)
    /\ IF At(j, "complete") THEN clear_negotiation_graph_cache_for_knowledge_graph
       ELSE UNCHANGED requestVars
    /\ disowned' = IF At(j, "delete_old") /\ task'[j].pc = "give_up"
                   THEN disowned \cup {j} ELSE disowned
    /\ UNCHANGED <<appVars, overtaken, overlapped>>

-----------------------------------------------------------------------------
(* The process.  Nothing stops the build tasks at a shutdown: the event    *)
(* loop cancels them, and no handler catches that.                         *)

Stop ==
    /\ app # "down"
    /\ stops < MaxStops
    /\ stops' = stops + 1
    /\ app' = "down"
    /\ task' = [j \in Jobs |-> NoTask]
    /\ queue_request' = [j \in Jobs |-> "none"]
    /\ deletion' = "none"
    /\ pending_cancel' = [j \in Jobs |-> "none"]
    /\ creation' = IF creation = "validated" THEN "none" ELSE creation
    /\ turn' = NoTurn
    /\ cache' = {}
    /\ recovery' = NoRecovery
    /\ UNCHANGED <<rowVars, faults, historyVars>>

list_interrupted_knowledge_graph_build_jobs == ActiveJobs

(* When the rows cannot be listed, the application starts without them. *)
Restart ==
    /\ app = "down"
    /\ \/ /\ app' = "recovering"
          /\ recovery' = [NoRecovery EXCEPT
                 !.left = list_interrupted_knowledge_graph_build_jobs]
          /\ UNCHANGED faults
       \/ Error /\ app' = "up" /\ UNCHANGED recovery
    /\ UNCHANGED <<rowVars, task, requestVars, stops, historyVars>>

First(S) == {j \in S : \A i \in S : j <= i}

(* A deletion that fails is logged. *)
_cleanup_interrupted_candidate_generation(j) ==
    \/ data' = data \ {j} /\ UNCHANGED faults
    \/ Error /\ UNCHANGED data

mark_knowledge_graph_build_job_failed ==
    [status |-> "failed", cancel_requested |-> FALSE]

(* A commit that fails ends the process. *)
fail_interrupted_knowledge_graph_builds ==
    /\ app = "recovering"
    /\ \/ /\ recovery.left = {}
          /\ app' = "up"
          /\ UNCHANGED <<rowVars, recovery, faults>>
       \/ \E j \in First(recovery.left) :
             /\ recovery.step = "delete"
             /\ _cleanup_interrupted_candidate_generation(j)
             /\ recovery' = [recovery EXCEPT !.step = "graph"]
             /\ UNCHANGED <<graph, jobs, app>>
       \/ /\ recovery.step = "graph"
          /\ graph' = [graph EXCEPT !.status =
                           IF graph.active = NoGeneration THEN "failed" ELSE "built"]
          /\ recovery' = [recovery EXCEPT !.step = "job"]
          /\ UNCHANGED <<jobs, data, app, faults>>
       \/ \E j \in First(recovery.left) :
             /\ recovery.step = "job"
             /\ jobs' = [jobs EXCEPT ![j] = mark_knowledge_graph_build_job_failed]
             /\ recovery' = [step |-> "delete", left |-> recovery.left \ {j}]
             /\ UNCHANGED <<graph, data, app, faults>>
    /\ UNCHANGED <<task, requestVars, stops, historyVars>>

-----------------------------------------------------------------------------
Requests ==
    \/ \E j \in Jobs : \/ queue_knowledge_graph_build(j)
                       \/ create_knowledge_graph_build_job(j)
                       \/ start_knowledge_graph_build_task(j)
                       \/ CancelReads(j)
                       \/ CancelWrites(j)
    \/ create_knowledge_graph_index
    \/ delete_knowledge_graph_index_srvc \/ delete_knowledge_graph_index
    \/ create_simulation
    \/ TurnLoadsRuntime
    \/ TurnHasConstructed

Next ==
    \/ Requests
    \/ \E j \in Jobs : Build(j)
    \/ Stop
    \/ Restart
    \/ fail_interrupted_knowledge_graph_builds

Spec == Init /\ [][Next]_vars

-----------------------------------------------------------------------------
(* Properties. *)

(* The active generation of a completed job keeps its nodes, whatever      *)
(* other builds, errors, cancellations and restarts do.  Only the handler  *)
(* of its own build can delete it, after an error in deleting the old one. *)
CompletedBuildsKeepTheirData ==
    \A j \in Jobs : graph.active = j /\ jobs[j].status = "completed" =>
        j \in data \cup disowned

Settled == app = "up" /\ LiveTasks = {} /\ ActiveJobs = {}

(* Without errors and overlapping builds, when nothing is in progress,     *)
(* Neo4j holds only the active generation, the graph is "built" exactly if *)
(* it has one, and is not left "building".  Two leaks remain: a superseded *)
(* generation when the process ends before its deletion, and the job that  *)
(* a late cancel request hid from the recovery.                            *)
SettledGraphsOwnOneGeneration ==
    Settled /\ faults = 0 /\ ~overlapped =>
        /\ \A j \in data : \/ j = graph.active \/ j \in overtaken
                           \/ stops > 0 /\ jobs[j].status = "completed"
        /\ overtaken = {} =>
              /\ graph.status # "building"
              /\ graph.status = "built" <=> graph.active # NoGeneration

(* A cached negotiation graph never reads the generation of a completed    *)
(* job that has been superseded and deleted, except one its own build gave *)
(* up while it was active.                                                 *)
CacheHoldsNoDeletedGeneration ==
    \A j \in cache : jobs[j].status = "completed" =>
        j \in data \cup disowned \cup {graph.active}

=============================================================================

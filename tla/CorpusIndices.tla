---------------------------- MODULE CorpusIndices ----------------------------
(***************************************************************************)
(* Dense corpus indices: the requests that queue and run an embedding      *)
(* build, the administrators who manage the rows by hand, and the          *)
(* simulations that bind an index and retrieve through it.                 *)
(*                                                                         *)
(* One corpus chunk set is indexed.  Its membership is named by the        *)
(* revision that wrote it, so the rows of an index (IndexedChunk) and the  *)
(* vectors stored under its number are each a revision, 0 for none.        *)
(* Every request works on the row it loaded into a session of its own and  *)
(* writes back the columns it changed.                                     *)
(***************************************************************************)
EXTENDS Naturals

CONSTANTS
    NumIndices,     \* rows the table may hold
    MaxBuilds,      \* rows that builds may insert, the first ones
    MaxRevision,    \* revisions of the chunk set
    Admins,         \* administrators, each with one request
    HandStatuses,   \* statuses an administrator may set
    MaxStops,       \* restarts of the process
    MaxFaults       \* errors of the database or of the vector store

ASSUME CorpusAssumption ==
    /\ NumIndices \in Nat \ {0}
    /\ MaxBuilds \in Nat \ {0}
    /\ MaxRevision \in Nat \ {0}
    /\ MaxStops \in Nat
    /\ MaxFaults \in Nat

Indices == 1 .. NumIndices
Revisions == 1 .. MaxRevision

ALLOWED_CORPUS_INDEX_STATUSES ==
    {"created", "building", "built", "failed", "cancelled", "retired"}

ASSUME HandAssumption == HandStatuses \subseteq ALLOWED_CORPUS_INDEX_STATUSES

VARIABLES
    chunk_set,     \* the revision of the corpus chunk set
    index,         \* the rows of the table
    vectors,       \* what the vector store holds under each number
    build,         \* the request or background task that builds each index
    admin,         \* the request of each administrator
    bm25,          \* the chunks of the built BM25 index
    mode,          \* the retrieval mode of the simulation's CRAG profile
    simulation,    \* the bindings of the simulation
    request,       \* the simulation's request under way
    cache,         \* NEGOTIATION_GRAPH_CACHE
    stops, faults

vars == <<chunk_set, index, vectors, build, admin, bm25, mode, simulation,
          request, cache, stops, faults>>

storeVars == <<chunk_set, bm25, mode, stops>>
bindingVars == <<simulation, request>>

NoRow == [status |-> "absent", revision |-> 0, rows |-> 0, by |-> "none"]
NoBuild == [pc |-> "idle", background |-> FALSE, revision |-> 0,
            members |-> 0, loaded |-> 0, copy |-> "absent", expired |-> FALSE]
NoAdmin == [pc |-> "idle", index |-> 0, copy |-> "absent"]
Answered == [NoAdmin EXCEPT !.pc = "done"]
NoRequest == [pc |-> "idle", kind |-> "none", index |-> 0, bm25 |-> FALSE,
              rows |-> 0, fused |-> 0, current |-> FALSE]

Init ==
    /\ chunk_set = 1
    /\ index = [i \in Indices |-> NoRow]
    /\ vectors = [i \in Indices |-> 0]
    /\ build = [i \in Indices |-> NoBuild]
    /\ admin = [a \in Admins |-> NoAdmin]
    /\ bm25 = 0
    /\ mode \in {"dense", "hybrid"}
    /\ simulation = [exists |-> FALSE, index |-> 0, bm25 |-> FALSE]
    /\ request = NoRequest
    /\ cache = {}
    /\ stops = 0
    /\ faults = 0

Exists(i) == index[i].status \notin {"absent", "deleted"}

(* The number of the next row: nobody holds it yet. *)
Unused(i) ==
    /\ index[i].status = "absent" /\ build[i].pc = "idle"
    /\ \A k \in 1 .. i - 1 : index[k].status # "absent" \/ build[k].pc # "idle"

(* The statuses an index may be given, and those it may leave. *)
ALLOWED_STATUS_TRANSITIONS(status) ==
    CASE status = "created" -> {"building", "failed", "cancelled"}
      [] status = "building" -> {"built", "failed", "cancelled", "retired"}
      [] OTHER -> {}

ensure_status_transition(current, next) ==
    current = next \/ next \in ALLOWED_STATUS_TRANSITIONS(current)

(* An attribute set to the value the session loaded is not written. *)
WrittenStatus(i, copy, next) == IF next = copy THEN index[i].status ELSE next

(* What an index was built from is what the chunk set is by now. *)
_ensure_chunk_set_identity(i) == index[i].revision = chunk_set

has_indexed_chunks(i) == Exists(i) /\ index[i].rows # 0

DatabaseError == faults < MaxFaults /\ faults' = faults + 1

-----------------------------------------------------------------------------
(* The chunk set and the BM25 index, as far as the dense indices see them. *)

(* A change of the membership; the service offers it, no route does yet. *)
update_corpus_chunk_set_srvc ==
    /\ chunk_set < MaxRevision
    /\ chunk_set' = chunk_set + 1
    /\ UNCHANGED <<index, vectors, build, admin, bm25, mode, stops, faults>>
    /\ UNCHANGED <<bindingVars, cache>>

(* A BM25 build of another component completes. *)
BuildBm25 ==
    /\ bm25 = 0 /\ mode = "hybrid"
    /\ bm25' = chunk_set
    /\ UNCHANGED <<chunk_set, index, vectors, build, admin, mode, stops,
                   faults, bindingVars, cache>>

-----------------------------------------------------------------------------
(* Embedding builds. *)

BuildFrame ==
    UNCHANGED <<storeVars, admin, bindingVars, cache>>

Quietly == UNCHANGED faults

BuildAt(i, label) == build[i].pc = label

BuildGoes(i, label) == build' = [build EXCEPT ![i].pc = label]

BuildEnds(i) == build' = [build EXCEPT ![i] = NoBuild]

(* An exception of the build itself.  A rollback in a repository expires   *)
(* every object of the session before the handler sees it.                 *)
Raises(i, rolled_back) ==
    build' = [build EXCEPT ![i].pc = "handler", ![i].expired = rolled_back]

(* Both routes first queue the build: the row of the chunk set is read;    *)
(* of its members, read next, only that there are some; ...                *)
queue_corpus_embedding_build_srvc(i) ==
    /\ Unused(i)
    /\ i <= MaxBuilds
    /\ \E background \in BOOLEAN :
           build' = [build EXCEPT ![i] =
               [NoBuild EXCEPT !.pc = "create", !.background = background,
                               !.revision = chunk_set]]
    /\ BuildFrame /\ Quietly
    /\ UNCHANGED <<index, vectors>>

(* ... the row is inserted; an error may precede the commit, or meet the   *)
(* refresh that follows it, as in every statement below, ...               *)
create_corpus_index(i) ==
    /\ BuildAt(i, "create")
    /\ \/ /\ BuildGoes(i, "metadata") /\ Quietly
          /\ index' = [index EXCEPT ![i] =
                 [NoRow EXCEPT !.status = "building",
                               !.revision = build[i].revision]]
       \/ /\ DatabaseError /\ BuildEnds(i)
          /\ \/ UNCHANGED index
             \/ index' = [index EXCEPT ![i] =
                    [NoRow EXCEPT !.status = "building",
                                  !.revision = build[i].revision]]
    /\ BuildFrame
    /\ UNCHANGED vectors

(* ... and its namespace is written in a commit of its own, which reloads  *)
(* the row.  The synchronous route builds in the same session.             *)
set_corpus_index_build_metadata(i) ==
    /\ BuildAt(i, "metadata")
    /\ \/ /\ Exists(i) /\ Quietly
          /\ build' = [build EXCEPT
                 ![i].pc = IF build[i].background THEN "load" ELSE "snapshot",
                 ![i].copy = index[i].status]
       \/ ~Exists(i) /\ BuildEnds(i) /\ Quietly
       \/ DatabaseError /\ BuildEnds(i)
    /\ BuildFrame
    /\ UNCHANGED <<index, vectors>>

(* The background task has a session of its own. *)
_load_build_records(i) ==
    /\ BuildAt(i, "load")
    /\ IF Exists(i) /\ index[i].status = "building"
       THEN build' = [build EXCEPT ![i].pc = "snapshot",
                                   ![i].copy = "building"]
       ELSE BuildEnds(i)
    /\ BuildFrame /\ Quietly
    /\ UNCHANGED <<index, vectors>>

(* The snapshot is two reads.  The row must be of the queued revision, ... *)
get_corpus_chunk_set_by_id(i) ==
    /\ BuildAt(i, "snapshot")
    /\ IF chunk_set = build[i].revision
       THEN BuildGoes(i, "members") ELSE Raises(i, FALSE)
    /\ BuildFrame /\ Quietly
    /\ UNCHANGED <<index, vectors>>

(* ... and nothing compares the members with its checksum.                 *)
get_corpus_chunk_set_document_chunks(i) ==
    /\ BuildAt(i, "members")
    /\ build' = [build EXCEPT ![i].pc = "chunks", ![i].members = chunk_set]
    /\ BuildFrame /\ Quietly
    /\ UNCHANGED <<index, vectors>>

(* A build that indexes the members it finds instead.                      *)
LoadsWhateverIsThere(i) ==
    /\ BuildAt(i, "chunks")
    /\ build' = [build EXCEPT ![i].pc = "store", ![i].loaded = chunk_set]
    /\ BuildFrame /\ Quietly
    /\ UNCHANGED <<index, vectors>>

(* The members are loaded by number and must be those of the snapshot;     *)
(* a later revision may have kept them all.                                *)
get_corpus_chunk_set_document_chunks_by_ids(i) ==
    /\ BuildAt(i, "chunks")
    /\ \/ build' = [build EXCEPT ![i].pc = "store",
                                 ![i].loaded = build[i].members]
       \/ chunk_set # build[i].members /\ Raises(i, FALSE)
    /\ BuildFrame /\ Quietly
    /\ UNCHANGED <<index, vectors>>

(* One vector for every chunk, with the number of the index. *)
to_vector_documents(i) == [vectors EXCEPT ![i] = build[i].loaded]

(* The store may keep the vectors although it raises. *)
store_docs_to_vector_store(i) ==
    /\ BuildAt(i, "store")
    /\ \/ /\ Quietly /\ BuildGoes(i, "rows")
          /\ vectors' = to_vector_documents(i)
       \/ /\ DatabaseError /\ Raises(i, FALSE)
          /\ vectors' \in {vectors, to_vector_documents(i)}
    /\ BuildFrame
    /\ UNCHANGED index

_ensure_parent_records_exist(i) == Exists(i)

(* One row per chunk. *)
IndexesRows(i) == index' = [index EXCEPT ![i].rows = build[i].loaded]

bulk_create_indexed_chunks(i) ==
    /\ BuildAt(i, "rows")
    /\ \/ /\ _ensure_parent_records_exist(i)
          /\ Quietly /\ BuildGoes(i, "mark")
          /\ IndexesRows(i)
       \/ /\ ~_ensure_parent_records_exist(i)
          /\ Quietly /\ Raises(i, FALSE) /\ UNCHANGED index
       \/ /\ DatabaseError /\ Raises(i, TRUE)
          /\ \/ UNCHANGED index
             \/ _ensure_parent_records_exist(i) /\ IndexesRows(i)
    /\ BuildFrame
    /\ UNCHANGED vectors

(* Who declared the row built: its build, or one that read the row and the *)
(* members of the chunk set before and after a replacement.                *)
MarksBuilt(i) ==
    index' = [index EXCEPT
        ![i].status = WrittenStatus(i, build[i].copy, "built"),
        ![i].by = IF build[i].members = build[i].revision
                  THEN "build" ELSE "torn"]

(* The transition is checked on the status the session loaded. *)
mark_corpus_index_built(i) ==
    /\ BuildAt(i, "mark")
    /\ \/ /\ ensure_status_transition(build[i].copy, "built") /\ Exists(i)
          /\ MarksBuilt(i)
          /\ \/ Quietly /\ BuildEnds(i)
             \/ DatabaseError /\ Raises(i, TRUE)
       \/ /\ ~ensure_status_transition(build[i].copy, "built")
          /\ Quietly /\ Raises(i, FALSE) /\ UNCHANGED index
       \/ ~Exists(i) /\ Quietly /\ Raises(i, TRUE) /\ UNCHANGED index
       \/ DatabaseError /\ Raises(i, TRUE) /\ UNCHANGED index
    /\ BuildFrame
    /\ UNCHANGED vectors

(* An expired row cannot be read outside the session's greenlet. *)
mark_corpus_index_failed(i) ==
    IF /\ ~build[i].expired /\ Exists(i)
       /\ ensure_status_transition(build[i].copy, "failed")
    THEN index' = [index EXCEPT
             ![i].status = WrittenStatus(i, build[i].copy, "failed")]
    ELSE UNCHANGED index

(* The synchronous handler marks the row it holds, and swallows what that  *)
(* raises.                                                                 *)
_mark_index_failed(i) ==
    /\ BuildAt(i, "handler") /\ ~build[i].background
    /\ mark_corpus_index_failed(i)
    /\ BuildEnds(i)
    /\ BuildFrame /\ Quietly
    /\ UNCHANGED vectors

(* The handler of the background task reads the status and rolls back,     *)
(* which expires the row; reading the status again for the transition      *)
(* raises, and nothing is recorded.                                        *)
run_queued_corpus_embedding_build_srvc(i) ==
    /\ BuildAt(i, "handler") /\ build[i].background
    /\ BuildEnds(i)
    /\ BuildFrame /\ Quietly
    /\ UNCHANGED <<index, vectors>>

BuildNext(i) ==
    \/ queue_corpus_embedding_build_srvc(i)
    \/ create_corpus_index(i)
    \/ set_corpus_index_build_metadata(i)
    \/ _load_build_records(i)
    \/ get_corpus_chunk_set_by_id(i)
    \/ get_corpus_chunk_set_document_chunks(i)
    \/ get_corpus_chunk_set_document_chunks_by_ids(i)
    \/ store_docs_to_vector_store(i)
    \/ bulk_create_indexed_chunks(i)
    \/ mark_corpus_index_built(i)
    \/ _mark_index_failed(i)
    \/ run_queued_corpus_embedding_build_srvc(i)

-----------------------------------------------------------------------------
(* Administrators.  The dependency loads the row, the handler works on it. *)

AdminFrame ==
    UNCHANGED <<storeVars, faults, vectors, build>>

AdminAt(a, label) == admin[a].pc = label

AdminEnds(a) == admin' = [admin EXCEPT ![a] = Answered]

get_corpus_index_or_404(a, i, operation) ==
    /\ AdminAt(a, "idle") /\ Exists(i)
    /\ admin' = [admin EXCEPT ![a] =
           [pc |-> operation, index |-> i, copy |-> index[i].status]]
    /\ AdminFrame
    /\ UNCHANGED <<index, bindingVars, cache>>

(* A row made by hand names the current chunk set, in any status. *)
create_corpus_index_srvc(a, i) ==
    /\ AdminAt(a, "idle") /\ Unused(i)
    /\ \E status \in {"created", "built"} :
           index' = [index EXCEPT ![i] =
               [status |-> status, revision |-> chunk_set, rows |-> 0,
                by |-> IF status = "built" THEN "hand" ELSE "none"]]
    /\ AdminEnds(a)
    /\ AdminFrame
    /\ UNCHANGED <<bindingVars, cache>>

(* A request that finds its row deleted fails. *)
Overwrites(a, next) ==
    LET i == admin[a].index
    IN  IF Exists(i) /\ ensure_status_transition(admin[a].copy, next)
        THEN index' = [index EXCEPT
                 ![i].status = WrittenStatus(i, admin[a].copy, next),
                 ![i].by = IF next = "built" /\ admin[a].copy # "built"
                           THEN "hand" ELSE @]
        ELSE UNCHANGED index

update_corpus_index_status(a) ==
    /\ AdminAt(a, "status")
    /\ \E next \in HandStatuses : Overwrites(a, next)
    /\ AdminEnds(a)
    /\ AdminFrame
    /\ UNCHANGED <<bindingVars, cache>>

mark_corpus_index_built_srvc(a) ==
    /\ AdminAt(a, "build_complete")
    /\ Overwrites(a, "built")
    /\ AdminEnds(a)
    /\ AdminFrame
    /\ UNCHANGED <<bindingVars, cache>>

(* The copy takes over the rows of its source, not its vectors: those      *)
(* carry the number of the source.                                         *)
copy_corpus_index(i) ==
    [status |-> "created", revision |-> index[i].revision,
     rows |-> IF has_indexed_chunks(i) THEN index[i].rows ELSE 0, by |-> "none"]

copy_corpus_index_srvc(a, j) ==
    LET i == admin[a].index
    IN  /\ AdminAt(a, "copy") /\ Unused(j)
        /\ index' = IF _ensure_chunk_set_identity(i)
                    THEN [index EXCEPT ![j] = copy_corpus_index(i)] ELSE index
        /\ AdminEnds(a)
        /\ AdminFrame
        /\ UNCHANGED <<bindingVars, cache>>

(* The handler clears the cache whether the deletion passes or not. *)
ensure_corpus_index_deletable(a) ==
    LET i == admin[a].index
    IN  /\ AdminAt(a, "delete")
        /\ admin' = [admin EXCEPT ![a].pc =
               IF has_indexed_chunks(i) THEN "clear" ELSE "commit"]
        /\ AdminFrame
        /\ UNCHANGED <<index, bindingVars, cache>>

(* The flush takes the index out of the simulations that bind it; rows of  *)
(* indexed chunks cannot lose their index, and the deletion fails.         *)
delete_corpus_index(a) ==
    LET i == admin[a].index
    IN  /\ AdminAt(a, "commit")
        /\ IF Exists(i) /\ ~has_indexed_chunks(i)
           THEN /\ index' = [index EXCEPT
                       ![i] = [NoRow EXCEPT !.status = "deleted"]]
                /\ simulation' = [simulation EXCEPT
                       !.index = IF @ = i THEN 0 ELSE @]
                /\ admin' = [admin EXCEPT ![a].pc = "clear"]
           ELSE AdminEnds(a) /\ UNCHANGED <<index, simulation>>
        /\ AdminFrame
        /\ UNCHANGED <<request, cache>>

(* The epoch advances: the turns that remember it are out of date. *)
_clear_negotiation_graph_cache_matching(i) ==
    /\ request' = [request EXCEPT !.current = FALSE]
    /\ cache' = {graph \in cache : graph.index # i}

clear_negotiation_graph_cache_for_corpus_index(a) ==
    /\ AdminAt(a, "clear")
    /\ _clear_negotiation_graph_cache_matching(admin[a].index)
    /\ AdminEnds(a)
    /\ AdminFrame
    /\ UNCHANGED <<index, simulation>>

AdminNext(a) ==
    \/ \E i \in Indices :
           \/ \E operation \in {"status", "build_complete", "copy", "delete"} :
                  get_corpus_index_or_404(a, i, operation)
           \/ create_corpus_index_srvc(a, i)
           \/ copy_corpus_index_srvc(a, i)
    \/ update_corpus_index_status(a)
    \/ mark_corpus_index_built_srvc(a)
    \/ ensure_corpus_index_deletable(a)
    \/ delete_corpus_index(a)
    \/ clear_negotiation_graph_cache_for_corpus_index(a)

-----------------------------------------------------------------------------
(* The simulation.  Creating it, changing its bindings and retrieving      *)
(* through them validate the bindings in the same steps.                   *)

RequestFrame ==
    UNCHANGED <<storeVars, faults, index, vectors, build, admin>>

RequestAt(label) == request.pc = label

RequestGoes(label) == request' = [request EXCEPT !.pc = label]

RequestEnds == request' = NoRequest

NeedsDense == mode \in {"dense", "hybrid"}
NeedsBm25 == mode \in {"bm25", "hybrid"}

Validating(kind, i, with_bm25) ==
    request' = [NoRequest EXCEPT
        !.pc = IF NeedsDense THEN "dense" ELSE "bm25", !.kind = kind,
        !.index = i, !.bm25 = with_bm25, !.current = TRUE]

(* A profile's mode needs exactly the indices it retrieves from. *)
_validate_retrieval_bindings_for_profile(kind) ==
    /\ RequestAt("idle")
    /\ kind = IF simulation.exists THEN "update" ELSE "create"
    /\ \E i \in Indices \cup {0} :
           /\ (i # 0) = NeedsDense
           /\ Validating(kind, i, NeedsBm25)
    /\ RequestFrame
    /\ UNCHANGED <<simulation, cache>>

(* A turn remembers the epoch of the cache before it reads anything, here  *)
(* that it is still the current one; bindings that were lost are refused.  *)
_get_retrieval_runtime_for_simulation ==
    /\ RequestAt("idle")
    /\ simulation.exists
    /\ NeedsDense => simulation.index # 0
    /\ Validating("turn", simulation.index, simulation.bm25)
    /\ RequestFrame
    /\ UNCHANGED <<simulation, cache>>

(* A validation that only asks whether the index exists. *)
AcceptsAnyIndex ==
    /\ RequestAt("dense")
    /\ IF Exists(request.index)
       THEN RequestGoes(IF mode = "hybrid" THEN "bm25" ELSE "bound")
       ELSE RequestEnds
    /\ RequestFrame
    /\ UNCHANGED <<simulation, cache>>

_get_valid_built_corpus_index ==
    /\ RequestAt("dense")
    /\ IF Exists(request.index) /\ index[request.index].status = "built"
       THEN RequestGoes(IF mode = "hybrid" THEN "bm25" ELSE "bound")
       ELSE RequestEnds
    /\ RequestFrame
    /\ UNCHANGED <<simulation, cache>>

_get_valid_built_bm25_index ==
    /\ RequestAt("bm25")
    /\ IF bm25 # 0
       THEN RequestGoes(IF mode = "hybrid" THEN "rows" ELSE "bound")
       ELSE RequestEnds
    /\ RequestFrame
    /\ UNCHANGED <<simulation, cache>>

get_document_chunk_ids_by_corpus_index_id ==
    /\ RequestAt("rows")
    /\ request' = [request EXCEPT
           !.pc = "compatible",
           !.rows = IF Exists(request.index) THEN index[request.index].rows
                    ELSE 0]
    /\ RequestFrame
    /\ UNCHANGED <<simulation, cache>>

(* Both indices were built for the current revision of one chunk set, and  *)
(* hold the same chunks.                                                   *)
ensure_hybrid_indices_compatible ==
    /\ RequestAt("compatible")
    /\ IF /\ index[request.index].revision = chunk_set
          /\ bm25 = chunk_set
          /\ request.rows = bm25
       THEN RequestGoes("bound") ELSE RequestEnds
    /\ RequestFrame
    /\ UNCHANGED <<simulation, cache>>

(* The insertion of a binding to a deleted index fails. *)
BindsIndices ==
    /\ RequestAt("bound") /\ request.kind # "turn"
    /\ simulation' =
           IF request.index = 0 \/ Exists(request.index)
           THEN [exists |-> TRUE, index |-> request.index,
                 bm25 |-> request.bm25]
           ELSE simulation
    /\ RequestEnds
    /\ RequestFrame
    /\ UNCHANGED cache

(* A cached graph of the same indices is used as it is. *)
_graph_cache_key ==
    /\ RequestAt("bound") /\ request.kind = "turn"
    /\ IF \E graph \in cache : graph.index = request.index
       THEN RequestEnds
       ELSE RequestGoes("construct")
    /\ RequestFrame
    /\ UNCHANGED <<simulation, cache>>

(* The retrievers are constructed across several awaits. *)
_build_retrieval_graph ==
    /\ RequestAt("construct")
    /\ request' = [request EXCEPT !.pc = "cache",
                                  !.fused = IF NeedsBm25 THEN bm25 ELSE 0]
    /\ RequestFrame
    /\ UNCHANGED <<simulation, cache>>

(* A cache that keeps what a turn constructed, cleared or not. *)
CachesEveryGraph ==
    /\ RequestAt("cache")
    /\ cache' = cache \cup {[index |-> request.index, rows |-> request.rows,
                             bm25 |-> request.fused]}
    /\ RequestEnds
    /\ RequestFrame
    /\ UNCHANGED simulation

(* A graph is kept unless the cache was cleared since the turn began. *)
_cache_negotiation_graph_if_current ==
    /\ RequestAt("cache")
    /\ cache' = IF request.current
                THEN cache \cup {[index |-> request.index,
                                  rows |-> request.rows,
                                  bm25 |-> request.fused]}
                ELSE cache
    /\ RequestEnds
    /\ RequestFrame
    /\ UNCHANGED simulation

SimulationNext ==
    \/ \E kind \in {"create", "update"} :
           _validate_retrieval_bindings_for_profile(kind)
    \/ _get_retrieval_runtime_for_simulation
    \/ _get_valid_built_corpus_index
    \/ _get_valid_built_bm25_index
    \/ get_document_chunk_ids_by_corpus_index_id
    \/ ensure_hybrid_indices_compatible
    \/ BindsIndices
    \/ _graph_cache_key
    \/ _build_retrieval_graph
    \/ _cache_negotiation_graph_if_current

-----------------------------------------------------------------------------
(* The process ends: requests, background tasks and the cache are gone,    *)
(* and nothing recovers a build at the next start.                         *)
Stop ==
    /\ stops < MaxStops
    /\ stops' = stops + 1
    /\ build' = [i \in Indices |-> NoBuild]
    /\ admin' = [a \in Admins |->
                    IF AdminAt(a, "idle") THEN NoAdmin ELSE Answered]
    /\ request' = NoRequest
    /\ cache' = {}
    /\ UNCHANGED <<chunk_set, index, vectors, bm25, mode, simulation, faults>>

Next ==
    \/ update_corpus_chunk_set_srvc
    \/ BuildBm25
    \/ \E i \in Indices : BuildNext(i)
    \/ \E a \in Admins : AdminNext(a)
    \/ SimulationNext
    \/ Stop

Spec == Init /\ [][Next]_vars

-----------------------------------------------------------------------------
(* The types of the rows and of the requests.  A request works on a row    *)
(* once it has left its initial place.                                     *)
Statuses == ALLOWED_CORPUS_INDEX_STATUSES \cup {"absent", "deleted"}

OwnBuilds == {"build", "torn"}

IndexRows ==
    [status : Statuses, revision : Revisions \cup {0},
     rows : Revisions \cup {0}, by : {"none", "hand"} \cup OwnBuilds]

BuildTasks ==
    [pc : {"idle", "create", "metadata", "load", "snapshot", "members",
           "chunks", "store", "rows", "mark", "handler"},
     background : BOOLEAN, revision : Revisions \cup {0},
     members : Revisions \cup {0}, loaded : Revisions \cup {0},
     copy : Statuses, expired : BOOLEAN]

AdminRequests ==
    [pc : {"idle", "status", "build_complete", "copy", "delete", "commit",
           "clear", "done"},
     index : Indices \cup {0}, copy : Statuses]

SimulationRequests ==
    [pc : {"idle", "dense", "bm25", "rows", "compatible", "bound",
           "construct", "cache"},
     kind : {"none", "create", "update", "turn"}, index : Indices \cup {0},
     bm25 : BOOLEAN, rows : Revisions \cup {0}, fused : Revisions \cup {0},
     current : BOOLEAN]

NegotiationGraphs ==
    [index : Indices, rows : Revisions \cup {0}, bm25 : Revisions \cup {0}]

TypeOK ==
    /\ chunk_set \in Revisions
    /\ index \in [Indices -> IndexRows]
    /\ vectors \in [Indices -> Revisions \cup {0}]
    /\ build \in [Indices -> BuildTasks]
    /\ admin \in [Admins -> AdminRequests]
    /\ \A a \in Admins :
           admin[a].pc \notin {"idle", "done"} => admin[a].index \in Indices
    /\ bm25 \in Revisions \cup {0}
    /\ mode \in {"dense", "hybrid"}
    /\ simulation \in [exists : BOOLEAN, index : Indices \cup {0},
                       bm25 : BOOLEAN]
    /\ request \in SimulationRequests
    /\ request.pc # "idle" => request.index \in Indices
    /\ cache \subseteq NegotiationGraphs
    /\ stops \in 0 .. MaxStops
    /\ faults \in 0 .. MaxFaults

-----------------------------------------------------------------------------
(* An index that its own build completed holds one row and one vector of   *)
(* the same chunks, and these are the ones of the revision it is recorded  *)
(* for, whatever happened to the chunk set while the build ran.  Only a    *)
(* replacement between the two reads of the snapshot tears them apart, and *)
(* then the index is recorded for a revision that is no longer the chunk   *)
(* set's, by which copies and hybrid retrieval refuse it.                  *)
OwnBuildsAreWhole ==
    \A i \in Indices :
        index[i].status = "built" /\ index[i].by \in OwnBuilds =>
            /\ vectors[i] = index[i].rows
            /\ \/ index[i].rows = index[i].revision
               \/ index[i].by = "torn" /\ index[i].revision < chunk_set

(* A simulation is bound to an index that exists, and that a build or an   *)
(* administrator declared built before.                                    *)
BindingsNameBuiltIndices ==
    simulation.index # 0 =>
        Exists(simulation.index) /\ index[simulation.index].by # "none"

(* A cached graph retrieves from an index that exists or whose deletion is *)
(* about to clear the cache, and a hybrid one fuses the same chunks.       *)
CachedGraphsAreServable ==
    \A graph \in cache :
        /\ graph.index # 0 =>
               \/ Exists(graph.index)
               \/ \E a \in Admins :
                      AdminAt(a, "clear") /\ admin[a].index = graph.index
        /\ mode = "hybrid" => graph.rows = graph.bm25

=============================================================================

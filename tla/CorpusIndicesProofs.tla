------------------------- MODULE CorpusIndicesProofs -------------------------
(***************************************************************************)
(* Proofs about the dense corpus indices, for every number of indices,     *)
(* builds, revisions of the chunk set, administrators, restarts and        *)
(* errors: a build that completes has indexed one revision, a simulation   *)
(* binds what was declared built, and the cache serves nothing deleted.    *)
(***************************************************************************)
EXTENDS CorpusIndices, TLAPS

(* A row, the build with its number and the vectors stored under it.       *)
(* The build is alone with the number: no row comes there from elsewhere.  *)
There(row) == row.status \notin {"absent", "deleted"}

RowComesOnce(row, task) ==
    /\ row.status = "absent" => row = NoRow
    /\ task.pc = "create" => row.status = "absent"

(* A build has taken the members of the revision it was queued for, or the *)
(* chunk set has moved on; what it has loaded are the members it took, and *)
(* what it has stored is what it loaded.                                   *)
BuildKeepsItsMembers(set, row, task, stored) ==
    /\ task.pc # "idle" => task.revision <= set
    /\ task.pc \notin {"idle", "create"} =>
           /\ row.status # "absent"
           /\ There(row) => row.revision = task.revision
    /\ task.pc \in {"chunks", "store", "rows", "mark"} =>
           task.members = task.revision \/ task.revision < set
    /\ task.pc \in {"store", "rows", "mark"} => task.loaded = task.members
    /\ task.pc \in {"rows", "mark"} => stored = task.members
    /\ task.pc = "mark" /\ There(row) => row.rows = task.members

(* A row that a build has completed belongs to no build any more, whatever *)
(* status an older copy writes over it, or to one whose commit passed and  *)
(* whose refresh did not: its handler holds an expired row.                *)
BuiltRowIsWhole(set, row, task, stored) ==
    row.by \in OwnBuilds =>
        /\ task.pc = "idle" \/ (task.pc = "handler" /\ task.expired)
        /\ There(row)
        /\ stored = row.rows
        /\ \/ row.rows = row.revision
           \/ row.by = "torn" /\ row.revision < set

BuiltIsDeclared(row) == row.status = "built" => row.by # "none"

Sound(set, row, task, stored) ==
    /\ RowComesOnce(row, task)
    /\ BuildKeepsItsMembers(set, row, task, stored)
    /\ BuiltRowIsWhole(set, row, task, stored)
    /\ BuiltIsDeclared(row)

RowsAreSound ==
    \A i \in Indices : Sound(chunk_set, index[i], build[i], vectors[i])

(* The request.  Behind the check of the dense index the row has been      *)
(* declared built, and it is there, or the clearing that its deletion owes *)
(* has not reached the request yet.                                        *)
AboutToClear(i) ==
    \E a \in Admins : AdminAt(a, "clear") /\ admin[a].index = i

RequestsNameDeclaredRows ==
    request.pc \notin {"idle", "dense"} =>
        /\ index[request.index].status # "absent"
        /\ Exists(request.index) => index[request.index].by # "none"
        /\ request.current =>
               Exists(request.index) \/ AboutToClear(request.index)

(* The hybrid retriever.  A BM25 index stays the one that was compared.    *)
HybridsAreCompatible ==
    mode = "hybrid" =>
        /\ request.pc \in {"bound", "construct"} =>
               bm25 # 0 /\ request.rows = bm25
        /\ request.pc = "cache" => request.rows = request.fused

IInv ==
    /\ TypeOK
    /\ RowsAreSound
    /\ BindingsNameBuiltIndices
    /\ RequestsNameDeclaredRows
    /\ HybridsAreCompatible
    /\ CachedGraphsAreServable

-----------------------------------------------------------------------------
(* What every step but a deletion does to a row: it stays there, and the   *)
(* declaration that it is built stays with it.                             *)
Stays(row, next) ==
    row.status # "absent" =>
        /\ next.status # "absent"
        /\ There(next) <=> There(row)
        /\ row.by # "none" => next.by # "none"

RowTypes ==
    /\ index \in [Indices -> IndexRows]
    /\ vectors \in [Indices -> Revisions \cup {0}]
    /\ build \in [Indices -> BuildTasks]

RowsStay ==
    /\ RowTypes' /\ RowsAreSound'
    /\ \A i \in Indices : Stays(index[i], index'[i])

(* One row, its build and its vectors change into something sound.         *)
Becomes(i, row, task, stored) ==
    /\ index' = [index EXCEPT ![i] = row]
    /\ build' = [build EXCEPT ![i] = task]
    /\ vectors' = [vectors EXCEPT ![i] = stored]

LEMMA OneRowChanges ==
    ASSUME TypeOK, RowsAreSound, NEW i \in Indices,
           NEW row \in IndexRows, NEW task \in BuildTasks,
           NEW stored \in Revisions \cup {0},
           Becomes(i, row, task, stored), Sound(chunk_set, row, task, stored),
           UNCHANGED chunk_set
    PROVE  /\ RowTypes' /\ RowsAreSound'
           /\ index'[i] = row
           /\ \A k \in Indices \ {i} : index'[k] = index[k]
<1>1. RowTypes' /\ index'[i] = row
  BY DEF TypeOK, RowTypes, Becomes
<1>2. ASSUME NEW k \in Indices
      PROVE  /\ Sound(chunk_set, index'[k], build'[k], vectors'[k])
             /\ k # i => index'[k] = index[k]
  <2>1. CASE k = i
    BY <2>1 DEF TypeOK, Becomes
  <2>2. CASE k # i
    <3>1. /\ index'[k] = index[k]
          /\ build'[k] = build[k]
          /\ vectors'[k] = vectors[k]
      BY <2>2 DEF TypeOK, Becomes
    <3>2. Sound(chunk_set, index[k], build[k], vectors[k])
      BY DEF RowsAreSound
    <3> QED
      BY <3>1, <3>2
  <2> QED
    BY <2>1, <2>2
<1> QED
  BY <1>1, <1>2 DEF RowsAreSound

LEMMA OneRowStays ==
    ASSUME TypeOK, RowsAreSound, NEW i \in Indices,
           NEW row \in IndexRows, NEW task \in BuildTasks,
           NEW stored \in Revisions \cup {0},
           Becomes(i, row, task, stored),
           Sound(chunk_set, row, task, stored), Stays(index[i], row),
           UNCHANGED chunk_set
    PROVE  RowsStay
BY OneRowChanges DEF RowsStay, Stays

LEMMA RowsUnchanged ==
    ASSUME TypeOK, RowsAreSound, UNCHANGED <<chunk_set, index, build, vectors>>
    PROVE  RowsStay
BY DEF TypeOK, RowTypes, RowsAreSound, RowsStay, Stays

(* A request for a row leaves everything else as it is.                    *)
LEMMA FreshNumber ==
    ASSUME TypeOK, RowsAreSound, NEW i \in Indices, Unused(i)
    PROVE  index[i] = NoRow /\ build[i].pc = "idle"
BY DEF Unused, RowsAreSound, Sound, RowComesOnce

LEMMA Shape ==
    ASSUME TypeOK, RowsAreSound, NEW i \in Indices
    PROVE  /\ index[i] \in IndexRows
           /\ build[i] \in BuildTasks
           /\ vectors[i] \in Revisions \cup {0}
           /\ Sound(chunk_set, index[i], build[i], vectors[i])
           /\ index = [index EXCEPT ![i] = index[i]]
           /\ build = [build EXCEPT ![i] = build[i]]
           /\ vectors = [vectors EXCEPT ![i] = vectors[i]]
           /\ Exists(i) <=> There(index[i])
           /\ chunk_set \in Nat
BY DEF TypeOK, RowsAreSound, Exists, There, Revisions

LEMMA SomeRows ==
    /\ NoRow \in IndexRows
    /\ NoBuild \in BuildTasks
    /\ NoRow.status = "absent" /\ NoRow.by = "none"
    /\ NoBuild.pc = "idle"
BY DEF NoRow, NoBuild, IndexRows, BuildTasks, Statuses

(* The error counter.                                                      *)
LEMMA Counted ==
    ASSUME TypeOK, Quietly \/ DatabaseError
    PROVE  faults' \in 0 .. MaxFaults
BY CorpusAssumption DEF TypeOK, Quietly, DatabaseError

-----------------------------------------------------------------------------
(* The steps of a build.                                                   *)
BuildStep(i) ==
    /\ RowsStay
    /\ faults' \in 0 .. MaxFaults
    /\ BuildFrame

LEMMA OneBuildStep ==
    ASSUME TypeOK, RowsAreSound, NEW i \in Indices,
           NEW row \in IndexRows, NEW task \in BuildTasks,
           NEW stored \in Revisions \cup {0},
           Becomes(i, row, task, stored),
           Sound(chunk_set, row, task, stored), Stays(index[i], row),
           Quietly \/ DatabaseError, BuildFrame
    PROVE  BuildStep(i)
BY OneRowStays, Counted DEF BuildStep, BuildFrame, storeVars

(* A build that ends or raises leaves its row as sound as it was.          *)
LEMMA EndsSoundly ==
    ASSUME TypeOK, RowsAreSound, NEW i \in Indices,
           index' = index, vectors' = vectors,
           Quietly \/ DatabaseError, BuildFrame, BuildEnds(i)
    PROVE  BuildStep(i)
<1>1. Becomes(i, index[i], NoBuild, vectors[i])
  BY Shape DEF Becomes, BuildEnds
<1>2. Sound(chunk_set, index[i], NoBuild, vectors[i]) /\ Stays(index[i], index[i])
  BY Shape, SomeRows DEF Sound, RowComesOnce, BuildKeepsItsMembers,
     BuiltRowIsWhole, Stays
<1> QED
  BY <1>1, <1>2, Shape, SomeRows, OneBuildStep

LEMMA RaisesSoundly ==
    ASSUME TypeOK, RowsAreSound, NEW i \in Indices, NEW stored \in Revisions \cup {0},
           NEW expired \in BOOLEAN,
           index' = index, vectors' = [vectors EXCEPT ![i] = stored],
           build[i].pc \notin {"idle", "create", "handler"},
           Quietly \/ DatabaseError, BuildFrame, Raises(i, expired)
    PROVE  BuildStep(i)
<1> DEFINE task == [build[i] EXCEPT !.pc = "handler", !.expired = expired]
<1>1. build[i] \in BuildTasks
  BY Shape
<1>2. /\ task \in BuildTasks /\ task.pc = "handler"
      /\ task.revision = build[i].revision
  BY <1>1 DEF BuildTasks
<1>3. build' = [build EXCEPT ![i] = task]
  BY DEF Raises, TypeOK
<1> HIDE DEF task
<1>4. Becomes(i, index[i], task, stored)
  BY <1>3, Shape DEF Becomes
<1>5. Sound(chunk_set, index[i], task, stored) /\ Stays(index[i], index[i])
  BY <1>2, Shape DEF Sound, RowComesOnce, BuildKeepsItsMembers,
     BuiltRowIsWhole, Stays
<1> QED
  BY <1>2, <1>4, <1>5, Shape, OneBuildStep

LEMMA Queueing ==
    ASSUME TypeOK, RowsAreSound, NEW i \in Indices, queue_corpus_embedding_build_srvc(i)
    PROVE  BuildStep(i)
<1>1. PICK background \in BOOLEAN :
          build' = [build EXCEPT ![i] =
              [NoBuild EXCEPT !.pc = "create", !.background = background,
                              !.revision = chunk_set]]
  BY DEF queue_corpus_embedding_build_srvc
<1> DEFINE task == [NoBuild EXCEPT !.pc = "create", !.background = background,
                                   !.revision = chunk_set]
<1>2. /\ task \in BuildTasks /\ task.pc = "create"
      /\ task.revision = chunk_set
  BY SomeRows DEF BuildTasks, TypeOK, NoBuild
<1>3. build' = [build EXCEPT ![i] = task]
  BY <1>1
<1> HIDE DEF task
<1>4. index[i] = NoRow
  BY FreshNumber DEF queue_corpus_embedding_build_srvc
<1>5. Becomes(i, index[i], task, vectors[i])
  BY <1>3, Shape DEF Becomes, queue_corpus_embedding_build_srvc
<1>6. Sound(chunk_set, index[i], task, vectors[i]) /\ Stays(index[i], index[i])
  BY <1>2, <1>4, SomeRows, Shape
     DEF OwnBuilds, Sound, RowComesOnce, BuildKeepsItsMembers,
     BuiltRowIsWhole, BuiltIsDeclared, Stays
<1>7. Quietly /\ BuildFrame
  BY DEF queue_corpus_embedding_build_srvc
<1> QED
  BY <1>2, <1>5, <1>6, <1>7, Shape, OneBuildStep

(* The row comes with the revision of the build, and with nothing else;    *)
(* so it does when only the refresh fails.                                 *)
LEMMA Creating ==
    ASSUME TypeOK, RowsAreSound, NEW i \in Indices, create_corpus_index(i)
    PROVE  BuildStep(i)
<1> DEFINE row == [NoRow EXCEPT !.status = "building",
                                !.revision = build[i].revision]
<1>0. build[i] \in BuildTasks /\ build[i].pc = "create"
  BY Shape DEF create_corpus_index, BuildAt
<1>1. /\ row \in IndexRows /\ row.status = "building" /\ row.by = "none"
      /\ row.revision = build[i].revision
  BY <1>0 DEF IndexRows, NoRow, BuildTasks, Statuses, ALLOWED_CORPUS_INDEX_STATUSES
<1>2. index[i].status = "absent"
  BY <1>0, Shape DEF Sound, RowComesOnce
<1>3. CASE DatabaseError /\ BuildEnds(i) /\ UNCHANGED index
  BY <1>3, EndsSoundly DEF create_corpus_index
<1>4. CASE /\ index' = [index EXCEPT ![i] = row]
           /\ \/ BuildGoes(i, "metadata") /\ Quietly
              \/ DatabaseError /\ BuildEnds(i)
  <2> DEFINE metadata == [build[i] EXCEPT !.pc = "metadata"]
  <2>1. /\ metadata \in BuildTasks /\ metadata.pc = "metadata"
        /\ metadata.revision = build[i].revision
    BY <1>0 DEF BuildTasks
  <2>2. PICK task \in {metadata, NoBuild} : build' = [build EXCEPT ![i] = task]
    BY <1>4 DEF BuildGoes, BuildEnds, TypeOK
  <2> HIDE DEF row, metadata
  <2>3. Becomes(i, row, task, vectors[i])
    BY <1>4, <2>2, Shape DEF Becomes, create_corpus_index
  <2>4. build[i].revision <= chunk_set
    BY <1>0, Shape DEF Sound, BuildKeepsItsMembers
  <2>5. Sound(chunk_set, row, task, vectors[i]) /\ Stays(index[i], row)
    BY <1>1, <1>2, <2>1, <2>4, SomeRows DEF Sound, RowComesOnce,
       BuildKeepsItsMembers, BuiltRowIsWhole, BuiltIsDeclared, Stays, OwnBuilds
  <2>6. task \in BuildTasks /\ BuildFrame /\ (Quietly \/ DatabaseError)
    BY <1>4, <2>1, SomeRows DEF create_corpus_index
  <2> QED
    BY <1>1, <2>3, <2>5, <2>6, Shape, OneBuildStep
<1> QED
  BY <1>3, <1>4 DEF create_corpus_index

(* A build that goes on: its row and its vectors stay.                     *)
LEMMA GoesOnSoundly ==
    ASSUME TypeOK, RowsAreSound, NEW i \in Indices, NEW task \in BuildTasks,
           index' = index, vectors' = vectors,
           build' = [build EXCEPT ![i] = task],
           build[i].pc \notin {"idle", "create", "handler"},
           task.pc \in {"load", "snapshot", "members", "chunks", "store"},
           task.revision = build[i].revision,
           task.pc \in {"chunks", "store"} =>
               task.members = task.revision \/ task.revision < chunk_set,
           task.pc = "store" => task.loaded = task.members,
           Quietly, BuildFrame
    PROVE  BuildStep(i)
<1>1. Becomes(i, index[i], task, vectors[i])
  BY Shape DEF Becomes
<1>2. Sound(chunk_set, index[i], task, vectors[i]) /\ Stays(index[i], index[i])
  BY Shape DEF Sound, RowComesOnce, BuildKeepsItsMembers,
     BuiltRowIsWhole, Stays
<1> QED
  BY <1>1, <1>2, Shape, OneBuildStep

LEMMA WritingMetadata ==
    ASSUME TypeOK, RowsAreSound, NEW i \in Indices, set_corpus_index_build_metadata(i)
    PROVE  BuildStep(i)
<1>1. CASE BuildEnds(i)
  BY <1>1, EndsSoundly DEF set_corpus_index_build_metadata
<1>2. CASE /\ Exists(i) /\ Quietly
           /\ build' = [build EXCEPT
                  ![i].pc = IF build[i].background THEN "load" ELSE "snapshot",
                  ![i].copy = index[i].status]
  <2> DEFINE task == [build[i] EXCEPT
                         !.pc = IF build[i].background THEN "load" ELSE "snapshot",
                         !.copy = index[i].status]
  <2>1. build[i] \in BuildTasks /\ index[i] \in IndexRows
    BY Shape
  <2>2. /\ task \in BuildTasks /\ task.pc \in {"load", "snapshot"}
        /\ task.revision = build[i].revision
    BY <2>1 DEF BuildTasks, IndexRows
  <2>3. build' = [build EXCEPT ![i] = task]
    BY <1>2 DEF TypeOK
  <2> HIDE DEF task
  <2> QED
    BY <1>2, <2>2, <2>3, GoesOnSoundly DEF set_corpus_index_build_metadata, BuildAt
<1> QED
  BY <1>1, <1>2 DEF set_corpus_index_build_metadata

LEMMA LoadingRecords ==
    ASSUME TypeOK, RowsAreSound, NEW i \in Indices, _load_build_records(i)
    PROVE  BuildStep(i)
<1>1. CASE BuildEnds(i)
  BY <1>1, EndsSoundly DEF _load_build_records
<1>2. CASE build' = [build EXCEPT ![i].pc = "snapshot", ![i].copy = "building"]
  <2> DEFINE task == [build[i] EXCEPT !.pc = "snapshot", !.copy = "building"]
  <2>1. build[i] \in BuildTasks
    BY Shape
  <2>2. /\ task \in BuildTasks /\ task.pc = "snapshot"
        /\ task.revision = build[i].revision
    BY <2>1 DEF BuildTasks, Statuses, ALLOWED_CORPUS_INDEX_STATUSES
  <2>3. build' = [build EXCEPT ![i] = task]
    BY <1>2 DEF TypeOK
  <2> HIDE DEF task
  <2> QED
    BY <2>2, <2>3, GoesOnSoundly DEF _load_build_records, BuildAt
<1> QED
  BY <1>1, <1>2 DEF _load_build_records

LEMMA ReadingTheChunkSet ==
    ASSUME TypeOK, RowsAreSound, NEW i \in Indices,
           get_corpus_chunk_set_by_id(i)
    PROVE  BuildStep(i)
<1>1. CASE Raises(i, FALSE)
  BY <1>1, RaisesSoundly, Shape DEF get_corpus_chunk_set_by_id, BuildAt
<1>2. CASE BuildGoes(i, "members")
  <2> DEFINE task == [build[i] EXCEPT !.pc = "members"]
  <2>1. build[i] \in BuildTasks
    BY Shape
  <2>2. /\ task \in BuildTasks /\ task.pc = "members"
        /\ task.revision = build[i].revision
    BY <2>1 DEF BuildTasks
  <2>3. build' = [build EXCEPT ![i] = task]
    BY <1>2 DEF TypeOK, BuildGoes
  <2> HIDE DEF task
  <2> QED
    BY <2>2, <2>3, GoesOnSoundly DEF get_corpus_chunk_set_by_id, BuildAt
<1> QED
  BY <1>1, <1>2 DEF get_corpus_chunk_set_by_id

(* Members that are not of the revision of the build are of a later one:   *)
(* the chunk set only moves on.                                            *)
LEMMA ReadingTheMembers ==
    ASSUME TypeOK, RowsAreSound, NEW i \in Indices,
           get_corpus_chunk_set_document_chunks(i)
    PROVE  BuildStep(i)
<1> DEFINE task == [build[i] EXCEPT !.pc = "chunks", !.members = chunk_set]
<1>1. build[i] \in BuildTasks /\ build[i].pc = "members" /\ chunk_set \in Revisions
  BY Shape DEF get_corpus_chunk_set_document_chunks, BuildAt, TypeOK
<1>2. /\ task \in BuildTasks /\ task.pc = "chunks"
      /\ task.revision = build[i].revision /\ task.members = chunk_set
  BY <1>1 DEF BuildTasks
<1>3. build' = [build EXCEPT ![i] = task]
  BY DEF get_corpus_chunk_set_document_chunks, TypeOK
<1> HIDE DEF task
<1>4. task.members = task.revision \/ task.revision < chunk_set
  <2>1. build[i].revision <= chunk_set
    BY <1>1, Shape DEF Sound, BuildKeepsItsMembers
  <2>2. build[i].revision \in Nat /\ chunk_set \in Nat
    BY <1>1 DEF BuildTasks, Revisions
  <2> QED
    BY <1>2, <2>1, <2>2
<1> QED
  BY <1>1, <1>2, <1>3, <1>4, GoesOnSoundly
     DEF get_corpus_chunk_set_document_chunks

(* The build indexes the members that it took, or nothing.                 *)
LEMMA LoadingMembers ==
    ASSUME TypeOK, RowsAreSound, NEW i \in Indices,
           get_corpus_chunk_set_document_chunks_by_ids(i)
    PROVE  BuildStep(i)
<1>1. CASE Raises(i, FALSE)
  BY <1>1, RaisesSoundly, Shape
     DEF get_corpus_chunk_set_document_chunks_by_ids, BuildAt
<1>2. CASE build' = [build EXCEPT ![i].pc = "store",
                                  ![i].loaded = build[i].members]
  <2> DEFINE task == [build[i] EXCEPT !.pc = "store",
                                      !.loaded = build[i].members]
  <2>1. build[i] \in BuildTasks /\ build[i].pc = "chunks"
    BY Shape DEF get_corpus_chunk_set_document_chunks_by_ids, BuildAt
  <2>2. /\ task \in BuildTasks /\ task.pc = "store"
        /\ task.revision = build[i].revision /\ task.loaded = task.members
        /\ task.members = build[i].members
    BY <2>1 DEF BuildTasks
  <2>3. build' = [build EXCEPT ![i] = task]
    BY <1>2 DEF TypeOK
  <2> HIDE DEF task
  <2>4. task.members = task.revision \/ task.revision < chunk_set
    BY <2>1, <2>2, Shape DEF Sound, BuildKeepsItsMembers
  <2> QED
    BY <2>1, <2>2, <2>3, <2>4, GoesOnSoundly
       DEF get_corpus_chunk_set_document_chunks_by_ids
<1> QED
  BY <1>1, <1>2 DEF get_corpus_chunk_set_document_chunks_by_ids

LEMMA StoringVectors ==
    ASSUME TypeOK, RowsAreSound, NEW i \in Indices, store_docs_to_vector_store(i)
    PROVE  BuildStep(i)
<1>1. build[i] \in BuildTasks /\ build[i].pc = "store"
  BY Shape DEF store_docs_to_vector_store, BuildAt
<1>2. CASE /\ DatabaseError /\ Raises(i, FALSE)
           /\ vectors' \in {vectors, to_vector_documents(i)}
  <2>1. PICK stored \in {vectors[i], build[i].loaded} :
            vectors' = [vectors EXCEPT ![i] = stored]
    BY <1>2, Shape DEF to_vector_documents
  <2>2. stored \in Revisions \cup {0}
    BY <1>1, Shape DEF BuildTasks
  <2> QED
    BY <1>1, <1>2, <2>1, <2>2, RaisesSoundly DEF store_docs_to_vector_store
<1>3. CASE /\ Quietly /\ BuildGoes(i, "rows")
           /\ vectors' = to_vector_documents(i)
  <2> DEFINE task == [build[i] EXCEPT !.pc = "rows"]
  <2>2. /\ task \in BuildTasks /\ task.pc = "rows"
        /\ task.revision = build[i].revision /\ task.loaded = build[i].loaded
        /\ task.members = build[i].members
        /\ build[i].loaded \in Revisions \cup {0}
    BY <1>1 DEF BuildTasks
  <2>3. build' = [build EXCEPT ![i] = task]
    BY <1>3 DEF TypeOK, BuildGoes
  <2> HIDE DEF task
  <2>4. Becomes(i, index[i], task, build[i].loaded)
    BY <1>3, <2>3, Shape DEF Becomes, store_docs_to_vector_store, to_vector_documents
  <2>5. Sound(chunk_set, index[i], task, build[i].loaded) /\ Stays(index[i], index[i])
    BY <1>1, <2>2, Shape DEF Sound, RowComesOnce, BuildKeepsItsMembers,
       BuiltRowIsWhole, Stays
  <2> QED
    BY <1>3, <2>2, <2>4, <2>5, Shape, OneBuildStep DEF store_docs_to_vector_store
<1> QED
  BY <1>2, <1>3 DEF store_docs_to_vector_store

LEMMA CreatingRows ==
    ASSUME TypeOK, RowsAreSound, NEW i \in Indices, bulk_create_indexed_chunks(i)
    PROVE  BuildStep(i)
<1>1. /\ build[i] \in BuildTasks /\ build[i].pc = "rows"
      /\ index[i] \in IndexRows
  BY Shape DEF bulk_create_indexed_chunks, BuildAt
<1>2. CASE \E expired \in BOOLEAN :
          /\ Raises(i, expired) /\ UNCHANGED index
          /\ Quietly \/ DatabaseError
  BY <1>1, <1>2, RaisesSoundly, Shape DEF bulk_create_indexed_chunks
<1>3. CASE /\ Exists(i) /\ IndexesRows(i)
           /\ \/ Quietly /\ BuildGoes(i, "mark")
              \/ DatabaseError /\ Raises(i, TRUE)
  <2> DEFINE mark == [build[i] EXCEPT !.pc = "mark"]
             handler == [build[i] EXCEPT !.pc = "handler", !.expired = TRUE]
             row == [index[i] EXCEPT !.rows = build[i].loaded]
  <2>1. /\ mark \in BuildTasks /\ mark.pc = "mark"
        /\ mark.revision = build[i].revision /\ mark.loaded = build[i].loaded
        /\ mark.members = build[i].members
        /\ handler \in BuildTasks /\ handler.pc = "handler"
        /\ handler.revision = build[i].revision
    BY <1>1 DEF BuildTasks
  <2>2. PICK task \in {mark, handler} : build' = [build EXCEPT ![i] = task]
    BY <1>3 DEF TypeOK, BuildGoes, Raises
  <2>3. /\ row \in IndexRows /\ row.rows = build[i].loaded
        /\ row.status = index[i].status /\ row.by = index[i].by
        /\ row.revision = index[i].revision
    BY <1>1 DEF IndexRows, BuildTasks
  <2>4. index' = [index EXCEPT ![i] = row]
    BY <1>3 DEF TypeOK, IndexesRows
  <2> HIDE DEF mark, handler, row
  <2>5. Becomes(i, row, task, vectors[i])
    BY <2>2, <2>4, Shape DEF Becomes, bulk_create_indexed_chunks
  <2>6. Sound(chunk_set, row, task, vectors[i]) /\ Stays(index[i], row)
    BY <1>1, <1>3, <2>1, <2>3, Shape DEF Sound, RowComesOnce,
       BuildKeepsItsMembers, BuiltRowIsWhole, BuiltIsDeclared, Stays, There
  <2>7. task \in BuildTasks /\ BuildFrame /\ (Quietly \/ DatabaseError)
    BY <1>3, <2>1 DEF bulk_create_indexed_chunks
  <2> QED
    BY <2>3, <2>5, <2>6, <2>7, Shape, OneBuildStep
<1> QED
  BY <1>2, <1>3 DEF bulk_create_indexed_chunks, _ensure_parent_records_exist

(* The build completes its own row: it is there, with the rows and the     *)
(* vectors of the members the build took.                                  *)
LEMMA MarkingBuilt ==
    ASSUME TypeOK, RowsAreSound, NEW i \in Indices, mark_corpus_index_built(i)
    PROVE  BuildStep(i)
<1>1. /\ build[i] \in BuildTasks /\ build[i].pc = "mark"
      /\ index[i] \in IndexRows
  BY Shape DEF mark_corpus_index_built, BuildAt
<1>2. CASE \E expired \in BOOLEAN :
          /\ Raises(i, expired) /\ UNCHANGED index
          /\ Quietly \/ DatabaseError
  BY <1>1, <1>2, RaisesSoundly, Shape DEF mark_corpus_index_built
<1>3. CASE /\ Exists(i) /\ MarksBuilt(i)
           /\ \/ Quietly /\ BuildEnds(i)
              \/ DatabaseError /\ Raises(i, TRUE)
  <2> DEFINE by == IF build[i].members = build[i].revision THEN "build" ELSE "torn"
             row == [index[i] EXCEPT
                        !.status = WrittenStatus(i, build[i].copy, "built"),
                        !.by = by]
             handler == [build[i] EXCEPT !.pc = "handler", !.expired = TRUE]
  <2>1. There(index[i])
    BY <1>3, Shape
  <2>2. /\ row \in IndexRows /\ row.by = by /\ There(row)
        /\ row.rows = index[i].rows /\ row.revision = index[i].revision
    BY <1>1, <2>1 DEF IndexRows, There, WrittenStatus, Statuses,
       ALLOWED_CORPUS_INDEX_STATUSES, OwnBuilds
  <2>3. index' = [index EXCEPT ![i] = row]
    BY <1>3 DEF TypeOK, MarksBuilt
  <2>4. /\ handler \in BuildTasks /\ handler.pc = "handler"
        /\ handler.revision = build[i].revision /\ handler.expired
    BY <1>1 DEF BuildTasks
  <2>5. PICK task \in {NoBuild, handler} : build' = [build EXCEPT ![i] = task]
    BY <1>3 DEF TypeOK, BuildEnds, Raises
  <2> HIDE DEF row, handler
  <2>6. Becomes(i, row, task, vectors[i])
    BY <2>3, <2>5, Shape DEF Becomes, mark_corpus_index_built
  <2>7. Sound(chunk_set, row, task, vectors[i]) /\ Stays(index[i], row)
    <3>1. row.status # "absent"
      BY <2>2 DEF There
    <3>2. /\ row.rows = build[i].members /\ vectors[i] = build[i].members
          /\ row.revision = build[i].revision
          /\ build[i].members = build[i].revision \/ build[i].revision < chunk_set
          /\ build[i].revision <= chunk_set
      BY <1>1, <2>1, <2>2, Shape DEF Sound, BuildKeepsItsMembers, There
    <3>3. RowComesOnce(row, task) /\ BuiltIsDeclared(row) /\ Stays(index[i], row)
      BY <2>1, <2>2, <2>4, <3>1, SomeRows DEF RowComesOnce, BuiltIsDeclared, Stays
    <3>4. BuildKeepsItsMembers(chunk_set, row, task, vectors[i])
      BY <2>4, <3>1, <3>2, SomeRows DEF BuildKeepsItsMembers
    <3>5. BuiltRowIsWhole(chunk_set, row, task, vectors[i])
      BY <2>2, <2>4, <3>2, SomeRows DEF BuiltRowIsWhole
    <3> QED
      BY <3>3, <3>4, <3>5 DEF Sound
  <2>8. task \in BuildTasks /\ BuildFrame /\ (Quietly \/ DatabaseError)
    BY <1>3, <2>4, SomeRows DEF mark_corpus_index_built
  <2> QED
    BY <2>2, <2>6, <2>7, <2>8, Shape, OneBuildStep
<1> QED
  BY <1>2, <1>3 DEF mark_corpus_index_built

(* Marking a row failed writes its status only, and a build that still     *)
(* reads its row in the handler has not completed it.                      *)
LEMMA MarkingFailed ==
    ASSUME TypeOK, RowsAreSound, NEW i \in Indices, _mark_index_failed(i)
    PROVE  BuildStep(i)
<1>1. /\ build[i] \in BuildTasks /\ build[i].pc = "handler"
      /\ index[i] \in IndexRows
  BY Shape DEF _mark_index_failed, BuildAt
<1>2. CASE UNCHANGED index
  BY <1>2, EndsSoundly DEF _mark_index_failed
<1>3. CASE /\ Exists(i) /\ ~build[i].expired
           /\ index' = [index EXCEPT
                  ![i].status = WrittenStatus(i, build[i].copy, "failed")]
  <2> DEFINE row == [index[i] EXCEPT
                        !.status = WrittenStatus(i, build[i].copy, "failed")]
  <2>1. There(index[i])
    BY <1>3, Shape
  <2>2. /\ row \in IndexRows /\ row.by = index[i].by /\ There(row)
        /\ row.rows = index[i].rows /\ row.revision = index[i].revision
        /\ row.status \in {index[i].status, "failed"}
    BY <1>1, <2>1 DEF IndexRows, There, WrittenStatus, Statuses,
       ALLOWED_CORPUS_INDEX_STATUSES
  <2>3. index' = [index EXCEPT ![i] = row]
    BY <1>3 DEF TypeOK
  <2> HIDE DEF row
  <2>4. Becomes(i, row, NoBuild, vectors[i])
    BY <2>3, Shape DEF Becomes, BuildEnds, _mark_index_failed
  <2>5. Sound(chunk_set, row, NoBuild, vectors[i]) /\ Stays(index[i], row)
    <3>1. row.status # "absent"
      BY <2>2 DEF There
    <3> QED
      BY <1>1, <1>3, <2>1, <2>2, <3>1, Shape, SomeRows DEF Sound, RowComesOnce,
         BuildKeepsItsMembers, BuiltRowIsWhole, BuiltIsDeclared, Stays
  <2> QED
    BY <2>2, <2>4, <2>5, Shape, SomeRows, OneBuildStep DEF _mark_index_failed
<1> QED
  BY <1>2, <1>3 DEF _mark_index_failed, mark_corpus_index_failed

LEMMA Building ==
    ASSUME TypeOK, RowsAreSound, NEW i \in Indices, BuildNext(i)
    PROVE  BuildStep(i)
<1>1. CASE run_queued_corpus_embedding_build_srvc(i)
  BY <1>1, EndsSoundly DEF run_queued_corpus_embedding_build_srvc
<1> QED
  BY <1>1, Queueing, Creating, WritingMetadata, LoadingRecords,
     ReadingTheChunkSet, ReadingTheMembers, LoadingMembers, StoringVectors,
     CreatingRows,
     MarkingBuilt, MarkingFailed DEF BuildNext

-----------------------------------------------------------------------------
(* The rows when administrators or others work on them.                    *)
LEMMA ARowChanges ==
    ASSUME TypeOK, RowsAreSound, NEW i \in Indices, NEW row \in IndexRows,
           index' = [index EXCEPT ![i] = row], UNCHANGED <<chunk_set, build, vectors>>,
           Sound(chunk_set, row, build[i], vectors[i]), Stays(index[i], row)
    PROVE  RowsStay
<1>1. Becomes(i, row, build[i], vectors[i])
  BY Shape DEF Becomes
<1> QED
  BY <1>1, Shape, OneRowStays

(* A new row under a number that nobody holds.                             *)
LEMMA ARowIsInserted ==
    ASSUME TypeOK, RowsAreSound, NEW i \in Indices, NEW row \in IndexRows,
           index' = [index EXCEPT ![i] = row], UNCHANGED <<chunk_set, build, vectors>>,
           Unused(i), row.status # "absent", row.by \notin OwnBuilds,
           row.status = "built" => row.by # "none"
    PROVE  RowsStay
<1>1. index[i].status = "absent" /\ build[i].pc = "idle"
  BY FreshNumber, SomeRows
<1>2. Sound(chunk_set, row, build[i], vectors[i]) /\ Stays(index[i], row)
  BY <1>1 DEF Sound, RowComesOnce, BuildKeepsItsMembers, BuiltRowIsWhole,
     BuiltIsDeclared, Stays
<1> QED
  BY <1>2, ARowChanges

(* An administrator writes a status.  A row that a build completed is      *)
(* declared by hand only if it was not built in the copy, and then it is   *)
(* a row that is declared all the same.                                    *)
LEMMA OverwritesSoundly ==
    ASSUME TypeOK, RowsAreSound, NEW a \in Admins,
           admin[a].pc \notin {"idle", "done"},
           NEW next \in ALLOWED_CORPUS_INDEX_STATUSES,
           Overwrites(a, next), UNCHANGED <<chunk_set, build, vectors>>
    PROVE  RowsStay
<1> DEFINE i == admin[a].index
           by == IF next = "built" /\ admin[a].copy # "built" THEN "hand" ELSE index[i].by
           row == [index[i] EXCEPT
                      !.status = WrittenStatus(i, admin[a].copy, next), !.by = by]
<1>1. i \in Indices
  BY DEF TypeOK
<1> HIDE DEF i
<1>2. CASE UNCHANGED index
  BY <1>2, RowsUnchanged
<1>3. CASE /\ Exists(i)
           /\ index' = [index EXCEPT
                  ![i].status = WrittenStatus(i, admin[a].copy, next),
                  ![i].by = IF next = "built" /\ admin[a].copy # "built"
                            THEN "hand" ELSE @]
  <2>1. There(index[i]) /\ index[i] \in IndexRows
    BY <1>1, <1>3, Shape
  <2>2. /\ row \in IndexRows
        /\ row.rows = index[i].rows /\ row.revision = index[i].revision
        /\ row.status \in {index[i].status, next}
        /\ row.by \in {index[i].by, "hand"}
        /\ next = "built" /\ row.status # index[i].status => row.by = "hand"
    BY <2>1 DEF IndexRows, WrittenStatus, Statuses
  <2>3. index' = [index EXCEPT ![i] = row]
    BY <1>1, <1>3 DEF TypeOK
  <2> HIDE DEF row
  <2>4. There(row)
    BY <2>1, <2>2 DEF There, ALLOWED_CORPUS_INDEX_STATUSES
  <2>5. Sound(chunk_set, row, build[i], vectors[i])
    <3>1. RowComesOnce(row, build[i])
      BY <1>1, <2>1, <2>4, Shape DEF There, Sound, RowComesOnce
    <3>2. BuildKeepsItsMembers(chunk_set, row, build[i], vectors[i])
      BY <1>1, <2>1, <2>2, <2>4, Shape DEF There, Sound, BuildKeepsItsMembers
    <3>3. BuiltRowIsWhole(chunk_set, row, build[i], vectors[i])
      BY <1>1, <2>1, <2>2, <2>4, Shape DEF Sound, BuiltRowIsWhole, OwnBuilds
    <3>4. BuiltIsDeclared(row)
      BY <1>1, <2>2, Shape DEF Sound, BuiltIsDeclared
    <3> QED
      BY <3>1, <3>2, <3>3, <3>4 DEF Sound
  <2>6. Stays(index[i], row)
    BY <2>1, <2>2, <2>4 DEF Stays, There
  <2> QED
    BY <1>1, <2>2, <2>3, <2>5, <2>6, ARowChanges
<1> QED
  BY <1>2, <1>3 DEF Overwrites, i

-----------------------------------------------------------------------------
(* Everything else when no row is deleted.  Who is about to clear the      *)
(* cache may do so before; the others only come closer to it.              *)
ClearingStays ==
    \A i \in Indices : AboutToClear(i) => AboutToClear(i)'

Others == <<bm25, mode, simulation, request, cache>>

LEMMA StaysThere ==
    ASSUME TypeOK, RowsStay, NEW i \in Indices
    PROVE  /\ Exists(i) => Exists(i)'
           /\ index[i].status # "absent" =>
                  /\ index'[i].status # "absent"
                  /\ Exists(i)' <=> Exists(i)
                  /\ index[i].by # "none" => index'[i].by # "none"
BY DEF RowsStay, Stays, There, Exists

LEMMA OthersKeep ==
    ASSUME IInv, RowsStay, ClearingStays, UNCHANGED Others
    PROVE  /\ BindingsNameBuiltIndices' /\ RequestsNameDeclaredRows'
           /\ HybridsAreCompatible' /\ CachedGraphsAreServable'
<1>0. /\ bm25' = bm25 /\ mode' = mode /\ simulation' = simulation
      /\ request' = request /\ cache' = cache
      /\ TypeOK /\ BindingsNameBuiltIndices /\ RequestsNameDeclaredRows
      /\ HybridsAreCompatible /\ CachedGraphsAreServable
  BY DEF Others, IInv
<1>1. BindingsNameBuiltIndices'
  <2> SUFFICES ASSUME simulation.index # 0
               PROVE  Exists(simulation.index)' /\ index'[simulation.index].by # "none"
    BY <1>0 DEF BindingsNameBuiltIndices
  <2>1. simulation.index \in Indices
    BY <1>0 DEF TypeOK
  <2>2. Exists(simulation.index) /\ index[simulation.index].by # "none"
    BY <1>0 DEF BindingsNameBuiltIndices
  <2>3. index[simulation.index].status # "absent"
    BY <2>2 DEF Exists
  <2> QED
    BY <1>0, <2>1, <2>2, <2>3, StaysThere
<1>2. RequestsNameDeclaredRows'
  <2> SUFFICES ASSUME request.pc \notin {"idle", "dense"}
               PROVE  /\ index'[request.index].status # "absent"
                      /\ Exists(request.index)' => index'[request.index].by # "none"
                      /\ request.current =>
                            Exists(request.index)' \/ AboutToClear(request.index)'
    BY <1>0 DEF RequestsNameDeclaredRows, AboutToClear
  <2>1. request.index \in Indices
    BY <1>0 DEF TypeOK
  <2>2. /\ index[request.index].status # "absent"
        /\ Exists(request.index) => index[request.index].by # "none"
        /\ request.current =>
               Exists(request.index) \/ AboutToClear(request.index)
    BY <1>0 DEF RequestsNameDeclaredRows
  <2> QED
    BY <1>0, <2>1, <2>2, StaysThere DEF ClearingStays
<1>3. HybridsAreCompatible'
  BY <1>0 DEF HybridsAreCompatible
<1>4. CachedGraphsAreServable'
  <2> SUFFICES ASSUME NEW graph \in cache
               PROVE  /\ graph.index # 0 =>
                            Exists(graph.index)' \/ AboutToClear(graph.index)'
                      /\ mode = "hybrid" => graph.rows = graph.bm25
    BY <1>0 DEF CachedGraphsAreServable, AboutToClear
  <2>1. graph.index \in Indices
    BY <1>0 DEF TypeOK, NegotiationGraphs
  <2>2. /\ graph.index # 0 => Exists(graph.index) \/ AboutToClear(graph.index)
        /\ mode = "hybrid" => graph.rows = graph.bm25
    BY <1>0 DEF CachedGraphsAreServable, AboutToClear
  <2> QED
    BY <1>0, <2>1, <2>2, StaysThere DEF ClearingStays
<1> QED
  BY <1>1, <1>2, <1>3, <1>4

LEMMA AdminsStay ==
    ASSUME UNCHANGED admin
    PROVE  ClearingStays
BY DEF ClearingStays, AboutToClear, AdminAt

LEMMA BuildStepKeeps ==
    ASSUME IInv, NEW i \in Indices, BuildNext(i)
    PROVE  IInv'
<1>1. TypeOK /\ RowsAreSound
  BY DEF IInv
<1>2. BuildStep(i)
  BY <1>1, Building
<1>3. RowsStay /\ UNCHANGED Others /\ UNCHANGED admin
  BY <1>2 DEF BuildStep, BuildFrame, storeVars, bindingVars, Others
<1>4. ClearingStays
  BY <1>3, AdminsStay
<1>5. TypeOK'
  BY <1>1, <1>2 DEF TypeOK, BuildStep, RowsStay, RowTypes, BuildFrame,
     storeVars, bindingVars
<1> QED
  BY <1>3, <1>4, <1>5, OthersKeep DEF IInv, RowsStay

(* The chunk set and the BM25 index.  A BM25 index comes once: what was    *)
(* compared with it stays compared.                                        *)
LEMMA ChunkSetKeeps ==
    ASSUME IInv, update_corpus_chunk_set_srvc
    PROVE  IInv'
<1>1. TypeOK /\ RowsAreSound
  BY DEF IInv
<1>0. chunk_set \in Nat /\ chunk_set' = chunk_set + 1
  BY <1>1 DEF update_corpus_chunk_set_srvc, TypeOK, Revisions
<1>2. RowsStay
  <2>1. ASSUME NEW i \in Indices
        PROVE  Sound(chunk_set', index[i], build[i], vectors[i])
    <3>1. Sound(chunk_set, index[i], build[i], vectors[i])
      BY <1>1 DEF RowsAreSound
    <3>2. build[i].revision \in Nat /\ index[i].revision \in Nat
      BY <1>1, Shape DEF BuildTasks, IndexRows, Revisions
    <3>3. BuildKeepsItsMembers(chunk_set', index[i], build[i], vectors[i])
      BY <1>0, <3>1, <3>2 DEF Sound, BuildKeepsItsMembers
    <3>4. BuiltRowIsWhole(chunk_set', index[i], build[i], vectors[i])
      BY <1>0, <3>1, <3>2 DEF Sound, BuiltRowIsWhole
    <3> QED
      BY <3>1, <3>3, <3>4 DEF Sound
  <2>2. UNCHANGED <<index, build, vectors>>
    BY DEF update_corpus_chunk_set_srvc
  <2> QED
    BY <1>1, <2>1, <2>2 DEF TypeOK, RowTypes, RowsAreSound, RowsStay, Stays
<1>3. ClearingStays /\ UNCHANGED Others
  BY AdminsStay DEF update_corpus_chunk_set_srvc, bindingVars, Others
<1>4. TypeOK'
  BY <1>1, <1>2, CorpusAssumption DEF TypeOK, update_corpus_chunk_set_srvc,
     bindingVars, RowsStay, RowTypes, Revisions
<1> QED
  BY <1>2, <1>3, <1>4, OthersKeep DEF IInv, RowsStay

LEMMA Bm25Keeps ==
    ASSUME IInv, BuildBm25
    PROVE  IInv'
<1>1. TypeOK /\ RowsAreSound
  BY DEF IInv
<1>2. RowsStay
  BY <1>1, RowsUnchanged DEF BuildBm25
<1>3. TypeOK'
  BY <1>1, CorpusAssumption DEF TypeOK, BuildBm25, bindingVars
<1>4. HybridsAreCompatible'
  BY DEF IInv, HybridsAreCompatible, BuildBm25, bindingVars
<1>5. /\ BindingsNameBuiltIndices' /\ RequestsNameDeclaredRows'
      /\ CachedGraphsAreServable'
  BY DEF IInv, BuildBm25, bindingVars, BindingsNameBuiltIndices,
     RequestsNameDeclaredRows, CachedGraphsAreServable, Exists, AboutToClear,
     AdminAt
<1> QED
  BY <1>2, <1>3, <1>4, <1>5 DEF IInv, RowsStay

-----------------------------------------------------------------------------
(* The steps of an administrator.                                          *)
LEMMA AdminStep ==
    ASSUME IInv, RowsStay, NEW a \in Admins, NEW next \in AdminRequests,
           admin' = [admin EXCEPT ![a] = next],
           admin[a].pc # "clear",
           next.pc \notin {"idle", "done"} => next.index \in Indices,
           AdminFrame, UNCHANGED <<bindingVars, cache>>
    PROVE  IInv'
<1>1. UNCHANGED Others
  BY DEF AdminFrame, storeVars, bindingVars, Others
<1>2. ClearingStays
  BY DEF ClearingStays, AboutToClear, AdminAt, IInv, TypeOK
<1>3. TypeOK'
  BY DEF IInv, TypeOK, AdminFrame, storeVars, bindingVars, RowsStay, RowTypes
<1> QED
  BY <1>1, <1>2, <1>3, OthersKeep DEF IInv, RowsStay

LEMMA AdminAnswered ==
    ASSUME IInv, RowsStay, NEW a \in Admins, AdminEnds(a),
           admin[a].pc # "clear",
           AdminFrame, UNCHANGED <<bindingVars, cache>>
    PROVE  IInv'
<1>1. Answered \in AdminRequests /\ Answered.pc = "done"
  BY DEF Answered, NoAdmin, AdminRequests, Statuses
<1> HIDE DEF Answered
<1> QED
  BY <1>1, AdminStep DEF AdminEnds

LEMMA LoadingKeeps ==
    ASSUME IInv, NEW a \in Admins, NEW i \in Indices,
           NEW operation \in {"status", "build_complete", "copy", "delete"},
           get_corpus_index_or_404(a, i, operation)
    PROVE  IInv'
<1> DEFINE next == [pc |-> operation, index |-> i, copy |-> index[i].status]
<1>1. TypeOK /\ RowsAreSound /\ index[i] \in IndexRows
  BY Shape DEF IInv
<1>2. next \in AdminRequests /\ next.index \in Indices
  BY <1>1 DEF AdminRequests, IndexRows
<1>3. RowsStay
  BY <1>1, RowsUnchanged DEF get_corpus_index_or_404, AdminFrame, storeVars
<1>4. admin' = [admin EXCEPT ![a] = next]
  BY DEF get_corpus_index_or_404
<1> HIDE DEF next
<1> QED
  BY <1>2, <1>3, <1>4, AdminStep DEF get_corpus_index_or_404, AdminAt

LEMMA CreatingByHandKeeps ==
    ASSUME IInv, NEW a \in Admins, NEW i \in Indices,
           create_corpus_index_srvc(a, i)
    PROVE  IInv'
<1>1. PICK status \in {"created", "built"} :
          index' = [index EXCEPT ![i] =
              [status |-> status, revision |-> chunk_set, rows |-> 0,
               by |-> IF status = "built" THEN "hand" ELSE "none"]]
  BY DEF create_corpus_index_srvc
<1> DEFINE row == [status |-> status, revision |-> chunk_set, rows |-> 0,
                   by |-> IF status = "built" THEN "hand" ELSE "none"]
<1>2. TypeOK /\ RowsAreSound
  BY DEF IInv
<1>3. /\ row \in IndexRows /\ row.status # "absent" /\ row.by \notin OwnBuilds
      /\ row.status = "built" => row.by # "none"
  BY <1>2 DEF IndexRows, TypeOK, Statuses, ALLOWED_CORPUS_INDEX_STATUSES,
     OwnBuilds
<1>4. index' = [index EXCEPT ![i] = row]
  BY <1>1
<1> HIDE DEF row
<1>5. RowsStay
  BY <1>2, <1>3, <1>4, ARowIsInserted DEF create_corpus_index_srvc, AdminFrame, storeVars
<1> QED
  BY <1>5, AdminAnswered DEF create_corpus_index_srvc, AdminAt

LEMMA CopyingKeeps ==
    ASSUME IInv, NEW a \in Admins, NEW j \in Indices,
           copy_corpus_index_srvc(a, j)
    PROVE  IInv'
<1> DEFINE i == admin[a].index
           row == copy_corpus_index(i)
<1>1. TypeOK /\ RowsAreSound /\ i \in Indices /\ index[i] \in IndexRows
  BY Shape DEF IInv, TypeOK, copy_corpus_index_srvc, AdminAt
<1>2. RowsStay
  <2>1. CASE UNCHANGED index
    BY <1>1, <2>1, RowsUnchanged DEF copy_corpus_index_srvc, AdminFrame, storeVars
  <2>2. CASE index' = [index EXCEPT ![j] = row]
    <3>1. row \in IndexRows /\ row.status = "created" /\ row.by = "none"
      BY <1>1 DEF copy_corpus_index, IndexRows, Statuses,
         ALLOWED_CORPUS_INDEX_STATUSES
    <3> HIDE DEF row
    <3> QED
      BY <1>1, <2>2, <3>1, ARowIsInserted DEF OwnBuilds, copy_corpus_index_srvc, AdminFrame, storeVars
  <2> QED
    BY <2>1, <2>2 DEF copy_corpus_index_srvc
<1> QED
  BY <1>2, AdminAnswered DEF copy_corpus_index_srvc, AdminAt

LEMMA StatusKeeps ==
    ASSUME IInv, NEW a \in Admins,
           update_corpus_index_status(a) \/ mark_corpus_index_built_srvc(a)
    PROVE  IInv'
<1>1. PICK next \in ALLOWED_CORPUS_INDEX_STATUSES : Overwrites(a, next)
  BY HandAssumption DEF update_corpus_index_status, mark_corpus_index_built_srvc,
     ALLOWED_CORPUS_INDEX_STATUSES
<1>2. /\ AdminAt(a, "status") \/ AdminAt(a, "build_complete")
      /\ AdminEnds(a) /\ AdminFrame /\ UNCHANGED <<bindingVars, cache>>
  BY DEF update_corpus_index_status, mark_corpus_index_built_srvc
<1>3. RowsStay
  BY <1>1, <1>2, OverwritesSoundly DEF IInv, AdminAt, AdminFrame, storeVars
<1> QED
  BY <1>2, <1>3, AdminAnswered DEF AdminAt

LEMMA CheckingKeeps ==
    ASSUME IInv, NEW a \in Admins, ensure_corpus_index_deletable(a)
    PROVE  IInv'
<1> DEFINE i == admin[a].index
           next == [admin[a] EXCEPT
                       !.pc = IF has_indexed_chunks(i) THEN "clear" ELSE "commit"]
<1>1. /\ TypeOK /\ RowsAreSound /\ i \in Indices
      /\ admin[a] \in AdminRequests /\ admin[a].pc = "delete"
  BY DEF IInv, TypeOK, ensure_corpus_index_deletable, AdminAt
<1>2. next \in AdminRequests /\ next.index = i
  BY <1>1 DEF AdminRequests
<1>3. RowsStay
  BY <1>1, RowsUnchanged DEF ensure_corpus_index_deletable, AdminFrame, storeVars
<1>4. admin' = [admin EXCEPT ![a] = next]
  BY <1>1 DEF ensure_corpus_index_deletable, TypeOK
<1> HIDE DEF next
<1> QED
  BY <1>1, <1>2, <1>3, <1>4, AdminStep DEF ensure_corpus_index_deletable

(* A deletion takes the index out of the simulation in the same commit,    *)
(* and from the cache in its next step: until then it is about to clear.   *)
LEMMA DeletingKeeps ==
    ASSUME IInv, NEW a \in Admins, delete_corpus_index(a)
    PROVE  IInv'
<1>0. PICK i \in Indices : i = admin[a].index
  BY DEF IInv, TypeOK, delete_corpus_index, AdminAt
<1> DEFINE row == [NoRow EXCEPT !.status = "deleted"]
           next == [admin[a] EXCEPT !.pc = "clear"]
<1>1. /\ TypeOK /\ RowsAreSound
      /\ admin[a] \in AdminRequests /\ admin[a].pc = "commit"
  BY DEF IInv, TypeOK, delete_corpus_index, AdminAt
<1>2. CASE UNCHANGED <<index, simulation>> /\ AdminEnds(a)
  <2>1. RowsStay
    BY <1>1, <1>2, RowsUnchanged DEF delete_corpus_index, AdminFrame, storeVars
  <2> QED
    BY <1>1, <1>2, <2>1, AdminAnswered DEF delete_corpus_index, bindingVars
<1>3. CASE /\ Exists(i)
           /\ index' = [index EXCEPT ![i] = row]
           /\ simulation' = [simulation EXCEPT !.index = IF @ = i THEN 0 ELSE @]
           /\ admin' = [admin EXCEPT ![a].pc = "clear"]
  <2>1. /\ next \in AdminRequests /\ next.index = i /\ next.pc = "clear"
        /\ admin' = [admin EXCEPT ![a] = next]
    BY <1>0, <1>1, <1>3 DEF AdminRequests, TypeOK
  <2>2. row \in IndexRows /\ row.status = "deleted" /\ row.by = "none"
    BY DEF NoRow, IndexRows, Statuses
  <2> HIDE DEF row, next
  <2>3. Sound(chunk_set, row, build[i], vectors[i])
    <3>1. index[i].status # "absent" /\ Sound(chunk_set, index[i], build[i], vectors[i])
      BY <1>1, <1>3, Shape DEF Exists
    <3> QED
      BY <2>2, <3>1 DEF OwnBuilds, There, Sound, RowComesOnce, BuildKeepsItsMembers,
         BuiltRowIsWhole, BuiltIsDeclared
  <2>4. Becomes(i, row, build[i], vectors[i])
    BY <1>1, <1>3, Shape DEF Becomes, delete_corpus_index, AdminFrame
  <2>5. /\ RowTypes' /\ RowsAreSound'
        /\ index'[i] = row
        /\ \A k \in Indices \ {i} : index'[k] = index[k]
    BY <1>1, <2>2, <2>3, <2>4, Shape, OneRowChanges
       DEF delete_corpus_index, AdminFrame, storeVars
  <2>6. /\ \A k \in Indices : k # i => (Exists(k) <=> Exists(k)')
        /\ index'[i].status # "absent" /\ ~Exists(i)'
        /\ AboutToClear(i)'
        /\ \A k \in Indices : AboutToClear(k) => AboutToClear(k)'
    <3>1. /\ \A k \in Indices : k # i => (Exists(k) <=> Exists(k)')
          /\ index'[i].status # "absent" /\ ~Exists(i)'
      BY <2>2, <2>5 DEF Exists
    <3>2. admin'[a] = next /\ \A b \in Admins \ {a} : admin'[b] = admin[b]
      BY <1>1, <2>1 DEF TypeOK
    <3>3. AboutToClear(i)'
      BY <2>1, <3>2 DEF AboutToClear, AdminAt
    <3>4. \A k \in Indices : AboutToClear(k) => AboutToClear(k)'
      BY <1>1, <3>2 DEF AboutToClear, AdminAt
    <3> QED
      BY <3>1, <3>3, <3>4
  <2>7. UNCHANGED <<request, cache, bm25, mode, chunk_set, stops, faults>>
    BY DEF delete_corpus_index, AdminFrame, storeVars
  <2>8. simulation \in [exists : BOOLEAN, index : Indices \cup {0}, bm25 : BOOLEAN]
    BY <1>1 DEF TypeOK
  <2>9. /\ simulation' \in [exists : BOOLEAN, index : Indices \cup {0}, bm25 : BOOLEAN]
        /\ simulation'.index \in {0, simulation.index} /\ simulation'.index # i
    BY <1>1, <1>3, <2>8, CorpusAssumption DEF Indices
  <2>0. PICK s \in Indices \cup {0} : simulation'.index = s
    BY <2>9
  <2>10. TypeOK'
    BY <1>1, <2>1, <2>5, <2>7, <2>9 DEF TypeOK, RowTypes
  <2>11. BindingsNameBuiltIndices'
    <3> SUFFICES ASSUME s # 0
                 PROVE  Exists(s)' /\ index'[s].by # "none"
      BY <2>0 DEF BindingsNameBuiltIndices, Exists
    <3>1. s \in Indices \ {i} /\ Exists(s) /\ index[s].by # "none"
      BY <2>0, <2>9 DEF IInv, BindingsNameBuiltIndices
    <3> QED
      BY <2>5, <2>6, <3>1
  <2>12. RequestsNameDeclaredRows'
    <3>0. CASE request.pc \in {"idle", "dense"}
      BY <2>7, <3>0 DEF RequestsNameDeclaredRows
    <3>1. ASSUME request.pc \notin {"idle", "dense"},
                 NEW k \in Indices, k = request.index
          PROVE  /\ index'[k].status # "absent"
                 /\ Exists(k)' => index'[k].by # "none"
                 /\ request.current => Exists(k)' \/ AboutToClear(k)'
      <4>1. /\ index[k].status # "absent"
            /\ Exists(k) => index[k].by # "none"
            /\ request.current => Exists(k) \/ AboutToClear(k)
        BY <3>1 DEF IInv, RequestsNameDeclaredRows
      <4>2. CASE k = i
        BY <2>6, <4>2
      <4>3. CASE k # i
        BY <2>5, <2>6, <4>1, <4>3
      <4> QED
        BY <4>2, <4>3
    <3>2. request.pc \notin {"idle", "dense"} => request.index \in Indices
      BY <1>1 DEF TypeOK
    <3> QED
      BY <2>7, <3>0, <3>1, <3>2 DEF RequestsNameDeclaredRows, AboutToClear,
         Exists, AdminAt
  <2>13. HybridsAreCompatible'
    BY <2>7 DEF IInv, HybridsAreCompatible
  <2>14. CachedGraphsAreServable'
    <3> SUFFICES ASSUME NEW graph \in cache
                 PROVE  /\ graph.index # 0 =>
                              Exists(graph.index)' \/ AboutToClear(graph.index)'
                        /\ mode = "hybrid" => graph.rows = graph.bm25
      BY <2>7 DEF CachedGraphsAreServable, AboutToClear
    <3>1. graph.index \in Indices
      BY <1>1 DEF TypeOK, NegotiationGraphs
    <3>2. /\ graph.index # 0 => Exists(graph.index) \/ AboutToClear(graph.index)
          /\ mode = "hybrid" => graph.rows = graph.bm25
      BY DEF IInv, CachedGraphsAreServable, AboutToClear
    <3> QED
      BY <2>6, <3>1, <3>2
  <2> QED
    BY <2>5, <2>10, <2>11, <2>12, <2>13, <2>14 DEF IInv
<1> QED
  BY <1>0, <1>2, <1>3 DEF delete_corpus_index

(* After the clearing nothing that was constructed before is kept, and     *)
(* the other administrators still owe theirs.                              *)
LEMMA ClearingKeeps ==
    ASSUME IInv, NEW a \in Admins,
           clear_negotiation_graph_cache_for_corpus_index(a)
    PROVE  IInv'
<1> DEFINE i == admin[a].index
<1>1. TypeOK /\ RowsAreSound
  BY DEF IInv
<1>2. /\ RowsStay /\ UNCHANGED <<index, simulation, mode, bm25>>
      /\ cache' = {graph \in cache : graph.index # i}
      /\ request' = [request EXCEPT !.current = FALSE]
  BY <1>1, RowsUnchanged DEF clear_negotiation_graph_cache_for_corpus_index,
     _clear_negotiation_graph_cache_matching, AdminFrame, storeVars
<1>3. Answered \in AdminRequests /\ Answered.pc = "done"
  BY DEF Answered, NoAdmin, AdminRequests, Statuses
<1>4. admin' = [admin EXCEPT ![a] = Answered]
  BY DEF clear_negotiation_graph_cache_for_corpus_index, AdminEnds
<1> HIDE DEF Answered
<1>5. request \in SimulationRequests
  BY <1>1 DEF TypeOK
<1>6. /\ request' \in SimulationRequests /\ request'.current = FALSE
      /\ request'.pc = request.pc /\ request'.index = request.index
      /\ request'.rows = request.rows /\ request'.fused = request.fused
  BY <1>2, <1>5 DEF SimulationRequests
<1>7. TypeOK'
  <2>1. cache' \subseteq NegotiationGraphs
    BY <1>1, <1>2 DEF TypeOK
  <2> QED
    BY <1>1, <1>2, <1>3, <1>4, <1>6, <2>1 DEF TypeOK, RowsStay, RowTypes,
       clear_negotiation_graph_cache_for_corpus_index, AdminFrame, storeVars
<1>8. BindingsNameBuiltIndices' /\ HybridsAreCompatible'
  BY <1>2, <1>6 DEF IInv, BindingsNameBuiltIndices, HybridsAreCompatible, Exists
<1>9. RequestsNameDeclaredRows'
  BY <1>2, <1>6 DEF IInv, RequestsNameDeclaredRows, Exists
<1>10. CachedGraphsAreServable'
  <2> SUFFICES ASSUME NEW graph \in cache, graph.index # i
               PROVE  /\ graph.index # 0 =>
                            Exists(graph.index)' \/ AboutToClear(graph.index)'
                      /\ mode = "hybrid" => graph.rows = graph.bm25
    BY <1>2 DEF CachedGraphsAreServable, AboutToClear
  <2>1. /\ graph.index # 0 => Exists(graph.index) \/ AboutToClear(graph.index)
        /\ mode = "hybrid" => graph.rows = graph.bm25
    BY DEF IInv, CachedGraphsAreServable, AboutToClear
  <2>2. AboutToClear(graph.index) => AboutToClear(graph.index)'
    BY <1>1, <1>4 DEF AboutToClear, AdminAt, TypeOK
  <2> QED
    BY <1>2, <2>1, <2>2 DEF Exists
<1> QED
  BY <1>2, <1>7, <1>8, <1>9, <1>10 DEF IInv, RowsStay

LEMMA AdministrationKeeps ==
    ASSUME IInv, NEW a \in Admins, AdminNext(a)
    PROVE  IInv'
BY LoadingKeeps, CreatingByHandKeeps, CopyingKeeps, StatusKeeps,
   CheckingKeeps, DeletingKeeps, ClearingKeeps DEF AdminNext

-----------------------------------------------------------------------------
(* The steps of the simulation's request.                                  *)
Named(r) ==
    r.pc \notin {"idle", "dense"} =>
        /\ index[r.index].status # "absent"
        /\ Exists(r.index) => index[r.index].by # "none"
        /\ r.current => Exists(r.index) \/ AboutToClear(r.index)

Compared(r) ==
    mode = "hybrid" =>
        /\ r.pc \in {"bound", "construct"} => bm25 # 0 /\ r.rows = bm25
        /\ r.pc = "cache" => r.rows = r.fused

LEMMA RequestStep ==
    ASSUME IInv, RequestFrame, NEW next \in SimulationRequests,
           request' = next,
           next.pc # "idle" => next.index \in Indices,
           Named(next), Compared(next),
           NEW s \in [exists : BOOLEAN, index : Indices \cup {0}, bm25 : BOOLEAN],
           simulation' = s,
           s.index # 0 => Exists(s.index) /\ index[s.index].by # "none",
           NEW graphs \in SUBSET NegotiationGraphs,
           cache' = graphs,
           \A graph \in graphs :
               /\ graph.index # 0 => Exists(graph.index) \/ AboutToClear(graph.index)
               /\ mode = "hybrid" => graph.rows = graph.bm25
    PROVE  IInv'
<1>1. TypeOK /\ RowsAreSound
  BY DEF IInv
<1>2. /\ UNCHANGED <<chunk_set, bm25, mode, stops, faults, index, vectors,
                     build, admin>>
  BY DEF RequestFrame, storeVars
<1>3. TypeOK'
  BY <1>1, <1>2 DEF TypeOK
<1>4. RowsAreSound'
  BY <1>1, <1>2 DEF RowsAreSound
<1>5. BindingsNameBuiltIndices'
  BY <1>2 DEF BindingsNameBuiltIndices, Exists
<1>6. RequestsNameDeclaredRows'
  BY <1>2 DEF RequestsNameDeclaredRows, Named, Exists, AboutToClear, AdminAt
<1>7. HybridsAreCompatible'
  BY <1>2 DEF HybridsAreCompatible, Compared
<1>8. CachedGraphsAreServable'
  BY <1>2 DEF CachedGraphsAreServable, AboutToClear, AdminAt, Exists
<1> QED
  BY <1>3, <1>4, <1>5, <1>6, <1>7, <1>8 DEF IInv

(* A step that only moves the request.                                     *)
LEMMA RequestMoves ==
    ASSUME IInv, RequestFrame, UNCHANGED <<simulation, cache>>,
           NEW next \in SimulationRequests, request' = next,
           next.pc # "idle" => next.index \in Indices,
           Named(next), Compared(next)
    PROVE  IInv'
<1>1. simulation \in [exists : BOOLEAN, index : Indices \cup {0}, bm25 : BOOLEAN]
  BY DEF IInv, TypeOK
<1>2. simulation.index # 0 =>
          Exists(simulation.index) /\ index[simulation.index].by # "none"
  BY DEF IInv, BindingsNameBuiltIndices
<1>3. /\ cache \in SUBSET NegotiationGraphs
      /\ \A graph \in cache :
             /\ graph.index # 0 => Exists(graph.index) \/ AboutToClear(graph.index)
             /\ mode = "hybrid" => graph.rows = graph.bm25
  BY DEF IInv, TypeOK, CachedGraphsAreServable, AboutToClear
<1> QED
  BY <1>1, <1>2, <1>3, RequestStep

LEMMA NoRequestIsFine ==
    /\ NoRequest \in SimulationRequests /\ NoRequest.pc = "idle"
    /\ Named(NoRequest) /\ Compared(NoRequest)
BY DEF NoRequest, SimulationRequests, Named, Compared

LEMMA RequestIsRefused ==
    ASSUME IInv, RequestFrame, UNCHANGED <<simulation, cache>>, RequestEnds
    PROVE  IInv'
BY NoRequestIsFine, RequestMoves DEF RequestEnds

(* The request where it stands.                                            *)
LEMMA RequestShape ==
    ASSUME IInv, ~RequestAt("idle")
    PROVE  /\ request \in SimulationRequests /\ request.index \in Indices
           /\ Named(request) /\ Compared(request)
           /\ mode \in {"dense", "hybrid"}
           /\ index[request.index] \in IndexRows
BY DEF IInv, TypeOK, RequestAt, Named, Compared, RequestsNameDeclaredRows,
   HybridsAreCompatible

LEMMA RequestGoesOn ==
    ASSUME IInv, ~RequestAt("idle"), RequestFrame,
           UNCHANGED <<simulation, cache>>,
           NEW label \in {"bm25", "rows", "bound", "construct"},
           RequestGoes(label),
           RequestAt("dense") =>
               Exists(request.index) /\ index[request.index].by # "none",
           mode = "hybrid" /\ label \in {"bound", "construct"} =>
               bm25 # 0 /\ request.rows = bm25
    PROVE  IInv'
<1> DEFINE next == [request EXCEPT !.pc = label]
<1>1. /\ next \in SimulationRequests /\ next.pc = label
      /\ next.index = request.index /\ next.rows = request.rows
      /\ next.fused = request.fused /\ next.current = request.current
  BY RequestShape DEF SimulationRequests
<1>2. request' = next
  BY DEF RequestGoes
<1> HIDE DEF next
<1>3. Named(next)
  BY <1>1, RequestShape DEF Named, Exists, RequestAt
<1>4. Compared(next)
  BY <1>1 DEF Compared
<1> QED
  BY <1>1, <1>2, <1>3, <1>4, RequestShape, RequestMoves

LEMMA ValidatingKeeps ==
    ASSUME IInv, RequestFrame, UNCHANGED <<simulation, cache>>,
           NEW kind \in {"create", "update", "turn"},
           NEW i \in Indices, NEW with_bm25 \in BOOLEAN,
           Validating(kind, i, with_bm25)
    PROVE  IInv'
<1> DEFINE next == [NoRequest EXCEPT
                       !.pc = IF NeedsDense THEN "dense" ELSE "bm25",
                       !.kind = kind, !.index = i, !.bm25 = with_bm25,
                       !.current = TRUE]
<1>1. NeedsDense
  BY DEF IInv, TypeOK, NeedsDense
<1>2. next \in SimulationRequests /\ next.pc = "dense" /\ next.index = i
  BY <1>1 DEF NoRequest, SimulationRequests
<1>3. request' = next
  BY DEF Validating
<1> HIDE DEF next
<1>4. Named(next) /\ Compared(next)
  BY <1>2 DEF Named, Compared
<1> QED
  BY <1>2, <1>3, <1>4, RequestMoves

LEMMA BindingRequestsKeep ==
    ASSUME IInv, NEW kind \in {"create", "update"},
           _validate_retrieval_bindings_for_profile(kind)
    PROVE  IInv'
<1>1. NeedsDense /\ NeedsBm25 \in BOOLEAN
  BY DEF IInv, TypeOK, NeedsDense, NeedsBm25
<1>2. PICK i \in Indices : Validating(kind, i, NeedsBm25)
  BY <1>1 DEF _validate_retrieval_bindings_for_profile
<1> QED
  BY <1>1, <1>2, ValidatingKeeps DEF _validate_retrieval_bindings_for_profile

LEMMA TurnsKeep ==
    ASSUME IInv, _get_retrieval_runtime_for_simulation
    PROVE  IInv'
<1>1. NeedsDense /\ simulation.index \in Indices /\ simulation.bm25 \in BOOLEAN
  BY DEF IInv, TypeOK, NeedsDense, _get_retrieval_runtime_for_simulation
<1> QED
  BY <1>1, ValidatingKeeps DEF _get_retrieval_runtime_for_simulation

LEMMA DenseChecksKeep ==
    ASSUME IInv, _get_valid_built_corpus_index
    PROVE  IInv'
<1>1. CASE RequestEnds
  BY <1>1, RequestIsRefused DEF _get_valid_built_corpus_index
<1>2. CASE /\ Exists(request.index) /\ index[request.index].status = "built"
           /\ RequestGoes(IF mode = "hybrid" THEN "bm25" ELSE "bound")
  <2>1. RequestAt("dense") /\ ~RequestAt("idle")
    BY DEF _get_valid_built_corpus_index, RequestAt
  <2>2. index[request.index].by # "none"
    BY <1>2, <2>1, RequestShape DEF IInv, RowsAreSound, Sound, BuiltIsDeclared
  <2> QED
    BY <1>2, <2>1, <2>2, RequestShape, RequestGoesOn DEF _get_valid_built_corpus_index
<1> QED
  BY <1>1, <1>2 DEF _get_valid_built_corpus_index

LEMMA Bm25ChecksKeep ==
    ASSUME IInv, _get_valid_built_bm25_index
    PROVE  IInv'
<1>1. CASE RequestEnds
  BY <1>1, RequestIsRefused DEF _get_valid_built_bm25_index
<1>2. CASE RequestGoes(IF mode = "hybrid" THEN "rows" ELSE "bound")
  <2>1. ~RequestAt("idle") /\ ~RequestAt("dense")
    BY DEF _get_valid_built_bm25_index, RequestAt
  <2> QED
    BY <1>2, <2>1, RequestShape, RequestGoesOn DEF _get_valid_built_bm25_index
<1> QED
  BY <1>1, <1>2 DEF _get_valid_built_bm25_index

LEMMA ReadingRowsKeeps ==
    ASSUME IInv, get_document_chunk_ids_by_corpus_index_id
    PROVE  IInv'
<1> DEFINE next == [request EXCEPT
               !.pc = "compatible",
               !.rows = IF Exists(request.index) THEN index[request.index].rows
                        ELSE 0]
<1>1. ~RequestAt("idle") /\ request.pc = "rows"
  BY DEF get_document_chunk_ids_by_corpus_index_id, RequestAt
<1>2. /\ next \in SimulationRequests /\ next.pc = "compatible"
      /\ next.index = request.index /\ next.current = request.current
  BY <1>1, RequestShape DEF SimulationRequests, IndexRows
<1>3. request' = next
  BY DEF get_document_chunk_ids_by_corpus_index_id
<1> HIDE DEF next
<1>4. Named(next) /\ Compared(next)
  BY <1>1, <1>2, RequestShape DEF Named, Compared, Exists
<1> QED
  BY <1>1, <1>2, <1>3, <1>4, RequestShape, RequestMoves
     DEF get_document_chunk_ids_by_corpus_index_id

(* The comparison: both sides have the revision of the chunk set, which is *)
(* never 0.                                                                *)
LEMMA ComparisonsKeep ==
    ASSUME IInv, ensure_hybrid_indices_compatible
    PROVE  IInv'
<1>1. CASE RequestEnds
  BY <1>1, RequestIsRefused DEF ensure_hybrid_indices_compatible
<1>2. CASE bm25 = chunk_set /\ request.rows = bm25 /\ RequestGoes("bound")
  <2>1. ~RequestAt("idle") /\ ~RequestAt("dense")
    BY DEF ensure_hybrid_indices_compatible, RequestAt
  <2>2. bm25 # 0
    BY <1>2, CorpusAssumption DEF IInv, TypeOK, Revisions
  <2> QED
    BY <1>2, <2>1, <2>2, RequestGoesOn DEF ensure_hybrid_indices_compatible
<1> QED
  BY <1>1, <1>2 DEF ensure_hybrid_indices_compatible

LEMMA BindingKeeps ==
    ASSUME IInv, BindsIndices
    PROVE  IInv'
<1>1. ~RequestAt("idle") /\ request.pc = "bound"
  BY DEF BindsIndices, RequestAt
<1>2. CASE UNCHANGED simulation
  BY <1>2, RequestIsRefused DEF BindsIndices
<1>3. CASE /\ request.index = 0 \/ Exists(request.index)
           /\ simulation' = [exists |-> TRUE, index |-> request.index,
                             bm25 |-> request.bm25]
  <2> DEFINE s == [exists |-> TRUE, index |-> request.index, bm25 |-> request.bm25]
  <2>1. /\ s \in [exists : BOOLEAN, index : Indices \cup {0}, bm25 : BOOLEAN]
        /\ s.index = request.index
    BY <1>1, RequestShape DEF SimulationRequests
  <2>2. simulation' = s
    BY <1>3
  <2> HIDE DEF s
  <2>3. request.index # 0 =>
            Exists(request.index) /\ index[request.index].by # "none"
    BY <1>1, <1>3, RequestShape DEF Named
  <2>4. /\ cache \in SUBSET NegotiationGraphs
        /\ \A graph \in cache :
               /\ graph.index # 0 => Exists(graph.index) \/ AboutToClear(graph.index)
               /\ mode = "hybrid" => graph.rows = graph.bm25
    BY DEF IInv, TypeOK, CachedGraphsAreServable, AboutToClear
  <2>5. request' = NoRequest /\ RequestFrame /\ cache' = cache
    BY DEF BindsIndices, RequestEnds
  <2> QED
    BY <2>1, <2>2, <2>3, <2>4, <2>5, NoRequestIsFine, RequestStep
<1> QED
  BY <1>2, <1>3 DEF BindsIndices

LEMMA CacheHitsKeep ==
    ASSUME IInv, _graph_cache_key
    PROVE  IInv'
<1>1. CASE RequestEnds
  BY <1>1, RequestIsRefused DEF _graph_cache_key
<1>2. CASE RequestGoes("construct")
  <2>1. ~RequestAt("idle") /\ ~RequestAt("dense") /\ request.pc = "bound"
    BY DEF _graph_cache_key, RequestAt
  <2>2. mode = "hybrid" => bm25 # 0 /\ request.rows = bm25
    BY <2>1, RequestShape DEF Compared
  <2> QED
    BY <1>2, <2>1, <2>2, RequestGoesOn DEF _graph_cache_key
<1> QED
  BY <1>1, <1>2 DEF _graph_cache_key

LEMMA ConstructingKeeps ==
    ASSUME IInv, _build_retrieval_graph
    PROVE  IInv'
<1> DEFINE next == [request EXCEPT !.pc = "cache",
                                   !.fused = IF NeedsBm25 THEN bm25 ELSE 0]
<1>1. ~RequestAt("idle") /\ request.pc = "construct"
  BY DEF _build_retrieval_graph, RequestAt
<1>2. /\ next \in SimulationRequests /\ next.pc = "cache"
      /\ next.index = request.index /\ next.current = request.current
      /\ next.rows = request.rows
      /\ mode = "hybrid" => next.fused = bm25
  BY <1>1, RequestShape DEF SimulationRequests, NeedsBm25, IInv, TypeOK
<1>3. request' = next
  BY DEF _build_retrieval_graph
<1> HIDE DEF next
<1>4. Named(next) /\ Compared(next)
  BY <1>1, <1>2, RequestShape DEF Named, Compared, Exists
<1> QED
  BY <1>1, <1>2, <1>3, <1>4, RequestShape, RequestMoves DEF _build_retrieval_graph

(* What is kept was constructed under the current epoch: its index is      *)
(* there, or the deletion has not cleared the cache yet.                   *)
LEMMA CachingKeeps ==
    ASSUME IInv, _cache_negotiation_graph_if_current
    PROVE  IInv'
<1>1. ~RequestAt("idle") /\ request.pc = "cache"
  BY DEF _cache_negotiation_graph_if_current, RequestAt
<1>2. CASE UNCHANGED cache
  BY <1>2, RequestIsRefused DEF _cache_negotiation_graph_if_current
<1>3. CASE /\ request.current
           /\ cache' = cache \cup {[index |-> request.index,
                                    rows |-> request.rows,
                                    bm25 |-> request.fused]}
  <2> DEFINE kept == [index |-> request.index, rows |-> request.rows,
                      bm25 |-> request.fused]
  <2>1. /\ kept \in NegotiationGraphs /\ kept.index = request.index
        /\ kept.rows = request.rows /\ kept.bm25 = request.fused
    BY <1>1, RequestShape DEF SimulationRequests, NegotiationGraphs
  <2>2. cache' = cache \cup {kept}
    BY <1>3
  <2> HIDE DEF kept
  <2>3. /\ cache \in SUBSET NegotiationGraphs
        /\ \A graph \in cache :
               /\ graph.index # 0 => Exists(graph.index) \/ AboutToClear(graph.index)
               /\ mode = "hybrid" => graph.rows = graph.bm25
    BY DEF IInv, TypeOK, CachedGraphsAreServable, AboutToClear
  <2>4. Exists(request.index) \/ AboutToClear(request.index)
    BY <1>1, <1>3, RequestShape DEF Named
  <2>5. mode = "hybrid" => request.rows = request.fused
    BY <1>1, RequestShape DEF Compared
  <2>6. /\ cache \cup {kept} \in SUBSET NegotiationGraphs
        /\ \A graph \in cache \cup {kept} :
               /\ graph.index # 0 => Exists(graph.index) \/ AboutToClear(graph.index)
               /\ mode = "hybrid" => graph.rows = graph.bm25
    <3>1. /\ kept.index # 0 => Exists(kept.index) \/ AboutToClear(kept.index)
          /\ mode = "hybrid" => kept.rows = kept.bm25
      BY <2>1, <2>4, <2>5
    <3> QED
      BY <2>1, <2>3, <3>1
  <2>7. /\ simulation \in [exists : BOOLEAN, index : Indices \cup {0}, bm25 : BOOLEAN]
        /\ simulation.index # 0 =>
               Exists(simulation.index) /\ index[simulation.index].by # "none"
    BY DEF IInv, TypeOK, BindingsNameBuiltIndices
  <2>8. request' = NoRequest /\ RequestFrame /\ simulation' = simulation
    BY DEF _cache_negotiation_graph_if_current, RequestEnds
  <2> QED
    BY <2>2, <2>6, <2>7, <2>8, NoRequestIsFine, RequestStep
<1> QED
  BY <1>2, <1>3 DEF _cache_negotiation_graph_if_current

LEMMA SimulationKeeps ==
    ASSUME IInv, SimulationNext
    PROVE  IInv'
BY BindingRequestsKeep, TurnsKeep, DenseChecksKeep, Bm25ChecksKeep,
   ReadingRowsKeeps, ComparisonsKeep, BindingKeeps, CacheHitsKeep,
   ConstructingKeeps, CachingKeeps DEF SimulationNext

-----------------------------------------------------------------------------
(* A restart takes the requests, the tasks and the cache with it.          *)
LEMMA StopKeeps ==
    ASSUME IInv, Stop
    PROVE  IInv'
<1>1. TypeOK /\ RowsAreSound
  BY DEF IInv
<1>2. /\ UNCHANGED <<chunk_set, index, vectors, bm25, mode, simulation, faults>>
      /\ build' = [i \in Indices |-> NoBuild]
      /\ request' = NoRequest /\ cache' = {}
  BY DEF Stop
<1>3. admin' \in [Admins -> AdminRequests]
      /\ \A a \in Admins : admin'[a].pc \in {"idle", "done"}
  <2>1. /\ NoAdmin \in AdminRequests /\ NoAdmin.pc = "idle"
        /\ Answered \in AdminRequests /\ Answered.pc = "done"
    BY DEF Answered, NoAdmin, AdminRequests, Statuses
  <2> QED
    BY <2>1 DEF Stop
<1>4. stops' \in 0 .. MaxStops
  BY <1>1, CorpusAssumption DEF Stop, TypeOK
<1>5. TypeOK'
  BY <1>1, <1>2, <1>3, <1>4, SomeRows, NoRequestIsFine DEF TypeOK
<1>6. RowsAreSound'
  <2> SUFFICES ASSUME NEW i \in Indices
               PROVE  Sound(chunk_set, index[i], NoBuild, vectors[i])
    BY <1>2 DEF RowsAreSound
  <2> QED
    BY <1>1, SomeRows DEF RowsAreSound, Sound, RowComesOnce,
       BuildKeepsItsMembers, BuiltRowIsWhole
<1>7. BindingsNameBuiltIndices'
  BY <1>2 DEF IInv, BindingsNameBuiltIndices, Exists
<1>8. RequestsNameDeclaredRows' /\ HybridsAreCompatible'
  BY <1>2, NoRequestIsFine DEF RequestsNameDeclaredRows, HybridsAreCompatible
<1>9. CachedGraphsAreServable'
  BY <1>2 DEF CachedGraphsAreServable
<1> QED
  BY <1>5, <1>6, <1>7, <1>8, <1>9 DEF IInv

LEMMA InitHolds ==
    ASSUME Init
    PROVE  IInv
<1>1. TypeOK
  BY CorpusAssumption, SomeRows, NoRequestIsFine
     DEF Init, TypeOK, Revisions, NoAdmin, AdminRequests, Statuses
<1>2. RowsAreSound
  BY SomeRows DEF OwnBuilds, Init, RowsAreSound, Sound, RowComesOnce,
     BuildKeepsItsMembers, BuiltRowIsWhole, BuiltIsDeclared
<1>3. BindingsNameBuiltIndices /\ CachedGraphsAreServable
  BY DEF Init, BindingsNameBuiltIndices, CachedGraphsAreServable
<1>4. RequestsNameDeclaredRows /\ HybridsAreCompatible
  BY NoRequestIsFine DEF Init, RequestsNameDeclaredRows, HybridsAreCompatible
<1> QED
  BY <1>1, <1>2, <1>3, <1>4 DEF IInv

LEMMA StutterKeeps ==
    ASSUME IInv, UNCHANGED vars
    PROVE  IInv'
BY DEF IInv, TypeOK, RowsAreSound, BindingsNameBuiltIndices,
   RequestsNameDeclaredRows, HybridsAreCompatible, CachedGraphsAreServable,
   AboutToClear, AdminAt, Exists, vars

LEMMA Invariance == Spec => []IInv
<1>1. Init => IInv
  BY InitHolds
<1>2. IInv /\ [Next]_vars => IInv'
  <2> SUFFICES ASSUME IInv, [Next]_vars
               PROVE  IInv'
    OBVIOUS
  <2>1. CASE UNCHANGED vars
    BY <2>1, StutterKeeps
  <2>2. ASSUME NEW i \in Indices, BuildNext(i)
        PROVE  IInv'
    BY <2>2, BuildStepKeeps
  <2>3. ASSUME NEW a \in Admins, AdminNext(a)
        PROVE  IInv'
    BY <2>3, AdministrationKeeps
  <2> QED
    BY <2>1, <2>2, <2>3, ChunkSetKeeps, Bm25Keeps, SimulationKeeps, StopKeeps
       DEF Next
<1> QED
  BY <1>1, <1>2, PTL DEF Spec

-----------------------------------------------------------------------------
(* Rows, builds, requests and cached graphs keep their types, and a        *)
(* request that is under way has an index.                                 *)
THEOREM CorpusTypesHold == Spec => []TypeOK
<1>1. IInv => TypeOK
  BY DEF IInv
<1> QED
  BY <1>1, Invariance, PTL

(* An index that its own build completed holds one row and one vector of   *)
(* the same chunks, the ones of the revision it is recorded for, unless    *)
(* the chunk set was replaced between the two reads of the build's         *)
(* snapshot; then it is recorded for a revision that is not the chunk      *)
(* set's any more (_build_existing_corpus_index).                          *)
THEOREM CompletedBuildsStayWhole == Spec => []OwnBuildsAreWhole
<1>1. IInv => OwnBuildsAreWhole
  BY DEF IInv, RowsAreSound, Sound, BuiltRowIsWhole, OwnBuildsAreWhole,
     TypeOK
<1> QED
  BY <1>1, Invariance, PTL

(* The binding of a simulation names an index that exists and was declared *)
(* built: the check is steps before the insertion, and the deletion takes  *)
(* the binding out itself (_validate_retrieval_bindings_for_profile).      *)
THEOREM BindingsStayServed == Spec => []BindingsNameBuiltIndices
<1>1. IInv => BindingsNameBuiltIndices
  BY DEF IInv
<1> QED
  BY <1>1, Invariance, PTL

(* No graph in the cache reads a deleted index once the deletion has       *)
(* cleared the cache, whichever turns were constructing one, and a hybrid  *)
(* one fuses two indices of the same chunks                                *)
(* (_cache_negotiation_graph_if_current).                                  *)
THEOREM CachedGraphsStayServable == Spec => []CachedGraphsAreServable
<1>1. IInv => CachedGraphsAreServable
  BY DEF IInv
<1> QED
  BY <1>1, Invariance, PTL

=============================================================================
